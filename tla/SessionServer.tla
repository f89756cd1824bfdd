---------------------------- MODULE SessionServer ----------------------------
(***************************************************************************)
(* The event loop of the detached runtime (run in                          *)
(* src/internal/sessionserver/server.go): accepted peers, the one active   *)
(* client, the clipboard text that waits for a frame, the dirty flag, and  *)
(* the explicit stop.  The loop is one goroutine, so each case of its      *)
(* select is one action.  The application model is seen only through what  *)
(* the loop asks of it: how often the screen changed, whether transient UI *)
(* is open and by whose input, the clipboard and detach requests, and that *)
(* a call of it may never return.                                          *)
(***************************************************************************)
EXTENDS SessionWire

CONSTANTS
  MaxOutput,   \* bound: bursts of terminal, agent or usage events
  MayHold      \* whether a terminal may hold a turn of the loop for good

ASSUME OutputAssumption == MaxOutput \in Nat

ASSUME HoldAssumption == MayHold \in BOOLEAN

VARIABLES
  active,       \* the attached client or NoClient
  pendingClip,  \* text that the next frame carries, 0 for none
  dirty,        \* the model changed since the last frame
  rev,          \* visible changes of the model so far
  uiBy,         \* client that opened transient UI, NoClient when it is reset
  author,       \* author[t]: the client whose input took clipboard text t
  output,       \* history: bursts of events applied so far
  stuck         \* a turn of the loop waits for a terminal, for good

loopVars == <<active, pendingClip, dirty, rev, uiBy, author, output, stuck>>

ServerInit ==
  /\ active = NoClient
  /\ pendingClip = 0
  /\ dirty = FALSE
  /\ rev = 0
  /\ uiBy = NoClient
  /\ author = <<>>
  /\ output = 0
  /\ stuck = FALSE

peers == {c \in Clients : conn[c] = "peer"}

Dropped(cs) == [c \in Clients |-> IF c \in cs THEN "dropped" ELSE conn[c]]

(* frameFromView(model.View()), with the one-shot clipboard text.          *)
View(kind, who, clip) == [kind |-> kind, screen |-> [rev |-> rev, ui |-> who], clip |-> clip]

Notice(kind) == [kind |-> kind, screen |-> NoScreen, clip |-> 0]

(* Plausible slips in closePeer: the clipboard text, or the transient UI,  *)
(* outlives the client; and in the error case of the loop, which forgets   *)
(* to look whether the peer was the active client.                         *)
closePeerKeepsClip(c) ==
  /\ conn' = Dropped({c})
  /\ IF active = c THEN active' = NoClient /\ uiBy' = NoClient ELSE UNCHANGED <<active, uiBy>>
  /\ UNCHANGED <<pendingClip, stuck>>

closePeerKeepsUi(c) ==
  /\ conn' = Dropped({c})
  /\ IF active = c THEN active' = NoClient /\ pendingClip' = 0 ELSE UNCHANGED <<active, pendingClip>>
  /\ UNCHANGED <<uiBy, stuck>>

closePeerOnly(c) == conn' = Dropped({c}) /\ UNCHANGED <<active, pendingClip, uiBy, stuck>>

(* model.ClientDetached resets the transient UI, unless a terminal keeps   *)
(* it waiting: its first step clears a selection under Session.mu.         *)
ClientDetached ==
  \/ uiBy' = NoClient /\ UNCHANGED stuck
  \/ MayHold /\ stuck' = TRUE /\ UNCHANGED uiBy

(* closePeer: a closed active client takes the pending clipboard text and  *)
(* the transient UI with it.                                               *)
closePeer(c) ==
  /\ conn' = Dropped({c})
  /\ IF active = c
       THEN active' = NoClient /\ pendingClip' = 0 /\ ClientDetached
       ELSE UNCHANGED <<active, pendingClip, uiBy, stuck>>

(* Plausible slips in sendView: the text stays pending although a frame    *)
(* carried it; a failed write forgets the client and leaves it connected.  *)
sendViewAgain(c) ==
  /\ down' = WriteFrame(down, c, View("view", uiBy, pendingClip))
  /\ IF Writable(c) THEN UNCHANGED <<pendingClip, conn, active, uiBy, stuck>> ELSE closePeer(c)

sendViewUnclosed(c) ==
  /\ down' = WriteFrame(down, c, View("view", uiBy, pendingClip))
  /\ pendingClip' = 0
  /\ IF Writable(c) THEN UNCHANGED <<active, uiBy>> ELSE active' = NoClient /\ uiBy' = NoClient
  /\ UNCHANGED <<conn, stuck>>

(* sendView(active, false): a failed write closes the peer.                *)
sendView(c) ==
  /\ down' = WriteFrame(down, c, View("view", uiBy, pendingClip))
  /\ IF Writable(c)
       THEN pendingClip' = 0 /\ UNCHANGED <<conn, active, uiBy, stuck>>
       ELSE closePeer(c)

-----------------------------------------------------------------------------
(* The loop is back at its select.                                         *)
Idle == runtime = "serving" /\ ~stuck

Accept(c) ==
  /\ Idle
  /\ conn[c] = "backlog"
  /\ conn' = [conn EXCEPT ![c] = "peer"]
  /\ UNCHANGED <<runtime, up, down, hung, loopVars>>

(* The next request of peer c, taken from the channel.  Requests of a peer *)
(* that was dropped meanwhile are skipped by the loop: they change nothing.*)
Receive(c, kinds) ==
  /\ Idle
  /\ conn[c] = "peer"
  /\ up[c] # <<>>
  /\ Head(up[c]) \in kinds
  /\ up' = [up EXCEPT ![c] = Tail(@)]
  /\ UNCHANGED hung

(* readPeerRequests ends with an error once the front end hung up and all  *)
(* it had sent was read.                                                   *)
PeerGone(c) ==
  /\ Idle
  /\ conn[c] = "peer"
  /\ up[c] = <<>>
  /\ hung[c]
  /\ closePeer(c)
  /\ UNCHANGED <<runtime, up, down, hung, dirty, rev, author, output>>

(* A request of another protocol version: an error frame, then the close.  *)
RejectVersion(c) ==
  /\ Receive(c, {"outdated"})
  /\ down' = WriteFrame(down, c, Notice("error"))
  /\ closePeer(c)
  /\ UNCHANGED <<runtime, dirty, rev, author, output>>

(* A plausible slip: the newcomer becomes active, nobody is displaced.     *)
displacesNobody(c) == FALSE

displaces(c) == active # NoClient /\ active # c

(* A plausible slip: a client that comes while another is attached waits.  *)
AttachWhenFree(c) ==
  /\ Receive(c, {"attach"})
  /\ IF active = NoClient
       THEN active' = c /\ down' = WriteFrame(down, c, View("view", uiBy, 0))
       ELSE UNCHANGED <<active, down>>
  /\ dirty' = FALSE
  /\ UNCHANGED <<runtime, conn, uiBy, pendingClip, rev, author, output, stuck>>

(* Attach: the client attached so far gets a last frame marked Detach,     *)
(* with the clipboard text if one waits, and is closed; the newcomer is    *)
(* sent the screen of the model after ClientDetached.                      *)
Attach(c) ==
  LET left == IF displaces(c) THEN {active} ELSE {}
      ui == IF displaces(c) THEN NoClient ELSE uiBy
      clip == IF displaces(c) THEN 0 ELSE pendingClip
      farewell == IF displaces(c) THEN WriteFrame(down, active, View("detach", uiBy, pendingClip))
                                  ELSE down
  IN  /\ Receive(c, {"attach"})
      /\ down' = WriteFrame(farewell, c, View("view", ui, clip))
      /\ conn' = Dropped(IF Writable(c) THEN left ELSE left \cup {c})
      /\ active' = IF Writable(c) THEN c ELSE NoClient
      /\ uiBy' = IF Writable(c) THEN ui ELSE NoClient
      /\ pendingClip' = 0
      /\ dirty' = FALSE
      /\ UNCHANGED <<runtime, rev, author, output, stuck>>

(* The same turn held on the way: in ClientDetached, when the displaced    *)
(* client has its last frame and is closed; in the View for the newcomer,  *)
(* which is active by then; or in ClientDetached when that write failed.   *)
AttachHeld(c) ==
  LET left == IF displaces(c) THEN {active} ELSE {}
      ui == IF displaces(c) THEN NoClient ELSE uiBy
      clip == IF displaces(c) THEN 0 ELSE pendingClip
      farewell == IF displaces(c) THEN WriteFrame(down, active, View("detach", uiBy, pendingClip))
                                  ELSE down
  IN  /\ MayHold
      /\ Receive(c, {"attach"})
      /\ stuck' = TRUE
      /\ down' = farewell
      /\ \/ /\ displaces(c)
            /\ conn' = Dropped(left) /\ active' = NoClient /\ pendingClip' = 0
            /\ UNCHANGED <<uiBy, dirty>>
         \/ /\ conn' = Dropped(left) /\ active' = c
            /\ uiBy' = ui /\ pendingClip' = clip /\ dirty' = FALSE
         \/ /\ ~Writable(c)
            /\ conn' = Dropped(left \cup {c}) /\ active' = NoClient
            /\ uiBy' = ui /\ pendingClip' = 0 /\ dirty' = FALSE
      /\ UNCHANGED <<runtime, rev, author, output>>

(* Input is taken from the active client only (the loop skips the input of *)
(* any other peer, which a front end that attaches first never is: see     *)
(* NoInputIgnored in SessionSystem).  A request that message() rejects is  *)
(* answered with an error frame and ends the connection.                   *)
RejectInput(c) ==
  /\ Receive(c, {"unsupported"})
  /\ active = c
  /\ down' = WriteFrame(down, c, Notice("error"))
  /\ closePeer(c)
  /\ UNCHANGED <<runtime, dirty, rev, author, output>>

(* model.Update and TakeClipboardRequest: a newer copy replaces the text   *)
(* that no frame has carried yet.                                          *)
ApplyInput(c) ==
  /\ Receive(c, {"menu", "copy"})
  /\ active = c
  /\ rev' = rev + 1
  /\ dirty' = TRUE
  /\ \/ /\ Head(up[c]) = "menu"
        /\ uiBy' = IF uiBy = NoClient THEN c ELSE NoClient
        /\ UNCHANGED <<author, pendingClip>>
     \/ /\ Head(up[c]) = "copy"
        /\ author' = Append(author, c)
        /\ pendingClip' = Len(author) + 1
        /\ UNCHANGED uiBy
  /\ UNCHANGED <<runtime, conn, active, output, down, stuck>>

(* TakeDetachRequest: the last frame is marked Detach, then the close.     *)
ApplyQuit(c) ==
  /\ Receive(c, {"quit"})
  /\ active = c
  /\ down' = WriteFrame(down, c, View("detach", uiBy, pendingClip))
  /\ closePeer(c)
  /\ UNCHANGED <<runtime, dirty, rev, author, output>>

(* requestStop: model.Close() has persisted and killed everything before   *)
(* Stopped is written; the listener still accepts connections.             *)
Stop(c) ==
  /\ Receive(c, {"stop"})
  /\ runtime' = "closing"
  /\ down' = WriteFrame(down, c, Notice("stopped"))
  /\ IF Writable(c) THEN UNCHANGED <<conn, active, pendingClip, uiBy, stuck>> ELSE closePeer(c)
  /\ UNCHANGED <<dirty, rev, author, output>>

(* The rest of the stop: listener.Close, every connection closed, return.  *)
(* Connections the kernel accepted for the loop go down with the process.  *)
Shutdown ==
  /\ runtime = "closing" /\ ~stuck
  /\ runtime' = "stopped"
  /\ conn' = Dropped({c \in Clients : conn[c] # "none"})
  /\ UNCHANGED <<up, down, hung, loopVars>>

(* ApplyTerminalEvents, RefreshAgents, SyncTerminalMetadata and the usage  *)
(* events: the screen changes without any client's input.                  *)
ModelEvent ==
  /\ Idle
  /\ output < MaxOutput
  /\ output' = output + 1
  /\ rev' = rev + 1
  /\ dirty' = TRUE
  /\ UNCHANGED <<active, pendingClip, uiBy, author, stuck, wireVars>>

(* The 60 Hz tick sends a frame when the model changed, or when the last   *)
(* frame is older than the frame interval.                                 *)
Tick ==
  /\ Idle
  /\ active # NoClient
  /\ dirty' = FALSE
  /\ sendView(active)
  /\ UNCHANGED <<runtime, rev, author, output, up, hung>>

(* A call of the model that never returns: Update, View, RefreshAgents and *)
(* Close lock every session they ask, and Session.mu is held for good by a *)
(* goroutine that writes to a terminal nobody reads (StopEnds in           *)
(* TerminalSession).  The request of such a turn stays in front here: the  *)
(* loop asks for no other.                                                 *)
Hold ==
  /\ MayHold
  /\ Idle
  /\ stuck' = TRUE
  /\ UNCHANGED <<active, pendingClip, dirty, rev, uiBy, author, output, wireVars>>

ServerStep(c) ==
  \/ Accept(c) \/ PeerGone(c) \/ RejectVersion(c) \/ Attach(c) \/ AttachHeld(c)
  \/ RejectInput(c) \/ ApplyInput(c) \/ ApplyQuit(c) \/ Stop(c)

LoopStep == Shutdown \/ ModelEvent \/ Tick \/ Hold

=============================================================================
