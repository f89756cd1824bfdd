---------------------------- MODULE SessionClient ----------------------------
(***************************************************************************)
(* The front end (src/internal/sessionserver/client.go): a reader          *)
(* goroutine that decodes frames into a mailbox of capacity one, the       *)
(* waitForFrame command that hands the mail to the Bubble Tea loop, and    *)
(* the loop itself; and the one-shot `split server stop` process (Stop in  *)
(* lifecycle.go).                                                          *)
(***************************************************************************)
EXTENDS SessionWire

VARIABLES
  ui,           \* ui[c]: new, running, waiting (`split server stop`) or gone
  reading,      \* reading[c]: result the reader decoded and must queue
  mail,         \* mail[c]: the mailbox, c.frames
  held,         \* held[c]: result taken by waitForFrame, not given to Update yet
  readerDone,   \* readerDone[c]: readFrames has returned
  shown,        \* shown[c]: c.current, the screen View draws
  copies,       \* copies[c]: texts put on the system clipboard, in order
  sent          \* input requests sent so far, by all front ends

clientVars == <<ui, reading, mail, held, readerDone, shown, copies, sent>>
readerVars == <<reading, mail, held, readerDone>>

(* What the mailbox holds: a frame, or the end of the stream.              *)
Empty == [kind |-> "empty", screen |-> NoScreen, clip |-> 0]
EndOfStream == [kind |-> "eof", screen |-> NoScreen, clip |-> 0]
Results == Frame \cup {EndOfStream}

ClientInit ==
  /\ ui = [c \in Clients |-> "new"]
  /\ reading = [c \in Clients |-> Empty]
  /\ mail = [c \in Clients |-> Empty]
  /\ held = [c \in Clients |-> Empty]
  /\ readerDone = [c \in Clients |-> FALSE]
  /\ shown = [c \in Clients |-> NoScreen]
  /\ copies = [c \in Clients |-> <<>>]
  /\ sent = 0

(* ConnectOrStart (role "running") and Stop ("waiting") on a runtime that  *)
(* listens: the connection waits to be accepted, its first request in it.  *)
Dial(c, role, first) ==
  /\ runtime # "stopped"
  /\ ui[c] = "new"
  /\ ui' = [ui EXCEPT ![c] = role]
  /\ conn' = [conn EXCEPT ![c] = "backlog"]
  /\ up' = [up EXCEPT ![c] = <<first>>]
  /\ UNCHANGED <<runtime, down, hung, readerVars, shown, copies, sent>>

(* The program ends, by tea.Quit and the deferred Client.Close or because  *)
(* it dies: its side of the connection closes, what it had not processed   *)
(* goes with it.                                                           *)
EndProgram(c) ==
  /\ ui' = [ui EXCEPT ![c] = "gone"]
  /\ hung' = [hung EXCEPT ![c] = TRUE]
  /\ down' = [down EXCEPT ![c] = <<>>]
  /\ reading' = [reading EXCEPT ![c] = Empty]
  /\ mail' = [mail EXCEPT ![c] = Empty]
  /\ held' = [held EXCEPT ![c] = Empty]
  /\ shown' = [shown EXCEPT ![c] = NoScreen]
  /\ UNCHANGED <<runtime, conn, up, readerDone, copies, sent>>

(* requestForMessage and send, on a connection that is still open.         *)
SendInput(c, kind) ==
  /\ ui[c] = "running"
  /\ sent < MaxInputs
  /\ conn[c] # "dropped"
  /\ sent' = sent + 1
  /\ up' = [up EXCEPT ![c] = Append(@, kind)]
  /\ UNCHANGED <<runtime, conn, down, hung, ui, readerVars, shown, copies>>

(* The same on a connection the runtime has closed: the write error ends   *)
(* the program.                                                            *)
SendFails(c) ==
  /\ ui[c] = "running"
  /\ sent < MaxInputs
  /\ conn[c] = "dropped"
  /\ EndProgram(c)

-----------------------------------------------------------------------------
(* A plausible slip: the reader takes the end of the stream for a pause.   *)
readFramesOnly(c) ==
  /\ ui[c] = "running"
  /\ ~readerDone[c]
  /\ reading[c] = Empty
  /\ down[c] # <<>>
  /\ reading' = [reading EXCEPT ![c] = Head(down[c])]
  /\ down' = [down EXCEPT ![c] = Tail(@)]
  /\ UNCHANGED <<runtime, conn, up, hung, ui, mail, held, readerDone, shown, copies, sent>>

(* readFrames: Decode blocks until a frame or the end of the stream.       *)
readFrames(c) ==
  /\ ui[c] = "running"
  /\ ~readerDone[c]
  /\ reading[c] = Empty
  /\ \/ /\ down[c] # <<>>
        /\ reading' = [reading EXCEPT ![c] = Head(down[c])]
        /\ down' = [down EXCEPT ![c] = Tail(@)]
     \/ /\ down[c] = <<>>
        /\ conn[c] = "dropped"
        /\ reading' = [reading EXCEPT ![c] = EndOfStream]
        /\ UNCHANGED down
  /\ UNCHANGED <<runtime, conn, up, hung, ui, mail, held, readerDone, shown, copies, sent>>

(* A plausible slip: only the end of the stream ends the reader.           *)
endsReaderAtEofOnly(result) == result.kind = "eof"

(* The reader returns after the end of the stream, a Detach or an Error.   *)
endsReader(result) == result.kind \in {"eof", "detach", "error"}

(* queueFrame, the send that finds the mailbox empty.                      *)
queueFrame(c) ==
  /\ reading[c] # Empty
  /\ mail[c] = Empty
  /\ mail' = [mail EXCEPT ![c] = reading[c]]
  /\ reading' = [reading EXCEPT ![c] = Empty]
  /\ readerDone' = [readerDone EXCEPT ![c] = endsReader(reading[c])]
  /\ UNCHANGED <<wireVars, ui, held, shown, copies, sent>>

(* A plausible slip: the text is merged into an end of the stream too.     *)
mergeIntoAnything(stale, next) ==
  IF stale.clip # 0 /\ next.clip = 0 THEN [next EXCEPT !.clip = stale.clip] ELSE next

(* A newer frame keeps the clipboard text of the frame it replaces unless  *)
(* it brings one of its own.                                               *)
mergeFrameSideEffects(stale, next) ==
  IF stale.clip # 0 /\ stale.kind # "eof" /\ next.kind # "eof" /\ next.clip = 0
    THEN [next EXCEPT !.clip = stale.clip] ELSE next

(* queueFrame, the receive that takes the stale result out of a full       *)
(* mailbox; the reader then tries to send again.                           *)
replaceStale(c) ==
  /\ reading[c] # Empty
  /\ mail[c] # Empty
  /\ reading' = [reading EXCEPT ![c] = mergeFrameSideEffects(mail[c], reading[c])]
  /\ mail' = [mail EXCEPT ![c] = Empty]
  /\ UNCHANGED <<wireVars, ui, held, readerDone, shown, copies, sent>>

(* waitForFrame: one command is outstanding until Update asks for another. *)
waitForFrame(c) ==
  /\ ui[c] = "running"
  /\ mail[c] # Empty
  /\ held[c] = Empty
  /\ held' = [held EXCEPT ![c] = mail[c]]
  /\ mail' = [mail EXCEPT ![c] = Empty]
  /\ UNCHANGED <<wireVars, ui, reading, readerDone, shown, copies, sent>>

(* Update of a frame that ends the program: the end of the stream is no    *)
(* error, a Detach is a normal end, an Error frame is reported.            *)
UpdateLast(c) ==
  /\ ui[c] = "running"
  /\ held[c] # Empty
  /\ endsReader(held[c])
  /\ EndProgram(c)

(* A plausible slip: Update draws the frame and asks for no other.         *)
UpdateFrameOnce(c) ==
  /\ ui[c] = "running"
  /\ held[c] # Empty
  /\ ~endsReader(held[c])
  /\ shown' = [shown EXCEPT ![c] = held[c].screen]
  /\ UNCHANGED <<wireVars, ui, held, copies, reading, mail, readerDone, sent>>

(* Update of any other frame: draw it, put its text on the clipboard.      *)
UpdateFrame(c) ==
  /\ ui[c] = "running"
  /\ held[c] # Empty
  /\ ~endsReader(held[c])
  /\ shown' = [shown EXCEPT ![c] = held[c].screen]
  /\ copies' = [copies EXCEPT ![c] = IF held[c].clip # 0 THEN Append(@, held[c].clip) ELSE @]
  /\ held' = [held EXCEPT ![c] = Empty]
  /\ UNCHANGED <<wireVars, ui, reading, mail, readerDone, sent>>

-----------------------------------------------------------------------------
(* The terminal window is closed or the process dies.                      *)
Kill(c) == ui[c] = "running" /\ EndProgram(c)

(* Stop closes the connection and returns: it read one frame, the stream   *)
(* ended, its three-second deadline passed (at any time), or it was killed.*)
StopReturns(c) == ui[c] = "waiting" /\ EndProgram(c)

ClientStep(c) ==
  \/ Dial(c, "running", "attach") \/ Dial(c, "running", "outdated")
  \/ Dial(c, "waiting", "stop") \/ Dial(c, "waiting", "outdated")
  \/ \E kind \in Inputs : SendInput(c, kind)
  \/ SendFails(c)
  \/ readFrames(c) \/ queueFrame(c) \/ replaceStale(c) \/ waitForFrame(c)
  \/ UpdateLast(c) \/ UpdateFrame(c) \/ Kill(c)
  \/ StopReturns(c)

=============================================================================
