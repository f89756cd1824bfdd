----------------------------- MODULE SessionWire -----------------------------
(***************************************************************************)
(* The connection between a front end (`split` in the user's terminal) and *)
(* the detached runtime: one stream in each direction, first in first out, *)
(* readable to its end after the writer has closed it                      *)
(* (src/internal/sessionserver/protocol.go, transport_*.go).               *)
(*                                                                         *)
(* A screen is the number of visible changes of the model it was rendered  *)
(* after (rev) and the client whose input opened the menus, dialogs, modes *)
(* or selections that it shows (ui).  A text put on the clipboard is the   *)
(* number of the copy that took it, 0 for none.                            *)
(***************************************************************************)
EXTENDS Naturals, Sequences

CONSTANTS
  Clients,      \* connections that are opened to the runtime, each once
  NoClient,     \* the absence of a client
  MaxInputs,    \* bound: input requests the front ends send, all together
  WireCap       \* bound: frames the pipe holds before a write blocks

ASSUME NoClientAssumption == NoClient \notin Clients
ASSUME BoundsAssumption == MaxInputs \in Nat /\ WireCap \in Nat \ {0}

VARIABLES
  runtime,      \* serving, closing (stop acknowledged) or stopped (run returned)
  conn,         \* conn[c]: none, backlog, peer or dropped: the runtime's side of c
  up,           \* up[c]: requests of c written and not handled yet
  down,         \* down[c]: frames written to c and not decoded yet
  hung          \* hung[c]: the front end's side of the connection is closed

wireVars == <<runtime, conn, up, down, hung>>

(* Input requests, by what Model.Update does with them: change the screen  *)
(* and open or leave transient UI, copy a selection, ask to detach.        *)
(* "unsupported" is a kind that request.message() rejects.                 *)
Inputs == {"menu", "copy", "quit", "unsupported"}

(* "outdated" is any request carrying another protocol version.            *)
Requests == Inputs \cup {"attach", "stop", "outdated"}

Screen == [rev : Nat, ui : Clients \cup {NoClient}]

Frame == [kind : {"view", "detach", "error", "stopped"},
          screen : Screen, clip : Nat]

NoScreen == [rev |-> 0, ui |-> NoClient]

WireInit ==
  /\ runtime = "serving"
  /\ conn = [c \in Clients |-> "none"]
  /\ up = [c \in Clients |-> <<>>]
  /\ down = [c \in Clients |-> <<>>]
  /\ hung = [c \in Clients |-> FALSE]

(* Encode succeeds when the peer is still there and drains the pipe before *)
(* the two-second write deadline; a pipe that stays full is a failed write.*)
Writable(c) == ~hung[c] /\ Len(down[c]) < WireCap

WriteFrame(pipes, c, f) ==
  IF Writable(c) THEN [pipes EXCEPT ![c] = Append(@, f)] ELSE pipes

=============================================================================
