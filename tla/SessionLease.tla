----------------------------- MODULE SessionLease -----------------------------
(***************************************************************************)
(* What the runtime promises its front ends, whatever the wire, the frames *)
(* and the mailboxes do.  The screen is on lease to one client at a time.  *)
(* A client asks once, may hold the lease once, and never gets it back     *)
(* after it ended.  Only the holder can put a text on the way to a system  *)
(* clipboard, the text reaches no clipboard but that client's own, and the *)
(* texts of a client arrive in the order it copied them, none twice.       *)
(***************************************************************************)
EXTENDS Naturals, Sequences

CONSTANTS Clients

VARIABLES
  standing,   \* standing[c]: away, asked, holder or over
  author,     \* author[t]: the client that copied text t
  copies      \* copies[c]: the texts that reached the clipboard of c

leaseVars == <<standing, author, copies>>

Init ==
  /\ standing = [c \in Clients |-> "away"]
  /\ author = <<>>
  /\ copies = [c \in Clients |-> <<>>]

Ask(c) ==
  /\ standing[c] = "away"
  /\ standing' = [standing EXCEPT ![c] = "asked"]
  /\ UNCHANGED <<author, copies>>

Take(c) ==
  /\ standing[c] = "asked"
  /\ standing' = [d \in Clients |->
       IF d = c THEN "holder" ELSE IF standing[d] = "holder" THEN "over" ELSE standing[d]]
  /\ UNCHANGED <<author, copies>>

End(cs) ==
  /\ \A c \in cs : standing[c] \in {"asked", "holder"}
  /\ standing' = [d \in Clients |-> IF d \in cs THEN "over" ELSE standing[d]]
  /\ UNCHANGED <<author, copies>>

Copy(c) ==
  /\ standing[c] = "holder"
  /\ author' = Append(author, c)
  /\ UNCHANGED <<standing, copies>>

Arrive(c, t) ==
  /\ author[t] = c
  /\ \A i \in 1..Len(copies[c]) : copies[c][i] < t
  /\ copies' = [copies EXCEPT ![c] = Append(@, t)]
  /\ UNCHANGED <<standing, author>>

Next ==
  \/ \E cs \in SUBSET Clients : End(cs)
  \/ \E c \in Clients : Ask(c) \/ Take(c) \/ Copy(c)
  \/ \E c \in Clients : \E t \in 1..Len(author) : Arrive(c, t)

Spec == Init /\ [][Next]_leaseVars

=============================================================================
