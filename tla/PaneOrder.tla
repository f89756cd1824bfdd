------------------------------- MODULE PaneOrder -------------------------------
(***************************************************************************)
(* What a layout promises to the rest of the workspace: a sequence of      *)
(* panes without repetition.  A new pane stands directly behind one that   *)
(* was there (which one is up to the layout), a closed one leaves its      *)
(* place, two can change places, and no other command changes the order in *)
(* which Leaves lists them.                                                *)
(***************************************************************************)
EXTENDS Naturals, Sequences

CONSTANT Panes

VARIABLE order

Listed == {order[i] : i \in DOMAIN order}

Init == \E p \in Panes : order = <<p>>

Insert(i, new) ==
  /\ new \notin Listed
  /\ order' = SubSeq(order, 1, i) \o <<new>> \o SubSeq(order, i + 1, Len(order))

Drop(i) ==
  /\ Len(order) > 1
  /\ order' = SubSeq(order, 1, i - 1) \o SubSeq(order, i + 1, Len(order))

Exchange(i, j) == order' = [order EXCEPT ![i] = order[j], ![j] = order[i]]

Next ==
  \/ \E i \in DOMAIN order, new \in Panes : Insert(i, new)
  \/ \E i \in DOMAIN order : Drop(i)
  \/ \E i, j \in DOMAIN order : Exchange(i, j)

Spec == Init /\ [][Next]_order

=============================================================================
