----------------------------- MODULE UsageWindow -----------------------------
(***************************************************************************)
(* Which window of a Codex answer the footer shows                         *)
(* (selectCodexWeeklyWindow in src/internal/usage/codex.go).  An answer    *)
(* holds the snapshot of the limit named codex, those of other limits in   *)
(* the order of their names, and an unnamed one; a snapshot holds a        *)
(* primary and a secondary window.  A window that is not there is one      *)
(* without a percentage, a snapshot that is not there has no such window.  *)
(***************************************************************************)
EXTENDS Integers, Sequences

(* weeklyWindowMins, and the lengths of a shorter and a longer window.     *)
Week == 7 * 24 * 60
FiveHours == 5 * 60
Month == 30 * 24 * 60

(* A length that is not declared, or negative: it does not beat            *)
(* bestDuration, which starts at -1, as a declared length of 0 does.       *)
Undated == -1
Lengths == Nat \cup {Undated}

(* used tells percentages apart, 0 for none.                               *)
Window(used, minutes) == [used |-> used, minutes |-> minutes]

Absent == Window(0, Undated)

(* The windows of all snapshots, of each the primary one first.            *)
windows(answer) ==
  LET snapshots == <<answer.codex>> \o answer.others \o <<answer.unnamed>>
  IN  [i \in 1 .. 2 * Len(snapshots) |->
         IF i % 2 = 1 THEN snapshots[(i + 1) \div 2].primary ELSE snapshots[i \div 2].secondary]

isWeekly(w) == w.used # 0 /\ w.minutes = Week

First(places) == CHOOSE i \in places : \A j \in places : i <= j
Final(places) == CHOOSE i \in places : \A j \in places : j <= i

(* The first of the longest windows, and failing that, of those of unknown *)
(* length, the secondary one of the last snapshot before its primary one.  *)
fallback(all) ==
  LET used == {i \in DOMAIN all : all[i].used # 0}
      dated == {i \in used : all[i].minutes # Undated}
      longest == {i \in dated : \A j \in dated : all[j].minutes <= all[i].minutes}
  IN  IF dated # {} THEN all[First(longest)]
      ELSE IF used # {} THEN all[Final(used)]
      ELSE Absent

selectCodexWeeklyWindow(answer) ==
  LET all == windows(answer)
      weekly == {i \in DOMAIN all : isWeekly(all[i])}
  IN  IF weekly # {} THEN all[First(weekly)] ELSE fallback(all)

=============================================================================
