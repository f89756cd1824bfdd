---------------------------- MODULE WorkspaceProofs ----------------------------
(***************************************************************************)
(* What the workspace guarantees for any number of projects and panes and  *)
(* any length of use: every pane is a leaf of exactly one project and the  *)
(* ids in use differ, a command hits what the user pointed at, nothing is   *)
(* unsaved unless a save failed, and a resize follows only the mouse of    *)
(* the user who began it.                                                  *)
(***************************************************************************)
EXTENDS Workspace, TLAPS, SequenceTheorems, WellFoundedInduction

-----------------------------------------------------------------------------
(* The inductive invariant *)

Shells == {"idle", "running", "dead"}
Tab == [id : Ids, panes : SUBSET Ids, active : Ids]
Placement == [tab : Nat \ {0}, cursor : Nat \ {0}, mode : Modes,
              before : Modes \ {"prefix"}, focus : Areas]

(* Projects as they are at any time, in the model or in a snapshot: no two   *)
(* share a pane or an id, no id is also a pane's, each shows one of its own.  *)
Sound(ts) ==
  /\ ts \in Seq(Tab)
  /\ \A i \in DOMAIN ts : ts[i].active \in ts[i].panes
  /\ \A i, j \in DOMAIN ts : i # j => ts[i].panes \cap ts[j].panes = {} /\ ts[i].id # ts[j].id
  /\ \A i, j \in DOMAIN ts : ts[i].id \notin ts[j].panes

(* A snapshot that can be restored, and whose ids are behind the counter n.   *)
Keeps(s, n) ==
  /\ s = [tabs |-> s.tabs, current |-> s.current, look |-> s.look]
  /\ Sound(s.tabs) /\ s.look \in Looks
  /\ AllIds(s.tabs) \subseteq 1 .. n
  /\ s.tabs # <<>> => \E i \in DOMAIN s.tabs : s.tabs[i].id = s.current

(* Without a process the model holds nothing. *)
Down ==
  /\ tabs = <<>> /\ panes = <<>> /\ nextID = 0 /\ place = StartPlace(1) /\ look = AnyLook
  /\ NoMenu /\ drag = NoDrag /\ selection = None /\ selected = {} /\ attached = FALSE

(* The projects and the shells of their panes. *)
Shape ==
  /\ Sound(tabs) /\ AllIds(tabs) \subseteq 1 .. nextID
  /\ nextID \in 0 .. MaxId
  /\ panes \in [AllPanes(tabs) -> Shells]
  /\ look \in Looks

(* Focus and sidebar cursor are in range, and what is shown was started. *)
Fits(pl, ts) == pl \in Placement /\ pl.tab \in DOMAIN ts /\ pl.cursor <= Len(ts) + 1
Placed == Fits(place, tabs) /\ \A p \in Active.panes : panes[p] # "idle"

(* A resize whose divider is gone drags nothing: what ended it has saved.    *)
Kept ==
  /\ unsaved \in BOOLEAN /\ Keeps(saved, nextID)
  /\ ~unsaved /\ (~Dragging \/ StaleDrag) => saved = Now

Marks == OneSelection /\ None \notin selected

(* What a command has to keep, apart from the menus. *)
Together == Shape /\ Placed /\ Marks /\ Kept

(* Menus and dialog: one at a time, aimed at what the user pointed at. *)
DialogOK == dialog.open => dialog.focus \in Areas /\ dialog.cursor \in Nat
Menus == OneOverlay /\ AimKept /\ DialogOK

WorkspaceInv ==
  /\ unsaved \in BOOLEAN /\ attached \in BOOLEAN /\ up \in BOOLEAN
  /\ Keeps(saved, MaxId)
  /\ ~up => Down
  /\ up => Together /\ Menus

-----------------------------------------------------------------------------
(* Lemmas about the operators on projects *)

LEMMA LookTyping == AnyLook \in Looks
  BY LooksAssumption DEF AnyLook

LEMMA PaneOfProject ==
  ASSUME NEW ts, NEW p
  PROVE  p \in AllPanes(ts) <=> \E i \in DOMAIN ts : p \in ts[i].panes
  BY DEF AllPanes

LEMMA IdOfProject ==
  ASSUME NEW ts, NEW n
  PROVE  n \in AllIds(ts) <=> n \in AllPanes(ts) \/ \E i \in DOMAIN ts : n = ts[i].id
  BY DEF AllIds

LEMMA TabOf ==
  ASSUME NEW ts, Sound(ts), NEW i \in DOMAIN ts
  PROVE  /\ ts[i] \in Tab /\ ts[i].id \in Ids /\ ts[i].panes \subseteq Ids /\ ts[i].active \in Ids
         /\ ts[i].panes \subseteq AllPanes(ts) /\ ts[i].id \in AllIds(ts)
         /\ AllPanes(ts) \subseteq AllIds(ts)
         /\ Len(ts) \in Nat /\ DOMAIN ts = 1 .. Len(ts)
<1>1. ts \in Seq(Tab)
  BY DEF Sound
<1>2. Len(ts) \in Nat /\ DOMAIN ts = 1 .. Len(ts)
  BY <1>1, LenProperties
<1>3. ts[i] \in Tab
  BY <1>1, <1>2, ElementOfSeq
<1>4. QED
  BY <1>2, <1>3 DEF Tab, AllIds, AllPanes

(* Project i has these panes now and shows that one; the others are as they were. *)
Changed(ts, us, i, ps, p) ==
  /\ us \in Seq(Tab) /\ Len(us) = Len(ts) /\ DOMAIN us = DOMAIN ts
  /\ us[i].id = ts[i].id /\ us[i].panes = ps /\ us[i].active = p
  /\ \A j \in DOMAIN ts \ {i} : us[j] = ts[j]

LEMMA ReplacedTab ==
  ASSUME NEW ts, ts \in Seq(Tab), NEW i \in 1 .. Len(ts), NEW new \in Tab
  PROVE  LET us == [ts EXCEPT ![i] = new]
         IN /\ us \in Seq(Tab) /\ Len(us) = Len(ts) /\ DOMAIN us = DOMAIN ts
            /\ us[i] = new /\ \A j \in DOMAIN ts \ {i} : us[j] = ts[j]
<1> DEFINE us == [ts EXCEPT ![i] = new]
<1>1. /\ us \in Seq(Tab) /\ Len(us) = Len(ts)
      /\ \A j \in 1 .. Len(ts) : us[j] = IF j = i THEN new ELSE ts[j]
  BY ExceptSeq
<1>2. DOMAIN ts = 1 .. Len(ts) /\ DOMAIN us = 1 .. Len(us)
  BY <1>1, LenProperties
<1> HIDE DEF us
<1>3. us \in Seq(Tab) /\ Len(us) = Len(ts) /\ DOMAIN us = DOMAIN ts
      /\ us[i] = new /\ \A j \in DOMAIN ts \ {i} : us[j] = ts[j]
  BY <1>1, <1>2
<1>4. QED
  BY <1>3 DEF us

LEMMA FocusChanges ==
  ASSUME NEW ts, Sound(ts), NEW i \in DOMAIN ts, NEW p \in Ids
  PROVE  Changed(ts, [ts EXCEPT ![i].active = p], i, ts[i].panes, p)
<1> DEFINE new == [ts[i] EXCEPT !.active = p]
<1>1. ts \in Seq(Tab) /\ ts[i] \in Tab /\ i \in 1 .. Len(ts)
  BY TabOf DEF Sound
<1>2. new \in Tab /\ new.id = ts[i].id /\ new.panes = ts[i].panes /\ new.active = p
  BY <1>1 DEF Tab
<1>3. [ts EXCEPT ![i].active = p] = [ts EXCEPT ![i] = new]
  OBVIOUS
<1> HIDE DEF new
<1>4. Changed(ts, [ts EXCEPT ![i] = new], i, new.panes, p)
  BY <1>1, <1>2, ReplacedTab DEF Changed
<1>5. QED
  BY <1>2, <1>3, <1>4

LEMMA PanesChange ==
  ASSUME NEW ts, Sound(ts), NEW i \in DOMAIN ts, NEW p \in Ids, NEW ps \in SUBSET Ids
  PROVE  Changed(ts, [ts EXCEPT ![i].panes = ps, ![i].active = p], i, ps, p)
<1> DEFINE new == [ts[i] EXCEPT !.panes = ps, !.active = p]
<1>1. ts \in Seq(Tab) /\ ts[i] \in Tab /\ i \in 1 .. Len(ts)
  BY TabOf DEF Sound
<1>2. new \in Tab /\ new.id = ts[i].id /\ new.panes = ps /\ new.active = p
  BY <1>1 DEF Tab
<1>3. [ts EXCEPT ![i].panes = ps, ![i].active = p] = [ts EXCEPT ![i] = new]
  OBVIOUS
<1> HIDE DEF new
<1>4. QED
  BY <1>1, <1>2, <1>3, ReplacedTab DEF Changed

(* What both kinds of change leave alone. *)
LEMMA ChangedIds ==
  ASSUME NEW ts, Sound(ts), NEW i \in DOMAIN ts, NEW ps, NEW p, NEW us,
         Changed(ts, us, i, ps, p)
  PROVE  /\ us \in Seq(Tab) /\ Len(us) = Len(ts) /\ DOMAIN us = DOMAIN ts
         /\ \A j \in DOMAIN ts : us[j].id = ts[j].id
         /\ AllPanes(us) = (AllPanes(ts) \ ts[i].panes) \cup ps
         /\ AllIds(us) \subseteq AllIds(ts) \cup ps
<1>1. \A j \in DOMAIN ts : us[j].id = ts[j].id
  BY DEF Changed
<1>2. \A j \in DOMAIN ts \ {i} : ts[j].panes \cap ts[i].panes = {}
  BY DEF Sound
<1>3. ASSUME NEW q
      PROVE  q \in AllPanes(us) <=> (q \in AllPanes(ts) /\ q \notin ts[i].panes) \/ q \in ps
  <2>1. q \in AllPanes(us) <=> \E j \in DOMAIN ts : q \in us[j].panes
    BY PaneOfProject DEF Changed
  <2>2. q \in AllPanes(ts) <=> \E j \in DOMAIN ts : q \in ts[j].panes
    BY PaneOfProject
  <2>3. us[i].panes = ps /\ \A j \in DOMAIN ts \ {i} : us[j] = ts[j]
    BY DEF Changed
  <2>4. QED
    BY <1>2, <2>1, <2>2, <2>3
<1>4. ASSUME NEW q \in AllIds(us)
      PROVE  q \in AllIds(ts) \cup ps
  <2>1. q \in AllPanes(us) \/ \E j \in DOMAIN ts : q = us[j].id
    BY IdOfProject DEF Changed
  <2>2. q \in AllPanes(ts) \/ q \in ps \/ \E j \in DOMAIN ts : q = ts[j].id
    BY <1>1, <1>3, <2>1
  <2>3. QED
    BY <2>2, IdOfProject
<1>5. QED
  BY <1>1, <1>3, <1>4 DEF Changed

(* Another pane of project i is shown. *)
LEMMA FocusedTabs ==
  ASSUME NEW ts, Sound(ts), NEW i \in DOMAIN ts, NEW p \in ts[i].panes, NEW us,
         Changed(ts, us, i, ts[i].panes, p)
  PROVE  /\ Sound(us) /\ Len(us) = Len(ts) /\ DOMAIN us = DOMAIN ts
         /\ AllPanes(us) = AllPanes(ts) /\ AllIds(us) \subseteq AllIds(ts)
         /\ \A j \in DOMAIN ts : us[j].id = ts[j].id /\ us[j].panes = ts[j].panes
         /\ us[i].active = p
<1>1. /\ us \in Seq(Tab) /\ Len(us) = Len(ts) /\ DOMAIN us = DOMAIN ts
      /\ AllPanes(us) = (AllPanes(ts) \ ts[i].panes) \cup ts[i].panes
      /\ AllIds(us) \subseteq AllIds(ts) \cup ts[i].panes
      /\ \A j \in DOMAIN ts : us[j].id = ts[j].id
  BY ChangedIds
<1>2. ts[i].panes \subseteq AllPanes(ts) /\ AllPanes(ts) \subseteq AllIds(ts)
  BY TabOf
<1>3. \A j \in DOMAIN ts : us[j].panes = ts[j].panes
  BY DEF Changed
<1>4. \A j \in DOMAIN ts : us[j].active \in us[j].panes
  BY DEF Changed, Sound
<1>5. Sound(us)
  BY <1>1, <1>3, <1>4 DEF Sound
<1>6. QED
  BY <1>1, <1>2, <1>3, <1>5 DEF Changed

(* Project i has a new pane, which is shown. *)
LEMMA SplitTabs ==
  ASSUME NEW ts, Sound(ts), NEW i \in DOMAIN ts, NEW n \in Ids, n \notin AllIds(ts),
         NEW us, Changed(ts, us, i, ts[i].panes \cup {n}, n)
  PROVE  /\ Sound(us) /\ Len(us) = Len(ts) /\ DOMAIN us = DOMAIN ts
         /\ AllPanes(us) = AllPanes(ts) \cup {n} /\ AllIds(us) \subseteq AllIds(ts) \cup {n}
<1>1. /\ us \in Seq(Tab) /\ Len(us) = Len(ts) /\ DOMAIN us = DOMAIN ts
      /\ AllPanes(us) = (AllPanes(ts) \ ts[i].panes) \cup (ts[i].panes \cup {n})
      /\ AllIds(us) \subseteq AllIds(ts) \cup (ts[i].panes \cup {n})
      /\ \A j \in DOMAIN ts : us[j].id = ts[j].id
  BY ChangedIds
<1>2. ts[i].panes \subseteq AllPanes(ts) /\ AllPanes(ts) \subseteq AllIds(ts)
  BY TabOf
<1>3. \A j \in DOMAIN ts : n # ts[j].id /\ n \notin ts[j].panes
  BY DEF AllIds, AllPanes
<1>4. us[i].panes = ts[i].panes \cup {n} /\ us[i].active = n
      /\ \A j \in DOMAIN ts \ {i} : us[j] = ts[j]
  BY DEF Changed
<1>5. \A j \in DOMAIN us : us[j].active \in us[j].panes
  BY <1>1, <1>4 DEF Sound
<1>6. \A j, k \in DOMAIN us : j # k => us[j].panes \cap us[k].panes = {} /\ us[j].id # us[k].id
  BY <1>1, <1>3, <1>4 DEF Sound
<1>7. \A j, k \in DOMAIN us : us[j].id \notin us[k].panes
  BY <1>1, <1>3, <1>4 DEF Sound
<1>8. QED
  BY <1>1, <1>2, <1>5, <1>6, <1>7 DEF Sound

(* Project i has lost a pane, and shows one of the others. *)
LEMMA ClosedTabs ==
  ASSUME NEW ts, Sound(ts), NEW i \in DOMAIN ts, NEW n \in ts[i].panes,
         NEW p \in ts[i].panes \ {n}, NEW us, Changed(ts, us, i, ts[i].panes \ {n}, p)
  PROVE  /\ Sound(us) /\ Len(us) = Len(ts) /\ DOMAIN us = DOMAIN ts
         /\ AllPanes(us) = AllPanes(ts) \ {n} /\ AllIds(us) \subseteq AllIds(ts)
<1>1. /\ us \in Seq(Tab) /\ Len(us) = Len(ts) /\ DOMAIN us = DOMAIN ts
      /\ AllPanes(us) = (AllPanes(ts) \ ts[i].panes) \cup (ts[i].panes \ {n})
      /\ AllIds(us) \subseteq AllIds(ts) \cup (ts[i].panes \ {n})
      /\ \A j \in DOMAIN ts : us[j].id = ts[j].id
  BY ChangedIds
<1>2. ts[i].panes \subseteq AllPanes(ts) /\ AllPanes(ts) \subseteq AllIds(ts)
  BY TabOf
<1>3. us[i].panes = ts[i].panes \ {n} /\ us[i].active = p
      /\ \A j \in DOMAIN ts \ {i} : us[j] = ts[j]
  BY DEF Changed
<1>4. \A j \in DOMAIN us : us[j].active \in us[j].panes /\ us[j].panes \subseteq ts[j].panes
  BY <1>1, <1>3 DEF Sound
<1>5. Sound(us)
  BY <1>1, <1>4 DEF Sound
<1>6. QED
  BY <1>1, <1>2, <1>5

(* A project with one pane is put at the end. *)
Grown(ts, us, n, p) ==
  /\ us \in Seq(Tab) /\ Len(us) = Len(ts) + 1 /\ DOMAIN us = 1 .. Len(us)
  /\ us[Len(us)].id = n /\ us[Len(us)].panes = {p} /\ us[Len(us)].active = p
  /\ \A j \in DOMAIN ts : us[j] = ts[j]

LEMMA AppendGrows ==
  ASSUME NEW ts, Sound(ts), NEW n \in Ids, NEW p \in Ids
  PROVE  Grown(ts, Append(ts, [id |-> n, panes |-> {p}, active |-> p]), n, p)
<1> DEFINE new == [id |-> n, panes |-> {p}, active |-> p]
<1>1. ts \in Seq(Tab) /\ Len(ts) \in Nat /\ DOMAIN ts = 1 .. Len(ts)
  BY LenProperties DEF Sound
<1>2. new \in Tab /\ new.id = n /\ new.panes = {p} /\ new.active = p
  BY DEF Tab
<1> HIDE DEF new
<1>3. Append(ts, new) \in Seq(Tab) /\ Len(Append(ts, new)) = Len(ts) + 1
      /\ DOMAIN Append(ts, new) = 1 .. Len(Append(ts, new))
      /\ Append(ts, new)[Len(Append(ts, new))] = new
      /\ \A j \in DOMAIN ts : Append(ts, new)[j] = ts[j]
  BY <1>1, <1>2
<1>4. Grown(ts, Append(ts, new), n, p)
  BY <1>2, <1>3 DEF Grown
<1>5. QED
  BY <1>4 DEF new

LEMMA AppendedTabs ==
  ASSUME NEW ts, Sound(ts), NEW p \in Ids, NEW n \in Ids, n # p,
         p \notin AllIds(ts), n \notin AllIds(ts),
         NEW us, Grown(ts, us, n, p)
  PROVE  /\ Sound(us) /\ Len(us) = Len(ts) + 1 /\ DOMAIN us = 1 .. Len(us)
         /\ AllPanes(us) = AllPanes(ts) \cup {p} /\ AllIds(us) = AllIds(ts) \cup {p, n}
         /\ us[Len(us)].panes = {p} /\ \A j \in DOMAIN ts : j \in DOMAIN us /\ us[j] = ts[j]
<1>1. Len(ts) \in Nat /\ DOMAIN ts = 1 .. Len(ts)
  BY LenProperties DEF Sound
<1>4. us \in Seq(Tab) /\ Len(us) = Len(ts) + 1 /\ DOMAIN us = 1 .. Len(us)
      /\ us[Len(us)].id = n /\ us[Len(us)].panes = {p} /\ us[Len(us)].active = p
      /\ \A j \in DOMAIN ts : us[j] = ts[j]
  BY DEF Grown
<1>5. DOMAIN us = DOMAIN ts \cup {Len(us)} /\ Len(us) \notin DOMAIN ts
  BY <1>1, <1>4
<1>6. AllPanes(us) = AllPanes(ts) \cup {p}
  <2>1. ASSUME NEW q PROVE q \in AllPanes(us) <=> q \in AllPanes(ts) \/ q = p
    <3>1. q \in AllPanes(us) <=> \E j \in DOMAIN us : q \in us[j].panes
      BY PaneOfProject
    <3>2. q \in AllPanes(ts) <=> \E j \in DOMAIN ts : q \in ts[j].panes
      BY PaneOfProject
    <3>3. QED
      BY <3>1, <3>2, <1>4, <1>5
  <2>2. QED
    BY <2>1
<1>7. AllIds(us) = AllIds(ts) \cup {p, n}
  <2>1. ASSUME NEW q PROVE q \in AllIds(us) <=> q \in AllIds(ts) \/ q \in {p, n}
    <3>1. q \in AllIds(us) <=> q \in AllPanes(us) \/ \E j \in DOMAIN us : q = us[j].id
      BY IdOfProject
    <3>2. q \in AllIds(ts) <=> q \in AllPanes(ts) \/ \E j \in DOMAIN ts : q = ts[j].id
      BY IdOfProject
    <3>3. QED
      BY <3>1, <3>2, <1>4, <1>5, <1>6
  <2>2. QED
    BY <2>1
<1>8. \A j \in DOMAIN ts : ts[j].id \notin {n, p} /\ n \notin ts[j].panes /\ p \notin ts[j].panes
  BY DEF AllIds, AllPanes
<1>9. Sound(us)
  BY <1>4, <1>5, <1>8 DEF Sound
<1>10. QED
  BY <1>4, <1>5, <1>6, <1>7, <1>9

(* Project i is taken out. *)
LEMMA DroppedTabs ==
  ASSUME NEW ts, Sound(ts), NEW i \in DOMAIN ts, NEW us, us = DropAt(ts, i)
  PROVE  /\ Sound(us) /\ Len(us) = Len(ts) - 1 /\ DOMAIN us = 1 .. Len(us)
         /\ \A j \in DOMAIN us : us[j] = IF j < i THEN ts[j] ELSE ts[j + 1]
         /\ AllPanes(us) = AllPanes(ts) \ ts[i].panes /\ AllIds(us) \subseteq AllIds(ts)
<1> DEFINE head == SubSeq(ts, 1, i - 1)
           tail == SubSeq(ts, i + 1, Len(ts))
           old(j) == IF j < i THEN j ELSE j + 1
<1>1. ts \in Seq(Tab) /\ Len(ts) \in Nat /\ DOMAIN ts = 1 .. Len(ts) /\ i \in 1 .. Len(ts)
      /\ \A j \in 1 .. Len(ts) : ts[j] \in Tab
  BY LenProperties, ElementOfSeq DEF Sound
<1>2. head \in Seq(Tab) /\ Len(head) = i - 1 /\ \A j \in 1 .. i - 1 : head[j] = ts[j]
  <2>1. i - 1 \in Int /\ 1 \in Int /\ \A j \in 1 .. i - 1 : ts[j] \in Tab
    BY <1>1
  <2>2. /\ head \in Seq(Tab) /\ Len(head) = IF 1 <= i - 1 THEN (i - 1) - 1 + 1 ELSE 0
        /\ \A j \in 1 .. (i - 1) - 1 + 1 : head[j] = ts[1 + j - 1]
    BY <2>1, SubSeqProperties
  <2>3. QED
    BY <2>2, <1>1
<1>3. tail \in Seq(Tab) /\ Len(tail) = Len(ts) - i
      /\ \A j \in 1 .. Len(ts) - i : tail[j] = ts[i + j]
  <2>1. i + 1 \in Int /\ Len(ts) \in Int /\ \A j \in i + 1 .. Len(ts) : ts[j] \in Tab
    BY <1>1
  <2>2. /\ tail \in Seq(Tab) /\ Len(tail) = IF i + 1 <= Len(ts) THEN Len(ts) - (i + 1) + 1 ELSE 0
        /\ \A j \in 1 .. Len(ts) - (i + 1) + 1 : tail[j] = ts[(i + 1) + j - 1]
    BY <2>1, SubSeqProperties
  <2>3. QED
    BY <2>2, <1>1
<1>4. us = head \o tail
  BY DEF DropAt
<1> HIDE DEF head, tail
<1>5. us \in Seq(Tab) /\ Len(us) = Len(ts) - 1 /\ DOMAIN us = 1 .. Len(us)
      /\ \A j \in 1 .. Len(ts) - 1 : us[j] = IF j <= i - 1 THEN head[j] ELSE tail[j - (i - 1)]
  <2>1. /\ us \in Seq(Tab) /\ Len(us) = Len(head) + Len(tail)
        /\ \A j \in 1 .. Len(head) + Len(tail) :
             us[j] = IF j <= Len(head) THEN head[j] ELSE tail[j - Len(head)]
    BY <1>2, <1>3, <1>4, ConcatProperties
  <2>2. Len(head) + Len(tail) = Len(ts) - 1
    BY <1>1, <1>2, <1>3
  <2>3. DOMAIN us = 1 .. Len(us)
    BY <2>1, LenProperties
  <2>4. QED
    BY <2>1, <2>2, <2>3, <1>2
<1>6. \A j \in DOMAIN us : us[j] = ts[old(j)] /\ old(j) \in DOMAIN ts \ {i}
  <2>1. ASSUME NEW j \in DOMAIN us PROVE us[j] = ts[old(j)] /\ old(j) \in DOMAIN ts \ {i}
    <3>1. j \in 1 .. Len(ts) - 1
      BY <1>5
    <3>2. CASE j < i
      <4>1. us[j] = head[j] /\ head[j] = ts[j]
        BY <3>1, <3>2, <1>1, <1>2, <1>5
      <4>2. QED
        BY <3>1, <3>2, <4>1, <1>1
    <3>3. CASE i <= j
      <4>1. us[j] = tail[j - (i - 1)] /\ j - (i - 1) \in 1 .. Len(ts) - i
        <5>1. ~(j <= i - 1) /\ j - (i - 1) \in 1 .. Len(ts) - i
          BY <3>1, <3>3, <1>1
        <5>2. QED
          BY <5>1, <3>1, <1>5
      <4>2. tail[j - (i - 1)] = ts[i + (j - (i - 1))] /\ i + (j - (i - 1)) = j + 1
        BY <3>1, <4>1, <1>1, <1>3
      <4>3. QED
        BY <3>1, <3>3, <4>1, <4>2, <1>1
    <3>4. QED
      BY <3>1, <3>2, <3>3, <1>1
  <2>2. QED
    BY <2>1
<1>7. \A j, k \in DOMAIN us : j # k => old(j) # old(k)
  BY <1>1, <1>5
<1>8. \A m \in DOMAIN ts \ {i} : \E j \in DOMAIN us : old(j) = m
  <2>1. ASSUME NEW m \in DOMAIN ts \ {i} PROVE \E j \in DOMAIN us : old(j) = m
    <3>1. CASE m < i
      BY <3>1, <2>1, <1>1, <1>5
    <3>2. CASE m > i
      <4>1. m - 1 \in DOMAIN us /\ old(m - 1) = m
        BY <3>2, <2>1, <1>1, <1>5
      <4>2. QED
        BY <4>1
    <3>3. QED
      BY <3>1, <3>2, <2>1, <1>1
  <2>2. QED
    BY <2>1
<1>9. \A j \in DOMAIN us : us[j] = IF j < i THEN ts[j] ELSE ts[j + 1]
  BY <1>6
<1> HIDE DEF old
<1>10. AllPanes(us) = AllPanes(ts) \ ts[i].panes
  <2>1. ASSUME NEW q PROVE q \in AllPanes(us) <=> q \in AllPanes(ts) /\ q \notin ts[i].panes
    <3>1. q \in AllPanes(us) => q \in AllPanes(ts) /\ q \notin ts[i].panes
      BY <1>6, PaneOfProject DEF Sound
    <3>2. q \in AllPanes(ts) /\ q \notin ts[i].panes => q \in AllPanes(us)
      BY <1>6, <1>8, PaneOfProject
    <3>3. QED
      BY <3>1, <3>2
  <2>2. QED
    BY <2>1
<1>11. AllIds(us) \subseteq AllIds(ts)
  BY <1>6, <1>10 DEF AllIds
<1>12. Sound(us)
  BY <1>5, <1>6, <1>7 DEF Sound
<1>13. QED
  BY <1>5, <1>9, <1>10, <1>11, <1>12

-----------------------------------------------------------------------------
(* Lemmas about shells, places and snapshots *)

LEMMA StartedShells ==
  ASSUME NEW D, NEW ps \in [D -> Shells], NEW project \in SUBSET D, NEW bad
  PROVE  /\ Started(ps, project, bad) \in [D -> Shells]
         /\ \A p \in project : Started(ps, project, bad)[p] # "idle"
  BY DEF Started, Unstarted, Shells

LEMMA BareShells ==
  ASSUME NEW D, NEW ps \in [D -> Shells], NEW gone
  PROVE  Bare(ps, gone) \in [D \ gone -> Shells]
  BY DEF Bare

LEMMA ClampRange ==
  ASSUME NEW n \in Int, NEW low \in Int, NEW high \in Int, low <= high
  PROVE  Clamp(n, low, high) \in low .. high
  BY DEF Clamp

LEMMA ModeFits ==
  ASSUME NEW ts, NEW pl, Fits(pl, ts), NEW mode \in Modes
  PROVE  /\ Fits(Mode(pl, mode), ts)
         /\ Mode(pl, mode).tab = pl.tab /\ Mode(pl, mode).mode = mode
         /\ Mode(pl, mode).cursor = pl.cursor
  BY DEF Fits, Mode, Placement, Modes

LEMMA FocusFits ==
  ASSUME NEW ts, NEW pl, Fits(pl, ts), NEW focus \in Areas
  PROVE  /\ Fits([pl EXCEPT !.focus = focus], ts)
         /\ [pl EXCEPT !.focus = focus].tab = pl.tab /\ [pl EXCEPT !.focus = focus].mode = pl.mode
         /\ [pl EXCEPT !.focus = focus].cursor = pl.cursor
  BY DEF Fits, Placement

LEMMA CursorFits ==
  ASSUME NEW ts, NEW pl, Fits(pl, ts), NEW n \in 1 .. Len(ts) + 1, Len(ts) \in Nat
  PROVE  /\ Fits([pl EXCEPT !.cursor = n], ts)
         /\ [pl EXCEPT !.cursor = n].tab = pl.tab /\ [pl EXCEPT !.cursor = n].mode = pl.mode
<1>1. n \in Nat \ {0} /\ n <= Len(ts) + 1
  OBVIOUS
<1>2. QED
  BY <1>1 DEF Fits, Placement

LEMMA PanesFit ==
  ASSUME NEW ts, NEW pl, Fits(pl, ts)
  PROVE  Fits(InPanes(pl), ts) /\ InPanes(pl).tab = pl.tab /\ InPanes(pl).mode = "navigate"
<1>1. "navigate" \in Modes /\ "panes" \in Areas
  BY DEF Modes, Areas
<1>2. Fits(Mode(pl, "navigate"), ts) /\ Mode(pl, "navigate").tab = pl.tab
      /\ Mode(pl, "navigate").mode = "navigate"
  BY <1>1, ModeFits
<1>3. QED
  BY <1>1, <1>2, FocusFits DEF InPanes

LEMMA TabFits ==
  ASSUME NEW ts, NEW pl \in Placement, NEW i \in DOMAIN ts,
         DOMAIN ts = 1 .. Len(ts), Len(ts) \in Nat
  PROVE  Fits(AtTab(pl, i), ts) /\ AtTab(pl, i).tab = i /\ AtTab(pl, i).mode = "navigate"
<1>1. i \in Nat \ {0} /\ i <= Len(ts) + 1
  OBVIOUS
<1>2. InPanes(pl) \in Placement /\ InPanes(pl).mode = "navigate"
  BY DEF InPanes, Mode, Placement, Modes, Areas
<1>3. QED
  BY <1>1, <1>2 DEF AtTab, Fits, Placement

LEMMA SidebarFits ==
  ASSUME NEW ts, NEW pl \in Placement, pl.tab \in DOMAIN ts, NEW cursor \in Int,
         Len(ts) \in Nat
  PROVE  /\ Fits(InSidebar(pl, cursor, ts), ts)
         /\ InSidebar(pl, cursor, ts).tab = pl.tab /\ InSidebar(pl, cursor, ts).mode = "navigate"
<1> DEFINE n == Clamp(cursor, 1, Len(ts) + 1)
<1>1. n \in 1 .. Len(ts) + 1
  <2>1. 1 \in Int /\ Len(ts) + 1 \in Int /\ 1 <= Len(ts) + 1
    OBVIOUS
  <2>2. QED
    BY <2>1, ClampRange
<1>2. InSidebar(pl, cursor, ts)
        = [pl EXCEPT !.mode = "navigate", !.before = "navigate", !.focus = "sidebar", !.cursor = n]
  BY DEF InSidebar
<1> HIDE DEF n
<1>3. n \in Nat \ {0} /\ n <= Len(ts) + 1
  BY <1>1
<1>4. QED
  BY <1>2, <1>3 DEF Fits, Placement, Modes, Areas

(* A click beside a menu leaves the focus on the project that had it. *)
LEMMA EntryFits ==
  ASSUME Fits(place, tabs), NEW button
  PROVE  Fits(Entry(button), tabs) /\ Entry(button).tab = place.tab /\ Entry(button).mode \in Modes
<1>1. Fits(PlaceAfterProjectMenu, tabs) /\ PlaceAfterProjectMenu.tab = place.tab
  BY ModeFits, FocusFits DEF PlaceAfterProjectMenu, Modes, Areas
<1>2. ASSUME NEW restore
      PROVE  Fits(PlaceAfterPaneMenu(restore), tabs) /\ PlaceAfterPaneMenu(restore).tab = place.tab
  BY ModeFits DEF PlaceAfterPaneMenu, Modes
<1>3. Fits(Entry(button), tabs) /\ Entry(button).tab = place.tab
  BY <1>1, <1>2 DEF Entry
<1>4. QED
  BY <1>3 DEF Fits, Placement

LEMMA PlainFits ==
  ASSUME Fits(place, tabs)
  PROVE  /\ Fits(Plain, tabs) /\ Plain.tab = place.tab /\ Plain.mode = "navigate"
         /\ Fits(PlaceAfterPaneMenu(TRUE), tabs) /\ PlaceAfterPaneMenu(TRUE).tab = place.tab
         /\ Fits(PlaceAfterProjectMenu, tabs) /\ PlaceAfterProjectMenu.tab = place.tab
         /\ PlaceAfterProjectMenu.mode = "navigate"
<1>1. "navigate" \in Modes /\ "terminal" \in Modes /\ "sidebar" \in Areas
  BY DEF Modes, Areas
<1>2. \A mode \in {"navigate", "terminal"} :
         Fits(Mode(place, mode), tabs) /\ Mode(place, mode).tab = place.tab
           /\ Mode(place, mode).mode = mode
  BY <1>1, ModeFits
<1>3. Plain = Mode(place, "navigate") /\ PlaceAfterPaneMenu(TRUE) \in {Mode(place, "navigate"), Mode(place, "terminal")}
  BY DEF Plain, PlaceAfterPaneMenu
<1>4. Fits(PlaceAfterProjectMenu, tabs) /\ PlaceAfterProjectMenu.tab = place.tab
      /\ PlaceAfterProjectMenu.mode = "navigate"
  BY <1>1, <1>2, FocusFits DEF PlaceAfterProjectMenu
<1>5. QED
  BY <1>2, <1>3, <1>4

LEMMA SnapshotKeeps ==
  ASSUME NEW ts, Sound(ts), NEW n, AllIds(ts) \subseteq 1 .. n,
         NEW i \in DOMAIN ts, NEW l \in Looks
  PROVE  Keeps(Snapshot(ts, i, l), n)
  BY DEF Keeps, Snapshot

LEMMA KeepsMore ==
  ASSUME NEW s, NEW n \in Nat, NEW m \in Nat, n <= m, Keeps(s, n)
  PROVE  Keeps(s, m)
<1>1. 1 .. n \subseteq 1 .. m
  OBVIOUS
<1>2. QED
  BY <1>1 DEF Keeps

(* A save writes what it was given, unless it says that it failed. *)
LEMMA SaveKeeps ==
  ASSUME NEW s, NEW midway, NEW n, Save(s, midway),
         Keeps(saved, n), Keeps(s, n), \A m \in midway : Keeps(m, n)
  PROVE  Keeps(saved', n) /\ unsaved' \in BOOLEAN /\ (~unsaved' => saved' = s)
  BY DEF Save

(* absorbID finds the highest id there is. *)
LEMMA HighestThere ==
  ASSUME NEW S, NEW n \in Nat, S \subseteq 0 .. n, S # {}
  PROVE  Highest(S) \in S /\ \A m \in S : m <= Highest(S)
<1> DEFINE Below == {n - m : m \in S}
<1>1. Below \subseteq Nat /\ Below # {}
  <2>1. ASSUME NEW m \in S PROVE n - m \in Nat
    OBVIOUS
  <2>2. QED
    BY <2>1
<1>2. PICK b \in Below : \A c \in Below : ~(<<c, b>> \in OpToRel(<, Nat))
  BY <1>1, NatLessThanWellFounded, WFMin, Zenon
<1>3. \A c \in Below : b <= c
  <2>1. ASSUME NEW c \in Below, c < b PROVE FALSE
    <3>1. c \in Nat /\ b \in Nat
      BY <1>1, <1>2
    <3>2. <<c, b>> \in OpToRel(<, Nat)
      BY <2>1, <3>1 DEF OpToRel
    <3>3. QED
      BY <1>2, <3>2
  <2>2. ASSUME NEW c \in Below PROVE b <= c
    <3>1. c \in Nat /\ b \in Nat /\ ~(c < b)
      BY <1>1, <1>2, <2>1
    <3>2. QED
      BY <3>1
  <2>3. QED
    BY <2>2
<1>4. PICK h \in S : b = n - h
  BY <1>2
<1>5. \A m \in S : m <= h
  <2>1. ASSUME NEW m \in S PROVE m <= h
    <3>1. n - m \in Below
      OBVIOUS
    <3>2. b <= n - m /\ m \in Nat /\ h \in Nat
      BY <1>3, <3>1
    <3>3. QED
      BY <1>4, <3>2
  <2>2. QED
    BY <2>1
<1>6. QED
  BY <1>4, <1>5 DEF Highest

-----------------------------------------------------------------------------
(* What a command does to the projects and their shells *)

LEMMA ShapeFacts ==
  ASSUME Shape, Placed
  PROVE  /\ Sound(tabs) /\ Len(tabs) \in Nat /\ DOMAIN tabs = 1 .. Len(tabs)
         /\ place.tab \in DOMAIN tabs /\ place \in Placement /\ nextID \in Nat
         /\ DOMAIN panes = AllPanes(tabs)
         /\ ActivePane \in Active.panes /\ Active.panes \subseteq Ids
         /\ \A i \in DOMAIN tabs : tabs[i].panes \subseteq DOMAIN panes
<1>1. place.tab \in DOMAIN tabs /\ place \in Placement /\ Sound(tabs) /\ nextID \in Nat
  BY DEF Shape, Placed, Fits
<1>2. DOMAIN panes = AllPanes(tabs)
  BY DEF Shape
<1>3. \A i \in DOMAIN tabs : tabs[i].panes \subseteq AllPanes(tabs)
  BY <1>1, TabOf
<1>4. ActivePane \in Active.panes
  BY <1>1 DEF ActivePane, Active, Sound
<1>5. QED
  BY <1>1, <1>2, <1>3, <1>4, TabOf DEF Active

LEMMA LayoutStays ==
  ASSUME Shape, Placed, UNCHANGED <<tabs, panes, nextID>>, look' \in Looks,
         Fits(place', tabs), place'.tab = place.tab
  PROVE  Shape' /\ Placed'
  BY DEF Shape, Placed, Active

LEMMA FocusStep ==
  ASSUME Shape, Placed, NEW i \in DOMAIN tabs, NEW p \in tabs[i].panes,
         Changed(tabs, tabs', i, tabs[i].panes, p),
         UNCHANGED <<panes, nextID>>, look' \in Looks,
         Fits(place', tabs), place'.tab = place.tab
  PROVE  /\ Shape' /\ Placed' /\ Len(tabs') = Len(tabs) /\ DOMAIN tabs' = DOMAIN tabs
         /\ \A j \in DOMAIN tabs : tabs'[j].id = tabs[j].id /\ tabs'[j].panes = tabs[j].panes
         /\ tabs'[i].active = p
<1>1. Sound(tabs)
  BY DEF Shape
<1>3. /\ Sound(tabs') /\ Len(tabs') = Len(tabs) /\ DOMAIN tabs' = DOMAIN tabs
      /\ AllPanes(tabs') = AllPanes(tabs) /\ AllIds(tabs') \subseteq AllIds(tabs)
      /\ \A j \in DOMAIN tabs : tabs'[j].id = tabs[j].id /\ tabs'[j].panes = tabs[j].panes
      /\ tabs'[i].active = p
  BY <1>1, FocusedTabs
<1>4. Shape'
  BY <1>3 DEF Shape
<1>5. Placed'
  BY <1>3 DEF Placed, Active, Fits
<1>6. QED
  BY <1>3, <1>4, <1>5

(* Project i is shown, its shells are started, and it may get another active *)
(* pane.                                                                     *)
LEMMA ShowStep ==
  ASSUME Shape, Placed, NEW i \in DOMAIN tabs, NEW bad,
         tabs' = tabs \/ \E p \in tabs[i].panes : tabs' = [tabs EXCEPT ![i].active = p],
         panes' = Started(panes, tabs[i].panes, bad),
         UNCHANGED nextID, look' \in Looks, Fits(place', tabs), place'.tab = i
  PROVE  Shape' /\ Placed' /\ DOMAIN panes' = DOMAIN panes
<1>1. Sound(tabs) /\ tabs[i].panes \subseteq AllPanes(tabs)
  BY TabOf DEF Shape
<1>2. /\ Sound(tabs') /\ Len(tabs') = Len(tabs) /\ DOMAIN tabs' = DOMAIN tabs
      /\ AllPanes(tabs') = AllPanes(tabs) /\ AllIds(tabs') \subseteq AllIds(tabs)
      /\ tabs'[i].panes = tabs[i].panes
  <2>1. CASE tabs' = tabs
    BY <1>1, <2>1
  <2>2. CASE \E p \in tabs[i].panes : tabs' = [tabs EXCEPT ![i].active = p]
    <3>1. PICK p \in tabs[i].panes : tabs' = [tabs EXCEPT ![i].active = p]
      BY <2>2
    <3>2. p \in Ids
      BY <1>1, TabOf
    <3>3. Changed(tabs, tabs', i, tabs[i].panes, p)
      BY <1>1, <3>1, <3>2, FocusChanges
    <3>4. QED
      BY <1>1, <3>3, FocusedTabs
  <2>3. QED
    BY <2>1, <2>2
<1>3. panes' \in [AllPanes(tabs) -> Shells] /\ \A p \in tabs[i].panes : panes'[p] # "idle"
  BY <1>1, StartedShells DEF Shape
<1>4. Shape'
  BY <1>2, <1>3 DEF Shape
<1>5. Placed'
  BY <1>2, <1>3 DEF Placed, Active, Fits
<1>6. QED
  BY <1>3, <1>4, <1>5 DEF Shape

LEMMA SplitStep ==
  ASSUME Shape, Placed, NEW pl, Fits(pl, tabs), pl.tab = place.tab,
         SplitActive(pl), look' \in Looks
  PROVE  /\ Shape' /\ Placed' /\ DOMAIN panes \subseteq DOMAIN panes'
         /\ nextID' \in Nat /\ nextID <= nextID' /\ place'.mode = "navigate"
<1>1. Sound(tabs) /\ place.tab \in DOMAIN tabs /\ nextID \in 0 .. MaxId /\ MaxId \in Nat
      /\ AllIds(tabs) \subseteq 1 .. nextID /\ panes \in [AllPanes(tabs) -> Shells]
  BY BoundAssumption DEF Shape, Placed, Fits
<1>2. nextID' = nextID + 1 /\ nextID' \in Ids /\ nextID' \in 0 .. MaxId
      /\ nextID' \notin AllIds(tabs)
  BY <1>1 DEF SplitActive, Ids
<1>3. tabs[place.tab].panes \subseteq Ids
  BY <1>1, TabOf
<1>4. tabs' = [tabs EXCEPT ![place.tab].panes = tabs[place.tab].panes \cup {nextID'},
                           ![place.tab].active = nextID']
  BY DEF SplitActive
<1>5. Changed(tabs, tabs', place.tab, tabs[place.tab].panes \cup {nextID'}, nextID')
  BY <1>1, <1>2, <1>3, <1>4, PanesChange
<1>6. /\ Sound(tabs') /\ Len(tabs') = Len(tabs) /\ DOMAIN tabs' = DOMAIN tabs
      /\ AllPanes(tabs') = AllPanes(tabs) \cup {nextID'}
      /\ AllIds(tabs') \subseteq AllIds(tabs) \cup {nextID'}
  <2>1. ASSUME NEW i \in DOMAIN tabs, NEW n \in Ids, n \notin AllIds(tabs),
               Changed(tabs, tabs', i, tabs[i].panes \cup {n}, n)
        PROVE  /\ Sound(tabs') /\ Len(tabs') = Len(tabs) /\ DOMAIN tabs' = DOMAIN tabs
               /\ AllPanes(tabs') = AllPanes(tabs) \cup {n}
               /\ AllIds(tabs') \subseteq AllIds(tabs) \cup {n}
    BY <1>1, <2>1, SplitTabs
  <2>2. QED
    BY <1>1, <1>2, <1>5, <2>1
<1>7. PICK shell \in {"running", "dead"} :
        panes' = [p \in DOMAIN panes \cup {nextID'} |-> IF p = nextID' THEN shell ELSE panes[p]]
  BY DEF SplitActive
<1>8. panes' \in [AllPanes(tabs') -> Shells] /\ DOMAIN panes \subseteq DOMAIN panes'
  BY <1>1, <1>6, <1>7 DEF Shells
<1>9. AllIds(tabs') \subseteq 1 .. nextID'
  <2>1. 1 .. nextID \subseteq 1 .. nextID' /\ nextID' \in 1 .. nextID'
    BY <1>1, <1>2
  <2>2. QED
    BY <1>1, <1>6, <2>1
<1>10. Fits(place', tabs') /\ place'.tab = place.tab /\ place'.mode = "navigate"
  <2>1. Fits(place', tabs) /\ place'.tab = place.tab /\ place'.mode = "navigate"
    BY PanesFit DEF SplitActive
  <2>2. QED
    BY <1>6, <2>1 DEF Fits
<1>11. \A p \in tabs'[place.tab].panes : panes'[p] # "idle"
  <2>1. \A p \in tabs[place.tab].panes : p \in DOMAIN panes /\ panes[p] # "idle"
    BY <1>1, TabOf DEF Placed, Active
  <2>2. tabs'[place.tab].panes = tabs[place.tab].panes \cup {nextID'}
    BY <1>5 DEF Changed
  <2>3. QED
    BY <1>7, <2>1, <2>2
<1>12. Shape'
  BY <1>2, <1>6, <1>8, <1>9 DEF Shape
<1>13. Placed'
  BY <1>10, <1>11 DEF Placed, Active
<1>14. QED
  BY <1>1, <1>2, <1>8, <1>10, <1>12, <1>13

LEMMA AppendStep ==
  ASSUME Shape, Placed, AppendTab, look' \in Looks
  PROVE  /\ Shape' /\ DOMAIN panes \subseteq DOMAIN panes'
         /\ nextID' \in Nat /\ nextID <= nextID'
         /\ Len(tabs') \in DOMAIN tabs' /\ DOMAIN tabs' = 1 .. Len(tabs')
         /\ Len(tabs') \in Nat /\ Len(tabs') = Len(tabs) + 1
         /\ \A p \in tabs'[Len(tabs')].panes : panes'[p] # "idle"
<1> DEFINE n == nextID + 1
<1>1. Sound(tabs) /\ place.tab \in DOMAIN tabs /\ nextID \in 0 .. MaxId /\ MaxId \in Nat
      /\ AllIds(tabs) \subseteq 1 .. nextID /\ panes \in [AllPanes(tabs) -> Shells]
  BY BoundAssumption DEF Shape, Placed, Fits
<1>2. nextID' = nextID + 2 /\ nextID' \in Ids /\ nextID' \in 0 .. MaxId
      /\ n \in Ids /\ n # nextID' /\ n \notin AllIds(tabs) /\ nextID' \notin AllIds(tabs)
  BY <1>1 DEF AppendTab, Ids
<1>3. tabs' = Append(tabs, [id |-> nextID', panes |-> {n}, active |-> n])
  BY DEF AppendTab
<1>4. PICK shell \in {"running", "dead"} :
        panes' = [p \in DOMAIN panes \cup {n} |-> IF p = n THEN shell ELSE panes[p]]
  BY DEF AppendTab
<1>5. 1 .. nextID \subseteq 1 .. nextID' /\ n \in 1 .. nextID' /\ nextID' \in 1 .. nextID'
  BY <1>1, <1>2
<1> HIDE DEF n
<1>6. Grown(tabs, tabs', nextID', n)
  BY <1>1, <1>2, <1>3, AppendGrows
<1>7. /\ Sound(tabs') /\ Len(tabs') = Len(tabs) + 1 /\ DOMAIN tabs' = 1 .. Len(tabs')
      /\ AllPanes(tabs') = AllPanes(tabs) \cup {n} /\ AllIds(tabs') = AllIds(tabs) \cup {n, nextID'}
      /\ tabs'[Len(tabs')].panes = {n}
  BY <1>1, <1>2, <1>6, AppendedTabs
<1>8. Len(tabs) \in Nat
  BY <1>1, TabOf
<1>9. panes' \in [AllPanes(tabs') -> Shells] /\ DOMAIN panes \subseteq DOMAIN panes' /\ panes'[n] # "idle"
  BY <1>1, <1>4, <1>7 DEF Shells
<1>10. Shape'
  BY <1>1, <1>2, <1>5, <1>7, <1>9 DEF Shape
<1>11. QED
  BY <1>1, <1>2, <1>7, <1>8, <1>9, <1>10

(* Project i is closed, and project n of the rest is shown. *)
LEMMA DropStep ==
  ASSUME Shape, Placed, NEW i \in DOMAIN tabs, Len(tabs) > 1, tabs' = DropAt(tabs, i),
         NEW n \in Int, place'.tab = Clamp(n, 1, Len(tabs')), Fits(place', tabs'), NEW bad,
         panes' = Started(Bare(panes, tabs[i].panes), tabs'[place'.tab].panes, bad),
         UNCHANGED nextID, look' \in Looks
  PROVE  Shape' /\ Placed' /\ DOMAIN panes' = DOMAIN panes \ tabs[i].panes
<1>1. Sound(tabs) /\ nextID \in 0 .. MaxId /\ AllIds(tabs) \subseteq 1 .. nextID
      /\ panes \in [AllPanes(tabs) -> Shells]
  BY DEF Shape
<1>2. /\ Sound(tabs') /\ AllPanes(tabs') = AllPanes(tabs) \ tabs[i].panes
      /\ AllIds(tabs') \subseteq AllIds(tabs)
  BY <1>1, DroppedTabs
<1>3. Bare(panes, tabs[i].panes) \in [AllPanes(tabs') -> Shells]
  BY <1>1, <1>2, BareShells
<1>4. place'.tab \in DOMAIN tabs' /\ tabs'[place'.tab].panes \subseteq AllPanes(tabs')
  BY <1>2, TabOf DEF Fits
<1>5. /\ panes' \in [AllPanes(tabs') -> Shells]
      /\ \A p \in tabs'[place'.tab].panes : panes'[p] # "idle"
  <2>1. tabs'[place'.tab].panes \in SUBSET AllPanes(tabs')
    BY <1>4
  <2>2. QED
    <3>1. ASSUME NEW ps \in [AllPanes(tabs') -> Shells], NEW project \in SUBSET AllPanes(tabs')
          PROVE  /\ Started(ps, project, bad) \in [AllPanes(tabs') -> Shells]
                 /\ \A p \in project : Started(ps, project, bad)[p] # "idle"
      BY StartedShells
    <3>2. QED
      BY <1>3, <2>1, <3>1
<1>6. Shape'
  BY <1>1, <1>2, <1>5 DEF Shape
<1>7. Placed'
  BY <1>5 DEF Placed, Active
<1>8. QED
  BY <1>1, <1>2, <1>5, <1>6, <1>7

-----------------------------------------------------------------------------
(* What a command does to the selection and to what is saved *)

LEMMA SelectionStays ==
  ASSUME Marks, UNCHANGED markVars, DOMAIN panes \subseteq DOMAIN panes'
  PROVE  Marks'
  BY DEF Marks, OneSelection, markVars

LEMMA SelectionCleared ==
  ASSUME Marks, ClearSelection
  PROVE  Marks'
  BY DEF Marks, OneSelection, ClearSelection

LEMMA SelectionForgotten ==
  ASSUME Marks, NEW gone, ForgetSelection(gone), DOMAIN panes' = DOMAIN panes \ gone
  PROVE  Marks'
  BY DEF Marks, OneSelection, ForgetSelection

LEMMA SelectionCopied ==
  ASSUME Marks, NEW p \in selected, selected' = selected \ {p}, selection' = None
  PROVE  Marks'
  BY DEF Marks, OneSelection

LEMMA NowKeeps ==
  ASSUME Shape, Placed
  PROVE  Keeps(Now, nextID)
<1>1. Sound(tabs) /\ AllIds(tabs) \subseteq 1 .. nextID /\ look \in Looks /\ place.tab \in DOMAIN tabs
  BY DEF Shape, Placed, Fits
<1>2. QED
  BY <1>1, SnapshotKeeps DEF Now

(* persist, with the ids that are in use behind the counter. *)
LEMMA PersistKeeps ==
  ASSUME Shape, Kept, Shape', Placed', NEW midway, Persist(midway),
         nextID <= nextID', \A m \in midway : Keeps(m, nextID')
  PROVE  Kept'
<1>1. nextID \in Nat /\ nextID' \in Nat
  BY DEF Shape
<1>2. Keeps(saved, nextID')
  BY <1>1, KeepsMore DEF Kept
<1>3. Keeps(Now', nextID')
  <2>1. Sound(tabs') /\ AllIds(tabs') \subseteq 1 .. nextID' /\ look' \in Looks
        /\ place'.tab \in DOMAIN tabs'
    BY DEF Shape, Placed, Fits
  <2>2. QED
    BY <2>1, SnapshotKeeps DEF Now
<1>4. Save(Now', midway)
  BY DEF Persist, Now
<1>5. Keeps(saved', nextID') /\ unsaved' \in BOOLEAN /\ (~unsaved' => saved' = Now')
  BY <1>2, <1>3, <1>4, SaveKeeps
<1>6. QED
  BY <1>5 DEF Kept

LEMMA SavedStays ==
  ASSUME Kept, UNCHANGED <<tabs, nextID, look, drag, saveVars>>, place'.tab = place.tab
  PROVE  Kept'
<1>1. Now' = Now /\ Dragging' = Dragging /\ StaleDrag' = StaleDrag
  BY DEF Now, Dragging, StaleDrag, Active
<1>2. saved' = saved /\ unsaved' = unsaved /\ nextID' = nextID
  BY DEF saveVars
<1>3. QED
  BY <1>1, <1>2 DEF Kept

(* A click saves what a drag had changed, so that nothing depends on the drag. *)
LEMMA DragSaved ==
  ASSUME Shape, Placed, Kept, SaveDrag
  PROVE  Keeps(saved', nextID) /\ unsaved' \in BOOLEAN /\ (~unsaved' => saved' = Now)
<1>1. CASE Dragging
  <2>1. Save(Now, {})
    BY <1>1 DEF SaveDrag
  <2>2. QED
    BY <2>1, NowKeeps, SaveKeeps DEF Kept
<1>2. CASE ~Dragging
  BY <1>2 DEF SaveDrag, saveVars, Kept
<1>3. QED
  BY <1>1, <1>2

LEMMA DragSavedStays ==
  ASSUME Shape, Placed, Kept, SaveDrag, UNCHANGED <<tabs, nextID, look>>, place'.tab = place.tab
  PROVE  Kept'
<1>1. Now' = Now
  BY DEF Now
<1>2. QED
  BY <1>1, DragSaved DEF Kept

LEMMA MidwayKeeps ==
  ASSUME Shape, Placed
  PROVE  \A m \in Midway : Keeps(m, nextID)
  BY NowKeeps DEF Midway

-----------------------------------------------------------------------------
(* The commands that keys and menus share *)

LEMMA CloseStep ==
  ASSUME Together, NEW pl, Fits(pl, tabs), pl.tab = place.tab, CloseActivePane(pl), UNCHANGED drag
  PROVE  Together'
<1>1. /\ Shape /\ Placed /\ Marks /\ Kept /\ Sound(tabs) /\ place.tab \in DOMAIN tabs
      /\ UNCHANGED <<nextID, look>> /\ look' \in Looks /\ nextID \in Nat /\ nextID <= nextID'
      /\ panes \in [AllPanes(tabs) -> Shells]
  BY DEF Together, Shape, Placed, Fits, CloseActivePane
<1>2. CASE KeepLastPane(pl)
  <2>1. UNCHANGED <<tabs, panes, markVars, saveVars>> /\ place' = InPanes(pl)
    BY <1>2 DEF KeepLastPane
  <2>2. Fits(place', tabs) /\ place'.tab = place.tab
    BY <2>1, PanesFit
  <2>3. QED
    BY <1>1, <2>1, <2>2, LayoutStays, SelectionStays, SavedStays DEF Together
<1>3. CASE CloseOnlyPane(pl)
  <2> DEFINE next == Clamp(place.tab, 1, Len(tabs'))
  <2>1. /\ Active.panes = {ActivePane} /\ Len(tabs) > 1 /\ tabs' = DropAt(tabs, place.tab)
        /\ place' = [Mode(pl, "navigate") EXCEPT !.tab = next, !.cursor = next]
        /\ ForgetSelection({ActivePane}) /\ Persist({})
    BY <1>3 DEF CloseOnlyPane
  <2>2. PICK bad : panes' = Started(Bare(panes, {ActivePane}), tabs'[next].panes, bad)
    BY <1>3 DEF CloseOnlyPane
  <2>3. tabs[place.tab].panes = {ActivePane}
    BY <2>1 DEF Active
  <2>4. Len(tabs') = Len(tabs) - 1 /\ DOMAIN tabs' = 1 .. Len(tabs') /\ Len(tabs) \in Nat
        /\ place.tab \in Nat
    <3>1. Len(tabs') = Len(tabs) - 1 /\ DOMAIN tabs' = 1 .. Len(tabs')
      BY <1>1, <2>1, DroppedTabs
    <3>2. DOMAIN tabs = 1 .. Len(tabs) /\ Len(tabs) \in Nat
      BY <1>1, TabOf
    <3>3. QED
      BY <1>1, <3>1, <3>2
  <2>5. next \in DOMAIN tabs' /\ next \in Nat \ {0} /\ next <= Len(tabs') + 1
    <3>1. next \in 1 .. Len(tabs')
      <4>1. 1 \in Int /\ Len(tabs') \in Int /\ 1 <= Len(tabs') /\ place.tab \in Int
        BY <2>1, <2>4
      <4>2. QED
        BY <4>1, ClampRange
    <3>2. QED
      BY <2>4, <3>1
  <2> HIDE DEF next
  <2>6. Fits(place', tabs') /\ place'.tab = next
    <3>1. Mode(pl, "navigate") \in Placement
      BY ModeFits DEF Modes, Fits
    <3>2. QED
      BY <2>1, <2>5, <3>1 DEF Fits, Placement
  <2>7. Shape' /\ Placed' /\ DOMAIN panes' = DOMAIN panes \ {ActivePane}
    <3>1. panes' = Started(Bare(panes, tabs[place.tab].panes), tabs'[place'.tab].panes, bad)
      BY <2>2, <2>3, <2>6
    <3>2. place'.tab = Clamp(place.tab, 1, Len(tabs')) /\ place.tab \in Int
      BY <2>4, <2>6 DEF next
    <3>3. Shape' /\ Placed' /\ DOMAIN panes' = DOMAIN panes \ tabs[place.tab].panes
      BY <1>1, <2>1, <2>6, <3>1, <3>2, DropStep
    <3>4. QED
      BY <2>3, <3>3
  <2>8. Marks'
    BY <1>1, <2>1, <2>7, SelectionForgotten
  <2>9. Kept'
    BY <1>1, <2>1, <2>7, PersistKeeps
  <2>10. QED
    BY <2>7, <2>8, <2>9 DEF Together
<1>4. CASE CloseOneOfMany(pl)
  <2>1. PICK first \in Active.panes \ {ActivePane} :
          tabs' = [tabs EXCEPT ![place.tab].panes = @ \ {ActivePane}, ![place.tab].active = first]
    BY <1>4 DEF CloseOneOfMany
  <2>2. /\ panes' = Bare(panes, {ActivePane}) /\ place' = InPanes(pl)
        /\ ForgetSelection({ActivePane}) /\ Persist({})
    BY <1>4 DEF CloseOneOfMany
  <2>3. /\ ActivePane \in tabs[place.tab].panes /\ tabs[place.tab].panes \subseteq Ids
        /\ first \in tabs[place.tab].panes \ {ActivePane}
    BY <1>1, ShapeFacts DEF Active
  <2>4. Changed(tabs, tabs', place.tab, tabs[place.tab].panes \ {ActivePane}, first)
    <3>1. tabs' = [tabs EXCEPT ![place.tab].panes = tabs[place.tab].panes \ {ActivePane},
                               ![place.tab].active = first]
      BY <2>1
    <3>2. first \in Ids /\ tabs[place.tab].panes \ {ActivePane} \in SUBSET Ids
      BY <2>3
    <3>3. QED
      BY <1>1, <3>1, <3>2, PanesChange
  <2>5. /\ Sound(tabs') /\ Len(tabs') = Len(tabs) /\ DOMAIN tabs' = DOMAIN tabs
        /\ AllPanes(tabs') = AllPanes(tabs) \ {ActivePane} /\ AllIds(tabs') \subseteq AllIds(tabs)
    <3>1. ASSUME NEW i \in DOMAIN tabs, NEW n \in tabs[i].panes, NEW p \in tabs[i].panes \ {n},
                 Changed(tabs, tabs', i, tabs[i].panes \ {n}, p)
          PROVE  /\ Sound(tabs') /\ Len(tabs') = Len(tabs) /\ DOMAIN tabs' = DOMAIN tabs
                 /\ AllPanes(tabs') = AllPanes(tabs) \ {n} /\ AllIds(tabs') \subseteq AllIds(tabs)
      BY <1>1, <3>1, ClosedTabs
    <3>2. QED
      BY <1>1, <2>3, <2>4, <3>1
  <2>6. panes' \in [AllPanes(tabs') -> Shells] /\ \A p \in DOMAIN panes' : panes'[p] = panes[p]
    BY <1>1, <2>2, <2>5 DEF Bare
  <2>7. Shape'
    BY <1>1, <2>5, <2>6 DEF Shape
  <2>8. Placed'
    <3>1. Fits(place', tabs) /\ place'.tab = place.tab
      BY <2>2, PanesFit
    <3>2. tabs'[place.tab].panes \subseteq tabs[place.tab].panes
          /\ tabs'[place.tab].panes \subseteq DOMAIN panes'
      BY <1>1, <2>4, <2>5, <2>6, TabOf DEF Changed
    <3>3. QED
      BY <1>1, <2>5, <2>6, <3>1, <3>2 DEF Placed, Fits, Active
  <2>9. Marks'
    <3>1. DOMAIN panes' = DOMAIN panes \ {ActivePane}
      BY <2>2 DEF Bare
    <3>2. QED
      BY <1>1, <2>2, <3>1, SelectionForgotten
  <2>10. Kept'
    BY <1>1, <2>2, <2>7, <2>8, PersistKeeps
  <2>11. QED
    BY <2>7, <2>8, <2>9, <2>10 DEF Together
<1>5. QED
  BY <1>2, <1>3, <1>4 DEF CloseActivePane

LEMMA SwapStep ==
  ASSUME Together, NEW pl, Fits(pl, tabs), pl.tab = place.tab, UNCHANGED drag,
         SwapActivePane(pl) \/ BalanceActiveLayout(pl)
  PROVE  Together'
<1>1. /\ Shape /\ Placed /\ Marks /\ Kept
      /\ UNCHANGED <<tabs, panes, nextID, markVars>> /\ nextID \in Nat /\ nextID <= nextID'
  BY DEF Together, Shape, SwapActivePane, BalanceActiveLayout
<1>2. (Persist({}) /\ look' \in Looks) \/ UNCHANGED <<look, saveVars>>
  BY DEF SwapActivePane, BalanceActiveLayout
<1>3. Fits(place', tabs) /\ place'.tab = place.tab
  BY ModeFits, PanesFit DEF SwapActivePane, BalanceActiveLayout, Modes
<1>4. Shape' /\ Placed'
  <2>1. look' \in Looks
    BY <1>1, <1>2 DEF Shape
  <2>2. QED
    BY <1>1, <1>3, <2>1, LayoutStays
<1>5. Marks'
  BY <1>1, SelectionStays
<1>6. Kept'
  BY <1>1, <1>2, <1>3, <1>4, PersistKeeps, SavedStays
<1>7. QED
  BY <1>4, <1>5, <1>6 DEF Together

(* splitActive, and a project at the end: the counter goes on. *)
LEMMA SplitTogether ==
  ASSUME Together, NEW pl, Fits(pl, tabs), pl.tab = place.tab, SplitActive(pl),
         UNCHANGED look, Persist({})
  PROVE  Together'
<1>1. Shape /\ Placed /\ Marks /\ Kept /\ look' \in Looks
  BY DEF Together, Shape
<1>2. Shape' /\ Placed' /\ DOMAIN panes \subseteq DOMAIN panes' /\ nextID <= nextID'
  BY <1>1, SplitStep
<1>3. Marks'
  BY <1>1, <1>2, SelectionStays DEF SplitActive
<1>4. Kept'
  BY <1>1, <1>2, PersistKeeps
<1>5. QED
  BY <1>2, <1>3, <1>4 DEF Together

LEMMA AppendTogether ==
  ASSUME Together, NEW pl \in Placement, AppendTab, UNCHANGED look,
         UNCHANGED markVars \/ ClearSelection, NEW midway, Persist(midway),
         \A m \in midway : Keeps(m, nextID),
         \/ place' = AtTab(pl, Len(tabs'))
         \/ place' = InSidebar(AtTab(pl, Len(tabs')), Len(tabs'), tabs')
  PROVE  Together'
<1>1. Shape /\ Placed /\ Marks /\ Kept /\ look' \in Looks /\ nextID \in Nat
  BY DEF Together, Shape
<1>2. /\ Shape' /\ DOMAIN panes \subseteq DOMAIN panes' /\ nextID' \in Nat /\ nextID <= nextID'
      /\ Len(tabs') \in DOMAIN tabs' /\ DOMAIN tabs' = 1 .. Len(tabs') /\ Len(tabs') \in Nat
      /\ \A p \in tabs'[Len(tabs')].panes : panes'[p] # "idle"
  BY <1>1, AppendStep
<1>3. Fits(place', tabs') /\ place'.tab = Len(tabs')
  <2>1. Fits(AtTab(pl, Len(tabs')), tabs') /\ AtTab(pl, Len(tabs')).tab = Len(tabs')
    BY <1>2, TabFits
  <2>2. AtTab(pl, Len(tabs')) \in Placement /\ Len(tabs') \in Int
    BY <1>2, <2>1 DEF Fits
  <2>3. /\ Fits(InSidebar(AtTab(pl, Len(tabs')), Len(tabs'), tabs'), tabs')
        /\ InSidebar(AtTab(pl, Len(tabs')), Len(tabs'), tabs').tab = Len(tabs')
    BY <1>2, <2>1, <2>2, SidebarFits
  <2>4. QED
    BY <2>1, <2>3
<1>4. Placed'
  BY <1>2, <1>3 DEF Placed, Active
<1>5. Marks'
  BY <1>1, <1>2, SelectionStays, SelectionCleared
<1>6. Kept'
  <2>1. \A m \in midway : Keeps(m, nextID')
    BY <1>1, <1>2, KeepsMore
  <2>2. QED
    BY <1>1, <1>2, <1>4, <2>1, PersistKeeps
<1>7. QED
  BY <1>2, <1>4, <1>5, <1>6 DEF Together

(* Another project is shown, from the keyboard or by a click. *)
LEMMA ShowTogether ==
  ASSUME Together, NEW i \in DOMAIN tabs, ShowTab(i),
         UNCHANGED markVars \/ ClearSelection, NEW midway, Persist(midway),
         \A m \in midway : Keeps(m, nextID),
         place' = AtTab(place, i) \/ place' = InSidebar(AtTab(place, i), i, tabs)
  PROVE  Together'
<1>1. Shape /\ Placed /\ Marks /\ Kept
  BY DEF Together
<1>2. /\ Len(tabs) \in Nat /\ DOMAIN tabs = 1 .. Len(tabs) /\ place \in Placement
      /\ nextID \in Nat /\ UNCHANGED <<tabs, nextID, look>> /\ look' \in Looks
      /\ nextID <= nextID' /\ i \in Int
  BY <1>1, ShapeFacts DEF ShowTab, Shape
<1>3. Fits(place', tabs) /\ place'.tab = i
  <2>1. Fits(AtTab(place, i), tabs) /\ AtTab(place, i).tab = i
    BY <1>2, TabFits
  <2>2. AtTab(place, i) \in Placement
    BY <2>1 DEF Fits
  <2>3. /\ Fits(InSidebar(AtTab(place, i), i, tabs), tabs)
        /\ InSidebar(AtTab(place, i), i, tabs).tab = i
    BY <1>2, <2>1, <2>2, SidebarFits
  <2>4. QED
    BY <2>1, <2>3
<1>4. PICK bad : panes' = Started(panes, tabs[i].panes, bad)
  BY DEF ShowTab
<1>5. Shape' /\ Placed' /\ DOMAIN panes' = DOMAIN panes
  BY <1>1, <1>2, <1>3, <1>4, ShowStep
<1>6. Marks'
  BY <1>1, <1>5, SelectionStays, SelectionCleared
<1>7. Kept'
  BY <1>1, <1>2, <1>5, PersistKeeps
<1>8. QED
  BY <1>5, <1>6, <1>7 DEF Together

(* The focus, a mode or the look changes, and the projects do not. *)
LEMMA StaysTogether ==
  ASSUME Together, UNCHANGED <<tabs, panes, nextID>>, look' \in Looks,
         UNCHANGED markVars \/ ClearSelection
           \/ \E p \in selected : selected' = selected \ {p} /\ selection' = None,
         Fits(place', tabs), place'.tab = place.tab,
         Kept' \/ Persist({})
  PROVE  Together'
<1>1. Shape /\ Placed /\ Marks /\ Kept /\ nextID \in Nat /\ nextID <= nextID'
  BY DEF Together, Shape
<1>2. Shape' /\ Placed'
  BY <1>1, LayoutStays
<1>3. Marks'
  BY <1>1, SelectionStays, SelectionCleared, SelectionCopied
<1>4. Kept'
  BY <1>1, <1>2, PersistKeeps
<1>5. QED
  BY <1>2, <1>3, <1>4 DEF Together

(* The pane that has the focus changes within its project. *)
LEMMA FocusTogether ==
  ASSUME Together, NEW p \in Active.panes, tabs' = [tabs EXCEPT ![place.tab].active = p],
         UNCHANGED <<panes, nextID, look>>, Fits(place', tabs), place'.tab = place.tab,
         Marks', \/ Kept'
                        \/ \E midway : Persist(midway) /\ \A m \in midway : Keeps(m, nextID)
  PROVE  Together' /\ ActivePane' = p
<1>1. Shape /\ Placed /\ Kept /\ nextID \in Nat /\ nextID <= nextID' /\ look' \in Looks
      /\ place.tab \in DOMAIN tabs /\ p \in tabs[place.tab].panes /\ Sound(tabs)
  BY DEF Together, Shape, Placed, Fits, Active
<1>2. Changed(tabs, tabs', place.tab, tabs[place.tab].panes, p)
  <2>1. p \in Ids
    BY <1>1, TabOf
  <2>2. QED
    BY <1>1, <2>1, FocusChanges
<1>3. /\ Shape' /\ Placed' /\ tabs'[place.tab].active = p
  BY <1>1, <1>2, FocusStep
<1>4. Kept'
  BY <1>1, <1>3, PersistKeeps
<1>5. QED
  BY <1>3, <1>4 DEF Together, ActivePane, Active

-----------------------------------------------------------------------------
(* Every message of the user keeps projects, shells and snapshot together *)

LEMMA KeyStep ==
  ASSUME Together, Key
  PROVE  Together'
<1>1. /\ Shape /\ Placed /\ Marks /\ Kept /\ look \in Looks
      /\ Fits(place, tabs) /\ place \in Placement /\ place.tab \in DOMAIN tabs
  BY DEF Together, Shape, Placed, Fits
<1>2. "navigate" \in Modes /\ "terminal" \in Modes /\ "prefix" \in Modes
      /\ "panes" \in Areas /\ "sidebar" \in Areas /\ place.before \in Modes
  BY <1>1 DEF Modes, Areas, Placement
<1>3. DOMAIN tabs = 1 .. Len(tabs) /\ Len(tabs) \in Nat /\ place.cursor \in Nat \ {0}
      /\ place.cursor <= Len(tabs) + 1 /\ place.tab \in Nat \ {0}
  BY <1>1, ShapeFacts DEF Fits, Placement
<1>modes. \A pl \in {Mode(place, place.before), Mode(place, "terminal"), Mode(place, "navigate"),
                   InPanes(place)} : Fits(pl, tabs) /\ pl.tab = place.tab
  <2>1. \A mode \in Modes : Fits(Mode(place, mode), tabs) /\ Mode(place, mode).tab = place.tab
    BY <1>1, ModeFits
  <2>2. Fits(InPanes(place), tabs) /\ InPanes(place).tab = place.tab
    BY <1>1, PanesFit
  <2>3. QED
    BY <1>2, <2>1, <2>2
<1> DEFINE Rest == /\ UNCHANGED <<tabs, panes, nextID, look, saveVars, restVars>>
                   /\ Fits(place', tabs) /\ place'.tab = place.tab
                   /\ \/ UNCHANGED markVars \/ ClearSelection
                      \/ \E p \in selected : selected' = selected \ {p} /\ selection' = None
<1>4. ASSUME Rest PROVE Together'
  <2>1. Kept'
    BY <1>1, <1>4, SavedStays DEF restVars
  <2>2. QED
    BY <1>1, <1>4, <2>1, StaysTogether
<1> HIDE DEF Rest
<1>5. CASE CopyKey \/ TypeKey
  BY <1>1, <1>4, <1>5 DEF Rest, CopyKey, CopySelection, TypeKey
<1>6. CASE PrefixFromTerminal \/ PrefixFromNavigation
  <2>1. PICK before \in {"terminal", "navigate"} :
          place' = [place EXCEPT !.before = before, !.mode = "prefix"]
    BY <1>6 DEF PrefixFromTerminal, PrefixFromNavigation
  <2>2. Fits(place', tabs) /\ place'.tab = place.tab
    BY <1>1, <2>1 DEF Fits, Placement, Modes
  <2>3. QED
    BY <1>4, <1>6, <2>2 DEF Rest, PrefixFromTerminal, PrefixFromNavigation
<1>7. CASE LeavePrefix
  <2>1. Fits(place', tabs) /\ place'.tab = place.tab
    BY <1>7, <1>modes DEF LeavePrefix
  <2>2. QED
    BY <1>4, <1>7, <2>1 DEF Rest, LeavePrefix
<1>8. CASE PrefixSplit
  BY <1>1, <1>8, SplitTogether DEF PrefixSplit
<1>9. CASE PrefixNewTab
  BY <1>1, <1>9, AppendTogether DEF PrefixNewTab
<1>10. CASE PrefixClose
  BY <1>1, <1>10, CloseStep DEF PrefixClose, restVars
<1>11. CASE PrefixSwap \/ PrefixBalance
  BY <1>1, <1>11, SwapStep DEF PrefixSwap, PrefixBalance, restVars
<1>12. CASE SwitchTab
  <2>1. PICK i \in {(place.tab % Len(tabs)) + 1, ((place.tab + Len(tabs) - 2) % Len(tabs)) + 1} :
          ShowTab(i) /\ place' = AtTab(place, i)
    BY <1>12 DEF SwitchTab
  <2>2. UNCHANGED markVars /\ Persist({}) /\ Len(tabs) > 1
    BY <1>12 DEF SwitchTab
  <2>3. i \in DOMAIN tabs
    BY <1>3, <2>1, <2>2
  <2>4. QED
    BY <1>1, <2>1, <2>2, <2>3, ShowTogether
<1>13. CASE ToggleSidebar
  <2>1. Fits(place', tabs) /\ place'.tab = place.tab
    BY <1>13, <1>modes DEF ToggleSidebar
  <2>2. QED
    BY <1>1, <1>13, <2>1, StaysTogether DEF ToggleSidebar
<1>14. CASE TabKey
  <2>1. place' \in {[place EXCEPT !.focus = "sidebar", !.cursor = place.tab],
                    [place EXCEPT !.focus = "panes"]}
    BY <1>14 DEF TabKey
  <2>2. Fits(place', tabs) /\ place'.tab = place.tab
    <3>1. place.tab <= Len(tabs) + 1
      BY <1>1, <1>3
    <3>2. QED
      BY <1>1, <1>2, <1>3, <2>1, <3>1 DEF Fits, Placement
  <2>3. QED
    BY <1>4, <1>14, <2>2 DEF Rest, TabKey
<1>15. CASE EnterPane
  BY <1>1, <1>2, <1>4, <1>15, ModeFits DEF Rest, EnterPane
<1>16. CASE EnterSidebar
  <2>1. UNCHANGED markVars /\ Persist({})
    BY <1>16 DEF EnterSidebar
  <2>2. CASE place.cursor = Len(tabs) + 1
    BY <1>1, <1>16, <2>1, <2>2, AppendTogether DEF EnterSidebar
  <2>3. CASE place.cursor # Len(tabs) + 1
    <3>1. place.cursor \in DOMAIN tabs
      BY <1>3, <2>3
    <3>2. ShowTab(place.cursor) /\ place' = AtTab(place, place.cursor)
      BY <1>16, <2>3 DEF EnterSidebar
    <3>3. QED
      BY <1>1, <2>1, <3>1, <3>2, ShowTogether
  <2>4. QED
    BY <2>2, <2>3
<1>17. CASE MoveCursor
  <2>1. PICK step \in {place.cursor - 1, place.cursor + 1} :
          place' = [place EXCEPT !.cursor = Clamp(step, 1, Len(tabs) + 1)]
    BY <1>17 DEF MoveCursor
  <2>2. Clamp(step, 1, Len(tabs) + 1) \in 1 .. Len(tabs) + 1
    <3>1. step \in Int /\ 1 \in Int /\ Len(tabs) + 1 \in Int /\ 1 <= Len(tabs) + 1
      BY <1>3
    <3>2. QED
      BY <3>1, ClampRange
  <2>3. Fits(place', tabs) /\ place'.tab = place.tab
    BY <1>1, <1>3, <2>1, <2>2, CursorFits
  <2>4. QED
    BY <1>4, <1>17, <2>3 DEF Rest, MoveCursor
<1>18. CASE MovePaneFocus
  <2>1. PICK p \in Active.panes \ {ActivePane} : tabs' = [tabs EXCEPT ![place.tab].active = p]
    BY <1>18 DEF MovePaneFocus
  <2>2. UNCHANGED <<panes, nextID, place, look, markVars>> /\ Persist({})
    BY <1>18 DEF MovePaneFocus
  <2>3. Marks'
    BY <1>1, <2>2, SelectionStays
  <2>4. p \in Active.panes /\ Fits(place', tabs) /\ place'.tab = place.tab
        /\ UNCHANGED <<panes, nextID, look>>
        /\ \E midway : Persist(midway) /\ \A m \in midway : Keeps(m, nextID)
    BY <1>1, <2>2
  <2>5. QED
    BY <2>1, <2>3, <2>4, FocusTogether
<1>19. QED
  BY <1>5, <1>6, <1>7, <1>8, <1>9, <1>10, <1>11, <1>12, <1>13, <1>14, <1>15, <1>16, <1>17, <1>18
  DEF Key

(* A click that begins, ends or leaves a drag and changes no project. *)
LEMMA ClickTogether ==
  ASSUME Together, UNCHANGED <<tabs, panes, nextID, look>>, SaveDrag,
         \/ UNCHANGED markVars \/ ClearSelection
         \/ \E p \in selected : selected' = selected \ {p} /\ selection' = None,
         NEW button, \/ place' = Entry(button)
                     \/ \E n \in Int : place' = InSidebar(Entry(button), n, tabs)
  PROVE  Together'
<1>1. Shape /\ Placed /\ Kept /\ Fits(place, tabs) /\ look' \in Looks
  BY DEF Together, Shape, Placed
<1>2. Fits(Entry(button), tabs) /\ Entry(button).tab = place.tab
  BY <1>1, EntryFits
<1>3. Entry(button) \in Placement /\ Entry(button).tab \in DOMAIN tabs /\ Len(tabs) \in Nat
  BY <1>1, <1>2, ShapeFacts DEF Fits
<1>4. Fits(place', tabs) /\ place'.tab = place.tab
  BY <1>2, <1>3, SidebarFits
<1>5. Kept'
  BY <1>1, <1>4, DragSavedStays
<1>6. QED
  BY <1>1, <1>4, <1>5, StaysTogether

LEMMA BeginPaneDragStep ==
  ASSUME Together, NEW p, BeginPaneDrag(p)
  PROVE  Together'
<1>1. /\ Shape /\ Placed /\ Kept /\ Marks /\ Fits(place, tabs) /\ Sound(tabs)
      /\ place.tab \in DOMAIN tabs
  BY DEF Together, Shape, Placed, Fits
<1>2. /\ p \in Active.panes /\ SaveDrag /\ ClearSelection /\ UNCHANGED <<panes, nextID, look>>
      /\ tabs' = [tabs EXCEPT ![place.tab].active = p]
      /\ drag' = [kind |-> "pane", held |-> TRUE, own |-> TRUE, project |-> Active.id, pane |-> p]
  BY DEF BeginPaneDrag
<1>3. Fits(place', tabs) /\ place'.tab = place.tab
  <2>1. Fits(Entry("right"), tabs) /\ Entry("right").tab = place.tab /\ Entry("right").mode \in Modes
    BY <1>1, EntryFits
  <2>2. PICK mode \in Modes : place' = [Mode(Entry("right"), mode) EXCEPT !.focus = "panes"]
    BY <2>1 DEF BeginPaneDrag, Modes
  <2>3. Fits(Mode(Entry("right"), mode), tabs) /\ Mode(Entry("right"), mode).tab = place.tab
    BY <2>1, ModeFits
  <2>4. QED
    BY <2>2, <2>3, FocusFits DEF Areas
<1>4. Marks'
  BY <1>1, <1>2, SelectionCleared
<1>5. Kept'
  <2>1. Keeps(saved', nextID') /\ unsaved' \in BOOLEAN
    BY <1>1, <1>2, DragSaved
  <2>2. drag'.kind = "pane" /\ drag'.project = tabs[place.tab].id /\ drag'.pane = p
    BY <1>2 DEF Active
  <2>3. p \in Ids
    BY <1>1, <1>2, ShapeFacts
  <2>4. tabs'[place.tab].id = tabs[place.tab].id /\ p \in tabs'[place.tab].panes
    <3>1. Changed(tabs, tabs', place.tab, tabs[place.tab].panes, p)
      BY <1>1, <1>2, <2>3, FocusChanges
    <3>2. QED
      BY <1>2, <3>1 DEF Changed, Active
  <2>5. Active'.id = drag'.project /\ drag'.pane \in Active'.panes
    BY <1>3, <2>2, <2>4 DEF Active
  <2>6. Dragging' /\ ~StaleDrag'
    BY <2>2, <2>5 DEF Dragging, StaleDrag
  <2>7. QED
    BY <2>1, <2>6 DEF Kept
<1>6. QED
  BY <1>1, <1>2, <1>3, <1>4, <1>5, FocusTogether

LEMMA SelectAgentStep ==
  ASSUME Together, NEW i \in DOMAIN tabs, NEW p, SelectAgent(i, p)
  PROVE  Together'
<1>1. /\ Shape /\ Placed /\ Kept /\ Marks /\ nextID \in Nat
      /\ Sound(tabs) /\ AllIds(tabs) \subseteq 1 .. nextID /\ look \in Looks
      /\ DOMAIN tabs = 1 .. Len(tabs) /\ Len(tabs) \in Nat /\ place \in Placement /\ i \in Int
  BY ShapeFacts DEF Together, Shape
<1>2. PICK bad : panes' = Started(panes, tabs[i].panes, bad)
  BY DEF SelectAgent
<1>3. /\ p \in tabs[i].panes /\ tabs' = [tabs EXCEPT ![i].active = p] /\ ClearSelection
      /\ UNCHANGED <<nextID, look>> /\ Persist(Midway \cup {Snapshot(tabs, i, look)})
      /\ place' = InSidebar(AtTab(place, i), i, tabs) /\ nextID <= nextID'
  BY <1>1 DEF SelectAgent
<1>4. Fits(place', tabs) /\ place'.tab = i
  <2>1. Fits(AtTab(place, i), tabs) /\ AtTab(place, i).tab = i
    BY <1>1, TabFits
  <2>2. AtTab(place, i) \in Placement
    BY <2>1 DEF Fits
  <2>3. QED
    BY <1>1, <1>3, <2>1, <2>2, SidebarFits
<1>5. tabs' = tabs \/ \E q \in tabs[i].panes : tabs' = [tabs EXCEPT ![i].active = q]
  BY <1>3
<1>6. look' \in Looks /\ UNCHANGED nextID
  BY <1>1, <1>3
<1>7. Shape' /\ Placed' /\ DOMAIN panes' = DOMAIN panes
  BY <1>1, <1>2, <1>4, <1>5, <1>6, ShowStep
<1>8. Marks'
  BY <1>1, <1>3, SelectionCleared
<1>9. Kept'
  <2>1. Keeps(Snapshot(tabs, i, look), nextID)
    BY <1>1, SnapshotKeeps
  <2>2. \A m \in Midway \cup {Snapshot(tabs, i, look)} : Keeps(m, nextID')
    BY <1>1, <1>3, <2>1, MidwayKeeps
  <2>3. QED
    BY <1>1, <1>3, <1>7, <2>2, PersistKeeps
<1>10. QED
  BY <1>7, <1>8, <1>9 DEF Together

LEMMA FocusPaneStep ==
  ASSUME Together, NEW p, FocusPane(p) \/ OpenPaneMenu(p)
  PROVE  Together' /\ ActivePane' = p
<1>1. /\ Shape /\ Placed /\ Kept /\ Marks /\ Fits(place, tabs)
      /\ DOMAIN panes = AllPanes(tabs) /\ Active.panes \subseteq DOMAIN panes
  BY ShapeFacts DEF Together, Placed, Active
<1>2. /\ p \in Active.panes /\ UNCHANGED <<panes, nextID, look>>
      /\ tabs' = [tabs EXCEPT ![place.tab].active = p] /\ Persist(Midway)
  BY DEF FocusPane, OpenPaneMenu
<1>3. Fits(place', tabs) /\ place'.tab = place.tab
  <2>1. \A button : Fits(Entry(button), tabs) /\ Entry(button).tab = place.tab
    BY <1>1, EntryFits
  <2>2. CASE OpenPaneMenu(p)
    BY <2>1, <2>2, PanesFit DEF OpenPaneMenu
  <2>3. CASE FocusPane(p)
    <3>1. PICK mode \in Modes : place' = [Mode(Entry("left"), mode) EXCEPT !.focus = "panes"]
      BY <2>3 DEF FocusPane, Modes
    <3>2. Fits(Mode(Entry("left"), mode), tabs) /\ Mode(Entry("left"), mode).tab = place.tab
      BY <2>1, ModeFits
    <3>3. QED
      BY <3>1, <3>2, FocusFits DEF Areas
  <2>4. QED
    BY <2>2, <2>3
<1>4. Marks'
  <2>1. CASE ClearSelection
    BY <1>1, <2>1, SelectionCleared
  <2>2. CASE selection' = p /\ selected' = (selected \ {selection}) \cup {p}
    BY <1>1, <1>2, <2>2, ShapeFacts DEF Marks, OneSelection, Ids, None
  <2>3. QED
    BY <2>1, <2>2 DEF FocusPane, OpenPaneMenu
<1>5. \A m \in Midway : Keeps(m, nextID)
  BY <1>1, MidwayKeeps
<1>6. QED
  BY <1>2, <1>3, <1>4, <1>5, FocusTogether

(* The motion and the end of a resize. *)
LEMMA ResizeStep ==
  ASSUME Together, ResizeMotion \/ ResizeRelease \/ ResizeEnds
  PROVE  Together'
<1>1. /\ Shape /\ Placed /\ Kept /\ Fits(place, tabs) /\ look \in Looks
  BY DEF Together, Shape, Placed
<1>2. UNCHANGED <<tabs, panes, nextID, place, markVars>> /\ Dragging
  BY DEF ResizeMotion, ResizeRelease, ResizeEnds
<1>3. CASE StaleDrag /\ UNCHANGED <<look, saveVars>>
  <2>1. Now' = Now /\ saved' = saved /\ unsaved' = unsaved
    BY <1>2, <1>3 DEF Now, saveVars
  <2>2. Kept'
    BY <1>1, <1>2, <1>3, <2>1 DEF Kept
  <2>3. QED
    BY <1>1, <1>2, <1>3, <2>2, StaysTogether
<1>4. CASE ~StaleDrag /\ look' \in Looks /\ UNCHANGED <<drag, saveVars>>
  <2>1. Dragging' /\ ~StaleDrag'
    BY <1>2, <1>4 DEF Dragging, StaleDrag, Active
  <2>2. Kept'
    BY <1>1, <1>2, <1>4, <2>1 DEF Kept, saveVars
  <2>3. QED
    BY <1>1, <1>2, <1>4, <2>2, StaysTogether
<1>5. CASE look' \in Looks /\ Persist({})
  BY <1>1, <1>2, <1>5, StaysTogether
<1>6. QED
  BY <1>1, <1>3, <1>4, <1>5 DEF ResizeMotion, ResizeRelease, ResizeEnds

LEMMA MouseStep ==
  ASSUME Together, Mouse
  PROVE  Together'
<1>1. /\ Shape /\ Placed /\ Kept /\ Fits(place, tabs) /\ look \in Looks
      /\ DOMAIN tabs = 1 .. Len(tabs) /\ place.tab \in Int /\ place \in Placement
  BY ShapeFacts DEF Together, Shape, Placed
<1>2. \A m \in Midway : Keeps(m, nextID)
  BY <1>1, MidwayKeeps
<1>3. CASE BeginSidebarDrag
  BY <1>1, <1>3, ClickTogether DEF BeginSidebarDrag
<1>4. CASE \E button \in {"left", "right"} : ClickNothing(button) \/ ClickSidebar(button)
  <2>1. PICK button \in {"left", "right"} : ClickNothing(button) \/ ClickSidebar(button)
    BY <1>4
  <2>2. /\ UNCHANGED <<tabs, panes, nextID, look>> /\ SaveDrag
        /\ UNCHANGED markVars \/ ClearSelection
    BY <2>1 DEF ClickNothing, ClickSidebar
  <2>3. \/ place' = Entry(button)
        \/ \E n \in Int : place' = InSidebar(Entry(button), n, tabs)
    BY <1>1, <2>1 DEF ClickNothing, ClickSidebar
  <2>4. QED
    BY <2>2, <2>3, ClickTogether
<1>5. CASE \E i \in DOMAIN tabs : SelectProject(i) \/ OpenProjectMenu(i)
  <2>1. PICK i \in DOMAIN tabs : SelectProject(i) \/ OpenProjectMenu(i)
    BY <1>5
  <2>2. CASE SelectProject(i)
    BY <1>2, <2>2, ShowTogether DEF SelectProject
  <2>3. CASE OpenProjectMenu(i)
    BY <1>1, <2>3, ClickTogether DEF OpenProjectMenu
  <2>4. QED
    BY <2>1, <2>2, <2>3
<1>6. CASE \E i \in DOMAIN tabs, p \in DOMAIN panes : SelectAgent(i, p)
  BY <1>6, SelectAgentStep
<1>7. CASE ClickNewProject
  BY <1>1, <1>2, <1>7, AppendTogether DEF ClickNewProject
<1>8. CASE \E p \in DOMAIN panes : BeginPaneDrag(p) \/ FocusPane(p) \/ CopyClick(p) \/ OpenPaneMenu(p)
  <2>1. PICK p \in DOMAIN panes : BeginPaneDrag(p) \/ FocusPane(p) \/ CopyClick(p) \/ OpenPaneMenu(p)
    BY <1>8
  <2>2. CASE CopyClick(p)
    BY <2>2, ClickTogether DEF CopyClick
  <2>3. QED
    BY <2>1, <2>2, BeginPaneDragStep, FocusPaneStep
<1>9. CASE Wheel \/ DragSelection
  <2>1. UNCHANGED <<tabs, panes, nextID, place, look, saveVars, drag>>
    BY <1>9 DEF Wheel, DragSelection, restVars
  <2>2. UNCHANGED markVars \/ ClearSelection
    BY <1>9 DEF Wheel, DragSelection
  <2>3. Kept'
    BY <1>1, <2>1, SavedStays
  <2>4. QED
    BY <1>1, <2>1, <2>2, <2>3, StaysTogether
<1>10. QED
  BY <1>3, <1>4, <1>5, <1>6, <1>7, <1>8, <1>9, ResizeStep DEF Mouse

(* Giving the focus to the pane that has it changes nothing. *)
LEMMA SameFocus ==
  ASSUME NEW ts, Sound(ts), NEW i \in DOMAIN ts
  PROVE  [ts EXCEPT ![i].active = ts[i].active] = ts
<1> DEFINE us == [ts EXCEPT ![i].active = ts[i].active]
<1>1. ts \in Seq(Tab) /\ DOMAIN ts = 1 .. Len(ts) /\ ts[i] \in Tab /\ ts[i].active \in Ids
  BY TabOf DEF Sound
<1>2. Changed(ts, us, i, ts[i].panes, ts[i].active)
  BY <1>1, FocusChanges
<1> HIDE DEF us
<1>3. us \in Seq(Tab) /\ Len(us) = Len(ts) /\ \A j \in DOMAIN ts \ {i} : us[j] = ts[j]
  BY <1>2 DEF Changed
<1>4. us[i] = ts[i]
  <2>1. us[i] \in Tab
    BY <1>1, <1>3, ElementOfSeq
  <2>2. us[i].id = ts[i].id /\ us[i].panes = ts[i].panes /\ us[i].active = ts[i].active
    BY <1>2 DEF Changed
  <2>3. QED
    BY <1>1, <2>1, <2>2 DEF Tab
<1>5. \A j \in 1 .. Len(ts) : us[j] = ts[j]
  BY <1>1, <1>3, <1>4
<1>6. us = ts
  BY <1>1, <1>3, <1>5, SeqEqual
<1>7. QED
  BY <1>6 DEF us

LEMMA CloseProjectStep ==
  ASSUME Together, NEW i \in DOMAIN tabs, CloseProject(i)
  PROVE  Together'
<1> DEFINE before == IF i < place.tab THEN place.tab - 1 ELSE place.tab
           next == Clamp(before, 1, Len(tabs'))
<1>1. /\ Shape /\ Placed /\ Marks /\ Kept /\ Sound(tabs) /\ place \in Placement
      /\ place.tab \in Nat \ {0} /\ look \in Looks /\ nextID \in Nat
      /\ DOMAIN tabs = 1 .. Len(tabs) /\ Len(tabs) \in Nat
  BY ShapeFacts DEF Together, Shape, Placement
<1>2. /\ Len(tabs) > 1 /\ tabs' = DropAt(tabs, i) /\ ForgetSelection(tabs[i].panes)
      /\ UNCHANGED <<nextID, look>> /\ Persist({})
      /\ place' = InSidebar([place EXCEPT !.tab = next], next, tabs')
  BY DEF CloseProject
<1>3. PICK bad : panes' = Started(Bare(panes, tabs[i].panes), tabs'[next].panes, bad)
  BY DEF CloseProject
<1>4. Len(tabs') = Len(tabs) - 1 /\ DOMAIN tabs' = 1 .. Len(tabs')
  BY <1>1, <1>2, DroppedTabs
<1>5. before \in Int
  BY <1>1
<1>6. next \in 1 .. Len(tabs')
  <2>1. 1 \in Int /\ Len(tabs') \in Int /\ 1 <= Len(tabs')
    BY <1>1, <1>2, <1>4
  <2>2. QED
    BY <1>5, <2>1, ClampRange
<1> HIDE DEF before
<1>7. /\ next \in DOMAIN tabs' /\ next \in Int /\ next \in Nat \ {0} /\ Len(tabs') \in Nat
  BY <1>1, <1>4, <1>6
<1>8. place'.tab = Clamp(before, 1, Len(tabs')) /\ place'.tab = next
      /\ Fits(place', tabs')
  <2> HIDE DEF next
  <2>1. [place EXCEPT !.tab = next] \in Placement /\ [place EXCEPT !.tab = next].tab = next
    BY <1>1, <1>7 DEF Placement
  <2>2. Fits(place', tabs') /\ place'.tab = next
    BY <1>2, <1>7, <2>1, SidebarFits
  <2>3. QED
    BY <2>2 DEF next
<1> HIDE DEF next
<1>9. panes' = Started(Bare(panes, tabs[i].panes), tabs'[place'.tab].panes, bad)
      /\ UNCHANGED nextID /\ look' \in Looks
  BY <1>1, <1>2, <1>3, <1>8
<1>10. Shape' /\ Placed' /\ DOMAIN panes' = DOMAIN panes \ tabs[i].panes
  BY <1>1, <1>2, <1>5, <1>8, <1>9, DropStep
<1>11. Marks'
  BY <1>1, <1>2, <1>10, SelectionForgotten
<1>12. Kept'
  BY <1>1, <1>2, <1>10, PersistKeeps
<1>13. QED
  BY <1>10, <1>11, <1>12 DEF Together

LEMMA LeaveDialogFits ==
  ASSUME Together, DialogOK, dialog.open, LeaveDialog
  PROVE  Fits(place', tabs) /\ place'.tab = place.tab
<1> DEFINE n == Clamp(dialog.cursor, 1, Len(tabs) + 1)
           front == [Mode(place, "navigate") EXCEPT !.focus = dialog.focus]
           back == [Mode(place, "navigate") EXCEPT !.focus = dialog.focus, !.cursor = n]
<1>1. Fits(place, tabs) /\ Len(tabs) \in Nat
  BY ShapeFacts DEF Together, Placed
<1>2. "navigate" \in Modes /\ "terminal" \in Modes /\ "panes" \in Areas
  BY DEF Modes, Areas
<1>3. n \in 1 .. Len(tabs) + 1
  <2>1. dialog.cursor \in Int /\ 1 \in Int /\ Len(tabs) + 1 \in Int /\ 1 <= Len(tabs) + 1
    BY <1>1 DEF DialogOK
  <2>2. QED
    BY <2>1, ClampRange
<1>4. place' = back \/ place' = [Mode(back, "terminal") EXCEPT !.focus = "panes"]
  BY DEF LeaveDialog
<1>5. back = [front EXCEPT !.cursor = n]
  OBVIOUS
<1> HIDE DEF n, back
<1>6. Fits(Mode(place, "navigate"), tabs) /\ Mode(place, "navigate").tab = place.tab
  BY <1>1, <1>2, ModeFits
<1>7. Fits(front, tabs) /\ front.tab = place.tab
  BY <1>6, FocusFits DEF DialogOK
<1> HIDE DEF front
<1>8. Fits(back, tabs) /\ back.tab = place.tab
  BY <1>1, <1>3, <1>5, <1>7, CursorFits
<1>9. Fits(Mode(back, "terminal"), tabs) /\ Mode(back, "terminal").tab = place.tab
  BY <1>2, <1>8, ModeFits
<1>10. Fits([Mode(back, "terminal") EXCEPT !.focus = "panes"], tabs)
       /\ [Mode(back, "terminal") EXCEPT !.focus = "panes"].tab = place.tab
  BY <1>2, <1>9, FocusFits
<1>11. QED
  BY <1>4, <1>8, <1>10

LEMMA MenuStep ==
  ASSUME Together, Menus, Menu
  PROVE  Together'
<1>1. /\ Shape /\ Placed /\ Kept /\ Marks /\ Fits(place, tabs) /\ look \in Looks
      /\ Sound(tabs) /\ place.tab \in DOMAIN tabs
      /\ DOMAIN tabs = 1 .. Len(tabs) /\ Len(tabs) \in Nat
  BY ShapeFacts DEF Together, Shape, Placed, Fits
<1> USE DEF Menus
<1>2. Fits(Plain, tabs) /\ Plain.tab = place.tab /\ Plain \in Placement
  BY <1>1, PlainFits DEF Fits
<1>3. CASE LeaveMenu
  <2>1. UNCHANGED <<tabs, panes, nextID, look, drag, markVars, saveVars>>
        /\ place' \in {PlaceAfterPaneMenu(TRUE), PlaceAfterProjectMenu}
    BY <1>3 DEF LeaveMenu
  <2>2. Fits(place', tabs) /\ place'.tab = place.tab
    BY <1>1, <2>1, PlainFits
  <2>3. Kept'
    BY <1>1, <2>1, <2>2, SavedStays
  <2>4. QED
    BY <1>1, <2>1, <2>2, <2>3, StaysTogether
<1>4. CASE MenuSplit
  BY <1>2, <1>4, SplitTogether DEF MenuSplit
<1>5. CASE MenuNewProject
  BY <1>2, <1>5, AppendTogether DEF MenuNewProject
<1>6. CASE MenuMove \/ MenuBalance
  BY <1>2, <1>6, SwapStep DEF MenuMove, MenuBalance, MenuRest
<1>7. CASE MenuClose
  BY <1>2, <1>7, CloseStep DEF MenuClose, MenuRest
<1>8. CASE MenuRename
  <2>1. /\ tabs' = [tabs EXCEPT ![place.tab].active = paneMenu.pane] /\ paneMenu.open
        /\ place' = InPanes(Plain) /\ UNCHANGED <<panes, nextID, look, drag, markVars, saveVars>>
    BY <1>8 DEF MenuRename, MenuRest, PaneMenuOpen
  <2>2. paneMenu.pane = tabs[place.tab].active
    BY <2>1 DEF AimKept, ActivePane, Active
  <2>3. tabs' = tabs
    BY <1>1, <2>1, <2>2, SameFocus
  <2>4. Fits(place', tabs) /\ place'.tab = place.tab
    BY <1>2, <2>1, PanesFit
  <2>5. Kept'
    BY <1>1, <2>1, <2>3, <2>4, SavedStays
  <2>6. UNCHANGED <<tabs, panes, nextID>> /\ look' \in Looks /\ UNCHANGED markVars
    BY <1>1, <2>1, <2>3
  <2>7. QED
    BY <2>4, <2>5, <2>6, StaysTogether
<1>9. CASE ProjectMenuClose
  BY <1>9, CloseProjectStep DEF ProjectMenuClose, AimKept
<1>10. CASE ProjectMenuRename
  <2>1. /\ UNCHANGED <<tabs, panes, nextID, look, drag, markVars, saveVars>>
        /\ projectMenu.project \in DOMAIN tabs
        /\ place' = [PlaceAfterProjectMenu EXCEPT !.cursor = projectMenu.project]
    BY <1>10 DEF ProjectMenuRename
  <2>2. projectMenu.project \in 1 .. Len(tabs) + 1
    BY <1>1, <2>1
  <2>3. Fits(place', tabs) /\ place'.tab = place.tab
    BY <1>1, <2>1, <2>2, PlainFits, CursorFits
  <2>4. Kept'
    BY <1>1, <2>1, <2>3, SavedStays
  <2>5. QED
    BY <1>1, <2>1, <2>3, <2>4, StaysTogether
<1>11. CASE CancelRename \/ ConfirmRename
  <2>1. /\ UNCHANGED <<tabs, panes, nextID>> /\ UNCHANGED markVars /\ UNCHANGED drag
        /\ look' \in Looks
    BY <1>1, <1>11 DEF CancelRename, ConfirmRename
  <2>2. dialog.open /\ LeaveDialog
    BY <1>11 DEF CancelRename, ConfirmRename
  <2>3. Persist({}) \/ UNCHANGED <<look, saveVars>>
    BY <1>11 DEF CancelRename, ConfirmRename
  <2>4. Fits(place', tabs) /\ place'.tab = place.tab
    BY <2>2, LeaveDialogFits
  <2>5. Kept' \/ Persist({})
    <3>1. CASE UNCHANGED <<look, saveVars>>
      <4>1. UNCHANGED <<tabs, nextID, look, drag, saveVars>>
        BY <2>1, <3>1
      <4>2. QED
        BY <1>1, <2>4, <4>1, SavedStays
    <3>2. QED
      BY <2>3, <3>1
  <2>6. QED
    BY <2>1, <2>4, <2>5, StaysTogether
<1>12. QED
  BY <1>3, <1>4, <1>5, <1>6, <1>7, <1>8, <1>9, <1>10, <1>11 DEF Menu

-----------------------------------------------------------------------------
(* Every message of the user keeps the menus aimed *)

LEMMA NoMenus ==
  ASSUME NoMenu'
  PROVE  Menus'
  BY DEF NoMenu, Menus, OneOverlay, AimKept, DialogOK

LEMMA MenusStay ==
  ASSUME Menus, UNCHANGED <<tabs, place, paneMenu, projectMenu, dialog>>
  PROVE  Menus'
  BY DEF NoMenu, Menus, OneOverlay, AimKept, DialogOK, ActivePane, Active

LEMMA KeyMenus ==
  ASSUME Key
  PROVE  Menus'
<1>1. NoMenu /\ UNCHANGED menuVars
  <2>1. Quiet
    BY DEF Key, CopyKey, TypeKey, PrefixFromTerminal, LeavePrefix, PrefixSplit, PrefixNewTab,
           PrefixClose, PrefixSwap, PrefixBalance, SwitchTab, ToggleSidebar, PrefixFromNavigation,
           TabKey, EnterPane, EnterSidebar, MoveCursor, MovePaneFocus, Typing, Prefixed, Navigating
  <2>2. UNCHANGED menuVars
    BY DEF Key, CopyKey, TypeKey, PrefixFromTerminal, LeavePrefix, PrefixSplit, PrefixNewTab,
           PrefixClose, PrefixSwap, PrefixBalance, SwitchTab, ToggleSidebar, PrefixFromNavigation,
           TabKey, EnterPane, EnterSidebar, MoveCursor, MovePaneFocus, restVars
  <2>3. QED
    BY <2>1, <2>2 DEF Quiet
<1>2. NoMenu'
  BY <1>1 DEF NoMenu, menuVars
<1>3. QED
  BY <1>2, NoMenus

LEMMA MouseMenus ==
  ASSUME Together, Menus, Mouse
  PROVE  Menus'
<1>1. /\ Shape /\ Placed /\ Fits(place, tabs) /\ DOMAIN tabs = 1 .. Len(tabs)
      /\ Len(tabs) \in Nat /\ Active.panes \subseteq Ids /\ place.tab \in Int
      /\ place.tab \in DOMAIN tabs
  BY ShapeFacts DEF Together, Placed
<1>2. ASSUME NEW button, Click(button), MenusClosed
      PROVE  Menus'
  <2>1. NoMenu'
    BY <1>2 DEF Click, MenusClosed, NoMenu, Closed
  <2>2. QED
    BY <2>1, NoMenus
<1>3. CASE BeginSidebarDrag \/ ClickNewProject
  BY <1>2, <1>3 DEF BeginSidebarDrag, ClickNewProject
<1>4. CASE \E button \in {"left", "right"} : ClickNothing(button) \/ ClickSidebar(button)
  BY <1>2, <1>4 DEF ClickNothing, ClickSidebar
<1>5. CASE \E i \in DOMAIN tabs : SelectProject(i) \/ OpenProjectMenu(i)
  <2>1. PICK i \in DOMAIN tabs : SelectProject(i) \/ OpenProjectMenu(i)
    BY <1>5
  <2>2. CASE SelectProject(i)
    BY <1>2, <2>2 DEF SelectProject
  <2>3. CASE OpenProjectMenu(i)
    <3>1. /\ ~dialog.open /\ dialog' = dialog /\ paneMenu' = Closed /\ tabs' = tabs
          /\ projectMenu' = [open |-> TRUE, project |-> i, aim |-> tabs[i].id]
          /\ place' = InSidebar(Entry("right"), i, tabs)
      BY <2>3 DEF OpenProjectMenu, Click
    <3>2. place'.mode = "navigate"
      <4>1. Entry("right") \in Placement /\ Entry("right").tab \in DOMAIN tabs
        BY <1>1, EntryFits DEF Fits
      <4>2. i \in Int
        BY <1>1
      <4>3. QED
        BY <1>1, <3>1, <4>1, <4>2, SidebarFits
    <3>3. ~paneMenu'.open /\ ~dialog'.open /\ projectMenu'.project = i /\ projectMenu'.aim = tabs[i].id
      BY <3>1 DEF Closed
    <3>4. QED
      BY <3>1, <3>2, <3>3 DEF Menus, OneOverlay, AimKept, DialogOK
  <2>4. QED
    BY <2>1, <2>2, <2>3
<1>6. CASE \E i \in DOMAIN tabs, p \in DOMAIN panes : SelectAgent(i, p)
  BY <1>2, <1>6 DEF SelectAgent
<1>7. CASE \E p \in DOMAIN panes : BeginPaneDrag(p) \/ FocusPane(p) \/ CopyClick(p) \/ OpenPaneMenu(p)
  <2>1. PICK p \in DOMAIN panes : BeginPaneDrag(p) \/ FocusPane(p) \/ CopyClick(p) \/ OpenPaneMenu(p)
    BY <1>7
  <2>2. CASE BeginPaneDrag(p) \/ FocusPane(p) \/ CopyClick(p)
    BY <1>2, <2>2 DEF BeginPaneDrag, FocusPane, CopyClick
  <2>3. CASE OpenPaneMenu(p)
    <3>1. /\ ~dialog.open /\ dialog' = dialog /\ projectMenu' = Closed
          /\ paneMenu' = [open |-> TRUE, pane |-> p, previous |-> Entry("right").mode]
          /\ place' = InPanes(Entry("right"))
      BY <2>3 DEF OpenPaneMenu, Click
    <3>2. place'.mode = "navigate"
      <4>1. Fits(Entry("right"), tabs)
        BY <1>1, EntryFits
      <4>2. QED
        BY <3>1, <4>1, PanesFit
    <3>3. ActivePane' = p
      BY <2>3, FocusPaneStep
    <3>4. ~projectMenu'.open /\ ~dialog'.open /\ paneMenu'.pane = p
      BY <3>1 DEF Closed
    <3>5. QED
      BY <3>1, <3>2, <3>3, <3>4 DEF Menus, OneOverlay, AimKept, DialogOK
  <2>4. QED
    BY <2>1, <2>2, <2>3
<1>8. CASE Wheel \/ DragSelection
  <2>1. NoMenu /\ UNCHANGED menuVars
    BY <1>8 DEF Wheel, DragSelection, Quiet, restVars
  <2>2. NoMenu'
    BY <2>1 DEF NoMenu, menuVars
  <2>3. QED
    BY <2>2, NoMenus
<1>9. CASE ResizeMotion \/ ResizeRelease \/ ResizeEnds
  BY <1>9, MenusStay DEF ResizeMotion, ResizeRelease, ResizeEnds, menuVars
<1>10. QED
  BY <1>3, <1>4, <1>5, <1>6, <1>7, <1>8, <1>9 DEF Mouse

LEMMA MenuMenus ==
  ASSUME Together, Menus, Menu
  PROVE  Menus'
<1>1. /\ Shape /\ Placed /\ Fits(place, tabs) /\ Sound(tabs) /\ place.tab \in DOMAIN tabs
      /\ place.cursor \in Nat
  BY DEF Together, Shape, Placed, Fits, Placement
<1>2. /\ ~(paneMenu.open /\ projectMenu.open)
      /\ ~(dialog.open /\ (paneMenu.open \/ projectMenu.open))
  BY DEF Menus, OneOverlay
<1>3. CASE LeaveMenu
  <2>1. NoMenu'
    BY <1>2, <1>3 DEF LeaveMenu, MenusClosed, NoMenu, Closed
  <2>2. QED
    BY <2>1, NoMenus
<1>4. CASE MenuSplit \/ MenuNewProject \/ MenuMove \/ MenuBalance \/ MenuClose
  <2>1. PaneMenuOpen /\ MenuRest /\ dialog' = dialog
    BY <1>4 DEF MenuSplit, MenuNewProject, MenuMove, MenuBalance, MenuClose
  <2>2. NoMenu'
    BY <2>1 DEF PaneMenuOpen, MenuRest, NoMenu, Closed
  <2>3. QED
    BY <2>2, NoMenus
<1>5. CASE MenuRename
  <2>1. /\ paneMenu.open /\ ~projectMenu.open /\ paneMenu' = Closed /\ projectMenu' = projectMenu
        /\ paneMenu.pane \in Active.panes /\ place' = InPanes(Plain)
        /\ tabs' = [tabs EXCEPT ![place.tab].active = paneMenu.pane]
        /\ dialog' = [open |-> TRUE, kind |-> "pane", pane |-> paneMenu.pane,
                      project |-> place.tab, aim |-> Active.id,
                      previous |-> paneMenu.previous, focus |-> "panes",
                      cursor |-> place.cursor]
    BY <1>5 DEF MenuRename, PaneMenuOpen, MenuRest
  <2>2. paneMenu.pane = tabs[place.tab].active
    BY <2>1 DEF Menus, AimKept, ActivePane, Active
  <2>3. tabs' = tabs
    BY <1>1, <2>1, <2>2, SameFocus
  <2>4. place'.mode = "navigate"
    BY <1>1, <2>1, PlainFits, PanesFit
  <2>5. /\ dialog'.project = place.tab /\ dialog'.aim = tabs[place.tab].id
        /\ dialog'.pane \in tabs[place.tab].panes
        /\ dialog'.focus \in Areas /\ dialog'.cursor \in Nat
    BY <1>1, <2>1 DEF Active, Areas
  <2>6. ~paneMenu'.open /\ ~projectMenu'.open
    BY <2>1 DEF Closed
  <2>7. QED
    BY <1>1, <2>3, <2>4, <2>5, <2>6 DEF Menus, OneOverlay, AimKept, DialogOK
<1>6. CASE ProjectMenuClose
  <2>1. NoMenu'
    BY <1>2, <1>6 DEF ProjectMenuClose, NoMenu, Closed
  <2>2. QED
    BY <2>1, NoMenus
<1>7. CASE ProjectMenuRename
  <2>1. /\ projectMenu.open /\ projectMenu.project \in DOMAIN tabs /\ tabs' = tabs
        /\ paneMenu' = Closed /\ projectMenu' = Closed
        /\ dialog' = [open |-> TRUE, kind |-> "project", pane |-> None,
                      project |-> projectMenu.project, aim |-> projectMenu.aim,
                      previous |-> "navigate", focus |-> "sidebar", cursor |-> place.cursor]
        /\ place' = [PlaceAfterProjectMenu EXCEPT !.cursor = projectMenu.project]
    BY <1>7 DEF ProjectMenuRename, MenusClosed
  <2>2. tabs[projectMenu.project].id = projectMenu.aim
    BY <2>1 DEF Menus, AimKept
  <2>3. place'.mode = "navigate"
    <3>1. PlaceAfterProjectMenu \in Placement /\ PlaceAfterProjectMenu.mode = "navigate"
      BY <1>1, PlainFits DEF Fits
    <3>2. QED
      BY <2>1, <3>1 DEF Placement
  <2>4. /\ dialog'.project = projectMenu.project /\ dialog'.aim = projectMenu.aim
        /\ dialog'.kind = "project" /\ dialog'.focus \in Areas /\ dialog'.cursor \in Nat
        /\ ~paneMenu'.open /\ ~projectMenu'.open
    BY <1>1, <2>1 DEF Areas, Closed
  <2>5. QED
    BY <2>1, <2>2, <2>3, <2>4 DEF Menus, OneOverlay, AimKept, DialogOK
<1>8. CASE CancelRename \/ ConfirmRename
  <2>1. dialog.open /\ dialog' = Closed /\ UNCHANGED <<paneMenu, projectMenu>>
    BY <1>8 DEF CancelRename, ConfirmRename, LeaveDialog
  <2>2. NoMenu'
    BY <1>2, <2>1 DEF NoMenu, Closed
  <2>3. QED
    BY <2>2, NoMenus
<1>9. QED
  BY <1>3, <1>4, <1>5, <1>6, <1>7, <1>8 DEF Menu

-----------------------------------------------------------------------------
(* The runtime, and faults *)

LEMMA RuntimeKeeps ==
  ASSUME Together, Menus, NEW p, Resized \/ Attach \/ Detach \/ ShellEnds(p)
  PROVE  Together' /\ Menus'
<1>1. /\ Shape /\ Placed /\ Marks /\ Kept /\ Fits(place, tabs) /\ look \in Looks
      /\ place.tab \in DOMAIN tabs /\ Active.panes \subseteq AllPanes(tabs)
      /\ panes \in [AllPanes(tabs) -> Shells] /\ Sound(tabs)
  BY ShapeFacts DEF Together, Shape, Placed, Fits, Active
<1>2. CASE Resized
  <2>1. /\ UNCHANGED <<tabs, panes, nextID, place, look>> /\ UNCHANGED menuVars
        /\ SaveDrag /\ ClearSelection
    BY <1>2 DEF Resized
  <2>2. Kept'
    BY <1>1, <2>1, DragSavedStays
  <2>3. Together'
    BY <1>1, <2>1, <2>2, StaysTogether
  <2>4. QED
    BY <2>1, <2>3, MenusStay DEF menuVars
<1>3. CASE Attach
  <2>1. /\ UNCHANGED <<tabs, panes, nextID, place, look, drag>> /\ UNCHANGED menuVars
        /\ UNCHANGED saveVars /\ UNCHANGED markVars
    BY <1>3 DEF Attach
  <2>2. Kept'
    BY <1>1, <2>1, SavedStays
  <2>3. Together'
    BY <1>1, <2>1, <2>2, StaysTogether
  <2>4. QED
    BY <2>1, <2>3, MenusStay DEF menuVars
<1>4. CASE Detach
  <2>1. /\ UNCHANGED <<tabs, panes, nextID, look>> /\ ClearSelection /\ Persist({})
        /\ place' = InPanes(place)
        /\ paneMenu' = Closed /\ projectMenu' = Closed /\ dialog' = Closed
    BY <1>4 DEF Detach
  <2>2. Fits(place', tabs) /\ place'.tab = place.tab
    BY <1>1, <2>1, PanesFit
  <2>3. Together'
    BY <1>1, <2>1, <2>2, StaysTogether
  <2>4. NoMenu'
    BY <2>1 DEF NoMenu, Closed
  <2>5. QED
    BY <2>3, <2>4, NoMenus
<1>5. CASE ShellEnds(p)
  <2>1. /\ panes' = [panes EXCEPT ![p] = "dead"] /\ UNCHANGED <<tabs, nextID, place, look, drag>>
        /\ UNCHANGED menuVars /\ UNCHANGED saveVars /\ UNCHANGED markVars
    BY <1>5 DEF ShellEnds
  <2>2. panes' \in [AllPanes(tabs) -> Shells]
        /\ \A q \in AllPanes(tabs) : panes'[q] = panes[q] \/ panes'[q] = "dead"
    BY <1>1, <2>1 DEF Shells
  <2>3. Shape'
    BY <1>1, <2>1, <2>2 DEF Shape
  <2>4. Placed'
    BY <1>1, <2>1, <2>2 DEF Placed, Active
  <2>5. Marks'
    BY <1>1, <2>1, <2>2, SelectionStays
  <2>6. Kept'
    BY <1>1, <2>1, SavedStays
  <2>7. Menus'
    BY <2>1, MenusStay DEF menuVars
  <2>8. QED
    BY <2>3, <2>4, <2>5, <2>6, <2>7 DEF Together
<1>6. QED
  BY <1>2, <1>3, <1>4, <1>5

(* The runtime goes: what is left is a snapshot that can be restored. *)
LEMMA GoneStep ==
  ASSUME Together, Stop \/ Crash
  PROVE  Down' /\ Keeps(saved', MaxId) /\ unsaved' \in BOOLEAN /\ up' = FALSE
<1>1. Shape /\ Placed /\ Kept /\ nextID \in 0 .. MaxId /\ MaxId \in Nat
  BY BoundAssumption DEF Together, Shape
<1>2. Gone
  BY DEF Stop, Crash
<1>3. Down' /\ up' = FALSE
  BY <1>2 DEF Gone, Down, NoMenu, Closed
<1>4. Keeps(saved', nextID) /\ unsaved' \in BOOLEAN
  <2>1. CASE Stop
    <3>1. Save(Now, {})
      BY <2>1 DEF Stop
    <3>2. QED
      BY <1>1, <3>1, NowKeeps, SaveKeeps DEF Kept
  <2>2. CASE Crash
    BY <1>1, <2>2 DEF Crash, saveVars, Kept
  <2>3. QED
    BY <2>1, <2>2
<1>5. QED
  BY <1>1, <1>3, <1>4, KeepsMore

LEMMA DefaultSound ==
  /\ Sound(DefaultTabs) /\ AllPanes(DefaultTabs) = {1} /\ AllIds(DefaultTabs) = {1, 2}
  /\ Len(DefaultTabs) = 1 /\ DOMAIN DefaultTabs = {1} /\ DefaultTabs[1].panes = {1}
<1>1. 1 \in Ids /\ 2 \in Ids
  BY BoundAssumption DEF Ids
<1>2. [id |-> 2, panes |-> {1}, active |-> 1] \in Tab
  BY <1>1 DEF Tab
<1>3. DefaultTabs \in Seq(Tab) /\ Len(DefaultTabs) = 1 /\ DOMAIN DefaultTabs = {1}
      /\ DefaultTabs[1] = [id |-> 2, panes |-> {1}, active |-> 1]
  BY <1>2 DEF DefaultTabs
<1>4. DefaultTabs[1].panes = {1} /\ DefaultTabs[1].id = 2 /\ DefaultTabs[1].active = 1
  BY <1>3
<1>5. AllPanes(DefaultTabs) = {1}
  BY <1>3, <1>4 DEF AllPanes
<1>6. AllIds(DefaultTabs) = {1, 2}
  BY <1>3, <1>4, <1>5 DEF AllIds
<1>7. Sound(DefaultTabs)
  BY <1>3, <1>4 DEF Sound
<1>8. QED
  BY <1>3, <1>4, <1>5, <1>6, <1>7

LEMMA StartFits ==
  ASSUME NEW ts, DOMAIN ts = 1 .. Len(ts), Len(ts) \in Nat, NEW i \in DOMAIN ts
  PROVE  Fits(StartPlace(i), ts) /\ StartPlace(i).tab = i
  BY DEF Fits, StartPlace, Placement, Modes, Areas

LEMMA OpenFirstStep ==
  ASSUME Down, OpenFirst
  PROVE  Together' /\ Menus' /\ up' = TRUE /\ UNCHANGED attached
<1>1. /\ tabs' = DefaultTabs /\ nextID' = 2 /\ unsaved' = FALSE /\ UNCHANGED <<place, look, drag>>
      /\ saved' = Snapshot(DefaultTabs, 1, look)
      /\ UNCHANGED menuVars /\ UNCHANGED markVars /\ up' = TRUE /\ UNCHANGED attached
  BY DEF OpenFirst
<1>2. PICK shell \in {"running", "dead"} : panes' = [p \in {1} |-> shell]
  BY DEF OpenFirst
<1>3. look \in Looks /\ place = StartPlace(1)
  BY LookTyping DEF Down
<1>4. Shape'
  <2>1. nextID' \in 0 .. MaxId /\ AllIds(DefaultTabs) \subseteq 1 .. nextID'
    BY <1>1, BoundAssumption, DefaultSound
  <2>2. panes' \in [AllPanes(DefaultTabs) -> Shells]
    BY <1>2, DefaultSound DEF Shells
  <2>3. QED
    BY <1>1, <1>3, <2>1, <2>2, DefaultSound DEF Shape
<1>5. Placed'
  <2>1. Fits(place', tabs') /\ place'.tab = 1
    BY <1>1, <1>3, DefaultSound, StartFits
  <2>2. QED
    BY <1>1, <1>2, <2>1, DefaultSound DEF Placed, Active
<1>6. Marks'
  BY <1>1 DEF Down, Marks, OneSelection, markVars
<1>7. Kept'
  <2>1. saved' = Now'
    BY <1>1, <1>3 DEF Now, StartPlace
  <2>2. Keeps(saved', nextID')
    BY <1>1, <1>3, <1>4, DefaultSound, SnapshotKeeps DEF Shape
  <2>3. QED
    BY <1>1, <2>1, <2>2 DEF Kept
<1>8. NoMenu'
  BY <1>1 DEF Down, NoMenu, menuVars
<1>9. QED
  BY <1>1, <1>4, <1>5, <1>6, <1>7, <1>8, NoMenus DEF Together

LEMMA RestoreStep ==
  ASSUME Down, Keeps(saved, MaxId), Restore
  PROVE  Together' /\ Menus' /\ up' = TRUE /\ UNCHANGED attached
<1>1. /\ tabs' = saved.tabs /\ nextID' = Absorbed(saved.tabs) /\ look' = saved.look
      /\ unsaved' = FALSE /\ UNCHANGED <<drag, saved>> /\ UNCHANGED menuVars
      /\ UNCHANGED markVars /\ up' = TRUE /\ UNCHANGED attached
  BY DEF Restore
<1>2. PICK i \in DOMAIN tabs' :
        /\ tabs'[i].id = saved.current /\ place' = StartPlace(i)
        /\ \E bad : panes' = Started([p \in AllPanes(tabs') |-> "idle"], tabs'[i].panes, bad)
  BY DEF Restore
<1>3. /\ Sound(tabs') /\ look' \in Looks /\ AllIds(tabs') \subseteq 1 .. MaxId
      /\ saved = [tabs |-> saved.tabs, current |-> saved.current, look |-> saved.look]
  BY <1>1 DEF Keeps
<1>4. /\ DOMAIN tabs' = 1 .. Len(tabs') /\ Len(tabs') \in Nat
      /\ tabs'[i].panes \in SUBSET AllPanes(tabs')
  BY <1>3, TabOf
<1>5. nextID' \in 0 .. MaxId /\ AllIds(tabs') \subseteq 1 .. nextID'
  <2> DEFINE S == AllIds(saved.tabs) \cup {0}
  <2>1. MaxId \in Nat /\ AllIds(saved.tabs) \subseteq 1 .. MaxId
    BY <1>1, <1>3, BoundAssumption
  <2>2. S \subseteq 0 .. MaxId /\ S # {}
    BY <2>1
  <2>3. nextID' = Highest(S)
    BY <1>1 DEF Absorbed
  <2> HIDE DEF S
  <2>4. nextID' \in S /\ \A m \in S : m <= nextID'
    BY <2>1, <2>2, <2>3, HighestThere
  <2>5. nextID' \in 0 .. MaxId
    BY <2>2, <2>4
  <2>6. ASSUME NEW m \in AllIds(tabs') PROVE m \in 1 .. nextID'
    <3>1. m \in S /\ m \in 1 .. MaxId
      BY <1>1, <2>1, <2>6 DEF S
    <3>2. QED
      BY <2>1, <2>4, <2>5, <3>1
  <2>7. QED
    BY <2>5, <2>6
<1>6. /\ panes' \in [AllPanes(tabs') -> Shells]
      /\ \A p \in tabs'[i].panes : panes'[p] # "idle"
  <2>1. [p \in AllPanes(tabs') |-> "idle"] \in [AllPanes(tabs') -> Shells]
    BY DEF Shells
  <2>2. PICK bad : panes' = Started([p \in AllPanes(tabs') |-> "idle"], tabs'[i].panes, bad)
    BY <1>2
  <2>3. ASSUME NEW ps \in [AllPanes(tabs') -> Shells], NEW project \in SUBSET AllPanes(tabs')
        PROVE  /\ Started(ps, project, bad) \in [AllPanes(tabs') -> Shells]
               /\ \A p \in project : Started(ps, project, bad)[p] # "idle"
    BY StartedShells
  <2>4. QED
    BY <1>4, <2>1, <2>2, <2>3
<1>7. Shape'
  BY <1>3, <1>5, <1>6 DEF Shape
<1>8. place'.tab = i /\ Fits(place', tabs')
  BY <1>2, <1>4, StartFits
<1>9. Placed'
  BY <1>6, <1>8 DEF Placed, Active
<1>10. Marks'
  BY <1>1 DEF Down, Marks, OneSelection, markVars
<1>11. Kept'
  <2>1. saved' = Now'
    BY <1>1, <1>2, <1>3, <1>8 DEF Now, Snapshot
  <2>2. Keeps(Snapshot(tabs', i, look'), nextID')
    BY <1>3, <1>5, SnapshotKeeps
  <2>3. QED
    BY <1>1, <1>8, <2>1, <2>2 DEF Kept, Now
<1>12. NoMenu'
  BY <1>1 DEF Down, NoMenu, menuVars
<1>13. QED
  BY <1>1, <1>7, <1>9, <1>10, <1>11, <1>12, NoMenus DEF Together

LEMMA OpenFailsStep ==
  ASSUME Down, Keeps(saved, MaxId), OpenFails
  PROVE  Down' /\ Keeps(saved', MaxId) /\ UNCHANGED <<unsaved, attached, up>>
<1>1. /\ UNCHANGED <<tabs, panes, nextID, place, look, drag, unsaved, attached, up>>
      /\ UNCHANGED menuVars /\ UNCHANGED markVars
      /\ saved' \in {saved, Snapshot(DefaultTabs, 1, look)}
  BY DEF OpenFails, userVars
<1>2. Down'
  BY <1>1 DEF Down, NoMenu, menuVars, markVars
<1>3. Keeps(Snapshot(DefaultTabs, 1, look), MaxId)
  <2>1. look \in Looks /\ AllIds(DefaultTabs) \subseteq 1 .. MaxId
    BY LookTyping, BoundAssumption, DefaultSound DEF Down
  <2>2. QED
    BY <2>1, DefaultSound, SnapshotKeeps
<1>4. QED
  BY <1>1, <1>2, <1>3

-----------------------------------------------------------------------------
(* The inductive invariant holds *)

LEMMA InitInv == Init => WorkspaceInv
<1> SUFFICES ASSUME Init PROVE WorkspaceInv
  OBVIOUS
<1>1. Down /\ unsaved \in BOOLEAN /\ attached \in BOOLEAN /\ up = FALSE
  BY DEF Init, Down, NoMenu, Closed
<1>2. Keeps(saved, MaxId)
  <2>1. saved = [tabs |-> <<>>, current |-> None, look |-> AnyLook]
    BY DEF Init, Nothing
  <2>2. Sound(<<>>) /\ AllIds(<<>>) = {}
    BY DEF Sound, AllIds, AllPanes
  <2>3. QED
    BY <2>1, <2>2, LookTyping DEF Keeps
<1>3. QED
  BY <1>1, <1>2 DEF WorkspaceInv

(* What the user does happens while the runtime is up, and leaves it up. *)
LEMMA UserUp ==
  ASSUME Key \/ Mouse \/ Menu
  PROVE  up /\ UNCHANGED userVars
<1>1. CASE Key
  <2>1. Quiet
    BY <1>1 DEF Key, CopyKey, TypeKey, PrefixFromTerminal, LeavePrefix, PrefixSplit, PrefixNewTab,
           PrefixClose, PrefixSwap, PrefixBalance, SwitchTab, ToggleSidebar, PrefixFromNavigation,
           TabKey, EnterPane, EnterSidebar, MoveCursor, MovePaneFocus, Typing, Prefixed, Navigating
  <2>2. UNCHANGED userVars
    BY <1>1 DEF Key, CopyKey, TypeKey, PrefixFromTerminal, LeavePrefix, PrefixSplit, PrefixNewTab,
           PrefixClose, PrefixSwap, PrefixBalance, SwitchTab, ToggleSidebar, PrefixFromNavigation,
           TabKey, EnterPane, EnterSidebar, MoveCursor, MovePaneFocus, restVars
  <2>3. QED
    BY <2>1, <2>2 DEF Quiet, Ready
<1>2. CASE Mouse
  <2>1. Ready
    BY <1>2 DEF Mouse, BeginSidebarDrag, ClickNothing, ClickSidebar, SelectProject,
           OpenProjectMenu, SelectAgent, ClickNewProject, BeginPaneDrag, FocusPane, CopyClick,
           OpenPaneMenu, Wheel, ResizeMotion, ResizeRelease, ResizeEnds, DragSelection, Click, Quiet
  <2>2. UNCHANGED userVars
    BY <1>2 DEF Mouse, BeginSidebarDrag, ClickNothing, ClickSidebar, SelectProject,
           OpenProjectMenu, SelectAgent, ClickNewProject, BeginPaneDrag, FocusPane, CopyClick,
           OpenPaneMenu, Wheel, ResizeMotion, ResizeRelease, ResizeEnds, DragSelection, Click,
           userVars, restVars
  <2>3. QED
    BY <2>1, <2>2 DEF Ready
<1>3. CASE Menu
  <2>1. Ready
    BY <1>3 DEF Menu, LeaveMenu, MenuSplit, MenuNewProject, MenuMove, MenuBalance, MenuClose,
           MenuRename, ProjectMenuClose, ProjectMenuRename, CancelRename, ConfirmRename, PaneMenuOpen
  <2>2. UNCHANGED userVars
    BY <1>3 DEF Menu, LeaveMenu, MenuSplit, MenuNewProject, MenuMove, MenuBalance, MenuClose,
           MenuRename, ProjectMenuClose, ProjectMenuRename, CancelRename, ConfirmRename, MenuRest,
           userVars
  <2>3. QED
    BY <2>1, <2>2 DEF Ready
<1>4. QED
  BY <1>1, <1>2, <1>3

LEMMA NextInv == WorkspaceInv /\ [Next]_vars => WorkspaceInv'
<1> SUFFICES ASSUME WorkspaceInv, [Next]_vars PROVE WorkspaceInv'
  OBVIOUS
<1>1. /\ unsaved \in BOOLEAN /\ attached \in BOOLEAN /\ up \in BOOLEAN
      /\ Keeps(saved, MaxId) /\ (~up => Down) /\ (up => Together /\ Menus)
  BY DEF WorkspaceInv
<1>2. ASSUME Together', Menus', up' = TRUE, attached' \in BOOLEAN
      PROVE  WorkspaceInv'
  <2>1. Keeps(saved', nextID') /\ unsaved' \in BOOLEAN /\ nextID' \in 0 .. MaxId
    BY <1>2 DEF Together, Kept, Shape
  <2>2. Keeps(saved', MaxId)
    BY <2>1, BoundAssumption, KeepsMore
  <2>3. QED
    BY <1>2, <2>1, <2>2 DEF WorkspaceInv
<1>3. CASE Key \/ Mouse \/ Menu
  <2>1. up /\ up' = up /\ attached' = attached
    BY <1>3, UserUp DEF userVars
  <2>2. Together' /\ Menus'
    BY <1>1, <1>3, <2>1, KeyStep, MouseStep, MenuStep, KeyMenus, MouseMenus, MenuMenus
  <2>3. QED
    BY <1>1, <1>2, <2>1, <2>2
<1>4. CASE Runtime
  <2>1. CASE Resized \/ Attach \/ Detach \/ \E p \in DOMAIN panes : ShellEnds(p)
    <3>1. PICK p : Resized \/ Attach \/ Detach \/ ShellEnds(p)
      BY <2>1
    <3>2. up /\ up' = up /\ attached' \in BOOLEAN
      BY <1>1, <3>1 DEF Resized, Attach, Detach, ShellEnds, Ready, userVars
    <3>3. Together' /\ Menus'
      BY <1>1, <3>1, <3>2, RuntimeKeeps
    <3>4. QED
      BY <1>1, <1>2, <3>2, <3>3
  <2>2. CASE Stop \/ Crash
    <3>1. up
      BY <2>2 DEF Stop, Crash, Gone
    <3>2. Down' /\ Keeps(saved', MaxId) /\ unsaved' \in BOOLEAN /\ up' = FALSE
      BY <1>1, <2>2, <3>1, GoneStep
    <3>3. attached' \in BOOLEAN
      BY <3>2 DEF Down
    <3>4. QED
      BY <3>2, <3>3 DEF WorkspaceInv
  <2>3. CASE OpenFirst \/ Restore
    <3>1. Down
      BY <1>1, <2>3 DEF OpenFirst, Restore
    <3>2. Together' /\ Menus' /\ up' = TRUE /\ UNCHANGED attached
      BY <1>1, <2>3, <3>1, OpenFirstStep, RestoreStep
    <3>3. QED
      BY <1>1, <1>2, <3>2
  <2>4. CASE OpenFails
    <3>1. Down /\ ~up
      BY <1>1, <2>4 DEF OpenFails
    <3>2. Down' /\ Keeps(saved', MaxId) /\ UNCHANGED <<unsaved, attached, up>>
      BY <1>1, <2>4, <3>1, OpenFailsStep
    <3>3. QED
      BY <1>1, <3>1, <3>2 DEF WorkspaceInv
  <2>5. QED
    BY <1>4, <2>1, <2>2, <2>3, <2>4 DEF Runtime
<1>5. CASE UNCHANGED vars
  <2>1. UNCHANGED <<tabs, panes, nextID, place, look, drag, unsaved, saved, attached, up>>
        /\ UNCHANGED markVars /\ UNCHANGED menuVars
    BY <1>5 DEF vars, markVars, saveVars, userVars, menuVars
  <2>2. CASE up
    <3>1. Together' /\ Menus'
      <4>1. Shape' /\ Placed' /\ Marks' /\ Kept'
        <5>1. Shape /\ Placed /\ Marks /\ Kept
          BY <1>1, <2>2 DEF Together
        <5>2. Shape' /\ Placed'
          BY <2>1, <5>1 DEF Shape, Placed, Active
        <5>3. Marks'
          BY <2>1, <5>1, SelectionStays
        <5>4. Kept'
          BY <2>1, <5>1, SavedStays DEF saveVars
        <5>5. QED
          BY <5>2, <5>3, <5>4
      <4>2. Menus'
        BY <1>1, <2>1, <2>2, MenusStay DEF menuVars
      <4>3. QED
        BY <4>1, <4>2 DEF Together
    <3>2. QED
      BY <1>1, <1>2, <2>1, <2>2, <3>1
  <2>3. CASE ~up
    <3>1. Down'
      BY <1>1, <2>1, <2>3 DEF Down, NoMenu, menuVars, markVars
    <3>2. QED
      BY <1>1, <2>1, <2>3, <3>1 DEF WorkspaceInv
  <2>4. QED
    BY <2>2, <2>3
<1>6. QED
  BY <1>3, <1>4, <1>5 DEF Next

LEMMA InvHolds == Spec => []WorkspaceInv
  BY InitInv, NextInv, PTL DEF Spec

-----------------------------------------------------------------------------
(* The theorems *)

LEMMA InvTypes == WorkspaceInv => TypeOK
<1> SUFFICES ASSUME WorkspaceInv PROVE TypeOK
  OBVIOUS
<1>1. unsaved \in BOOLEAN /\ attached \in BOOLEAN /\ up \in BOOLEAN
      /\ (~up => Down) /\ (up => Together)
  BY DEF WorkspaceInv
<1>2. CASE ~up
  BY <1>1, <1>2, LookTyping, BoundAssumption DEF Down, StartPlace, TypeOK, Modes, Areas
<1>3. CASE up
  <2>1. /\ Sound(tabs) /\ nextID \in 0 .. MaxId /\ look \in Looks
        /\ panes \in [AllPanes(tabs) -> Shells] /\ place \in Placement /\ Marks
    BY <1>1, <1>3 DEF Together, Shape, Placed, Fits
  <2>2. AllPanes(tabs) \subseteq Ids
    <3>1. ASSUME NEW p \in AllPanes(tabs) PROVE p \in Ids
      <4>1. PICK i \in DOMAIN tabs : p \in tabs[i].panes
        BY PaneOfProject
      <4>2. QED
        BY <2>1, <4>1, TabOf
    <3>2. QED
      BY <3>1
  <2>3. tabs \in Seq([id : Ids, panes : SUBSET Ids, active : Ids])
    BY <2>1 DEF Sound, Tab
  <2>4. DOMAIN panes \subseteq Ids /\ \A p \in DOMAIN panes : panes[p] \in {"idle", "running", "dead"}
    BY <2>1, <2>2 DEF Shells
  <2>5. /\ place.mode \in Modes /\ place.before \in Modes \ {"prefix"} /\ place.focus \in Areas
        /\ place.tab \in Nat \ {0} /\ place.cursor \in Nat \ {0}
    BY <2>1 DEF Placement
  <2>6. selection \in Ids \cup {None}
    BY <2>1, <2>4 DEF Marks, OneSelection
  <2>7. selected \subseteq Ids
    BY <2>1, <2>6 DEF Marks, OneSelection
  <2>8. QED
    BY <1>1, <2>1, <2>3, <2>4, <2>5, <2>6, <2>7 DEF TypeOK
<1>4. QED
  BY <1>1, <1>2, <1>3

(* The variables of the model and its snapshot have their types, whatever the *)
(* user does and whatever fails (Model in model.go).                         *)
THEOREM WorkspaceTyping == Spec => []TypeOK
  BY InvHolds, InvTypes, PTL

(* Every pane with its shell is a leaf of exactly one project, and an id      *)
(* that is in use or in the database is not handed out again (panes, tabs,    *)
(* newID and absorbID).                                                      *)
THEOREM OwnershipSafety == Spec => []PanesOwned
<1>1. WorkspaceInv => PanesOwned
  <2> SUFFICES ASSUME WorkspaceInv, up PROVE PanesOwned
    BY DEF PanesOwned
  <2>1. /\ Sound(tabs) /\ AllIds(tabs) \subseteq 1 .. nextID /\ nextID \in 0 .. MaxId
        /\ DOMAIN panes = AllPanes(tabs) /\ AllIds(saved.tabs) \subseteq 1 .. nextID
    BY DEF WorkspaceInv, Together, Shape, Kept, Keeps
  <2>2. \A i, j \in DOMAIN tabs :
          i # j => tabs[i].panes \cap tabs[j].panes = {} /\ tabs[i].id # tabs[j].id
    BY <2>1 DEF Sound
  <2>3. ASSUME NEW i \in DOMAIN tabs PROVE tabs[i].id \notin AllPanes(tabs)
    BY <2>1, PaneOfProject DEF Sound
  <2>4. \A n \in AllIds(tabs) \cup AllIds(saved.tabs) : n <= nextID
    BY <2>1
  <2>5. QED
    BY <2>1, <2>2, <2>3, <2>4 DEF PanesOwned
<1>2. QED
  BY <1>1, InvHolds, PTL

(* A command hits what the user pointed at: the focus is a pane that was      *)
(* started, at most one menu or dialog is open and still means its target,    *)
(* and the one selection that shows is the one that is cleared next.          *)
THEOREM TargetSafety == Spec => []TargetsHold
<1>1. WorkspaceInv => TargetsHold
  <2> SUFFICES ASSUME WorkspaceInv, up PROVE FocusShown /\ OneOverlay /\ AimKept /\ OneSelection
    BY DEF TargetsHold
  <2>1. Shape /\ Placed /\ OneSelection /\ OneOverlay /\ AimKept
    BY DEF WorkspaceInv, Together, Menus, Marks
  <2>2. FocusShown
    BY <2>1 DEF Shape, Placed, Fits, Sound, FocusShown
  <2>3. QED
    BY <2>1, <2>2
<1>2. QED
  BY <1>1, InvHolds, PTL

(* A crash loses nothing that the user was not still dragging, unless the     *)
(* last save failed (persist, finishResizeGesture).                          *)
THEOREM SavingSafety == Spec => []NothingUnsaved
<1>1. WorkspaceInv => NothingUnsaved
  BY DEF WorkspaceInv, Together, Kept, NothingUnsaved
<1>2. QED
  BY <1>1, InvHolds, PTL

(* What the gesture holds, and who may move it. *)
SidebarDrags == [kind : {"sidebar"}, held : BOOLEAN, own : BOOLEAN]
PaneDrags(project, pane) ==
  [kind : {"pane"}, held : BOOLEAN, own : BOOLEAN, project : {project}, pane : {pane}]
DragInv ==
  /\ drag = NoDrag \/ drag \in SidebarDrags \/ \E project, pane : drag \in PaneDrags(project, pane)
  /\ DragIsOwn

LEMMA DragChanges ==
  ASSUME [Next]_vars
  PROVE  drag' \in {drag, NoDrag} \/ BeginSidebarDrag \/ (\E p : BeginPaneDrag(p)) \/ Detach
<1>1. CASE Key
  BY <1>1 DEF Key, CopyKey, TypeKey, PrefixFromTerminal, LeavePrefix, PrefixSplit, PrefixNewTab,
         PrefixClose, PrefixSwap, PrefixBalance, SwitchTab, ToggleSidebar, PrefixFromNavigation,
         TabKey, EnterPane, EnterSidebar, MoveCursor, MovePaneFocus, restVars
<1>2. CASE Mouse
  BY <1>2 DEF Mouse, ClickNothing, ClickSidebar, SelectProject, OpenProjectMenu, SelectAgent,
         ClickNewProject, FocusPane, CopyClick, OpenPaneMenu, Wheel, ResizeMotion, ResizeRelease,
         ResizeEnds, DragSelection, FinishDrag, restVars
<1>3. CASE Menu
  BY <1>3 DEF Menu, LeaveMenu, MenuSplit, MenuNewProject, MenuMove, MenuBalance, MenuClose,
         MenuRename, ProjectMenuClose, ProjectMenuRename, CancelRename, ConfirmRename, MenuRest
<1>4. CASE Runtime
  BY <1>4 DEF Runtime, Resized, Attach, ShellEnds, Stop, Crash, Gone, OpenFirst, OpenFails, Restore
<1>5. CASE UNCHANGED vars
  BY <1>5 DEF vars
<1>6. QED
  BY <1>1, <1>2, <1>3, <1>4, <1>5 DEF Next

LEMMA DragNext == DragInv /\ [Next]_vars => DragInv'
<1> SUFFICES ASSUME DragInv, [Next]_vars PROVE DragInv'
  OBVIOUS
<1>1. CASE drag' = drag
  BY <1>1 DEF DragInv, DragIsOwn, Dragging
<1>2. CASE drag' = NoDrag
  BY <1>2 DEF DragInv, DragIsOwn, Dragging, NoDrag
<1>3. CASE BeginSidebarDrag
  <2>1. drag' = [kind |-> "sidebar", held |-> TRUE, own |-> TRUE]
    BY <1>3 DEF BeginSidebarDrag
  <2>2. QED
    BY <2>1 DEF DragInv, DragIsOwn, Dragging, SidebarDrags
<1>4. CASE \E p : BeginPaneDrag(p)
  <2>1. PICK p : BeginPaneDrag(p)
    BY <1>4
  <2>2. drag' = [kind |-> "pane", held |-> TRUE, own |-> TRUE, project |-> Active.id, pane |-> p]
    BY <2>1 DEF BeginPaneDrag
  <2>3. drag' \in PaneDrags(Active.id, p) /\ drag'.own
    BY <2>2 DEF PaneDrags
  <2>4. QED
    BY <2>3 DEF DragInv, DragIsOwn, Dragging
<1>5. CASE Detach
  <2>1. drag' = IF Dragging THEN [drag EXCEPT !.held = FALSE, !.own = FALSE] ELSE drag
    BY <1>5 DEF Detach
  <2>2. CASE drag = NoDrag
    BY <2>1, <2>2, <1>2 DEF Dragging, NoDrag
  <2>3. CASE drag \in SidebarDrags
    <3>1. drag' \in SidebarDrags /\ ~drag'.held
      BY <2>1, <2>3 DEF Dragging, SidebarDrags
    <3>2. QED
      BY <3>1 DEF DragInv, DragIsOwn, Dragging
  <2>4. CASE \E project, pane : drag \in PaneDrags(project, pane)
    <3>1. PICK project, pane : drag \in PaneDrags(project, pane)
      BY <2>4
    <3>2. drag' \in PaneDrags(project, pane) /\ ~drag'.held
      BY <2>1, <3>1 DEF Dragging, PaneDrags
    <3>3. QED
      BY <3>2 DEF DragInv, DragIsOwn, Dragging
  <2>5. QED
    BY <2>2, <2>3, <2>4 DEF DragInv
<1>6. QED
  BY <1>1, <1>2, <1>3, <1>4, <1>5, DragChanges

(* A resize follows only the mouse of the user who began it: ClientDetached  *)
(* leaves the gesture, and the first click of the next user ends it before   *)
(* a motion counts (model.go:931, beginResizeGesture).                       *)
THEOREM DragSafety == Spec => []DragIsOwn
<1>1. Init => DragInv
  BY DEF Init, DragInv, DragIsOwn, Dragging, NoDrag
<1>2. DragInv => DragIsOwn
  BY DEF DragInv
<1>3. QED
  BY <1>1, <1>2, DragNext, PTL DEF Spec

=============================================================================
