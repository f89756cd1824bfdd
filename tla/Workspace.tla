------------------------------- MODULE Workspace -------------------------------
(***************************************************************************)
(* The workspace a client drives (src/internal/app): projects of panes,    *)
(* which of them has the focus, the modes, the two context menus, the      *)
(* rename dialog, the two mouse gestures, and the snapshot that is saved   *)
(* after every change and restored at the next start.  Every action is one *)
(* message of Model.Update, of the runtime, or a fault.                    *)
(*                                                                         *)
(* A layout is the set of its panes (LayoutTree has the tree): "the first  *)
(* leaf" and "the neighbour" are any of the others.  Divider positions,    *)
(* the sidebar (its width, and whether it is shown) and the titles are one *)
(* value, look.  What a click hits is chosen, not computed from            *)
(* coordinates; so is whether the sidebar is there to be hit.              *)
(***************************************************************************)
EXTENDS Naturals, Sequences, FiniteSets

CONSTANTS
  MaxId,        \* bound: ids handed out
  MaxFailId,    \* bound: saves fail while no more ids than these are in use, and
                \* not twice in a row
  Looks         \* values of everything that is saved and only drawn

(* The first project takes two ids. *)
ASSUME BoundAssumption == MaxId \in Nat \ {0, 1} /\ MaxFailId \in Nat
ASSUME LooksAssumption == Looks # {}

VARIABLES
  tabs,         \* Model.tabs: a sequence of [id, panes, active]
  panes,        \* Model.panes: id -> idle, running, or dead (the shell)
  nextID,       \* Model.nextID
  place,        \* activeTab, sidebarCursor, mode, modeBeforePrefix and focus
  look,         \* layout ratios, sidebarVisible, sidebarSize, titles
  paneMenu,     \* contextMenu: its target and previousMode
  projectMenu,  \* projectMenu: the index of its target
  dialog,       \* renameDialog: its target, and what closing it restores
  drag,         \* resizeGesture; held: the button that drags is down, own: in
                \* the hands of the client that began it
  selection,    \* selectionGesture
  selected,     \* panes whose terminal shows a selection
  saved,        \* the snapshot in the database
  unsaved,      \* the last save failed (the notice says so)
  attached,     \* a client is attached
  up            \* the runtime is running

saveVars == <<saved, unsaved>>
menuVars == <<paneMenu, projectMenu, dialog>>
markVars == <<selection, selected>>
userVars == <<attached, up>>
restVars == <<menuVars, drag, userVars>>
vars == <<tabs, panes, nextID, place, look, menuVars, drag, markVars,
          saveVars, userVars>>

Ids == 1 .. MaxId
None == 0
Closed == [open |-> FALSE]
NoDrag == [kind |-> "none"]

----------------------------------------------------------------------------
(* Helpers                                                                 *)

Active == tabs[place.tab]
ActivePane == Active.active
(* A shell that could not be started has no session, one that ended has; what *)
(* works on the session of a dead shell is allowed for both.                  *)
HasSession(p) == p \in DOMAIN panes /\ panes[p] # "idle"
Runs(p) == p \in DOMAIN panes /\ panes[p] = "running"

AllPanes(ts) == UNION {ts[i].panes : i \in DOMAIN ts}
AllIds(ts) == AllPanes(ts) \cup {ts[i].id : i \in DOMAIN ts}
Highest(S) == CHOOSE n \in S : \A m \in S : m <= n
Clamp(n, low, high) == IF n < low THEN low ELSE IF n > high THEN high ELSE n
DropAt(s, i) == SubSeq(s, 1, i - 1) \o SubSeq(s, i + 1, Len(s))
Bare(ps, gone) == [p \in DOMAIN ps \ gone |-> ps[p]]

(* absorbID: the counter continues behind every id the snapshot holds. *)
Absorbed(ts) == Highest(AllIds(ts) \cup {0})

(* The panes of a project whose shells were not started yet.                 *)
Unstarted(ps, project) == {p \in project : ps[p] = "idle"}

(* A plausible slip: a project is shown before its shells are started. *)
StartedLater(ps, project, bad) == ps

(* startPane for every pane of a project that was not started; starting the  *)
(* shell of those in bad fails.                                              *)
Started(ps, project, bad) ==
  [p \in DOMAIN ps |-> IF p \notin Unstarted(ps, project) THEN ps[p]
                         ELSE IF p \in bad THEN "dead" ELSE "running"]

(* focusSidebarNavigation *)
InSidebar(pl, cursor, ts) ==
  [pl EXCEPT !.mode = "navigate", !.before = "navigate", !.focus = "sidebar",
             !.cursor = Clamp(cursor, 1, Len(ts) + 1)]
(* What selectTab, appendTab and most commands do to focus and mode.         *)
(* modeBeforePrefix is written at every entry to prefix mode; outside of it   *)
(* the model keeps navigate in its place.                                    *)
Mode(pl, mode) == [pl EXCEPT !.mode = mode, !.before = "navigate"]
InPanes(pl) == [Mode(pl, "navigate") EXCEPT !.focus = "panes"]
AtTab(pl, i) == [InPanes(pl) EXCEPT !.tab = i, !.cursor = i]

AnyLook == CHOOSE l \in Looks : TRUE
Nothing == [tabs |-> <<>>, current |-> None, look |-> AnyLook]
Snapshot(ts, i, l) == [tabs |-> ts, current |-> ts[i].id, look |-> l]
Now == Snapshot(tabs, place.tab, look)

(* persist: the snapshot, or an error and what was saved before; midway are   *)
(* the snapshots saved earlier in the same handler.                           *)
Save(snapshot, midway) ==
  \/ /\ saved' = snapshot
     /\ unsaved' = FALSE
  \/ /\ ~unsaved /\ nextID <= MaxFailId
     /\ saved' \in {saved} \cup midway
     /\ unsaved' = TRUE
Persist(midway) == Save(Snapshot(tabs', place'.tab, look'), midway)

(* clearTerminalSelection *)
ClearSelection ==
  /\ selection' = None
  /\ selected' = selected \ {selection}

(* closePane for every pane of gone. *)
ForgetSelection(gone) ==
  /\ selection' = IF selection \in gone THEN None ELSE selection
  /\ selected' = selected \ gone

NoMenu == ~paneMenu.open /\ ~projectMenu.open /\ ~dialog.open
Ready == up /\ attached
Quiet == Ready /\ NoMenu
Typing == Quiet /\ place.mode = "terminal"
Prefixed == Quiet /\ place.mode = "prefix"
Navigating == Quiet /\ place.mode = "navigate"

----------------------------------------------------------------------------
(* The commands.  Each takes the place it starts from, since a menu that   *)
(* runs it has set the mode already.                                       *)

(* splitActive *)
SplitActive(pl) ==
  /\ nextID < MaxId
  /\ nextID' = nextID + 1
  /\ tabs' = [tabs EXCEPT ![place.tab].panes = @ \cup {nextID'},
                          ![place.tab].active = nextID']
  /\ \E shell \in {"running", "dead"} :
       panes' = [p \in DOMAIN panes \cup {nextID'} |->
                   IF p = nextID' THEN shell ELSE panes[p]]
  /\ place' = InPanes(pl)
  /\ UNCHANGED markVars

(* newProject and newTab: the pane, then a project for it, at the end. *)
AppendTab ==
  /\ nextID + 2 <= MaxId
  /\ nextID' = nextID + 2
  /\ tabs' = Append(tabs, [id |-> nextID', panes |-> {nextID + 1}, active |-> nextID + 1])
  /\ \E shell \in {"running", "dead"} :
       panes' = [p \in DOMAIN panes \cup {nextID + 1} |->
                   IF p = nextID + 1 THEN shell ELSE panes[p]]

(* closeActivePane, the three ways it ends. *)
KeepLastPane(pl) ==
  /\ Active.panes = {ActivePane} /\ Len(tabs) = 1
  /\ place' = InPanes(pl)
  /\ UNCHANGED <<tabs, panes, markVars, saveVars>>

CloseOnlyPane(pl) ==
  /\ Active.panes = {ActivePane} /\ Len(tabs) > 1
  /\ tabs' = DropAt(tabs, place.tab)
  /\ LET next == Clamp(place.tab, 1, Len(tabs'))
     IN /\ place' = [Mode(pl, "navigate") EXCEPT !.tab = next, !.cursor = next]
        /\ \E bad \in SUBSET Unstarted(panes, tabs'[next].panes) :
             panes' = Started(Bare(panes, {ActivePane}), tabs'[next].panes, bad)
  /\ ForgetSelection({ActivePane})
  /\ Persist({})

CloseOneOfMany(pl) ==
  /\ Active.panes # {ActivePane}
  /\ \E first \in Active.panes \ {ActivePane} :
       tabs' = [tabs EXCEPT ![place.tab].panes = @ \ {ActivePane},
                            ![place.tab].active = first]
  /\ panes' = Bare(panes, {ActivePane})
  /\ place' = InPanes(pl)
  /\ ForgetSelection({ActivePane})
  /\ Persist({})

CloseActivePane(pl) ==
  /\ UNCHANGED <<nextID, look>>
  /\ (KeepLastPane(pl) \/ CloseOnlyPane(pl) \/ CloseOneOfMany(pl))

(* swapActivePane: two panes of the layout change places, or there is none   *)
(* in that direction.                                                        *)
SwapActivePane(pl) ==
  /\ UNCHANGED <<tabs, panes, nextID, markVars>>
  /\ \/ place' = Mode(pl, "navigate") /\ UNCHANGED <<look, saveVars>>
     \/ /\ Active.panes # {ActivePane}
        /\ place' = InPanes(pl)
        /\ look' \in Looks
        /\ Persist({})

(* balanceActiveLayout *)
BalanceActiveLayout(pl) ==
  /\ look' \in Looks
  /\ place' = InPanes(pl)
  /\ UNCHANGED <<tabs, panes, nextID, markVars>>
  /\ Persist({})

(* Showing project i: selectTab and switchTab start what was not started. *)
ShowTab(i) ==
  /\ UNCHANGED <<tabs, nextID, look>>
  /\ \E bad \in SUBSET Unstarted(panes, tabs[i].panes) : panes' = Started(panes, tabs[i].panes, bad)

(* A plausible slip: only the pane that is shown is closed with its project. *)
CloseProjectShown(i) ==
  /\ Len(tabs) > 1
  /\ tabs' = DropAt(tabs, i)
  /\ LET next == Clamp(IF i < place.tab THEN place.tab - 1 ELSE place.tab, 1, Len(tabs'))
     IN /\ place' = InSidebar([place EXCEPT !.tab = next], next, tabs')
        /\ \E bad \in SUBSET Unstarted(panes, tabs'[next].panes) :
             panes' = Started(Bare(panes, {tabs[i].active}), tabs'[next].panes, bad)
  /\ ForgetSelection({tabs[i].active})
  /\ UNCHANGED <<nextID, look>>
  /\ Persist({})

(* closeProject *)
CloseProject(i) ==
  /\ Len(tabs) > 1
  /\ tabs' = DropAt(tabs, i)
  /\ LET next == Clamp(IF i < place.tab THEN place.tab - 1 ELSE place.tab, 1, Len(tabs'))
     IN /\ place' = InSidebar([place EXCEPT !.tab = next], next, tabs')
        /\ \E bad \in SUBSET Unstarted(panes, tabs'[next].panes) :
             panes' = Started(Bare(panes, tabs[i].panes), tabs'[next].panes, bad)
  /\ ForgetSelection(tabs[i].panes)
  /\ UNCHANGED <<nextID, look>>
  /\ Persist({})

----------------------------------------------------------------------------
(* Keys in terminal mode                                                   *)

(* ctrl+c over a selection of the active pane copies it.  (Of a selection the *)
(* terminal itself has dropped the model still has the mark; then the key is  *)
(* typed, as TypeKey allows in any case.)                                    *)
CopySelection(p) ==
  /\ p \in selected
  /\ selected' = selected \ {p}
  /\ selection' = None
  /\ UNCHANGED <<tabs, panes, nextID, place, look, saveVars>>

CopyKey == Typing /\ CopySelection(ActivePane) /\ UNCHANGED restVars

(* Any other key, a paste: it goes to the shell. *)
TypeKey ==
  /\ Typing /\ HasSession(ActivePane)
  /\ ClearSelection
  /\ UNCHANGED <<tabs, panes, nextID, place, look, saveVars, restVars>>

PrefixFromTerminal ==
  /\ Typing
  /\ ClearSelection
  /\ place' = [place EXCEPT !.before = "terminal", !.mode = "prefix"]
  /\ UNCHANGED <<tabs, panes, nextID, look, saveVars, restVars>>

(* Keys in prefix mode *)

LeavePrefix ==
  /\ Prefixed
  /\ \/ place' \in {Mode(place, place.before), Mode(place, "terminal"), InPanes(place)}
     \/ Len(tabs) = 1 /\ place' = Mode(place, "navigate")
  /\ UNCHANGED <<tabs, panes, nextID, look, markVars, saveVars, restVars>>

PrefixSplit ==
  /\ Prefixed /\ SplitActive(place)
  /\ UNCHANGED <<look, restVars>>
  /\ Persist({})

PrefixNewTab ==
  /\ Prefixed /\ AppendTab
  /\ place' = AtTab(place, Len(tabs'))
  /\ UNCHANGED <<look, markVars, restVars>>
  /\ Persist({})

PrefixClose == Prefixed /\ CloseActivePane(place) /\ UNCHANGED restVars
PrefixSwap == Prefixed /\ SwapActivePane(place) /\ UNCHANGED restVars
PrefixBalance == Prefixed /\ BalanceActiveLayout(place) /\ UNCHANGED restVars

(* switchTab; in prefix mode the mode is reset afterwards. *)
SwitchTab ==
  /\ (Prefixed \/ Navigating)
  /\ Len(tabs) > 1
  /\ \E i \in {(place.tab % Len(tabs)) + 1, ((place.tab + Len(tabs) - 2) % Len(tabs)) + 1} :
       /\ ShowTab(i)
       /\ place' = AtTab(place, i)
  /\ UNCHANGED <<markVars, restVars>>
  /\ Persist({})

ToggleSidebar ==
  /\ Prefixed
  /\ look' \in Looks
  /\ place' \in {Mode(place, "navigate"), InPanes(place)}
  /\ UNCHANGED <<tabs, panes, nextID, markVars, restVars>>
  /\ Persist({})

(* Keys in navigation mode *)

PrefixFromNavigation ==
  /\ Navigating
  /\ place' = [place EXCEPT !.before = "navigate", !.mode = "prefix"]
  /\ UNCHANGED <<tabs, panes, nextID, look, markVars, saveVars, restVars>>

TabKey ==
  /\ Navigating
  /\ place' \in {[place EXCEPT !.focus = "sidebar", !.cursor = place.tab],
                 [place EXCEPT !.focus = "panes"]}
  /\ place'.focus = "sidebar" => place.focus = "panes"
  /\ UNCHANGED <<tabs, panes, nextID, look, markVars, saveVars, restVars>>

EnterPane ==
  /\ Navigating /\ place.focus = "panes"
  /\ HasSession(ActivePane)
  /\ place' = Mode(place, "terminal")
  /\ UNCHANGED <<tabs, panes, nextID, look, markVars, saveVars, restVars>>

EnterSidebar ==
  /\ Navigating /\ place.focus = "sidebar"
  /\ IF place.cursor = Len(tabs) + 1
       THEN /\ AppendTab /\ UNCHANGED look
            /\ place' = AtTab(place, Len(tabs'))
       ELSE ShowTab(place.cursor) /\ place' = AtTab(place, place.cursor)
  /\ UNCHANGED <<markVars, restVars>>
  /\ Persist({})

MoveCursor ==
  /\ Navigating /\ place.focus = "sidebar"
  /\ \E step \in {place.cursor - 1, place.cursor + 1} :
       place' = [place EXCEPT !.cursor = Clamp(step, 1, Len(tabs) + 1)]
  /\ UNCHANGED <<tabs, panes, nextID, look, markVars, saveVars, restVars>>

(* movePaneFocus *)
MovePaneFocus ==
  /\ Navigating /\ place.focus = "panes"
  /\ \E p \in Active.panes \ {ActivePane} : tabs' = [tabs EXCEPT ![place.tab].active = p]
  /\ UNCHANGED <<panes, nextID, place, look, markVars, restVars>>
  /\ Persist({})

----------------------------------------------------------------------------
(* The mouse.  A click first ends a resize in progress, which saves.       *)

Dragging == drag.kind # "none"
(* A plausible slip: a click finds the gesture of an earlier user going on. *)
KeepDrag(button) ==
  drag' = IF Dragging THEN [drag EXCEPT !.held = (button = "right")] ELSE NoDrag

(* finishResizeGesture *)
FinishDrag(button) == drag' = NoDrag

SaveDrag == IF Dragging THEN Save(Now, {}) ELSE UNCHANGED saveVars
Midway == IF Dragging THEN {Now} ELSE {}

(* closePaneContextMenu *)
PlaceAfterPaneMenu(restore) ==
  Mode(place,
     IF /\ restore /\ paneMenu.previous = "terminal"
        /\ ActivePane = paneMenu.pane /\ Runs(paneMenu.pane)
       THEN "terminal" ELSE "navigate")
(* closeProjectContextMenu *)
PlaceAfterProjectMenu == [Mode(place, "navigate") EXCEPT !.focus = "sidebar"]

(* A click beside an open menu closes it and counts.                         *)
Entry(button) ==
  IF projectMenu.open THEN PlaceAfterProjectMenu
  ELSE IF paneMenu.open THEN PlaceAfterPaneMenu(button = "left")
  ELSE place

Click(button) ==
  /\ Ready /\ ~dialog.open
  /\ UNCHANGED <<dialog, attached, up>>

MenusClosed == paneMenu' = Closed /\ projectMenu' = Closed

(* beginResizeGesture: alt and the right button.                             *)
BeginSidebarDrag ==
  /\ Click("right") /\ MenusClosed
  /\ SaveDrag
  /\ ClearSelection
  /\ place' = InSidebar(Entry("right"), place.tab, tabs)
  /\ drag' = [kind |-> "sidebar", held |-> TRUE, own |-> TRUE]
  /\ UNCHANGED <<tabs, panes, nextID, look>>

BeginPaneDrag(p) ==
  /\ Click("right") /\ MenusClosed
  /\ p \in Active.panes /\ Active.panes # {p}
  /\ SaveDrag
  /\ ClearSelection
  /\ tabs' = [tabs EXCEPT ![place.tab].active = p]
  /\ LET pl == Entry("right")
     IN place' = [Mode(pl, IF pl.mode = "prefix" THEN "navigate" ELSE pl.mode)
                    EXCEPT !.focus = "panes"]
  /\ drag' = [kind |-> "pane", held |-> TRUE, own |-> TRUE, project |-> Active.id, pane |-> p]
  /\ UNCHANGED <<panes, nextID, look>>

(* A click on nothing: a gap, the status line, a pane without a divider. *)
ClickNothing(button) ==
  /\ Click(button) /\ MenusClosed
  /\ SaveDrag /\ FinishDrag(button)
  /\ place' = Entry(button)
  /\ (ClearSelection \/ UNCHANGED markVars)
  /\ UNCHANGED <<tabs, panes, nextID, look>>

(* The sidebar, beside its rows. *)
ClickSidebar(button) ==
  /\ Click(button) /\ MenusClosed
  /\ SaveDrag /\ FinishDrag(button)
  /\ ClearSelection
  /\ place' = InSidebar(Entry(button), place.tab, tabs)
  /\ UNCHANGED <<tabs, panes, nextID, look>>

(* The row of a project: the left button selects it, the right one opens     *)
(* its menu (openProjectContextMenu).                                        *)
SelectProject(i) ==
  /\ Click("left") /\ MenusClosed
  /\ FinishDrag("left")
  /\ ClearSelection
  /\ ShowTab(i)
  /\ place' = InSidebar(AtTab(place, i), i, tabs)
  /\ Persist(Midway)

OpenProjectMenu(i) ==
  /\ Click("right")
  /\ SaveDrag /\ FinishDrag("right")
  /\ ClearSelection
  /\ paneMenu' = Closed
  /\ projectMenu' = [open |-> TRUE, project |-> i, aim |-> tabs[i].id]
  /\ place' = InSidebar(Entry("right"), i, tabs)
  /\ UNCHANGED <<tabs, panes, nextID, look>>

(* The row of an agent: its project, and then its pane.                      *)
SelectAgent(i, p) ==
  /\ Click("left") /\ MenusClosed
  /\ p \in tabs[i].panes /\ HasSession(p)
  /\ FinishDrag("left")
  /\ ClearSelection
  /\ tabs' = [tabs EXCEPT ![i].active = p]
  /\ \E bad \in SUBSET Unstarted(panes, tabs[i].panes) : panes' = Started(panes, tabs[i].panes, bad)
  /\ place' = InSidebar(AtTab(place, i), i, tabs)
  /\ UNCHANGED <<nextID, look>>
  /\ Persist(Midway \cup {Snapshot(tabs, i, look)})

ClickNewProject ==
  /\ Click("left") /\ MenusClosed
  /\ FinishDrag("left")
  /\ ClearSelection
  /\ AppendTab
  /\ place' = InSidebar(AtTab(place, Len(tabs')), Len(tabs'), tabs')
  /\ UNCHANGED look
  /\ Persist(Midway)

(* A pane, left button: it gets the focus and, when its shell runs, the      *)
(* keyboard; beginTerminalSelection may start a selection.                   *)
FocusPane(p) ==
  /\ Click("left") /\ MenusClosed
  /\ p \in Active.panes
  /\ FinishDrag("left")
  /\ tabs' = [tabs EXCEPT ![place.tab].active = p]
  /\ place' = [Mode(Entry("left"), IF Runs(p) THEN "terminal" ELSE "navigate")
                EXCEPT !.focus = "panes"]
  /\ \/ ClearSelection
     \/ /\ Runs(p)
        /\ selection' = p
        /\ selected' = (selected \ {selection}) \cup {p}
  /\ UNCHANGED <<panes, nextID, look>>
  /\ Persist(Midway)

(* A pane, right button: its selection is copied, or its menu opens          *)
(* (openPaneContextMenu).                                                    *)
CopyClick(p) ==
  /\ Click("right") /\ MenusClosed
  /\ p \in Active.panes \cap selected
  /\ SaveDrag /\ FinishDrag("right")
  /\ selected' = selected \ {p}
  /\ selection' = None
  /\ place' = Entry("right")
  /\ UNCHANGED <<tabs, panes, nextID, look>>

OpenPaneMenu(p) ==
  /\ Click("right") /\ projectMenu' = Closed
  /\ p \in Active.panes
  /\ FinishDrag("right")
  /\ ClearSelection
  /\ tabs' = [tabs EXCEPT ![place.tab].active = p]
  /\ paneMenu' = [open |-> TRUE, pane |-> p, previous |-> Entry("right").mode]
  /\ place' = InPanes(Entry("right"))
  /\ UNCHANGED <<panes, nextID, look>>
  /\ Persist(Midway)

(* The wheel, beside menus. *)
Wheel ==
  /\ Quiet
  /\ ClearSelection
  /\ UNCHANGED <<tabs, panes, nextID, place, look, saveVars, restVars>>

(* handleResizeGestureMotion: with the right button held the divider of the  *)
(* gesture follows, as long as its project is shown and its pane is there.   *)
StaleDrag == drag.kind = "pane" /\ (Active.id # drag.project \/ drag.pane \notin Active.panes)

ResizeMotion ==
  /\ Ready /\ Dragging /\ drag.held
  /\ IF StaleDrag THEN drag' = NoDrag /\ UNCHANGED look
                  ELSE look' \in Looks /\ UNCHANGED drag
  /\ UNCHANGED <<tabs, panes, nextID, place, menuVars, markVars, saveVars, userVars>>

(* Its release moves it once more and then saves.                            *)
ResizeRelease ==
  /\ Ready /\ Dragging /\ drag.held
  /\ drag' = NoDrag
  /\ UNCHANGED <<tabs, panes, nextID, place, menuVars, markVars, attached, up>>
  /\ IF StaleDrag THEN UNCHANGED <<look, saveVars>>
                  ELSE look' \in Looks /\ Persist({})

(* A plausible slip: the resize ends where only a release would save it. *)
ResizeForgotten ==
  /\ Ready /\ Dragging
  /\ drag' = NoDrag
  /\ UNCHANGED <<tabs, panes, nextID, place, look, menuVars, markVars, saveVars, userVars>>

(* Any other motion or release ends a resize that is still on.               *)
ResizeEnds ==
  /\ Ready /\ Dragging
  /\ drag' = NoDrag
  /\ UNCHANGED <<tabs, panes, nextID, place, look, menuVars, markVars, userVars>>
  /\ Persist({})

(* Motion and release of the left button while a selection is dragged.       *)
DragSelection ==
  /\ Quiet /\ ~Dragging /\ selection # None
  /\ IF HasSession(selection) /\ selection \in Active.panes
       THEN ClearSelection \/ UNCHANGED markVars
       ELSE ClearSelection
  /\ UNCHANGED <<tabs, panes, nextID, place, look, saveVars, restVars>>

----------------------------------------------------------------------------
(* The menus and the dialog                                                *)

(* Esc in a menu. *)
LeaveMenu ==
  /\ Ready /\ (paneMenu.open \/ projectMenu.open)
  /\ place' = IF paneMenu.open THEN PlaceAfterPaneMenu(TRUE) ELSE PlaceAfterProjectMenu
  /\ MenusClosed
  /\ UNCHANGED <<tabs, panes, nextID, look, dialog, drag, markVars, saveVars, userVars>>

(* activatePaneContextMenuItem: the items that are enabled.                  *)
PaneMenuOpen == Ready /\ ~dialog.open /\ ~projectMenu.open /\ paneMenu.open
MenuRest == paneMenu' = Closed /\ UNCHANGED <<projectMenu, drag, userVars>>
Plain == PlaceAfterPaneMenu(FALSE)

MenuSplit ==
  /\ PaneMenuOpen /\ SplitActive(Plain)
  /\ MenuRest /\ UNCHANGED <<look, dialog>>
  /\ Persist({})

MenuNewProject ==
  /\ PaneMenuOpen /\ AppendTab
  /\ place' = AtTab(Plain, Len(tabs'))
  /\ MenuRest /\ UNCHANGED <<look, dialog, markVars>>
  /\ Persist({})

MenuMove ==
  /\ PaneMenuOpen /\ Active.panes # {ActivePane} /\ SwapActivePane(Plain)
  /\ MenuRest /\ UNCHANGED dialog

MenuBalance ==
  /\ PaneMenuOpen /\ Active.panes # {ActivePane} /\ BalanceActiveLayout(Plain)
  /\ MenuRest /\ UNCHANGED dialog

MenuClose ==
  /\ PaneMenuOpen /\ (Active.panes # {ActivePane} \/ Len(tabs) > 1)
  /\ CloseActivePane(Plain)
  /\ MenuRest /\ UNCHANGED dialog

(* openPaneRenameDialog *)
MenuRename ==
  /\ PaneMenuOpen
  /\ paneMenu.pane \in Active.panes
  /\ tabs' = [tabs EXCEPT ![place.tab].active = paneMenu.pane]
  /\ dialog' = [open |-> TRUE, kind |-> "pane", pane |-> paneMenu.pane,
                project |-> place.tab, aim |-> Active.id,
                previous |-> paneMenu.previous, focus |-> "panes",
                cursor |-> place.cursor]
  /\ place' = InPanes(Plain)
  /\ MenuRest
  /\ UNCHANGED <<panes, nextID, look, markVars, saveVars>>

(* activateProjectContextMenuItem *)
ProjectMenuClose ==
  /\ Ready /\ ~dialog.open /\ projectMenu.open
  /\ CloseProject(projectMenu.project)
  /\ projectMenu' = Closed
  /\ UNCHANGED <<paneMenu, dialog, drag, userVars>>

(* openProjectRenameDialog *)
ProjectMenuRename ==
  /\ Ready /\ ~dialog.open /\ projectMenu.open
  /\ projectMenu.project \in DOMAIN tabs
  /\ dialog' = [open |-> TRUE, kind |-> "project", pane |-> None,
                project |-> projectMenu.project, aim |-> projectMenu.aim,
                previous |-> "navigate", focus |-> "sidebar", cursor |-> place.cursor]
  /\ place' = [PlaceAfterProjectMenu EXCEPT !.cursor = projectMenu.project]
  /\ MenusClosed
  /\ UNCHANGED <<tabs, panes, nextID, look, drag, markVars, saveVars, userVars>>

(* closeProjectRenameDialog *)
LeaveDialog ==
  /\ dialog' = Closed
  /\ LET back == [Mode(place, "navigate") EXCEPT !.focus = dialog.focus,
                 !.cursor = Clamp(dialog.cursor, 1, Len(tabs) + 1)]
     IN place' = IF dialog.previous = "terminal" /\ Runs(ActivePane)
                   THEN [Mode(back, "terminal") EXCEPT !.focus = "panes"]
                   ELSE back

CancelRename ==
  /\ Ready /\ dialog.open
  /\ LeaveDialog
  /\ UNCHANGED <<tabs, panes, nextID, look, paneMenu, projectMenu, drag, markVars,
                 saveVars, userVars>>

(* confirmProjectRename: the pane, or whatever project is at the index now.  *)
ConfirmRename ==
  /\ Ready /\ dialog.open
  /\ IF dialog.kind = "pane" THEN dialog.pane \in DOMAIN panes
                             ELSE dialog.project \in DOMAIN tabs
  /\ look' \in Looks
  /\ LeaveDialog
  /\ UNCHANGED <<tabs, panes, nextID, paneMenu, projectMenu, drag, markVars, userVars>>
  /\ Persist({})

----------------------------------------------------------------------------
(* The runtime, and faults                                                 *)

Resized ==   \* WindowSizeMsg
  /\ Ready
  /\ ClearSelection
  /\ drag' = NoDrag
  /\ SaveDrag
  /\ UNCHANGED <<tabs, panes, nextID, place, look, menuVars, userVars>>

Attach ==
  /\ up /\ ~attached /\ attached' = TRUE
  /\ UNCHANGED <<tabs, panes, nextID, place, look, menuVars, drag, markVars, saveVars,
                 up>>

(* ClientDetached, whatever the reason: q, a broken connection, another      *)
(* client.  The gesture of a resize is left as it is.                        *)
Detach ==
  /\ Ready
  /\ ClearSelection
  /\ paneMenu' = Closed /\ projectMenu' = Closed /\ dialog' = Closed
  /\ place' = InPanes(place)
  /\ drag' = IF Dragging THEN [drag EXCEPT !.held = FALSE, !.own = FALSE] ELSE drag
  /\ attached' = FALSE
  /\ UNCHANGED <<tabs, panes, nextID, look, up>>
  /\ Persist({})

ShellEnds(p) ==
  /\ up /\ Runs(p)
  /\ panes' = [panes EXCEPT ![p] = "dead"]
  /\ UNCHANGED <<tabs, nextID, place, look, menuVars, drag, markVars, saveVars, userVars>>

(* No process: what is left is the database. *)
StartPlace(i) == [tab |-> i, cursor |-> i, mode |-> "navigate", before |-> "navigate",
                  focus |-> "panes"]

Init ==
  /\ tabs = <<>> /\ panes = <<>> /\ nextID = 0 /\ place = StartPlace(1)
  /\ look = AnyLook
  /\ paneMenu = Closed /\ projectMenu = Closed /\ dialog = Closed
  /\ drag = NoDrag /\ selection = None /\ selected = {}
  /\ saved = Nothing /\ unsaved = FALSE
  /\ attached = FALSE /\ up = FALSE

Gone ==
  /\ up /\ up' = FALSE
  /\ tabs' = <<>> /\ panes' = <<>> /\ nextID' = 0 /\ place' = StartPlace(1)
  /\ look' = AnyLook
  /\ paneMenu' = Closed /\ projectMenu' = Closed /\ dialog' = Closed
  /\ drag' = NoDrag /\ selection' = None /\ selected' = {}
  /\ attached' = FALSE

(* Model.Close at a stop request, or the process dies. *)
Stop == Gone /\ Save(Now, {})
Crash == Gone /\ UNCHANGED saveVars

(* Open with an empty database: a project of one pane, which must be saved.  *)
DefaultTabs == <<[id |-> 2, panes |-> {1}, active |-> 1]>>
OpenFirst ==
  /\ ~up /\ saved.tabs = <<>>
  /\ tabs' = DefaultTabs /\ nextID' = 2
  /\ \E shell \in {"running", "dead"} : panes' = [p \in {1} |-> shell]
  /\ up' = TRUE /\ saved' = Snapshot(DefaultTabs, 1, look) /\ unsaved' = FALSE
  /\ UNCHANGED <<place, look, menuVars, drag, markVars, attached>>

OpenFails ==
  /\ ~up /\ saved.tabs = <<>>
  /\ saved' \in {saved, Snapshot(DefaultTabs, 1, look)}
  /\ UNCHANGED <<tabs, panes, nextID, place, look, menuVars, drag, markVars, unsaved,
                 userVars>>

(* Open with a snapshot: restoreSnapshot. *)
Restore ==
  /\ ~up /\ saved.tabs # <<>>
  /\ tabs' = saved.tabs
  /\ nextID' = Absorbed(saved.tabs)
  /\ \E i \in DOMAIN tabs' :
       /\ tabs'[i].id = saved.current
       /\ place' = StartPlace(i)
       /\ \E bad \in SUBSET tabs'[i].panes :
            panes' = Started([p \in AllPanes(tabs') |-> "idle"], tabs'[i].panes, bad)
  /\ look' = saved.look
  /\ up' = TRUE /\ unsaved' = FALSE
  /\ UNCHANGED <<menuVars, drag, markVars, saved, attached>>

----------------------------------------------------------------------------
Key ==
  \/ CopyKey \/ TypeKey \/ PrefixFromTerminal
  \/ LeavePrefix \/ PrefixSplit \/ PrefixNewTab \/ PrefixClose \/ PrefixSwap \/ PrefixBalance
  \/ SwitchTab \/ ToggleSidebar
  \/ PrefixFromNavigation \/ TabKey \/ EnterPane \/ EnterSidebar \/ MoveCursor \/ MovePaneFocus

Mouse ==
  \/ BeginSidebarDrag
  \/ \E button \in {"left", "right"} : ClickNothing(button) \/ ClickSidebar(button)
  \/ \E i \in DOMAIN tabs : SelectProject(i) \/ OpenProjectMenu(i)
  \/ \E i \in DOMAIN tabs, p \in DOMAIN panes : SelectAgent(i, p)
  \/ ClickNewProject
  \/ \E p \in DOMAIN panes : BeginPaneDrag(p) \/ FocusPane(p) \/ CopyClick(p) \/ OpenPaneMenu(p)
  \/ Wheel \/ ResizeMotion \/ ResizeRelease \/ ResizeEnds \/ DragSelection

Menu ==
  \/ LeaveMenu
  \/ MenuSplit \/ MenuNewProject \/ MenuMove \/ MenuBalance \/ MenuClose \/ MenuRename
  \/ ProjectMenuClose \/ ProjectMenuRename \/ CancelRename \/ ConfirmRename

Runtime ==
  \/ Resized \/ Attach \/ Detach
  \/ \E p \in DOMAIN panes : ShellEnds(p)
  \/ Stop \/ Crash \/ OpenFirst \/ OpenFails \/ Restore

Next == Key \/ Mouse \/ Menu \/ Runtime

Spec == Init /\ [][Next]_vars

----------------------------------------------------------------------------
(* Properties                                                              *)

Modes == {"navigate", "terminal", "prefix"}
Areas == {"panes", "sidebar"}

(* Every variable has its type: the variables of Model and its snapshot.     *)
TypeOK ==
  /\ tabs \in Seq([id : Ids, panes : SUBSET Ids, active : Ids])
  /\ DOMAIN panes \subseteq Ids
  /\ \A p \in DOMAIN panes : panes[p] \in {"idle", "running", "dead"}
  /\ nextID \in 0 .. MaxId /\ look \in Looks
  /\ place.mode \in Modes /\ place.before \in Modes \ {"prefix"} /\ place.focus \in Areas
  /\ place.tab \in Nat \ {0} /\ place.cursor \in Nat \ {0}
  /\ selected \subseteq Ids /\ selection \in Ids \cup {None}
  /\ unsaved \in BOOLEAN /\ attached \in BOOLEAN /\ up \in BOOLEAN

(* Panes and layouts agree (model.go: panes, tabs, newID, absorbID): every   *)
(* pane with its shell is a leaf of exactly one project, so that no shell is *)
(* left running where nobody can reach or close it; the ids in use differ,   *)
(* and none in use or in the database will be handed out again (one that was *)
(* given up and is no longer saved may be, after a restart).                 *)
PanesOwned ==
  up => /\ AllPanes(tabs) = DOMAIN panes
        /\ \A i, j \in DOMAIN tabs :
             i # j => tabs[i].panes \cap tabs[j].panes = {} /\ tabs[i].id # tabs[j].id
        /\ \A i \in DOMAIN tabs : tabs[i].id \notin DOMAIN panes
        /\ \A n \in AllIds(tabs) \cup AllIds(saved.tabs) : n <= nextID

(* What the next key acts on is what the user sees.                          *)
FocusShown ==
  /\ place.tab \in DOMAIN tabs /\ place.cursor <= Len(tabs) + 1
  /\ \A i \in DOMAIN tabs : tabs[i].active \in tabs[i].panes
  /\ \A p \in Active.panes : panes[p] # "idle"
(* At most one menu or dialog is open, and typing goes to no shell meanwhile. *)
OneOverlay ==
  /\ ~NoMenu => place.mode = "navigate"
  /\ ~(paneMenu.open /\ projectMenu.open) /\ ~(dialog.open /\ (paneMenu.open \/ projectMenu.open))
(* The commands of a pane's menu act on the focused pane, the project menu    *)
(* and the dialog hold an index: both still mean what the user pointed at.    *)
AimKept ==
  /\ paneMenu.open => paneMenu.pane = ActivePane
  /\ projectMenu.open => /\ projectMenu.project \in DOMAIN tabs
                         /\ tabs[projectMenu.project].id = projectMenu.aim
  /\ dialog.open => /\ dialog.project \in DOMAIN tabs
                    /\ tabs[dialog.project].id = dialog.aim
                    /\ dialog.kind = "pane" => dialog.pane \in tabs[dialog.project].panes
(* A selection that is highlighted is the one the next key or click clears.   *)
OneSelection ==
  /\ selected \subseteq {selection}
  /\ selection \in DOMAIN panes \cup {None}

(* The user's commands hit their target (model.go 305-499, context_menu.go,  *)
(* project_context_menu.go, project_rename.go, selection.go), whatever was   *)
(* closed, swapped, resized or detached in between.                          *)
TargetsHold == up => FocusShown /\ OneOverlay /\ AimKept /\ OneSelection

(* A crash loses nothing that the user was not still dragging (persist in    *)
(* persistence.go): unless the last save failed, which the notice says.      *)
NothingUnsaved == up /\ ~unsaved /\ ~Dragging => saved = Now

(* A resize follows the mouse of the user who began it: ClientDetached       *)
(* (model.go:931) leaves the gesture, and the first click of whoever comes   *)
(* next must end it before a motion is taken for it.                         *)
DragIsOwn == Dragging => (drag.held => drag.own)

=============================================================================
