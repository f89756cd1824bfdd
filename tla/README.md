# A TLA+ verification of split

split is a terminal workspace.  A front end (`split` in the user's terminal)
attaches over a named pipe or Unix socket to one detached runtime, which owns
the projects and panes, the shells and agents in them, and a SQLite database
from which all of that is rebuilt after a restart.  This directory holds TLA+
modules that model the program, TLC configurations that check them on small
instances, and theorems about them that TLAPS checks for every value of the
constants.  All paths below are relative to the repository (`src/`).

## Inventory

| Component | State it keeps | Operations | What must be right |
| --- | --- | --- | --- |
| Runtime event loop (`internal/sessionserver/server.go`) | accepted peers, the active one, pending clipboard text, dirty flag | accept, attach with takeover, input, detach, stop, tick | one user at a time; nothing of one user reaches another; every connection is answered unless a terminal holds the loop |
| Front end (`sessionserver/client.go`) | last frame, one-slot mailbox, closing flags | read, queue and merge frames, update, send | newest frame wins, one-shot texts are neither lost nor repeated, a closed connection ends the program |
| Life cycle (`sessionserver/lifecycle.go`, `main.go`) | the endpoint, the runtime process | connect or launch, stop | one runtime per database; stop is acknowledged when it is done |
| Workspace model (`internal/app/model.go`, `update.go`, menus, dialogs) | tabs, panes, layout, focus, mode, menus, gestures | keys, mouse, split, close, move, rename, detach, save, restore | every pane has one place, commands hit what the user pointed at, a crash loses nothing, a gesture ends with its user |
| Agent sessions of panes (`app/model.go` RefreshAgents and captureCodexSessions, `hooks/session.go`, `state/store.go`) | binding of pane and provider session in the database and in memory | scan, capture, hook write, clear, resume | the binding is a session that ran in that pane; an exited agent is not resumed, a live one is |
| State store (`internal/state/store.go`) | the database: workspace, bindings, usage; its schema version | load, save, upsert, clear, migrate, import of event files | a save is atomic; newer stamps win; no event is lost with its file |
| Agent tracker (`internal/agent/agent.go`) | state per pane with holds and grace | refresh, submit, interrupt | an interrupted turn is not shown as finished, a spinner stops |
| Terminal session (`internal/terminal/session.go`) | emulator, process, state, cursor timer | read, write, resize, close, resume command | nothing goes undrawn, a timer that outlives close does no harm, close ends |
| Scrollback and selection (`terminal/selection.go`, `app/selection.go`) | offset, selection, gesture | output, wheel, press, drag, release, copy | what is highlighted is what is copied, and what the user drew over |
| Output filter (`terminal/output_filter.go`) | bytes held back | filter | titles are taken out and nothing else |
| Layout (`internal/layout`) | the split tree | split, remove, swap, equalize, resize, neighbour | rectangles tile the area, resizing moves one divider, a key leads on wherever a pane lies that way |
| Provider usage (`internal/usage`, `app/provider_usage.go`) | last weekly window per provider | collect, cache, expire | an older value never replaces a newer one |
| Hook installation (`internal/hooks/install.go`, `uninstall.go`) | provider configuration files | merge, back up, replace, remove | the user's settings survive failures and other writers |
| Diagnostics (`internal/diagnostics`) | an append-only log | append | does not matter to any property |
| Rendering (`app/view.go`, themes), process inspection (`agent/process_windows.go`), command line (`main.go`) | none | draw, list processes, parse arguments | inputs and outputs of the above |

The parts meet in the runtime's one goroutine (`run` in server.go).  It takes
requests of front ends, terminal events, usage events and a 60 Hz tick from a
`select`; the tick refreshes agents four times a second and metadata once a
second.  Other goroutines only feed that loop (one reader per connection, three
workers per terminal, a usage collector), and other processes only meet it in
the database (session hooks and the Claude status line).  What is hard is
therefore: takeovers with frames in flight, frames that fail to be written, the
lossy mailbox in the front end, writes of hook processes that race the scan of
the runtime, restarts in between, and what a restart makes of the saved state.

## Modules

| Module | Models | Lines of |
| --- | --- | --- |
| `SessionWire` | the two streams of a connection, requests and frames | `protocol.go`, `transport_*.go` |
| `SessionServer` | the event loop of the runtime, one action per case of its select | `server.go`, `app/persistence.go` |
| `SessionClient` | the front end (reader, mailbox, program loop) and the stop command | `client.go`, `lifecycle.go` |
| `SessionSystem` | the two composed, with their properties | |
| `SessionLease` | abstract: the screen is on lease to one client at a time | |
| `SessionSystemProofs` | theorems about `SessionSystem` | |
| `MCSession` | symmetry for its runs | |
| `PaneStore` | saved panes and session bindings, one action per statement | `state/store.go` |
| `AgentProcesses` | agents in panes, their hooks, discovery in the process tree | `hooks/session.go`, `agent/agent.go`, `main.go` |
| `AgentBinding` | scan, capture from the log, resume, new and closed panes, stop, crash, restart | `app/model.go`, `app/persistence.go` |
| `AgentBindingProofs`, `MCBinding` | its theorems; its instance | |
| `TerminalSession` (`TerminalSessionProofs`) | one terminal: workers, lock, pipe, timer, events, Close | `terminal/session.go` |
| `TerminalHistory` (`ScreenProofs`) | scroll offset and selection over a bounded history | `terminal/selection.go`, `terminal/session.go`, `app/selection.go` |
| `RuntimeLifecycle` | connect or launch, stop, crash, the legacy directory | `lifecycle.go`, `transport_windows.go`, `main.go`, `state/store.go` |
| `Workspace` (`WorkspaceProofs`) | projects, panes, focus, modes, menus, dialog, gestures, saves and restarts, one action per message | `app/model.go`, `update.go`, `context_menu.go`, `project_context_menu.go`, `project_rename.go`, `resize.go`, `selection.go`, `persistence.go` |
| `LayoutTree` (`ScreenProofs`) | the split tree and its rectangles | `layout/layout.go`, `layout/resize.go` |
| `PaneOrder` | abstract: a list of panes with insert, remove and exchange | |
| `MCScreen` | `TerminalHistory`, `LayoutTree` and `OutputFilter` side by side | |
| `AgentTracker` (`AgentTrackerProofs`) | what the sidebar says of an agent, over time | `agent/agent.go`, `app/model.go` |
| `OutputFilter` (`ScreenProofs`) | the byte automaton, fed in reads of any length | `terminal/output_filter.go` |
| `MCPane` | `TerminalSession` and `AgentTracker` side by side | |
| `HookInstall` | install and uninstall of hooks, step by step, with failures and other writers | `hooks/install.go`, `hooks/uninstall.go`, `main.go` |
| `StoreOpening` | opening the database: schema, import of event files | `state/store.go` |
| `MCStartup`, `StartupProofs` | `RuntimeLifecycle`, `HookInstall` and `StoreOpening` side by side; theorems about all three | |
| `UsageWindow` | which window of a Codex answer is the weekly one | `usage/codex.go` |
| `ProviderUsage` (`ProviderUsageProofs`) | collector, app-server, event channel, cache, status lines | `usage/*.go`, `app/provider_usage.go`, `state/store.go` |

`map` in PROJECT.json names the lines behind every definition.

### Session protocol

`SessionServer` has an action for each thing the loop does in one turn: accept,
attach (with the displacement of the active client), input, quit, stop, a burst
of events, a tick, a lost peer.  The workspace is seen only through what the
loop asks of it: `rev` counts visible changes, `uiBy` is whoever opened a
transient menu, `pendingClip` and `author` follow copied texts.  In
`SessionClient` the reader goroutine, the send into the mailbox, the merge with
a stale frame (`replaceStale`), `waitForFrame` and `Update` are separate steps,
because other goroutines get in between.  `SessionSystem` interleaves them all
and adds programs that are killed or quit at any time.

A turn of the loop may not come back: `SendKey`, `Render` and `Close` of a
terminal wait for `Session.mu`, and the lock is kept by whoever hands a text to
a child that does not read (terminal/session.go:443-455, the run
`terminal_stop`).  With `MayHold` a turn may therefore stop in the middle, after
the first steps of an attach (`AttachHeld`), in `ClientDetached`, or in input,
event, tick or stop (`Hold`); `stuck` is then true, the loop takes no case of its
select any more (`Idle`), and nothing in the model ends it.

`SessionLease` says what the users are promised, with no wire in it: a client
asks once, may hold the screen once, and only the holder's copies reach a
clipboard, its own, each at most once and in order.  `LeaseSpec` is the
refinement: `standing` is computed from the state of the connection and of
`active`.

### Agent sessions

`AgentBinding` splits `RefreshAgents` at its statements: `BeginScan` (observe),
`ClearBinding` per ended agent, `BeginCapture`, one `Capture...` per pane,
`EndScan`.  Between any two of them agents start, end and switch sessions, and
their hooks (`AgentProcesses`), which stamp first and write when the database
lets them, go on, also after their agent, pane or runtime is gone.  Restart is
`CloseModel` or `Crash`, then `Open`.  `NewPane` starts a shell before the save
that names it, which may fail: then the pane has no row, and hooks and captures
find none.

Panes are numbers.  `nextID` counts from the highest saved one (`absorbID`,
app/persistence.go:251), so after a restart the number of a pane that was closed
or never saved may be given again.  `ran` then starts anew, and `late` notes the
hooks that were on their way under that number: they write into the new pane.
`BindingIsOwn` names them as the one way in which a session of another pane gets
in; what the runtime reads in a log is the pane's own in any case.

### Workspace

`Workspace` has an action for each message of `Model.Update`: the keys of the
four modes, each thing the mouse may hit, the entries of the two menus, the two
ends of the dialog, and what the runtime does (`ClientDetached`, a shell that
ends, `Close`, `Open`, a crash).  Every action ends in the saves the code ends
in, one or two, and a save may fail.  `aim` in a menu or dialog and `own` in a
drag are history: what the user pointed at, and whose drag it is.  `Open` has
the three ways of `app.Open`: nothing saved, a snapshot, and a restore that fails
after shells were started.

### Layout

`LayoutTree` keeps the split tree as a function from paths (sequences of 1 and 2)
to nodes, so that splitting, removing and swapping are function updates and no
operator recurs over a data type.  Rectangles come from ratios of natural
numbers with the flooring, clamping and halving of `SplitSizes`.  `PaneOrder`
knows only the list of leaves, where a new pane comes directly behind one of the
others, whichever it is; `OrderSpec` shows that the tree implements it, with
`Leaves(tree)` for the list.

`FocusMoves` says that an arrow key leads somewhere whenever a pane lies wholly
that way.  It does not say that the four keys together reach every pane, because
from five panes on they need not: between two columns that are split in two rows
each, a pane of full height is never entered, since from a row on the left the
pane at the same height on the right is preferred however far it is
(layout/layout.go:275; README.md:86, "Move between panes").  Up to four panes
every pane is reached; the mouse reaches the others.

### Agent status

`AgentTracker` is the tracker of one pane: `Refresh` judges the marks on the
screen, the silence of the terminal and four deadlines in the order of the code;
`Enter` and `Esc` are what the keyboard handler notes; time passes in units that
keep the order of the four durations.  `lapse` and `busy` are history: whether
what happened since the last Esc could be a finished turn.

### Start

`HookInstall` is a procedure per command (script, read and merge, backup,
replace) that may fail at any step; what is not split's in a settings file is a
number, the edit that set it.  `lastEdit` is the last edit made, `raced` the files
in which a command overwrote an edit it had not read, `aged` those edited after
their backup, which is never made again.  `StoreOpening` is a procedure per process that
opens the database: check of the version, migration, list of files, import,
removal; bindings are cleared and panes closed meanwhile.

### Terminal

`TerminalSession` gives every goroutine a program counter (`output`, `forward`,
`exit`, `resume`, `loop`) around one lock (`owner`).  A text typed while the lock
is held is handed over piece by piece (`text`) through a pipe that has no
buffer; the pseudo terminal has one on each side; the event channel drops what
does not fit.  `stale` says that something visible has changed and was not drawn
yet, `moved` that a resume command has reset scroll offset and selection, which
it announces to nobody.  `TerminalHistory` numbers lines in the order in which they
appeared; the code only has rows counted from the oldest kept line, and the
properties compare the two.  `OutputFilter` runs the automaton over each read;
`Left` says without states what of the whole output is to come out: it cuts it
into pieces, each from its first byte to the first one that closes it, and leaves
the titles among them out.

### Life cycle

`RuntimeLifecycle` has a counter per user (`pc`) and per runtime (`proc`).
File semantics are those of Windows: names do not depend on case, a directory
with an open file cannot be renamed, a pipe vanishes with its process.

### Usage

`ProviderUsage` has the three selects of `emit` as three steps, so that the
loop can empty the channel between them.  The app-server answers, refuses,
notifies or ends at any time; what shape an answer has is chosen when it is
read, and `UsageWindow` picks the window out of it, with a length that is
declared, be it 0, or that is not.

## Runs

Every property has a mutant in PROJECT.json: the model with a plausible slip in
the definition named there, under which the run must fail.

| Run | Instance | States | Shows |
| --- | --- | --- | --- |
| `session` | 2 clients, 2 inputs, pipe of 1 frame | 889,070 | detach leaves nothing behind, no input is read and ignored, UI and clipboard stay with their owner, texts once and in order, farewell frames arrive, refinement of `SessionLease` |
| `session_live` | 2 clients, no inputs, 1 burst of events, turns that are held | 83,012 | every connection is answered and the newest frame is shown unless a terminal holds the loop; a dropped front end ends in any case |
| `binding` | 1 saved pane, 2 processes, a Codex and a Claude session, 1 instant | 158,316 | an ended agent is not bound from the log; a Codex agent that stays comes to be bound |
| `binding_panes` | 2 panes, 1 process, 2 Codex sessions, 2 instants, 2 hooks at a time | 1,275,272 | a binding is a session that ran in the pane, but for a hook that outlives the runtime and finds its number given again; memory is backed by the database, unvisited panes keep theirs |
| `terminal` | texts of 1 piece, all buffers 1, 1 timer goroutine | 1,926,620 | no lost redraw but that of a resume command, the cursor settles, a timer that outlives Close finds nothing to do |
| `terminal_stop` | texts of 2 pieces | violation | Close may wait for the lock for ever |
| `pane` | terminal without timer, with a resume command; 2 agents, times 1 to 4 | 255,157 | Close returns once it has the lock; an interrupted turn gets no tick, the spinner stops |
| `lifecycle` | 2 front ends, 1 stop command, 2 runtimes, crashes; 2 commands, 2 settings files, 1 edit, 2 failures; runtime and helper, 2 panes, 3 event files | 615,078 | one runtime at most, a waiting user gets one; settings that are cut short can be had back, the last edit of them too unless a command missed it or it came after the backup; no event is lost |
| `lifecycle_database` | 2 front ends, no crashes | violation | the legacy database can be left under a temporary name |
| `workspace` | 5 ids, 2 looks, one save that fails at a time | 331,895 | every pane is in one place, ids in use differ, commands hit their target, a crash loses nothing, a drag is its user's |
| `screen` | up to 3 panes in 24 or 60 x 30 cells; 3 lines of history, pane of 2 x 2, 4 lines pushed; reads of 1 and 2 bytes, 6 in all, 5 held back | 91,913 | only titles are filtered; highlighted = copied = drawn over; rectangles tile, dividers land, keys lead on, the order is kept |
| `usage` | channel and wire of 1, 1 account window, 2 status lines | 137,292 | newest event kept, shown value survives a restart, the window comes through, Close returns |

In `pane`, `lifecycle` and `screen` the parts have no variable in common; one of
them moves in a behaviour and the others stay as they began, so the states are
a sum and not a product.

### Bounds and why they are enough

* Session: what can go wrong takes one client to displace another, so two
  clients; each connection is dialled once, since a new connection is a new
  client.  `MaxInputs` 2 lets a copy be followed by another copy, by a quit or
  by the input of the other user.  With `WireCap` 1 a frame blocks behind one
  that is not read; larger capacities only delay that.  The merging mailbox
  needs one frame in the mailbox, one in the reader and one on the wire.  The
  liveness run has no inputs: a turn that takes one ends like a turn that takes
  an event, or is held like it.  `MayHold` is on in the liveness run and off in
  `session`, whose properties the theorems cover with either value.
* Binding: two processes let one agent run inside another or replace it, two
  panes let a session cross, two hooks overtake one another (`FewHooks`), two
  instants let stamps be equal or different.  `binding` has one instant: all
  stamps are equal and every write is accepted.  `SavedSpec` starts `binding`
  with its pane saved; in `binding_panes` any panes may be.  The theorems hold
  for any number.
* Terminal: buffers of size one are full with one item and empty without it,
  which are the two cases the code distinguishes.  A text of two pieces is one
  that is interrupted in the middle.
* Start: two runtimes compete for one endpoint; the third user stops.  Two
  commands on two files overlap in every way; two failures are what the backup
  and the fallback are there for (a third one is below).  Two event files of one
  pane are taken in either order, with a migration, a hook and a crash between.
* Workspace: five ids are two projects with a third pane, or one with four; a
  save that fails is followed by one that works, since two are like one longer
  failure.
* Layout: three panes make every shape in which a divider has another above or
  beside it; the two widths are one with room for the minima and one without.
* Tracker: the four durations are 1 to 4, which keeps their order; times beyond
  the longest are alike.  A second agent replaces the first.
* Filter: the shortest title has five bytes, with ESC \ six, so the limit of five
  is met, kept and exceeded.
* History: the capacity is exceeded by one line, selections span three
  rows and the first, the last and a middle one differ.
* Usage: a channel of size one is full or empty; the account may have no window
  at first and its window may end; two status lines suffice to write in the
  wrong order.

Symmetry is used only in runs without liveness.  Deadlock is checked in `usage`;
the other models may stop (every connection was used, every process id was
used, the history is full, the terminal is closed).

### Fairness

Weak fairness stands for goroutines and processes that go on when they can, one
condition per goroutine.  Where it is strong, the code justifies it:

* the runtime's select takes one of the ready cases at random, and each stays
  ready until it is taken, so weak fairness per case (`Serve` of each connection,
  `Tick` or `Shutdown`).  This is about a loop that comes back to its select.  It
  need not: a terminal whose child does not read may keep `Session.mu` for good
  (`StopEnds`), and a turn that waits for it is never over.  So the cases are fair
  only while no turn is held, `Hold` is not fair and nothing ends it, and
  `AttachAnswered` and `LatestIsShown` make that exception by name;
* `waitForFrame` is strong: it blocks in a channel receive, and the send of
  `queueFrame` is handed to a receiver that waits, though `replaceStale` empties
  the mailbox for a moment;
* `CaptureFound` and the scan that observes the processes are strong: the log of
  Codex and the process list cannot be unreadable for ever (an assumption about
  the machine);
* `Interrupted` is strong: a cancelled context is one of the ready cases each
  time the collector comes back to its select; `Answers` and
  `ApplyProviderUsage` are strong: the app-server answers in the end, and the
  database takes a value some time (assumptions about both).

The tracker's `Refresh` and `TimePasses` are weak: the tick of the runtime comes
again and again, and so does the clock.  `HookInstall`, `StoreOpening`,
`Workspace`, `LayoutTree` and `OutputFilter` state no liveness and need none.

Nobody has to dial, type, quit, crash, stop, start an agent or use an account.

## Findings

Two runs show the code doing other than its documentation says:

* `terminal_stop`, `StopEnds`: `Close` (terminal/session.go:540) takes the lock
  first, but keys, pastes and answers of the emulator hold it while they wait
  for `forwardInput`, which may be gone after a failed write or blocked on a
  child that does not read.  README.md:127 says the stop closes every ConPTY and
  exits.  A key or a frame that needs that lock holds the loop in the same way,
  and with it everybody who wants to attach (`stuck` in `SessionServer`).
* `lifecycle_database`, `DatabaseKept`: the legacy directory is renamed twice
  (state/store.go:112-116); if somebody's log entry creates the new directory
  in between, the database stays under the temporary name.  store.go:74 says
  "without losing the database".

## Proofs

TLAPS checks these for every value of the constants, from the named assumptions
beside their declarations (capacities that are natural numbers, model values
that differ).  No proof depends on a bound being small.

| Theorem | Argument |
| --- | --- |
| type correctness: `Typing` of bindings and of the terminal, `LifecycleTyping`, `OpeningTyping`, `TrackerTyping`, `WorkspaceTyping`, `HistoryTyping`, `LayoutTyping`, and of the hooks in `SettingsInv` | one lemma per group of actions |
| `DetachLeavesNothing`, `InputsCount` | `LeaseInv`: a connection nobody accepted has not been spoken on, and the request to attach is the first one; so a peer with an input in front has attached, and whoever attached later has displaced and dropped it |
| `UiStaysHome`, `ClipboardSafety` | `HomeInv`: `LeaseInv`, and every frame on the wire, in the mailbox, held or shown is its own client's, and so is the pending text |
| `ClipboardOrder` | `OrderInv`: the texts on the clipboard, held, in the mailbox, in the reader, on the wire and pending increase in that order, which the merge keeps because it prefers the text of the older frame |
| `LeaseRefinement` | step by step from `OrderInv`; `standing` changes with connection and `active` only |
| `FarewellSafety` | `ReaderInv`: the reader returned only if its last result was an error that is still underway; a merged frame keeps a farewell |
| `MemorySafety`, `EndedSafety` | `MemoryInv` with `Forgotten`: what the scan under way has observed to have ended is already unbound for the panes it visited |
| `OwnSafety` | `Sighted`, `Placed`, `AgentsOwn`, `ScanInv`, `SeenInPane`: agents, observations and captures each carry a session that ran in their pane, hooks one that did or that is late; `Numbered`: no number above the last one given is saved or open, so what is given again was neither |
| `StampOrder`, `UnvisitedSafety` | from the statement's condition, and from `ScanInv`: the scan only sees started panes |
| `FinalState`, `UpdateSafety`, `CursorSafety`, `LateTimersSafety` | one case per action; `CursorInv` adds that a pending cursor has a timer |
| `OneRuntimeSafety` | `EndpointHeld`: whoever is between listening and the end of its workspace holds the endpoint |
| `OffsetSafety`, `ViewSafety`, `CopySafety`, `SelectionSafety` | `HistoryInv` with `Placed`: the selection is on rows that exist, and on the lines pressed and pointed at as long as none was forgotten |
| `NewestKept` | `ChannelInv`: the channel is never too long, and once `emit` took an event out there is room until it sends |
| `ShownSafety` | `OrderInv`: cache, channel and offered event are in the order of their stamps, so the cache never refuses what the loop applies |
| `EventSafety` | `ImportInv`: of every file there still is, a process that imports has kept the event or is ahead of it (in its list, or about to write one as new), and one that removes has kept all of them; `HistoryInv`: an event whose file is gone is kept |
| `SettingsSafety` | `SettingsInv` counts failures: a file cut short with nobody overwriting it costs two, one whose only backups are torn costs one, and both together three (`CutInv`), since a backup is written by one command at a time (`BackupInv`); `EditInv` adds which edit each copy holds: what a command read is the last edit unless the file was raced, and so is the backup unless it aged; for any number of commands, edits and files |
| `TickSafety` | `TrackerInv`: after an Esc nothing was submitted since, the tracker says interrupted as long as that is displayed (`Held`), and is then in no state a tick follows on (`Quiet`) |
| `OwnershipSafety`, `TargetSafety`, `SavingSafety` | `WorkspaceInv`: projects, panes and ids fit together and the active pane is one of them (`Shape`, `Placed`, `Marks`), what is saved can be restored and its ids are behind the counter (`Keeps`), and one overlay at most is open whose target is still there (`Menus`).  `Kept` allows what is shown to differ from what is saved only during a drag that still has its divider: a drag whose pane was closed changes nothing, so its end need not save |
| `DragSafety` | `DragInv`: a drag is of the sidebar or of a divider of a pane, as it was taken hold of, and its own user holds it |
| `TilingSafety` | `LayoutInv`: the layout is a finite binary tree, every pane is at one leaf, and every ratio is strictly between 0 and 1, so the fallback of `SplitSizes` (layout/layout.go:187) is never needed.  That the recursion of `Rects` and `MinExtent` defines a function is shown from the least path, by depth and by height, where it would not.  A rectangle lies within those of all its ancestors, and two leaves part at a divider, whose sides are apart |
| `DividerSafety` | `LayoutInv`, and arithmetic: the ratio a drag leaves gives back the cell it was computed from, because the half cell that `ResizeSplit` adds survives the rounding; what is not below the divider has the rectangle of before |
| `OrderRefinement` | step by step from `LayoutInv`; every action takes a list of the leaves that is in order to another one (`Ordered`), and there is only one such list, which is `Leaves`.  A removal is the graft of the sibling's subtree, which keeps the order of its leaves |
| `FocusSafety` | from `LayoutTyping` and `TilingSafety`: of two rectangles that are apart one lies wholly beyond the other in some direction, its centre is then ahead of the other's, and of the panes ahead one has the least score |
| `FilterSafety` | `FilterInv`, with `Agrees`: whatever the program prints next, what is written followed by what is left from the piece under way on is what is left of the whole, and the bytes held back are that piece and still open (`Holds`).  One lemma per state of the automaton says that a byte extends the piece, completes it or, a second ESC, begins another one (`ByteDoes`); the reads of any length follow by the least byte after which it would not hold (`ReadsAll`), and that `Left` is defined from the last place on |
| `WindowSelected` | the places of the windows are bounded numbers: of a set of places there is a first and a last, and of finitely many windows one is the longest (by the least place up to which there is none) |
| `UsageTyping` | action by action; that only a window of the account is published comes from `WindowSelected` |

The inductive invariants are needed because the properties are not inductive:
`ClipboardInOrder`, for one, speaks of the clipboard alone and is broken by a
state with an old text on the wire.

Proved and no longer run, since a run shows deeper properties in their place:
`StampOrder`, `ViewSafety`, `OffsetSafety`, `FinalState` and the type invariants.
`WindowSelected` is no property of a behaviour: it is about any answer at all,
while the answers of the runs have at most two snapshots.

What the proofs changed in the models: in `AgentTracker` the deadlines of a pane
without an agent passed with time, though the code keeps none for it; in
`Workspace` the first project takes two ids, so `MaxId` is at least 2; the type
invariant of `LayoutTree` states the whole shape of the tree, and `Leaves` gives
each leaf its place by counting those before it, since the provers cannot look
into the sorting operators of the library; `Filter` is a recursive function for
the same reason, and the reference of `OutputFilter` cuts the output into pieces
instead of listing its cases.

Only model-checked: everything about liveness (`session_live`, `CodexBound`,
`CloseFinishes`, `SpinnerStops`, `LaunchServes`, `CodexComesThrough`,
`CloseReturns`), which is out of the provers' reach.  Every safety property of a
passing run is a theorem.

The refinements: `LeaseSpec` (`SessionSystem` implements `SessionLease`) and
`OrderSpec` (`LayoutTree` implements `PaneOrder`), both run and proved.

## Abstractions

* Frames carry a count of changes instead of a picture; requests and pipe
  buffers of one direction are one queue; a closed connection stays readable to
  its end.  A frame may be sent at any tick, because the code sends one per
  second anyway, so `LatestIsShown` is about the mailbox and not about that
  second.  The stop command may give up at any time (its timeout of 3 s).
* A new pane and the save after it are one step.  A program of an earlier run
  that lives on under a number that was given again is left out (its hooks are
  not).  Process ids are not reused; agents nest two deep; the clock is not set back;
  Clear and Upsert do not fail.  The stamp and the statement of
  the runtime's own capture are one step, those of a hook are two.
* Timers fire at any time after their deadline.  Keys are typed whatever the
  state of the child.
* `LaunchServes` excludes crashes, stops and undone renames from some point on;
  `NotReady` happens only when no runtime is alive, since the wait is long.
* The history of one pane: no wide characters, no cells overwritten in place, no
  clearing of the scrollback.
* Usage: a percentage and its reset time are the number of a window; the
  decoding goroutine is part of the wire.
* Workspace: the layout is the set of its panes; ratios, sidebar and titles are
  one value; a shell that failed and one that ended are alike; what a click hits
  is chosen.  The text in the dialog and the highlighted entry of a menu are left
  out.
* Layout: ratios are exact fractions.  They give the same cells as the floating
  point numbers of the code for `Equalize` up to five panes and 400 cells, and for
  a divider that is drawn where it was dragged; a window that changes its size
  afterwards may differ by one cell.  The drag of a corner is one `DragDivider` per axis.
* Tracker: one pane; which texts are which mark is chosen; the age of a status
  is not kept.
* Filter: the digits 0, 1 and 2 are one byte.
* Hooks: the two managed scripts are one file; a settings file is split's
  handler, the status line and the rest.  Opening the database: the steps from
  one schema to the next are one transaction and one step; an event and a binding
  are known by their stamps.

## What was seen while modelling and no run shows

* The stop is acknowledged before the endpoint is closed and the runtime has
  exited (server.go:199; README.md:127 says it exits first).
* A clipboard text that rides on a Detach frame is discarded (client.go:78).
* The correlation from the log may replace what a hook of the same agent wrote
  (app/model.go:782; README.md:50).
* The clear for an old agent may erase the binding a new one has just written
  (app/model.go:653; README.md:72), and a late hook may bind an agent that has
  ended (app/model.go:621).
* When the history of 5000 lines is full, each new line moves the rows under a
  selection, so other text than the user drew over is highlighted and copied
  (terminal/selection.go:156; README.md:105).  `SelectionFollows` is limited to
  histories that forget nothing.
* An answer without a weekly window makes the footer show the longest one there
  is (usage/codex.go:418; README.md:60).
* A Codex request that is never answered stops the polls until the app-server
  ends (usage/codex.go:225; README.md:62).  `Answers` is fair in the model.
* An error event may push out a value that was not applied yet (codex.go:104).
* The status line of an idle Claude session stamps an old window as new
  (store.go:704); the cache has no means to tell.
* After a restart the id of a pane closed earlier can be given again
  (app/persistence.go:251 counts only ids that are saved), so a late hook can bind
  the new pane to a session that never ran there (README.md:5, "never guesses").
  This is the exception in `BindingIsOwn`; a program that kept the old pane's
  environment could do the same and is left out.
* A resume command resets scroll offset and selection and tells nobody
  (terminal/session.go:350-351), unlike a key (session.go:447): the old view stays
  until the child prints or a tick draws.  This is the exception in `NoLostUpdate`.
* A terminal whose child does not read can hold the loop of the runtime
  (terminal/session.go:443-455): whoever attaches then is not answered, and the
  front end waits (server.go:221).  This is the exception in `AttachAnswered`.
* `SplitSizes` clamps a divider so that one pane fits on each side
  (layout/layout.go:176), while `ResizeSplit` counts the subtree
  (layout/resize.go:48).  In a window with too little room for all, a drag can
  leave a pane below its minimum; resize_test.go:54 tests a wide one.
  `DividerLands` speaks of dividers that have room to move.
* A settings file is read, merged and replaced without a look at what it is by
  then: an edit in between is overwritten (hooks/install.go:431), though
  README.md:56 says that unrelated settings are preserved.  These are the `raced`
  files of `SettingsKept`.
* The backup is made once and never again (install.go:410).  An edit made after it
  is in no backup: with a failed rename and a write in place cut short by a crash
  (install.go:457) it is lost, and only the state at the first install is left.
  These are the `aged` files.  A torn backup is not made again either: after a
  failed backup, a failed rename and a write cut short nothing is left.  Hence the
  two failures in `SettingsKept`.
* The version of the schema is read outside the transaction that raises it
  (store.go:183): of two processes that open an old database one may fail.
* The error of `RemoveAll` is ignored, and a slow process imports what it read
  before (store.go:826): a binding that was cleared meanwhile can come back.
  `EventKept` leaves cleared panes out.
* One event file with an unusable session id makes every start fail
  (store.go:818 returns the error before any file is removed).
* When a scan after Enter still sees the question that was answered and the next
  one a prompt, the turn is shown as finished at once, though the hold of the
  submission lasts (agent/agent.go:217).  An agent that still shows a spinner two seconds after
  Esc gets its tick later.  Ctrl+C is not noted as an interruption.  With a screen
  that is not recognized any more, Working stays.
* A title whose end is missing holds back all that follows, up to 64 KiB
  (terminal/output_filter.go:63), and a BEL right behind an ESC does not end it
  (line 58).  A title between an ESC and a `]` joins the two into a new sequence.

## Not modelled

* Rendering and themes (text and colours), the log (nothing reads it back),
  process inspection on Windows (its results are inputs of `discoverAgent`), the
  SQL and file scan by which `CodexSessionResolver` finds a thread
  (`agent/codex_session.go`; its results are inputs of the capture), argument
  parsing.
* Of modelled parts: encoding of keys and mouse, text editing in the dialog,
  environment and choice of the shell, wide characters and overwritten cells, a
  Clear or Upsert that fails, a clock that is set back.

## Plan

Every component with state is modelled.  In this order:

1. That in layouts of four panes the keys reach every pane, and a run of its own
   for the layout of five in which they do not.
2. A Clear or Upsert that fails for want of the lock in `AgentBinding`: which of
   the properties hold then.
3. A lease of the endpoint as the abstract specification of `RuntimeLifecycle`.
4. The text of the dialog (`project_rename.go`): cursor and selection stay within
   the text.

New properties take the place of shallower ones, and modules of proofs about
parts that are run together are merged.
