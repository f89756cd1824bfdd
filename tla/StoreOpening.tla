----------------------------- MODULE StoreOpening -----------------------------
(***************************************************************************)
(* What state.Open does before anybody uses the database                   *)
(* (src/internal/state/store.go): it brings the schema up to date and      *)
(* takes over the session events that an earlier split left in files.      *)
(* The runtime does this, and so does every hook process, each on its own  *)
(* and at the same time; only single statements and the migration are      *)
(* atomic.                                                                 *)
(*                                                                         *)
(* An event and a binding are known by their stamps; the steps from one    *)
(* schema to the next are one transaction and one step here.               *)
(***************************************************************************)
EXTENDS Naturals

CONSTANTS
  Runtime,    \* the runtime, one process after another
  Helpers,    \* processes of session hooks and status lines
  Panes,
  Events,     \* [pane, at]: what the files may hold; stamps of a pane differ
  MaxClock,   \* bound: milliseconds that differ; stamps of events are earlier
  MaxOpens    \* bound: calls of Open

Openers == {Runtime} \cup Helpers

ASSUME EventsAssumption ==
  /\ MaxClock \in Nat \ {0}
  /\ Events \subseteq [pane : Panes, at : 1 .. MaxClock - 1]

VARIABLES
  schema,    \* user_version: "old", "current" or "newer"
  rows,      \* the panes that are saved
  bind,      \* bind[p]: the binding of p
  files,     \* the events in the directory session-events
  opener,    \* opener[o]: where Open and what follows it is
  clock, opens,
  cleared,   \* panes whose binding the runtime has cleared since
  given      \* history: the events there were at the beginning

openingVars == <<schema, rows, bind, files, opener, clock, opens, cleared, given>>

(* exact: the binding names a session.  Older schemas also had rows that did *)
(* not, or that were of other providers.                                     *)
Unbound == [at |-> 0, exact |-> TRUE]
Stamped(at) == [at |-> at, exact |-> TRUE]

(* todo: what is in the map latest; stamp: of the upsert that is under way.  *)
Closed == [step |-> "closed", todo |-> {}, pane |-> "none", stamp |-> 0]
At(o, step) == opener[o].step = step
GoesTo(o, step) == opener' = [opener EXCEPT ![o].step = step]
Leaves(o) == opener' = [opener EXCEPT ![o] = Closed]

FirstStamp == MaxClock - 1

OpeningInit ==
  /\ schema \in {"old", "current", "newer"}
  /\ rows \in SUBSET Panes
  /\ bind \in [Panes -> {Unbound} \cup [at : 1 .. FirstStamp, exact : BOOLEAN]]
  /\ \A p \in Panes \ rows : bind[p] = Unbound
  /\ schema # "old" => \A p \in Panes : bind[p].exact
  /\ files \in SUBSET Events
  /\ opener = [o \in Openers |-> Closed]
  /\ clock = FirstStamp /\ opens = 0 /\ cleared = {}
  /\ given = files

-----------------------------------------------------------------------------
(* migrate *)
OpenDatabase(o) ==
  /\ At(o, "closed") /\ opens < MaxOpens
  /\ opens' = opens + 1
  /\ GoesTo(o, "version")
  /\ UNCHANGED <<schema, rows, bind, files, clock, cleared>>

ReadVersion(o) ==
  /\ At(o, "version")
  /\ \/ schema = "newer" /\ Leaves(o)
     \/ schema = "current" /\ GoesTo(o, "read")
     \/ schema = "old" /\ GoesTo(o, "migrate")
  /\ UNCHANGED <<schema, rows, bind, files, clock, opens, cleared>>

(* Bindings that name no session or no pane are not taken over. *)
Migrate(o) ==
  /\ At(o, "migrate") /\ schema = "old"
  /\ schema' = "current"
  /\ bind' = [p \in Panes |-> IF bind[p].exact THEN bind[p] ELSE Unbound]
  /\ GoesTo(o, "read")
  /\ UNCHANGED <<rows, files, clock, opens, cleared>>

(* The version was read outside the transaction.  Whoever comes second finds *)
(* a table that is there already, and Open fails.                            *)
MigrateSecond(o) ==
  /\ At(o, "migrate") /\ schema = "current"
  /\ Leaves(o)
  /\ UNCHANGED <<schema, rows, bind, files, clock, opens, cleared>>

-----------------------------------------------------------------------------
(* migrateLegacySessionFiles *)
Newest(events) == {e \in events : \A d \in events : d.pane = e.pane => d.at <= e.at}

ReadEvents(o) ==
  /\ At(o, "read")
  /\ opener' = [opener EXCEPT ![o] = [@ EXCEPT !.step = "import", !.todo = Newest(files)]]
  /\ UNCHANGED <<schema, rows, bind, files, clock, opens, cleared>>

SkipClosedPane(o) ==
  /\ At(o, "import")
  /\ \E e \in opener[o].todo :
       /\ e.pane \notin rows
       /\ opener' = [opener EXCEPT ![o].todo = @ \ {e}]
  /\ UNCHANGED <<schema, rows, bind, files, clock, opens, cleared>>

TakeEvent(o) ==
  /\ At(o, "import")
  /\ \E e \in opener[o].todo :
       /\ e.pane \in rows
       /\ opener' = [opener EXCEPT ![o] = [step |-> "upsert", todo |-> @.todo \ {e},
                                           pane |-> e.pane, stamp |-> e.at]]
  /\ UNCHANGED <<schema, rows, bind, files, clock, opens, cleared>>

(* A plausible slip: the last to write wins. *)
UpsertAny(o) == bind' = [bind EXCEPT ![opener[o].pane] = Stamped(opener[o].stamp)]

(* upsertPaneAgentSession: the newer stamp stays. *)
Upsert(o) ==
  LET p == opener[o].pane
  IN bind' = IF opener[o].stamp >= bind[p].at
               THEN [bind EXCEPT ![p] = Stamped(opener[o].stamp)] ELSE bind

ImportEvent(o) ==
  /\ At(o, "upsert") /\ opener[o].pane \in rows
  /\ Upsert(o)
  /\ GoesTo(o, "import")
  /\ UNCHANGED <<schema, rows, files, clock, opens, cleared>>

(* The pane has been closed since it was looked up: Open fails. *)
ImportFails(o) ==
  /\ At(o, "upsert") /\ opener[o].pane \notin rows
  /\ Leaves(o)
  /\ UNCHANGED <<schema, rows, bind, files, clock, opens, cleared>>

Imported(o) ==
  /\ At(o, "import") /\ opener[o].todo = {}
  /\ GoesTo(o, "remove")
  /\ UNCHANGED <<schema, rows, bind, files, clock, opens, cleared>>

(* os.RemoveAll removes the files one by one; its error is ignored. *)
RemoveEvent(o) ==
  /\ At(o, "remove")
  /\ \E e \in files : files' = files \ {e}
  /\ UNCHANGED <<schema, rows, bind, opener, clock, opens, cleared>>

Opened(o) ==
  /\ At(o, "remove")
  /\ GoesTo(o, "open")
  /\ UNCHANGED <<schema, rows, bind, files, clock, opens, cleared>>

-----------------------------------------------------------------------------
(* The database in use.  A hook takes the time and writes it later. *)
HookStamps(o) ==
  /\ At(o, "open") /\ o \in Helpers
  /\ \E p \in Panes : opener' = [opener EXCEPT ![o] = [step |-> "write", todo |-> {},
                                                       pane |-> p, stamp |-> clock]]
  /\ UNCHANGED <<schema, rows, bind, files, clock, opens, cleared>>

HookWrites(o) ==
  /\ At(o, "write")
  /\ IF opener[o].pane \in rows THEN Upsert(o) ELSE UNCHANGED bind
  /\ Leaves(o)
  /\ UNCHANGED <<schema, rows, files, clock, opens, cleared>>

(* ClearPaneAgentSession: the agent of the pane has ended. *)
ClearBinding(p) ==
  /\ At(Runtime, "open") /\ p \in rows
  /\ bind' = [bind EXCEPT ![p] = Unbound]
  /\ cleared' = cleared \cup {p}
  /\ UNCHANGED <<schema, rows, files, opener, clock, opens>>

(* SaveSnapshot without the pane, and its binding goes too. *)
ClosePane(p) ==
  /\ At(Runtime, "open") /\ p \in rows
  /\ rows' = rows \ {p}
  /\ bind' = [bind EXCEPT ![p] = Unbound]
  /\ UNCHANGED <<schema, files, opener, clock, opens, cleared>>

(* The database is closed, or the process ends at any point. *)
CloseOrCrash(o) ==
  /\ ~At(o, "closed")
  /\ Leaves(o)
  /\ UNCHANGED <<schema, rows, bind, files, clock, opens, cleared>>

TimePasses ==
  /\ clock < MaxClock /\ clock' = clock + 1
  /\ UNCHANGED <<schema, rows, bind, files, opener, opens, cleared>>

Opens(o) == OpenDatabase(o) \/ ReadVersion(o) \/ Migrate(o) \/ MigrateSecond(o) \/ Opened(o)
Imports(o) ==
  \/ ReadEvents(o) \/ SkipClosedPane(o) \/ TakeEvent(o) \/ ImportEvent(o) \/ ImportFails(o)
  \/ Imported(o) \/ RemoveEvent(o)
Writes(o) == HookStamps(o) \/ HookWrites(o)

OpeningNext ==
  /\ \/ \E o \in Openers : Opens(o) \/ Imports(o) \/ Writes(o) \/ CloseOrCrash(o)
     \/ \E p \in Panes : ClearBinding(p) \/ ClosePane(p)
     \/ TimePasses
  /\ UNCHANGED given

OpeningSpec == OpeningInit /\ [][OpeningNext]_openingVars

-----------------------------------------------------------------------------
Steps == {"closed", "version", "migrate", "read", "import", "upsert", "remove", "open", "write"}

(* Types of the schema, the rows, the files and the processes. *)
OpeningTypeOK ==
  /\ schema \in {"old", "current", "newer"}
  /\ rows \subseteq Panes
  /\ bind \in [Panes -> [at : Nat, exact : BOOLEAN]]
  /\ files \subseteq Events
  /\ opener \in [Openers -> [step : Steps, todo : SUBSET Events, pane : Panes \cup {"none"},
                             stamp : Nat]]
  /\ clock \in Nat /\ opens \in Nat
  /\ cleared \subseteq Panes /\ given \subseteq Events

(* No event is lost with its file, and no older one takes its place, whoever *)
(* opens the database at the same time and wherever they crash: as soon as a *)
(* file is gone its pane has a binding as new and keeps one, unless the      *)
(* agent has ended or the pane was closed (migrateLegacySessionFiles and     *)
(* upsertPaneAgentSession, store.go:799).                                    *)
EventKept ==
  \A e \in given \ files :
    e.pane \in cleared \/ e.pane \notin rows \/ bind[e.pane].at >= e.at

=============================================================================
