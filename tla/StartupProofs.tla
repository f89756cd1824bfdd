----------------------------- MODULE StartupProofs -----------------------------
(***************************************************************************)
(* What the parts of a start guarantee, for any number of users, processes *)
(* and commands: one runtime per database (RuntimeLifecycle), no event     *)
(* lost with its file (StoreOpening), and settings that two failures do    *)
(* not cost (HookInstall).                                                 *)
(***************************************************************************)
EXTENDS RuntimeLifecycle, StoreOpening, HookInstall, TLAPS, WellFoundedInduction

-----------------------------------------------------------------------------
(* Front ends, runtimes and directories: types *)

LEMMA DirectoryTyping ==
  ASSUME TypeOK, NEW u \in Users, NEW name \in {"legacy", "lower"},
         MakeDirectory \/ MoveBack(u, name) \/ Forsake(u) \/ UNCHANGED dirVars
  PROVE  /\ spelling' \in {"missing", "legacy", "lower"}
         /\ content' \in {"none", "new", "database"}
         /\ aside' \in [Users -> {"none", "new", "database"}]
         /\ stray' \subseteq {"new", "database"}
  BY DEF TypeOK, MakeDirectory, MoveBack, Forsake, dirVars

LEMMA UserTyping ==
  ASSUME TypeOK, NEW u \in Users,
         Migrating(u) \/ Starting(u) \/ Start(u) \/ Leave(u) \/ TryAgain(u) \/ Abandon(u)
           \/ StopCommand(u) \/ AskToStop(u) \/ NothingToStop(u) \/ TakeStop(u) \/ StopReturns(u)
  PROVE  TypeOK'
<1> DEFINE Places == {"off", "dial", "migrate", "rename", "restore", "revert", "prepare",
                      "launch", "wait", "connected", "failed", "ask", "stop", "stopping"}
<1>1. pc' \in [Users -> Places]
  BY DEF TypeOK, Goes, Migrating, FindLegacy, MoveAside, MoveAsideFails, FinishMigration,
         FinishFails, RevertMigration, Starting, Attach, NotRunning, Prepare, Launch, LaunchFails,
         AttachStarted, NotReady, Start, Leave, TryAgain, Abandon, StopCommand, AskToStop,
         NothingToStop, TakeStop, StopReturns, Answered
<1>2. link' \in [Users -> Runtimes \cup {Nobody}]
  BY DEF TypeOK, Migrating, FindLegacy, MoveAside, MoveAsideFails, FinishMigration, FinishFails,
         RevertMigration, Starting, Attach, NotRunning, Prepare, Launch, LaunchFails, AttachStarted,
         NotReady, Start, Leave, TryAgain, Abandon, StopCommand, AskToStop, NothingToStop, TakeStop,
         StopReturns, Answered
<1>3. proc' \in [Runtimes -> {"none", "born", "listening", "opening", "serving", "closing",
                             "closed", "leaving"}]
      /\ endpoint' \in Runtimes \cup {Nobody}
  BY DEF TypeOK, Migrating, FindLegacy, MoveAside, MoveAsideFails, FinishMigration, FinishFails,
         RevertMigration, Starting, Attach, NotRunning, Prepare, Launch, LaunchFails, AttachStarted,
         NotReady, Start, Leave, TryAgain, Abandon, StopCommand, AskToStop, NothingToStop, TakeStop,
         StopReturns, Answered
<1>4. /\ spelling' \in {"missing", "legacy", "lower"}
      /\ content' \in {"none", "new", "database"}
      /\ aside' \in [Users -> {"none", "new", "database"}]
      /\ stray' \subseteq {"new", "database"}
  <2>1. CASE MoveAside(u)
    BY <2>1 DEF TypeOK, MoveAside
  <2>2. CASE ~MoveAside(u)
    <3>1. MakeDirectory \/ MoveBack(u, "lower") \/ MoveBack(u, "legacy") \/ Forsake(u)
            \/ UNCHANGED dirVars
      BY <2>2 DEF Migrating, FindLegacy, MoveAsideFails, FinishMigration, FinishFails,
         RevertMigration, Starting, Attach, NotRunning, Prepare, Launch, LaunchFails, AttachStarted,
         NotReady, Start, Leave, TryAgain, Abandon, StopCommand, AskToStop, NothingToStop, TakeStop,
         StopReturns, Answered
    <3>2. QED
      BY <3>1, DirectoryTyping
  <2>3. QED
    BY <2>1, <2>2
<1>5. QED
  BY <1>1, <1>2, <1>3, <1>4 DEF TypeOK

LEMMA RuntimeTyping ==
  ASSUME TypeOK, NEW r \in Runtimes, Running(r) \/ Serve(r) \/ OpenFails(r) \/ Crash(r)
  PROVE  TypeOK'
<1>1. CASE Ends(r)
  BY <1>1 DEF TypeOK, Ends, dirVars
<1>2. CASE BeginOpen(r)
  BY <1>2 DEF TypeOK, BeginOpen, MakeDirectory, userVars
<1>3. CASE Listen(r) \/ Serve(r) \/ CloseModel(r) \/ StopListening(r)
  BY <1>3 DEF TypeOK, Listen, Serve, CloseModel, StopListening, userVars, dirVars
<1>4. QED
  BY <1>1, <1>2, <1>3 DEF Running, ListenFails, MigrationFails, Exit, OpenFails, Crash

(* Users, runtimes and the state directory keep their types; what is left  *)
(* under a temporary name is something that existed.                       *)
THEOREM LifecycleTyping == Spec => []TypeOK
<1>1. Init => TypeOK
  BY DEF Init, TypeOK, Users
<1>2. TypeOK /\ [Next]_vars => TypeOK'
  <2>1. SUFFICES ASSUME TypeOK, [Next]_vars
                 PROVE  TypeOK'
    OBVIOUS
  <2>2. CASE UNCHANGED vars
    BY <2>1, <2>2 DEF vars, userVars, dirVars, TypeOK
  <2>3. CASE HookLogs
    BY <2>1, <2>3 DEF HookLogs, MakeDirectory, userVars, TypeOK
  <2>4. CASE Next /\ ~HookLogs
    BY <2>1, <2>4, UserTyping, RuntimeTyping DEF Next
  <2>5. QED
    BY <2>1, <2>2, <2>3, <2>4
<1>3. QED
  BY <1>1, <1>2, PTL DEF Spec

-----------------------------------------------------------------------------
(* Front ends, runtimes and directories: one runtime *)

(* The endpoint is what makes it so: it is taken before the workspace is   *)
(* opened and kept until the workspace is closed.                          *)
Holding == Owning \cup {"listening", "closed"}
EndpointHeld == \A r \in Runtimes : proc[r] \in Holding => endpoint = r

LifecycleInv ==
  /\ proc \in [Runtimes -> {"none", "born"} \cup Holding \cup {"leaving"}]
  /\ link \in [Users -> Runtimes \cup {Nobody}]
  /\ endpoint \in Runtimes \cup {Nobody}
  /\ EndpointHeld

LEMMA EndsHeld ==
  ASSUME LifecycleInv, NEW r \in Runtimes, Ends(r)
  PROVE  LifecycleInv'
<1>1. proc' = [proc EXCEPT ![r] = "none"] /\ proc'[r] = "none"
  BY DEF Ends, LifecycleInv
<1>2. \A s \in Runtimes \ {r} : proc'[s] = proc[s]
  BY <1>1 DEF LifecycleInv
<1>3. proc' \in [Runtimes -> {"none", "born"} \cup Holding \cup {"leaving"}]
  BY <1>1 DEF LifecycleInv
<1>4. link' \in [Users -> Runtimes \cup {Nobody}]
  BY DEF Ends, LifecycleInv
<1>5. endpoint' \in Runtimes \cup {Nobody}
  BY DEF Ends, LifecycleInv
<1>6. EndpointHeld'
  <2>1. SUFFICES ASSUME NEW s \in Runtimes, proc'[s] \in Holding
                 PROVE  endpoint' = s
    BY DEF EndpointHeld
  <2>2. s # r
    BY <1>1, <2>1 DEF Holding, Owning
  <2>3. endpoint = s
    BY <1>2, <2>1, <2>2 DEF LifecycleInv, EndpointHeld
  <2>4. QED
    BY <2>2, <2>3 DEF Ends
<1>7. QED
  BY <1>3, <1>4, <1>5, <1>6 DEF LifecycleInv

(* Users do not touch what the runtimes hold: they launch one, and it      *)
(* starts without the endpoint, or ask one to stop, and it keeps it.       *)
LEMMA UserStep ==
  ASSUME LifecycleInv, NEW u \in Users,
         Migrating(u) \/ Starting(u) \/ Start(u) \/ Leave(u) \/ TryAgain(u) \/ Abandon(u)
           \/ StopCommand(u) \/ AskToStop(u) \/ NothingToStop(u) \/ TakeStop(u) \/ StopReturns(u)
  PROVE  LifecycleInv'
<1>1. link' \in [Users -> Runtimes \cup {Nobody}]
  BY DEF LifecycleInv, Migrating, FindLegacy, MoveAside, MoveAsideFails, FinishMigration, FinishFails,
         RevertMigration, Starting, Attach, NotRunning, Prepare, Launch, LaunchFails, AttachStarted,
         NotReady, Start, Leave, TryAgain, Abandon, StopCommand, AskToStop, NothingToStop, TakeStop, StopReturns, Answered
<1>2. CASE Launch(u)
  <2>1. PICK r \in Runtimes : ~Alive(r) /\ proc' = [proc EXCEPT ![r] = "born"]
    BY <1>2 DEF Launch
  <2>2. endpoint' = endpoint
    BY <1>2 DEF Launch
  <2>3. QED
    BY <1>1, <2>1, <2>2 DEF LifecycleInv, EndpointHeld, Holding, Owning
<1>3. CASE TakeStop(u)
  <2>1. link[u] \in Runtimes /\ proc[link[u]] = "serving" /\ proc' = [proc EXCEPT ![link[u]] = "closing"]
    BY <1>3 DEF TakeStop, LifecycleInv
  <2>2. endpoint' = endpoint
    BY <1>3 DEF TakeStop
  <2>3. QED
    BY <1>1, <2>1, <2>2 DEF LifecycleInv, EndpointHeld, Holding, Owning
<1>4. CASE ~Launch(u) /\ ~TakeStop(u)
  <2>1. UNCHANGED <<proc, endpoint>>
    BY <1>4 DEF Migrating, FindLegacy, MoveAside, MoveAsideFails, FinishMigration, FinishFails,
         RevertMigration, Starting, Attach, NotRunning, Prepare, LaunchFails, AttachStarted,
         NotReady, Start, Leave, TryAgain, Abandon, StopCommand, AskToStop, NothingToStop, StopReturns, Answered
  <2>2. QED
    BY <1>1, <2>1 DEF LifecycleInv, EndpointHeld
<1>5. QED
  BY <1>2, <1>3, <1>4

LEMMA RuntimeStep ==
  ASSUME LifecycleInv, NEW r \in Runtimes, Running(r) \/ Serve(r) \/ OpenFails(r) \/ Crash(r)
  PROVE  LifecycleInv'
<1>1. CASE Ends(r)
  BY <1>1, EndsHeld
<1>2. CASE Listen(r)
  BY <1>2, NobodyAssumption DEF Listen, LifecycleInv, EndpointHeld, Holding, Owning, userVars
<1>3. CASE BeginOpen(r)
  BY <1>3 DEF BeginOpen, LifecycleInv, EndpointHeld, Holding, Owning, userVars
<1>4. CASE Serve(r)
  BY <1>4 DEF Serve, LifecycleInv, EndpointHeld, Holding, Owning, userVars
<1>5. CASE CloseModel(r)
  BY <1>5 DEF CloseModel, LifecycleInv, EndpointHeld, Holding, Owning, userVars
<1>6. CASE StopListening(r)
  BY <1>6 DEF StopListening, LifecycleInv, EndpointHeld, Holding, Owning, userVars
<1>7. QED
  BY <1>1, <1>2, <1>3, <1>4, <1>5, <1>6
     DEF Running, ListenFails, MigrationFails, Exit, OpenFails, Crash

(* At most one runtime has the database open and shells running, however   *)
(* many are started, stopped and crash at the same time.                   *)
THEOREM OneRuntimeSafety == Spec => []OneRuntime
<1>1. Init => LifecycleInv
  BY DEF Init, LifecycleInv, EndpointHeld, Holding, Owning
<1>2. LifecycleInv /\ [Next]_vars => LifecycleInv'
  <2>1. SUFFICES ASSUME LifecycleInv, [Next]_vars
                 PROVE  LifecycleInv'
    OBVIOUS
  <2>2. CASE UNCHANGED vars
    BY <2>1, <2>2 DEF vars, userVars, LifecycleInv, EndpointHeld
  <2>3. CASE HookLogs
    BY <2>1, <2>3 DEF HookLogs, userVars, LifecycleInv, EndpointHeld
  <2>4. CASE Next /\ ~HookLogs
    BY <2>1, <2>4, UserStep, RuntimeStep DEF Next
  <2>5. QED
    BY <2>1, <2>2, <2>3, <2>4
<1>3. LifecycleInv => OneRuntime
  BY DEF LifecycleInv, EndpointHeld, Holding, OneRuntime
<1>4. QED
  BY <1>1, <1>2, <1>3, PTL DEF Spec

-----------------------------------------------------------------------------
(* The database *)

LEMMA EventTyping ==
  ASSUME NEW e \in Events
  PROVE  e.pane \in Panes /\ e.at \in Nat
  BY EventsAssumption

-----------------------------------------------------------------------------
(* The newest event of a pane *)

(* Among the events of a pane there is a newest one (latest in               *)
(* migrateLegacySessionFiles), since their stamps lie below the clock's.     *)
LEMMA NewestThere ==
  ASSUME NEW S \in SUBSET Events, NEW e \in S
  PROVE  \E d \in Newest(S) : d.pane = e.pane /\ d.at >= e.at
<1> DEFINE Age(d) == MaxClock - d.at
           Same == {d \in S : d.pane = e.pane}
           T == {Age(d) : d \in Same}
<1>1. \A d \in Events : d.at \in Nat /\ Age(d) \in Nat
  BY EventsAssumption
<1>2. T \subseteq Nat /\ T # {}
  BY <1>1
<1>3. PICK x \in T : \A y \in T : ~(<<y, x>> \in OpToRel(<, Nat))
  BY <1>2, NatLessThanWellFounded, WFMin, Zenon
<1>4. PICK d \in Same : x = Age(d)
  OBVIOUS
<1>5. \A c \in Same : ~(Age(c) < Age(d))
  <2>1. \A y \in T : ~(<<y, x>> \in {ss \in Nat \X Nat : ss[1] < ss[2]})
    BY <1>3, Zenon DEF OpToRel
  <2>2. QED
    BY <1>1, <1>4, <2>1
<1>6. \A c \in Same : c.at <= d.at
  BY <1>1, <1>5, EventsAssumption
<1>7. QED
  BY <1>4, <1>6 DEF Newest

-----------------------------------------------------------------------------
(* The database: types *)

LEMMA TypingInit ==
  ASSUME OpeningInit
  PROVE  OpeningTypeOK
<1>1. MaxClock - 1 \in Nat
  BY EventsAssumption
<1>2. bind \in [Panes -> [at : Nat, exact : BOOLEAN]]
  <2>1. {Unbound} \cup [at : 1 .. FirstStamp, exact : BOOLEAN] \subseteq [at : Nat, exact : BOOLEAN]
    <3>1. 1 .. FirstStamp \subseteq Nat
      BY <1>1 DEF FirstStamp
    <3>2. [at : 1 .. FirstStamp, exact : BOOLEAN] \subseteq [at : Nat, exact : BOOLEAN]
      BY <3>1
    <3>3. Unbound \in [at : Nat, exact : BOOLEAN]
      BY DEF Unbound
    <3>4. QED
      BY <3>2, <3>3
  <2>2. bind \in [Panes -> {Unbound} \cup [at : 1 .. FirstStamp, exact : BOOLEAN]]
    BY DEF OpeningInit
  <2>3. QED
    BY <2>1, <2>2
<1>3. opener \in [Openers -> [step : Steps, todo : SUBSET Events, pane : Panes \cup {"none"},
                              stamp : Nat]]
  BY DEF OpeningInit, Closed, Steps
<1>4. QED
  BY <1>1, <1>2, <1>3 DEF OpeningInit, OpeningTypeOK, FirstStamp

(* Everything but opener and bind. *)
LEMMA StoreTyping ==
  ASSUME OpeningTypeOK, OpeningNext
  PROVE  /\ schema' \in {"old", "current", "newer"}
         /\ rows' \subseteq Panes /\ files' \subseteq Events /\ cleared' \subseteq Panes
         /\ given' \subseteq Events /\ clock' \in Nat /\ opens' \in Nat
<1>1. ASSUME NEW o \in Openers, Opens(o) \/ Imports(o) \/ Writes(o) \/ CloseOrCrash(o)
      PROVE  /\ schema' \in {"old", "current", "newer"} /\ rows' = rows
             /\ files' \subseteq files /\ cleared' = cleared /\ clock' = clock /\ opens' \in Nat
  BY <1>1 DEF OpeningTypeOK, Opens, Imports, Writes, OpenDatabase, ReadVersion, Migrate, MigrateSecond,
              Opened, ReadEvents, SkipClosedPane, TakeEvent, ImportEvent, ImportFails, Imported,
              RemoveEvent, HookStamps, HookWrites, CloseOrCrash
<1>2. ASSUME TimePasses \/ \E p \in Panes : ClearBinding(p) \/ ClosePane(p)
      PROVE  /\ schema' = schema /\ rows' \subseteq Panes /\ files' = files
             /\ cleared' \subseteq Panes /\ clock' \in Nat /\ opens' \in Nat
  BY <1>2 DEF OpeningTypeOK, TimePasses, ClearBinding, ClosePane
<1>3. given' \subseteq Events
  BY DEF OpeningNext, OpeningTypeOK
<1>4. rows \subseteq Panes /\ files \subseteq Events /\ cleared \subseteq Panes /\ clock \in Nat
      /\ schema \in {"old", "current", "newer"}
  BY DEF OpeningTypeOK
<1>5. \/ \E o \in Openers : Opens(o) \/ Imports(o) \/ Writes(o) \/ CloseOrCrash(o)
      \/ TimePasses \/ \E p \in Panes : ClearBinding(p) \/ ClosePane(p)
  BY DEF OpeningNext
<1>6. QED
  BY <1>1, <1>2, <1>3, <1>4, <1>5

LEMMA OpenerTyping ==
  ASSUME OpeningTypeOK, OpeningNext
  PROVE  opener' \in [Openers -> [step : Steps, todo : SUBSET Events, pane : Panes \cup {"none"},
                                  stamp : Nat]]
<1> USE DEF OpeningTypeOK, Steps, GoesTo, Leaves, Closed
<1>1. ASSUME NEW o \in Openers, Opens(o) \/ Writes(o) \/ CloseOrCrash(o)
      PROVE  opener' \in [Openers -> [step : Steps, todo : SUBSET Events,
                                      pane : Panes \cup {"none"}, stamp : Nat]]
  <2>1. CASE HookStamps(o)
    BY <2>1 DEF HookStamps
  <2>2. CASE HookWrites(o) \/ CloseOrCrash(o)
    BY <2>2 DEF HookWrites, CloseOrCrash
  <2>3. CASE Opens(o)
    BY <2>3 DEF Opens, OpenDatabase, ReadVersion, Migrate, MigrateSecond, Opened
  <2>4. QED
    BY <1>1, <2>1, <2>2, <2>3 DEF Writes
<1>2. ASSUME NEW o \in Openers, Imports(o)
      PROVE  opener' \in [Openers -> [step : Steps, todo : SUBSET Events,
                                      pane : Panes \cup {"none"}, stamp : Nat]]
  <2>1. CASE TakeEvent(o)
    BY <2>1, EventTyping DEF TakeEvent
  <2>2. CASE ReadEvents(o)
    BY <2>2 DEF ReadEvents, Newest
  <2>3. CASE SkipClosedPane(o) \/ ImportEvent(o) \/ ImportFails(o) \/ Imported(o) \/ RemoveEvent(o)
    BY <2>3 DEF SkipClosedPane, ImportEvent, ImportFails, Imported, RemoveEvent
  <2>4. QED
    BY <1>2, <2>1, <2>2, <2>3 DEF Imports
<1>3. CASE TimePasses \/ \E p \in Panes : ClearBinding(p) \/ ClosePane(p)
  BY <1>3 DEF TimePasses, ClearBinding, ClosePane
<1>4. QED
  BY <1>1, <1>2, <1>3 DEF OpeningNext

LEMMA BindTyping ==
  ASSUME OpeningTypeOK, OpeningNext
  PROVE  bind' \in [Panes -> [at : Nat, exact : BOOLEAN]]
<1> USE DEF OpeningTypeOK, Unbound, Stamped
<1>1. ASSUME NEW o \in Openers, Upsert(o)
      PROVE  bind' \in [Panes -> [at : Nat, exact : BOOLEAN]]
  <2>1. opener[o].stamp \in Nat
    OBVIOUS
  <2>2. [at |-> opener[o].stamp, exact |-> TRUE] \in [at : Nat, exact : BOOLEAN]
    BY <2>1
  <2>3. QED
    BY <1>1, <2>2 DEF Upsert
<1>2. ASSUME NEW o \in Openers, Opens(o) \/ Imports(o) \/ Writes(o) \/ CloseOrCrash(o)
      PROVE  bind' \in [Panes -> [at : Nat, exact : BOOLEAN]]
  <2>1. CASE Migrate(o)
    BY <2>1 DEF Migrate
  <2>2. CASE ~Migrate(o)
    <3>1. Upsert(o) \/ bind' = bind
      BY <1>2, <2>2 DEF Opens, Imports, Writes, OpenDatabase, ReadVersion, MigrateSecond,
         Opened, ReadEvents, SkipClosedPane, TakeEvent, ImportEvent, ImportFails, Imported,
         RemoveEvent, HookStamps, HookWrites, CloseOrCrash
    <3>2. QED
      BY <1>1, <3>1
  <2>3. QED
    BY <2>1, <2>2
<1>3. ASSUME NEW p \in Panes, ClearBinding(p) \/ ClosePane(p)
      PROVE  bind' \in [Panes -> [at : Nat, exact : BOOLEAN]]
  <2>1. bind' = [bind EXCEPT ![p] = [at |-> 0, exact |-> TRUE]]
    BY <1>3 DEF ClearBinding, ClosePane
  <2>2. QED
    BY <2>1
<1>4. QED
  BY <1>2, <1>3 DEF OpeningNext, TimePasses

LEMMA TypingStep ==
  ASSUME OpeningTypeOK, [OpeningNext]_openingVars
  PROVE  OpeningTypeOK'
<1>1. CASE OpeningNext
  BY <1>1, StoreTyping, OpenerTyping, BindTyping DEF OpeningTypeOK
<1>2. CASE UNCHANGED openingVars
  BY <1>2 DEF OpeningTypeOK, openingVars
<1>3. QED
  BY <1>1, <1>2

(* The database, the files and every process that opens it keep their types  *)
(* (Open in store.go).                                                       *)
THEOREM OpeningTyping == OpeningSpec => []OpeningTypeOK
<1>1. OpeningInit => OpeningTypeOK
  BY TypingInit
<1>2. OpeningTypeOK /\ [OpeningNext]_openingVars => OpeningTypeOK'
  BY TypingStep
<1>3. QED
  BY <1>1, <1>2, PTL DEF OpeningSpec

-----------------------------------------------------------------------------
(* The database: no event is lost *)

(* What makes the file of an event dispensable.  It holds from then on,      *)
(* unless a migration drops the binding; whoever is past the migration has   *)
(* found the schema current.                                                 *)
Kept(e) == e.pane \notin rows \/ e.pane \in cleared \/ bind[e.pane].at >= e.at

Ahead(o, e) ==
  \/ \E d \in opener[o].todo : d.pane = e.pane /\ d.at >= e.at
  \/ At(o, "upsert") /\ opener[o].pane = e.pane /\ opener[o].stamp >= e.at

ImportInv ==
  \A o \in Openers :
    /\ opener[o].step \in {"read", "import", "upsert", "remove"} => schema = "current"
    /\ At(o, "remove") => \A e \in files : Kept(e)
    /\ opener[o].step \in {"import", "upsert"} => \A e \in files : Kept(e) \/ Ahead(o, e)

OpeningInv == OpeningTypeOK /\ ImportInv

LEMMA ImportInit ==
  ASSUME OpeningInit
  PROVE  ImportInv
  BY DEF OpeningInit, ImportInv, Closed, At

(* The upsert of the newest event of a pane covers the older ones.           *)
LEMMA UpsertRaises ==
  ASSUME OpeningTypeOK, NEW o \in Openers, Upsert(o)
  PROVE  /\ \A p \in Panes : bind'[p].at >= bind[p].at
         /\ opener[o].pane \in Panes => bind'[opener[o].pane].at >= opener[o].stamp
<1>1. opener[o].stamp \in Nat /\ \A p \in Panes : bind[p].at \in Nat
  BY DEF OpeningTypeOK
<1>2. CASE opener[o].stamp >= bind[opener[o].pane].at
  BY <1>1, <1>2 DEF OpeningTypeOK, Upsert, Stamped
<1>3. CASE ~(opener[o].stamp >= bind[opener[o].pane].at)
  BY <1>1, <1>3 DEF OpeningTypeOK, Upsert
<1>4. QED
  BY <1>2, <1>3

(* Nothing but a migration makes a file indispensable again. *)
LEMMA KeptStays ==
  ASSUME OpeningTypeOK, OpeningNext, schema = "current", NEW e \in Events, Kept(e)
  PROVE  Kept(e)'
<1> e.pane \in Panes /\ e.at \in Nat /\ bind[e.pane].at \in Nat
  BY EventTyping DEF OpeningTypeOK
<1>1. ASSUME NEW o \in Openers, Opens(o) \/ Imports(o) \/ Writes(o) \/ CloseOrCrash(o)
      PROVE  Kept(e)'
  <2>1. rows' = rows /\ cleared' = cleared /\ (Upsert(o) \/ bind' = bind)
    BY <1>1 DEF Opens, Imports, Writes, OpenDatabase, ReadVersion, Migrate, MigrateSecond, Opened,
                ReadEvents, SkipClosedPane, TakeEvent, ImportEvent, ImportFails, Imported,
                RemoveEvent, HookStamps, HookWrites, CloseOrCrash
  <2>2. bind'[e.pane].at \in Nat
    BY BindTyping
  <2>3. QED
    BY <2>1, <2>2, UpsertRaises DEF Kept
<1>2. ASSUME NEW p \in Panes, ClearBinding(p) \/ ClosePane(p)
      PROVE  Kept(e)'
  BY <1>2 DEF Kept, ClearBinding, ClosePane, OpeningTypeOK
<1>3. CASE TimePasses
  BY <1>3 DEF Kept, TimePasses
<1>4. QED
  BY <1>1, <1>2, <1>3 DEF OpeningNext

(* A process that does not move keeps what it knows. *)
LEMMA OthersKeep ==
  ASSUME OpeningInv, OpeningNext, NEW o \in Openers, opener'[o] = opener[o]
  PROVE  /\ opener[o].step \in {"read", "import", "upsert", "remove"} => schema' = "current"
         /\ At(o, "remove") => \A e \in files' : Kept(e)'
         /\ opener[o].step \in {"import", "upsert"} => \A e \in files' : Kept(e)' \/ Ahead(o, e)'
<1> SUFFICES ASSUME opener[o].step \in {"read", "import", "upsert", "remove"}
             PROVE  /\ schema' = "current"
                    /\ At(o, "remove") => \A e \in files' : Kept(e)'
                    /\ opener[o].step \in {"import", "upsert"} =>
                         \A e \in files' : Kept(e)' \/ Ahead(o, e)'
  BY DEF At
<1>1. schema = "current"
  BY DEF OpeningInv, ImportInv
<1>2. schema' = "current" /\ files' \subseteq files
  BY <1>1 DEF OpeningNext, Opens, Imports, Writes, OpenDatabase, ReadVersion, Migrate, MigrateSecond, Opened,
         ReadEvents, SkipClosedPane, TakeEvent, ImportEvent, ImportFails, Imported, RemoveEvent,
         HookStamps, HookWrites, CloseOrCrash, ClearBinding, ClosePane, TimePasses
<1>3. \A e \in files' : e \in Events /\ e \in files
  BY <1>2 DEF OpeningInv, OpeningTypeOK
<1>4. \A e \in files' : Kept(e) => Kept(e)'
  BY <1>1, <1>3, KeptStays DEF OpeningInv
<1>5. \A e \in files' : Ahead(o, e) => Ahead(o, e)'
  BY DEF Ahead, At
<1>6. QED
  BY <1>2, <1>3, <1>4, <1>5 DEF OpeningInv, ImportInv

(* The process that moves. *)
LEMMA MoverKeeps ==
  ASSUME OpeningInv, NEW o \in Openers, OpeningNext,
         Opens(o) \/ Imports(o) \/ Writes(o) \/ CloseOrCrash(o)
  PROVE  /\ opener'[o].step \in {"read", "import", "upsert", "remove"} => schema' = "current"
         /\ At(o, "remove")' => \A e \in files' : Kept(e)'
         /\ opener'[o].step \in {"import", "upsert"} => \A e \in files' : Kept(e)' \/ Ahead(o, e)'
<1> DEFINE Here == opener[o].step
<1>t. /\ opener[o].todo \subseteq Events /\ opener[o].stamp \in Nat /\ files \subseteq Events
      /\ \A e \in Events : e.pane \in Panes /\ e.at \in Nat
  BY EventTyping DEF OpeningInv, OpeningTypeOK
<1>k. schema = "current" => \A e \in Events : Kept(e) => Kept(e)'
  BY KeptStays DEF OpeningInv
<1>s. opener \in [Openers -> [step : Steps, todo : SUBSET Events, pane : Panes \cup {"none"},
                              stamp : Nat]]
  BY DEF OpeningInv, OpeningTypeOK
<1>1. CASE OpenDatabase(o) \/ MigrateSecond(o) \/ Opened(o) \/ ImportFails(o) \/ HookStamps(o)
             \/ HookWrites(o) \/ CloseOrCrash(o)
  <2>1. opener'[o].step \in {"version", "open", "write", "closed"}
    BY <1>1, <1>s DEF OpenDatabase, MigrateSecond, Opened, ImportFails, HookStamps, HookWrites,
                      CloseOrCrash, GoesTo, Leaves, Closed
  <2>2. QED
    BY <2>1 DEF At
<1>2. CASE ReadVersion(o)
  <2>1. \/ opener'[o].step \in {"closed", "migrate"}
        \/ opener'[o].step = "read" /\ schema' = "current"
    <3>1. CASE Leaves(o)
      BY <1>s, <3>1 DEF Leaves, Closed
    <3>2. CASE GoesTo(o, "migrate")
      BY <1>s, <3>2 DEF GoesTo
    <3>3. CASE schema = "current" /\ GoesTo(o, "read")
      BY <1>2, <1>s, <3>3 DEF GoesTo, ReadVersion
    <3>4. QED
      BY <1>2, <3>1, <3>2, <3>3 DEF ReadVersion
  <2>2. QED
    BY <2>1 DEF At
<1>3. CASE Migrate(o)
  <2>1. opener'[o].step = "read" /\ schema' = "current"
    BY <1>3, <1>s DEF Migrate, GoesTo
  <2>2. QED
    BY <2>1 DEF At
<1>4. CASE ReadEvents(o)
  <2>1. schema = "current" /\ schema' = schema /\ files' = files
    BY <1>4 DEF ReadEvents, At, OpeningInv, ImportInv
  <2>2. opener'[o].step = "import" /\ opener'[o].todo = Newest(files)
    BY <1>4, <1>s DEF ReadEvents
  <2>3. \A e \in files : Ahead(o, e)'
    BY <1>t, <2>1, <2>2, NewestThere DEF Ahead
  <2>4. QED
    BY <2>1, <2>2, <2>3 DEF At
<1>5. CASE SkipClosedPane(o)
  <2>1. /\ schema = "current" /\ schema' = schema /\ files' = files /\ rows' = rows
        /\ \A e \in files : Kept(e) \/ Ahead(o, e)
    BY <1>5 DEF SkipClosedPane, At, OpeningInv, ImportInv
  <2>2. PICK d \in opener[o].todo : /\ d.pane \notin rows
                                    /\ opener' = [opener EXCEPT ![o].todo = @ \ {d}]
    BY <1>5 DEF SkipClosedPane
  <2>3. opener'[o].step = "import" /\ opener'[o].todo = opener[o].todo \ {d}
    BY <1>5, <1>s, <2>2 DEF SkipClosedPane, At
  <2>4. \A e \in files : Ahead(o, e) => Ahead(o, e)' \/ e.pane = d.pane
    BY <1>5, <2>3 DEF Ahead, SkipClosedPane, At
  <2>5. \A e \in files : e.pane = d.pane => Kept(e)'
    BY <2>1, <2>2 DEF Kept
  <2>6. QED
    BY <1>t, <1>k, <2>1, <2>3, <2>4, <2>5 DEF At
<1>6. CASE TakeEvent(o)
  <2>1. /\ schema = "current" /\ schema' = schema /\ files' = files
        /\ \A e \in files : Kept(e) \/ Ahead(o, e)
    BY <1>6 DEF TakeEvent, At, OpeningInv, ImportInv
  <2>2. PICK d \in opener[o].todo :
          opener' = [opener EXCEPT ![o] = [step |-> "upsert", todo |-> @.todo \ {d},
                                           pane |-> d.pane, stamp |-> d.at]]
    BY <1>6 DEF TakeEvent
  <2>3. opener'[o] = [step |-> "upsert", todo |-> opener[o].todo \ {d},
                      pane |-> d.pane, stamp |-> d.at]
    BY <1>s, <2>2
  <2>4. \A e \in files : Ahead(o, e) => Ahead(o, e)'
    BY <1>6, <2>3 DEF Ahead, TakeEvent, At
  <2>5. QED
    BY <1>t, <1>k, <2>1, <2>3, <2>4 DEF At
<1>7. CASE ImportEvent(o)
  <2>1. /\ schema = "current" /\ schema' = schema /\ files' = files /\ opener[o].pane \in Panes
        /\ \A e \in files : Kept(e) \/ Ahead(o, e)
    BY <1>7 DEF ImportEvent, At, OpeningInv, ImportInv, OpeningTypeOK
  <2>2. opener'[o].step = "import" /\ opener'[o].todo = opener[o].todo
    BY <1>7, <1>s DEF ImportEvent, GoesTo
  <2>3. bind'[opener[o].pane].at >= opener[o].stamp /\ bind'[opener[o].pane].at \in Nat
    BY <1>7, <2>1, UpsertRaises, BindTyping DEF ImportEvent, OpeningInv
  <2>4. \A e \in files : Ahead(o, e) => Ahead(o, e)' \/ Kept(e)'
    BY <1>t, <2>2, <2>3 DEF Ahead, Kept
  <2>5. QED
    BY <1>t, <1>k, <2>1, <2>2, <2>4 DEF At
<1>8. CASE Imported(o)
  <2>1. /\ schema = "current" /\ schema' = schema /\ files' = files
        /\ \A e \in files : Kept(e) \/ Ahead(o, e)
    BY <1>8 DEF Imported, At, OpeningInv, ImportInv
  <2>2. opener'[o].step = "remove" /\ \A e \in files : ~Ahead(o, e)
    BY <1>8, <1>s DEF Imported, GoesTo, Ahead, At
  <2>3. QED
    BY <1>t, <1>k, <2>1, <2>2 DEF At
<1>9. CASE RemoveEvent(o)
  <2>1. /\ schema = "current" /\ schema' = schema /\ files' \subseteq files
        /\ opener' = opener /\ Here = "remove" /\ \A e \in files : Kept(e)
    BY <1>9 DEF RemoveEvent, At, OpeningInv, ImportInv
  <2>2. QED
    BY <1>t, <1>k, <2>1 DEF At
<1>10. QED
  BY <1>1, <1>2, <1>3, <1>4, <1>5, <1>6, <1>7, <1>8, <1>9 DEF Opens, Imports, Writes

LEMMA ImportStep ==
  ASSUME OpeningInv, [OpeningNext]_openingVars
  PROVE  ImportInv'
<1>1. CASE UNCHANGED openingVars
  BY <1>1 DEF OpeningInv, ImportInv, openingVars, Kept, Ahead, At
<1>2. CASE OpeningNext
  <2> SUFFICES ASSUME NEW o \in Openers
               PROVE  /\ opener'[o].step \in {"read", "import", "upsert", "remove"} =>
                           schema' = "current"
                      /\ At(o, "remove")' => \A e \in files' : Kept(e)'
                      /\ opener'[o].step \in {"import", "upsert"} =>
                           \A e \in files' : Kept(e)' \/ Ahead(o, e)'
    BY DEF ImportInv
  <2>1. CASE Opens(o) \/ Imports(o) \/ Writes(o) \/ CloseOrCrash(o)
    BY <1>2, <2>1, MoverKeeps
  <2>2. CASE ~(Opens(o) \/ Imports(o) \/ Writes(o) \/ CloseOrCrash(o))
    <3>1. opener'[o] = opener[o]
      <4>1. ASSUME NEW q \in Openers, q # o, Opens(q) \/ Imports(q) \/ Writes(q) \/ CloseOrCrash(q)
            PROVE  opener'[o] = opener[o]
        BY <4>1 DEF OpeningInv, OpeningTypeOK, Opens, Imports, Writes, OpenDatabase, ReadVersion, Migrate,
           MigrateSecond, Opened, ReadEvents, SkipClosedPane, TakeEvent, ImportEvent, ImportFails,
           Imported, RemoveEvent, HookStamps, HookWrites, CloseOrCrash, GoesTo, Leaves
      <4>2. QED
        BY <1>2, <2>2, <4>1 DEF OpeningNext, ClearBinding, ClosePane, TimePasses
    <3>2. QED
      BY <1>2, <3>1, OthersKeep DEF At
  <2>3. QED
    BY <2>1, <2>2
<1>3. QED
  BY <1>1, <1>2

-----------------------------------------------------------------------------
(* The database: what the history says.  Before the migration no file is gone.             *)
HistoryInv ==
  /\ schema # "current" => files = given
  /\ files \subseteq given
  /\ \A e \in given \ files : Kept(e)

LEMMA HistoryStep ==
  ASSUME OpeningInv, HistoryInv, [OpeningNext]_openingVars
  PROVE  HistoryInv'
<1>1. CASE UNCHANGED openingVars
  BY <1>1 DEF HistoryInv, Kept, openingVars
<1>2. CASE OpeningNext
  <2>1. given' = given /\ given \subseteq Events /\ files' \subseteq files
    BY <1>2 DEF OpeningInv, OpeningTypeOK, OpeningNext, Opens, Imports, Writes, OpenDatabase, ReadVersion,
         Migrate, MigrateSecond, Opened, ReadEvents, SkipClosedPane, TakeEvent, ImportEvent,
         ImportFails, Imported, RemoveEvent, HookStamps, HookWrites, CloseOrCrash, ClearBinding,
         ClosePane, TimePasses
  <2>2. files' = files \/ (schema = "current" /\ \A e \in files : Kept(e))
    <3>1. files' = files \/ \E o \in Openers : RemoveEvent(o)
      BY <1>2 DEF OpeningNext, Opens, Imports, Writes, OpenDatabase, ReadVersion, Migrate,
           MigrateSecond, Opened, ReadEvents, SkipClosedPane, TakeEvent, ImportEvent, ImportFails,
           Imported, HookStamps, HookWrites, CloseOrCrash, ClearBinding, ClosePane, TimePasses
    <3>2. QED
      BY <3>1 DEF RemoveEvent, At, OpeningInv, ImportInv
  <2>3. schema' = schema \/ (schema = "old" /\ schema' = "current")
    BY <1>2 DEF OpeningNext, Opens, Imports, Writes, OpenDatabase, ReadVersion, Migrate,
         MigrateSecond, Opened, ReadEvents, SkipClosedPane, TakeEvent, ImportEvent, ImportFails,
         Imported, RemoveEvent, HookStamps, HookWrites, CloseOrCrash, ClearBinding, ClosePane,
         TimePasses
  <2>4. CASE schema = "current"
    <3>1. \A e \in given \ files' : Kept(e)
      BY <2>1, <2>2 DEF HistoryInv
    <3>2. \A e \in given \ files' : Kept(e)'
      BY <1>2, <2>1, <2>4, <3>1, KeptStays DEF OpeningInv
    <3>3. QED
      BY <2>1, <2>3, <2>4, <3>2 DEF HistoryInv
  <2>5. CASE schema # "current"
    BY <2>1, <2>2, <2>5 DEF HistoryInv
  <2>6. QED
    BY <2>4, <2>5
<1>3. QED
  BY <1>1, <1>2

(* No event is lost with its file and no older one takes its place           *)
(* (EventKept), whoever opens the database at the same time and wherever     *)
(* they crash (migrateLegacySessionFiles in store.go).                       *)
THEOREM EventSafety == OpeningSpec => []EventKept
<1>1. OpeningInit => OpeningInv /\ HistoryInv
  BY TypingInit, ImportInit DEF OpeningInv, OpeningInit, HistoryInv
<1>2. OpeningInv /\ HistoryInv /\ [OpeningNext]_openingVars => (OpeningInv /\ HistoryInv)'
  BY TypingStep, ImportStep, HistoryStep DEF OpeningInv
<1>3. HistoryInv => EventKept
  BY DEF HistoryInv, EventKept, Kept
<1>4. QED
  BY <1>1, <1>2, <1>3, PTL DEF OpeningSpec

-----------------------------------------------------------------------------
(* Settings: types *)

Document == [other : Nat, hook : {"none", "legacy", "own", "odd", "absent", "torn"},
             line : {"free", "own", "custom"}]
HookSteps == {"off", "script", "scriptContent", "read", "backup", "copy", "replace", "content"}

HooksTypeOK ==
  /\ settings \in [Files -> Document]
  /\ backup \in [Files -> [Jobs -> Document]]
  /\ script \in {"absent", "torn", "outdated", "current"}
  /\ run \in [Commands -> [step : HookSteps, job : Jobs, at : 1 .. Len(Targets),
                           old : Document, new : Document]]
  /\ cut \subseteq Files
  /\ lastEdit \in [Files -> Nat] /\ raced \subseteq Files /\ aged \subseteq Files
  /\ edits \in Nat /\ runs \in Nat /\ faults \in Nat

(* Settings that were cut short are in a backup or in somebody's hands, as   *)
(* long as no more than two things have failed.  It takes three to have none *)
(* of them: one that makes a command overwrite them in place, one that stops *)
(* it before they are whole again, and one that has torn the backup.  What   *)
(* each of these leaves behind tells how many there have been.               *)
Copying(c, f, job) == InStep(c, "copy") /\ File(c) = f /\ run[c].job = job
Overwriting(f) ==
  \E c \in Commands : InStep(c, "content") /\ File(c) = f /\ run[c].old # Absent
TornAlone(f) ==
  \E job \in Jobs : backup[f][job] = Torn /\ \A c \in Commands : ~Copying(c, f, job)

(* A backup is whole, or torn as it is made, and made by one command.        *)
BackupInv ==
  /\ \A f \in Files, job \in Jobs :
       IsWhole(backup[f][job]) \/ backup[f][job] \in {Absent, Torn}
  /\ \A c \in Commands :
       /\ run[c].step \in {"backup", "copy"} => IsWhole(run[c].old)
       /\ InStep(c, "copy") => Saved(c) = Torn
       /\ run[c].step \in {"replace", "content"} =>
            run[c].old = Absent \/ (IsWhole(run[c].old) /\ Saved(c) # Absent)
  /\ \A c, d \in Commands :
       InStep(c, "copy") /\ InStep(d, "copy") /\ File(c) = File(d) /\ run[c].job = run[d].job
         => c = d

CutInv ==
  \A f \in Files :
    /\ TornAlone(f) => faults >= 1
    /\ f \in cut =>
         /\ \E job \in Jobs : backup[f][job] # Absent
         /\ faults >= 1
         /\ ~Overwriting(f) => faults >= 2
         /\ TornAlone(f) => faults >= 2
         /\ ~Overwriting(f) /\ TornAlone(f) => faults >= 3

SettingsInv == HooksTypeOK /\ BackupInv /\ CutInv

(* Unless a command missed it, the last edit of a file is in the file, in    *)
(* what commands have in hand and, if it came before them, in the backups.   *)
HandSteps == {"backup", "copy", "replace", "content"}
EditIn(f, d) == IsWhole(d) => d.other = lastEdit[f]

EditInv ==
  \A f \in Files \ raced :
    /\ EditIn(f, settings[f])
    /\ settings[f] = Absent => lastEdit[f] = 0
    /\ \A c \in Commands : run[c].step \in HandSteps /\ File(c) = f =>
         run[c].new.other = lastEdit[f] /\ EditIn(f, run[c].old)
    /\ f \notin aged => \A job \in Jobs : EditIn(f, backup[f][job])

LEMMA TargetsTyping ==
  /\ Len(Targets) \in Nat /\ Len(Targets) >= 1
  /\ \A i \in 1 .. Len(Targets) : Targets[i] \in Files
BY TargetsAssumption DEF Files

LEMMA FileTyping ==
  ASSUME HooksTypeOK, NEW c \in Commands
  PROVE  File(c) \in Files /\ run[c].job \in Jobs
BY TargetsTyping DEF HooksTypeOK, File

LEMMA DocumentTyping ==
  /\ Absent \in Document /\ Torn \in Document /\ Blank \in Document
  /\ ~IsWhole(Absent) /\ ~IsWhole(Torn) /\ Absent # Torn
BY DEF Absent, Torn, Blank, Document, IsWhole

LEMMA WantedTyping ==
  ASSUME HooksTypeOK, NEW c \in Commands, NEW d \in Document
  PROVE  Wanted(c, d) \in Document
BY DEF Wanted, Merged, Cleaned, Document

LEMMA FinishesTyping ==
  ASSUME HooksTypeOK, NEW c \in Commands, Finishes(c)
  PROVE  /\ run' \in [Commands -> [step : HookSteps, job : Jobs, at : 1 .. Len(Targets),
                                   old : Document, new : Document]]
         /\ run'[c].step = "off"
         /\ \A d \in Commands \ {c} : run'[d] = run[d]
BY TargetsTyping, DocumentTyping DEF HooksTypeOK, Finishes, Off, HookSteps, Jobs

(* What a command that goes on to the next file, or ends, has in memory.     *)
LEMMA GoesOnTyping ==
  ASSUME HooksTypeOK, NEW c \in Commands, GoesOn(c)
  PROVE  /\ run' \in [Commands -> [step : HookSteps, job : Jobs, at : 1 .. Len(Targets),
                                   old : Document, new : Document]]
         /\ run'[c].step \in {"off", "read"}
         /\ \A d \in Commands \ {c} : run'[d] = run[d]
<1>1. CASE run[c].at < Len(Targets)
  <2> DEFINE next == [step |-> "read", job |-> run[c].job, at |-> run[c].at + 1,
                      old |-> Absent, new |-> Absent]
  <2>1. run[c] \in [step : HookSteps, job : Jobs, at : 1 .. Len(Targets),
                    old : Document, new : Document]
    BY DEF HooksTypeOK
  <2>2. run' = [run EXCEPT ![c] = next]
    BY <1>1 DEF GoesOn
  <2>3. next \in [step : HookSteps, job : Jobs, at : 1 .. Len(Targets),
                  old : Document, new : Document]
    BY <1>1, <2>1, TargetsTyping, DocumentTyping DEF HookSteps
  <2>4. QED
    BY <2>2, <2>3 DEF HooksTypeOK
<1>2. CASE ~(run[c].at < Len(Targets))
  BY <1>2, FinishesTyping DEF GoesOn
<1>3. QED
  BY <1>1, <1>2

LEMMA MovesTyping ==
  ASSUME HooksTypeOK, NEW c \in Commands, NEW step \in HookSteps, MovesTo(c, step)
  PROVE  /\ run' \in [Commands -> [step : HookSteps, job : Jobs, at : 1 .. Len(Targets),
                                   old : Document, new : Document]]
         /\ run'[c] = [run[c] EXCEPT !.step = step]
         /\ \A d \in Commands \ {c} : run'[d] = run[d]
BY DEF HooksTypeOK, MovesTo

LEMMA HooksTypingInit ==
  ASSUME HooksInit
  PROVE  HooksTypeOK
<1>1. {Absent, Blank, [Blank EXCEPT !.hook = "legacy"], [Blank EXCEPT !.hook = "odd"],
       [Blank EXCEPT !.line = "custom"]} \subseteq Document
  BY DEF Absent, Blank, Document
<1>2. Off \in [step : HookSteps, job : Jobs, at : 1 .. Len(Targets), old : Document, new : Document]
  BY TargetsTyping, DocumentTyping DEF Off, HookSteps, Jobs
<1>3. settings \in [Files -> Document]
  BY <1>1 DEF HooksInit
<1>4. backup \in [Files -> [Jobs -> Document]]
  BY DocumentTyping DEF HooksInit
<1>5. QED
  BY <1>2, <1>3, <1>4 DEF HooksInit, HooksTypeOK

(* What a step of one command does to its own record; the others keep       *)
(* theirs.                                                                   *)
LEMMA RunTyping ==
  ASSUME HooksTypeOK, NEW c \in Commands,
         WriteScript(c) \/ ReadSettings(c) \/ WriteBackup(c) \/ ReplaceSettings(c) \/ Fails(c)
           \/ \E job \in Jobs : Begin(c, job)
  PROVE  /\ run' \in [Commands -> [step : HookSteps, job : Jobs, at : 1 .. Len(Targets),
                                   old : Document, new : Document]]
         /\ \A d \in Commands \ {c} : run'[d] = run[d]
<1>1. CASE Finishes(c) \/ GoesOn(c)
  BY <1>1, FinishesTyping, GoesOnTyping
<1>2. CASE \E step \in HookSteps : MovesTo(c, step)
  BY <1>2, MovesTyping
<1>3. CASE \E job \in Jobs : Begin(c, job)
  <2>1. PICK job \in Jobs : Begin(c, job)
    BY <1>3
  <2>2. [Off EXCEPT !.job = job, !.step = IF job = "install" THEN "script" ELSE "read"]
          \in [step : HookSteps, job : Jobs, at : 1 .. Len(Targets), old : Document, new : Document]
    <3>1. Off \in [step : HookSteps, job : Jobs, at : 1 .. Len(Targets),
                   old : Document, new : Document]
      BY TargetsTyping, DocumentTyping DEF Off, HookSteps, Jobs
    <3>2. (IF job = "install" THEN "script" ELSE "read") \in HookSteps
      BY DEF HookSteps
    <3>3. QED
      BY <3>1, <3>2
  <2>3. QED
    BY <2>1, <2>2 DEF HooksTypeOK, Begin
<1>4. CASE ReadNoFile(c)
  <2>1. Wanted(c, Blank) \in Document
    BY WantedTyping, DocumentTyping
  <2>2. run' = [run EXCEPT ![c] = [run[c] EXCEPT !.step = "replace", !.old = Absent,
                                                     !.new = Wanted(c, Blank)]]
    BY <1>4 DEF ReadNoFile
  <2>3. QED
    BY <2>1, <2>2, DocumentTyping DEF HooksTypeOK, HookSteps
<1>5. CASE ReadAndMerge(c)
  <2> DEFINE d == settings[File(c)]
  <2>1. d \in Document /\ Wanted(c, d) \in Document
    BY FileTyping, WantedTyping DEF HooksTypeOK
  <2>2. run' = [run EXCEPT ![c] =
                  [run[c] EXCEPT !.step = "backup", !.old = d, !.new = Wanted(c, d)]]
    BY <1>5 DEF ReadAndMerge
  <2>3. QED
    BY <2>1, <2>2 DEF HooksTypeOK, HookSteps
<1>6. QED
  BY <1>1, <1>2, <1>3, <1>4, <1>5
     DEF WriteScript, ScriptThere, ScriptRenamed, ScriptTruncated, ScriptWritten,
         ReadSettings, ReadMalformed, ReadNothingToDo, WriteBackup, BackupThere, BackupCreated,
         BackupWritten, ReplaceSettings, Renamed, Truncated, Written, Fails, HookSteps

LEMMA HooksTypingStep ==
  ASSUME HooksTypeOK, [HooksNext]_hookVars
  PROVE  HooksTypeOK'
<1>1. ASSUME NEW c \in Commands,
             WriteScript(c) \/ ReadSettings(c) \/ WriteBackup(c) \/ ReplaceSettings(c) \/ Fails(c)
               \/ \E job \in Jobs : Begin(c, job)
      PROVE  HooksTypeOK'
  <2>1. script' \in {"absent", "torn", "outdated", "current"} /\ faults' \in Nat
    <3>1. script' \in {script, "torn", "current"}
      BY <1>1 DEF WriteScript, ScriptThere, ScriptRenamed, ScriptTruncated, ScriptWritten,
           ReadSettings, ReadMalformed, ReadNothingToDo, ReadNoFile, ReadAndMerge,
           WriteBackup, BackupThere, BackupCreated, BackupWritten,
           ReplaceSettings, Renamed, Truncated, Written, Fails, Begin
    <3>2. faults' \in {faults, faults + 1}
      BY <1>1 DEF WriteScript, ScriptThere, ScriptRenamed, ScriptTruncated, ScriptWritten,
           ReadSettings, ReadMalformed, ReadNothingToDo, ReadNoFile, ReadAndMerge,
           WriteBackup, BackupThere, BackupCreated, BackupWritten,
           ReplaceSettings, Renamed, Truncated, Written, Fails, Begin,
           Fault, Fine
    <3>3. QED
      BY <3>1, <3>2 DEF HooksTypeOK
  <2>5. edits' \in Nat /\ runs' \in Nat
    <3>1. edits' = edits /\ runs' \in {runs, runs + 1}
      BY <1>1 DEF WriteScript, ScriptThere, ScriptRenamed, ScriptTruncated, ScriptWritten,
           ReadSettings, ReadMalformed, ReadNothingToDo, ReadNoFile, ReadAndMerge,
           WriteBackup, BackupThere, BackupCreated, BackupWritten,
           ReplaceSettings, Renamed, Truncated, Written, Fails, Begin,
           Rest
    <3>2. QED
      BY <3>1 DEF HooksTypeOK
  <2>2. settings' \in [Files -> Document]
    <3>1. \/ settings' = settings
          \/ \E d \in Document : settings' = [settings EXCEPT ![File(c)] = d]
      BY <1>1, DocumentTyping
         DEF HooksTypeOK, WriteScript, ScriptThere, ScriptRenamed, ScriptTruncated, ScriptWritten,
           ReadSettings, ReadMalformed, ReadNothingToDo, ReadNoFile, ReadAndMerge,
           WriteBackup, BackupThere, BackupCreated, BackupWritten,
           ReplaceSettings, Renamed, Truncated, Written, Fails, Begin
    <3>2. QED
      BY <3>1 DEF HooksTypeOK
  <2>3. backup' \in [Files -> [Jobs -> Document]]
    <3>1. \/ backup' = backup
          \/ \E d \in Document : backup' = [backup EXCEPT ![File(c)][run[c].job] = d]
      BY <1>1, DocumentTyping
         DEF HooksTypeOK, WriteScript, ScriptThere, ScriptRenamed, ScriptTruncated, ScriptWritten,
           ReadSettings, ReadMalformed, ReadNothingToDo, ReadNoFile, ReadAndMerge,
           WriteBackup, BackupThere, BackupCreated, BackupWritten,
           ReplaceSettings, Renamed, Truncated, Written, Fails, Begin
    <3>2. ASSUME NEW d \in Document, backup' = [backup EXCEPT ![File(c)][run[c].job] = d]
          PROVE  backup' \in [Files -> [Jobs -> Document]]
      <4>1. File(c) \in Files /\ run[c].job \in Jobs
        BY FileTyping
      <4>2. backup[File(c)] \in [Jobs -> Document]
        BY <4>1 DEF HooksTypeOK
      <4>3. [backup[File(c)] EXCEPT ![run[c].job] = d] \in [Jobs -> Document]
        BY <4>1, <4>2
      <4>4. QED
        BY <3>2, <4>1, <4>3 DEF HooksTypeOK
    <3>3. QED
      BY <3>1, <3>2 DEF HooksTypeOK
  <2>4. cut' \subseteq Files
    <3>1. cut' \in {cut, cut \cup {File(c)}, cut \ {File(c)}}
      BY <1>1 DEF WriteScript, ScriptThere, ScriptRenamed, ScriptTruncated, ScriptWritten,
           ReadSettings, ReadMalformed, ReadNothingToDo, ReadNoFile, ReadAndMerge,
           WriteBackup, BackupThere, BackupCreated, BackupWritten,
           ReplaceSettings, Renamed, Truncated, Written, Fails, Begin
    <3>2. QED
      BY <3>1, FileTyping DEF HooksTypeOK
  <2>6. lastEdit' = lastEdit /\ raced' = raced /\ aged' = aged
    BY <1>1 DEF WriteScript, ScriptThere, ScriptRenamed, ScriptTruncated, ScriptWritten,
         ReadSettings, ReadMalformed, ReadNothingToDo, ReadNoFile, ReadAndMerge,
         WriteBackup, BackupThere, BackupCreated, BackupWritten,
         ReplaceSettings, Renamed, Truncated, Written, Fails, Begin,
         Rest, edited
  <2>7. QED
    BY <1>1, <2>1, <2>2, <2>3, <2>4, <2>5, <2>6, RunTyping DEF HooksTypeOK
<1>2. ASSUME NEW f \in Files, Edit(f)
      PROVE  HooksTypeOK'
  <2>1. edits' \in Nat
    BY <1>2 DEF Edit, HooksTypeOK
  <2>2. PICK hook \in {"none", settings[f].hook},
             line \in {settings[f].line, "free", "custom"} :
          settings' = [settings EXCEPT ![f] = [other |-> edits', hook |-> hook, line |-> line]]
    BY <1>2 DEF Edit
  <2>3. [other |-> edits', hook |-> hook, line |-> line] \in Document
    BY <2>1, <2>2 DEF HooksTypeOK, Document
  <2>4. settings' \in [Files -> Document]
    BY <2>2, <2>3 DEF HooksTypeOK
  <2>5. lastEdit' \in [Files -> Nat] /\ raced' \subseteq Files /\ aged' \subseteq Files
    BY <1>2, <2>1 DEF Edit, HooksTypeOK
  <2>6. QED
    BY <1>2, <2>1, <2>4, <2>5 DEF Edit, HooksTypeOK
<1>3. CASE UNCHANGED hookVars
  BY <1>3 DEF hookVars, edited, HooksTypeOK
<1>4. QED
  BY <1>1, <1>2, <1>3 DEF HooksNext

(* The settings, the backups and the failures that this command and the     *)
(* others left are as they were, unless it makes or writes a backup or       *)
(* overwrites settings in place.                                             *)
LEMMA QuietStep ==
  ASSUME SettingsInv, HooksTypeOK', NEW c \in Commands,
         \A d \in Commands \ {c} : run'[d] = run[d],
         cut' \subseteq cut, backup' = backup, faults' >= faults,
         run[c].step \notin {"copy", "content"}, run'[c].step \notin {"copy", "content"},
         run'[c].step = "backup" => IsWhole(run'[c].old),
         run'[c].step = "replace" =>
           run'[c].old = Absent \/ (IsWhole(run'[c].old) /\ Saved(c)' # Absent)
  PROVE  BackupInv' /\ CutInv'
<1>1. \A f \in Files : Overwriting(f)' <=> Overwriting(f)
  BY DEF Overwriting, InStep, File
<1>2. \A f \in Files : TornAlone(f)' <=> TornAlone(f)
  BY DEF TornAlone, Copying, InStep, File
<1>3. faults \in Nat /\ faults' \in Nat
  BY DEF SettingsInv, HooksTypeOK
<1>4. CutInv'
  BY <1>1, <1>2, <1>3 DEF SettingsInv, CutInv
<1>5. BackupInv'
  BY DEF SettingsInv, BackupInv, InStep, Saved, File
<1>6. QED
  BY <1>4, <1>5

LEMMA BackupStep ==
  ASSUME SettingsInv, HooksTypeOK', NEW c \in Commands, WriteBackup(c)
  PROVE  BackupInv' /\ CutInv'
<1> DEFINE g == File(c)
           own == run[c].job
<1>1. g \in Files /\ own \in Jobs
  BY FileTyping DEF SettingsInv
<1>2. \A d \in Commands \ {c} : run'[d] = run[d]
  BY RunTyping DEF SettingsInv
<1>3. CASE BackupThere(c)
  <2>1. /\ run[c].step = "backup" /\ run'[c] = [run[c] EXCEPT !.step = "replace"]
        /\ UNCHANGED <<cut, backup, faults>>
    BY <1>3, MovesTyping DEF BackupThere, InStep, SettingsInv, HookSteps, Fine
  <2>2. /\ run'[c].step = "replace" /\ run'[c].old = run[c].old
        /\ Saved(c)' # Absent /\ IsWhole(run'[c].old)
    BY <1>3, <2>1 DEF BackupThere, Saved, File, SettingsInv, HooksTypeOK, BackupInv
  <2>3. faults' >= faults
    BY <2>1 DEF SettingsInv, HooksTypeOK
  <2>4. QED
    BY <1>2, <2>1, <2>2, <2>3, QuietStep
<1>4. CASE BackupCreated(c)
  <2>1. /\ run[c].step = "backup" /\ backup[g][own] = Absent
        /\ run'[c] = [run[c] EXCEPT !.step = "copy"]
        /\ UNCHANGED <<cut, faults>> /\ backup' = [backup EXCEPT ![g][own] = Torn]
    BY <1>4, MovesTyping DEF BackupCreated, InStep, SettingsInv, HookSteps, Fine, Saved
  <2>2. /\ run'[c].step = "copy" /\ run'[c].old = run[c].old
        /\ run'[c].job = own /\ File(c)' = g
    BY <2>1 DEF SettingsInv, HooksTypeOK, File
  <2>3. /\ backup'[g][own] = Torn
        /\ \A f \in Files, job \in Jobs :
             f # g \/ job # own => backup'[f][job] = backup[f][job]
    BY <1>1, <2>1 DEF SettingsInv, HooksTypeOK
  <2>4. \A d \in Commands \ {c} : File(d)' = File(d) /\ File(d) \in Files /\ run[d].job \in Jobs
    BY <1>2, FileTyping DEF File, SettingsInv
  <2>5. \A d \in Commands \ {c} : ~Copying(d, g, own)
    BY <1>1, <2>1, DocumentTyping DEF SettingsInv, BackupInv, Copying, Saved
  <2>6. BackupInv'
    <3>1. \A f \in Files, job \in Jobs :
            IsWhole(backup'[f][job]) \/ backup'[f][job] \in {Absent, Torn}
      BY <2>3 DEF SettingsInv, BackupInv
    <3>2. ASSUME NEW d \in Commands
          PROVE  /\ run'[d].step \in {"backup", "copy"} => IsWhole(run'[d].old)
                 /\ InStep(d, "copy")' => Saved(d)' = Torn
                 /\ run'[d].step \in {"replace", "content"} =>
                      run'[d].old = Absent \/ (IsWhole(run'[d].old) /\ Saved(d)' # Absent)
      <4>1. CASE d = c
        BY <2>1, <2>2, <2>3, <4>1 DEF SettingsInv, BackupInv, Saved, InStep
      <4>2. CASE d # c
        <5>1. run'[d] = run[d] /\ File(d)' = File(d)
          BY <1>2, <2>4, <4>2
        <5>2. Saved(d)' = Saved(d) \/ Saved(d)' = Torn
          BY <2>3, <2>4, <4>2, <5>1 DEF Saved
        <5>3. QED
          BY <5>1, <5>2, DocumentTyping DEF SettingsInv, BackupInv, InStep
      <4>3. QED
        BY <4>1, <4>2
    <3>3. \A d, e \in Commands :
            InStep(d, "copy")' /\ InStep(e, "copy")' /\ File(d)' = File(e)' /\ run'[d].job = run'[e].job
              => d = e
      BY <1>2, <2>2, <2>4, <2>5 DEF SettingsInv, BackupInv, InStep, Copying
    <3>4. QED
      BY <3>1, <3>2, <3>3 DEF BackupInv
  <2>7. \A f \in Files : Overwriting(f)' <=> Overwriting(f)
    <3>1. ~InStep(c, "content") /\ ~InStep(c, "content")'
      BY <2>1, <2>2 DEF InStep
    <3>2. \A d \in Commands \ {c} :
            /\ InStep(d, "content")' <=> InStep(d, "content")
            /\ File(d)' = File(d) /\ run'[d].old = run[d].old
      BY <1>2, <2>4 DEF InStep
    <3>3. QED
      BY <3>1, <3>2 DEF Overwriting
  <2>8. \A f \in Files : TornAlone(f)' => TornAlone(f)
    <3>1. SUFFICES ASSUME NEW f \in Files, NEW job \in Jobs, backup'[f][job] = Torn,
                          \A d \in Commands : ~Copying(d, f, job)'
                   PROVE  TornAlone(f)
      BY DEF TornAlone
    <3>2. f # g \/ job # own
      BY <2>2, <3>1 DEF Copying, InStep
    <3>3. backup[f][job] = Torn
      BY <2>3, <3>1, <3>2
    <3>4. \A d \in Commands : ~Copying(d, f, job)
      BY <1>2, <2>1, <2>4, <3>1 DEF Copying, InStep
    <3>5. QED
      BY <3>3, <3>4 DEF TornAlone
  <2>9. \A f \in Files : (\E job \in Jobs : backup[f][job] # Absent)
                           => \E job \in Jobs : backup'[f][job] # Absent
    BY <2>3, DocumentTyping
  <2>10. QED
    BY <2>1, <2>6, <2>7, <2>8, <2>9 DEF SettingsInv, CutInv
<1>5. CASE BackupWritten(c)
  <2>1. /\ run[c].step = "copy" /\ run'[c] = [run[c] EXCEPT !.step = "replace"]
        /\ UNCHANGED <<cut, faults>> /\ backup' = [backup EXCEPT ![g][own] = run[c].old]
    BY <1>5, MovesTyping DEF BackupWritten, InStep, SettingsInv, HookSteps, Fine
  <2>2. /\ run'[c].step = "replace" /\ run'[c].old = run[c].old
        /\ run'[c].job = own /\ File(c)' = g /\ IsWhole(run[c].old)
    BY <2>1 DEF SettingsInv, HooksTypeOK, File, BackupInv
  <2>3. /\ backup'[g][own] = run[c].old /\ IsWhole(backup'[g][own])
        /\ \A f \in Files, job \in Jobs :
             f # g \/ job # own => backup'[f][job] = backup[f][job]
    BY <1>1, <2>1, <2>2 DEF SettingsInv, HooksTypeOK
  <2>4. \A d \in Commands \ {c} : File(d)' = File(d) /\ File(d) \in Files /\ run[d].job \in Jobs
    BY <1>2, FileTyping DEF File, SettingsInv
  <2>5. \A d \in Commands \ {c} : ~Copying(d, g, own)
    BY <1>1, <2>1 DEF SettingsInv, BackupInv, Copying, InStep
  <2>6. BackupInv'
    <3>1. \A f \in Files, job \in Jobs :
            IsWhole(backup'[f][job]) \/ backup'[f][job] \in {Absent, Torn}
      BY <2>3 DEF SettingsInv, BackupInv
    <3>2. ASSUME NEW d \in Commands
          PROVE  /\ run'[d].step \in {"backup", "copy"} => IsWhole(run'[d].old)
                 /\ InStep(d, "copy")' => Saved(d)' = Torn
                 /\ run'[d].step \in {"replace", "content"} =>
                      run'[d].old = Absent \/ (IsWhole(run'[d].old) /\ Saved(d)' # Absent)
      <4>1. CASE d = c
        BY <2>2, <2>3, <4>1, DocumentTyping DEF Saved, InStep
      <4>2. CASE d # c
        <5>1. run'[d] = run[d] /\ File(d)' = File(d)
          BY <1>2, <2>4, <4>2
        <5>2. Saved(d)' = Saved(d) \/ (~InStep(d, "copy") /\ Saved(d)' # Absent)
          BY <2>3, <2>4, <2>5, <4>2, <5>1, DocumentTyping DEF Saved, Copying
        <5>3. QED
          BY <5>1, <5>2 DEF SettingsInv, BackupInv, InStep
      <4>3. QED
        BY <4>1, <4>2
    <3>3. \A d, e \in Commands :
            InStep(d, "copy")' /\ InStep(e, "copy")' /\ File(d)' = File(e)' /\ run'[d].job = run'[e].job
              => d = e
      BY <1>2, <2>2, <2>4 DEF SettingsInv, BackupInv, InStep
    <3>4. QED
      BY <3>1, <3>2, <3>3 DEF BackupInv
  <2>7. \A f \in Files : Overwriting(f)' <=> Overwriting(f)
    <3>1. ~InStep(c, "content") /\ ~InStep(c, "content")'
      BY <2>1, <2>2 DEF InStep
    <3>2. \A d \in Commands \ {c} :
            /\ InStep(d, "content")' <=> InStep(d, "content")
            /\ File(d)' = File(d) /\ run'[d].old = run[d].old
      BY <1>2, <2>4 DEF InStep
    <3>3. QED
      BY <3>1, <3>2 DEF Overwriting
  <2>8. \A f \in Files : TornAlone(f)' => TornAlone(f)
    BY <1>1, <1>2, <2>1, <2>2, <2>3, <2>4, DocumentTyping DEF TornAlone, Copying, InStep
  <2>9. \A f \in Files : (\E job \in Jobs : backup[f][job] # Absent)
                           => \E job \in Jobs : backup'[f][job] # Absent
    BY <2>3, DocumentTyping
  <2>10. QED
    BY <2>1, <2>6, <2>7, <2>8, <2>9 DEF SettingsInv, CutInv
<1>6. QED
  BY <1>3, <1>4, <1>5 DEF WriteBackup

LEMMA ReplaceStep ==
  ASSUME SettingsInv, HooksTypeOK', NEW c \in Commands, ReplaceSettings(c)
  PROVE  BackupInv' /\ CutInv'
<1> DEFINE g == File(c)
<1>1. g \in Files
  BY FileTyping DEF SettingsInv
<1>2. \A d \in Commands \ {c} : run'[d] = run[d]
  BY RunTyping DEF SettingsInv
<1>3. backup' = backup /\ faults \in Nat /\ faults' \in Nat
  BY DEF ReplaceSettings, Renamed, Truncated, Written, SettingsInv, HooksTypeOK
<1>4. CASE Renamed(c)
  <2>1. /\ run[c].step = "replace" /\ run'[c].step \in {"off", "read"}
        /\ cut' \subseteq cut /\ faults' >= faults
    BY <1>3, <1>4, GoesOnTyping DEF Renamed, InStep, SettingsInv, Fine
  <2>2. QED
    BY <1>2, <1>3, <2>1, QuietStep
<1>5. CASE Truncated(c)
  <2>1. /\ run[c].step = "replace" /\ run'[c] = [run[c] EXCEPT !.step = "content"]
        /\ faults' = faults + 1
        /\ cut' = IF run[c].old = Absent THEN cut ELSE cut \cup {g}
    BY <1>5, MovesTyping DEF Truncated, InStep, SettingsInv, HookSteps, Fault
  <2>2. /\ run[c].step = "replace" /\ run'[c].step = "content" /\ run'[c].old = run[c].old
        /\ run'[c].job = run[c].job /\ File(c)' = g
    BY <2>1 DEF SettingsInv, HooksTypeOK, File
  <2>3. \A d \in Commands \ {c} : File(d)' = File(d)
    BY <1>2 DEF File
  <2>4. BackupInv'
    BY <1>2, <1>3, <2>2, <2>3 DEF SettingsInv, BackupInv, InStep, Saved
  <2>5. \A f \in Files : TornAlone(f)' <=> TornAlone(f)
    BY <1>2, <1>3, <2>2, <2>3 DEF TornAlone, Copying, InStep
  <2>6. \A f \in Files : Overwriting(f) => Overwriting(f)'
    BY <1>2, <2>1, <2>2, <2>3 DEF Overwriting, InStep
  <2>7. run[c].old # Absent => Overwriting(g)'
    BY <2>2 DEF Overwriting, InStep
  <2>8. g \in cut' => \E job \in Jobs : backup'[g][job] # Absent
    <3>1. CASE g \in cut
      BY <1>1, <1>3, <3>1 DEF SettingsInv, CutInv
    <3>2. CASE g \notin cut
      BY <1>3, <2>1, <3>2, FileTyping DEF SettingsInv, BackupInv, Saved
    <3>3. QED
      BY <3>1, <3>2
  <2>9. ASSUME NEW f \in Files
        PROVE  /\ TornAlone(f)' => faults' >= 1
               /\ f \in cut' =>
                    /\ \E job \in Jobs : backup'[f][job] # Absent
                    /\ faults' >= 1
                    /\ ~Overwriting(f)' => faults' >= 2
                    /\ TornAlone(f)' => faults' >= 2
                    /\ ~Overwriting(f)' /\ TornAlone(f)' => faults' >= 3
    <3>1. CASE f = g /\ run[c].old # Absent
      <4>1. TornAlone(f) => faults >= 1
        BY DEF SettingsInv, CutInv
      <4>2. faults' >= 1 /\ (TornAlone(f)' => faults' >= 2)
        BY <1>3, <2>1, <2>5, <4>1
      <4>3. Overwriting(f)' /\ (f \in cut' => \E job \in Jobs : backup'[f][job] # Absent)
        BY <2>2, <2>7, <2>8, <3>1
      <4>4. QED
        BY <4>2, <4>3
    <3>2. CASE f # g \/ run[c].old = Absent
      BY <1>3, <2>1, <2>5, <2>6, <3>2 DEF SettingsInv, CutInv
    <3>3. QED
      BY <3>1, <3>2
  <2>10. QED
    BY <2>4, <2>9 DEF CutInv
<1>6. CASE Written(c)
  <2>1. /\ run[c].step = "content" /\ run'[c].step \in {"off", "read"}
        /\ cut' = cut \ {g} /\ faults' = faults
    BY <1>6, GoesOnTyping DEF Written, InStep, SettingsInv, Fine
  <2>2. \A d \in Commands \ {c} : File(d)' = File(d)
    BY <1>2 DEF File
  <2>3. BackupInv'
    BY <1>2, <1>3, <2>1, <2>2 DEF SettingsInv, BackupInv, InStep, Saved
  <2>4. \A f \in Files : TornAlone(f)' <=> TornAlone(f)
    BY <1>2, <1>3, <2>1, <2>2 DEF TornAlone, Copying, InStep
  <2>5. \A f \in Files \ {g} : Overwriting(f) => Overwriting(f)'
    BY <1>2, <2>1, <2>2 DEF Overwriting, InStep
  <2>6. QED
    BY <1>3, <2>1, <2>3, <2>4, <2>5 DEF SettingsInv, CutInv
<1>7. QED
  BY <1>4, <1>5, <1>6 DEF ReplaceSettings

(* A failure counts, and tells what it interrupted.                          *)
LEMMA FailStep ==
  ASSUME SettingsInv, HooksTypeOK', NEW c \in Commands, Fails(c)
  PROVE  BackupInv' /\ CutInv'
<1>1. \A d \in Commands \ {c} : run'[d] = run[d] /\ File(d)' = File(d)
  BY RunTyping DEF SettingsInv, File
<1>2. /\ run'[c].step = "off" /\ backup' = backup /\ cut' = cut
      /\ faults \in Nat /\ faults' = faults + 1
  BY FinishesTyping DEF Fails, Fault, SettingsInv, HooksTypeOK
<1>3. BackupInv'
  BY <1>1, <1>2 DEF SettingsInv, BackupInv, InStep, Saved
<1>4. ASSUME NEW f \in Files
      PROVE  (Overwriting(f) /\ TornAlone(f)' => Overwriting(f)' \/ TornAlone(f))
  <2>1. CASE InStep(c, "content")
    BY <1>1, <1>2, <2>1 DEF TornAlone, Copying, InStep
  <2>2. CASE ~InStep(c, "content")
    BY <1>1, <2>2 DEF Overwriting, InStep
  <2>3. QED
    BY <2>1, <2>2
<1>5. \A f \in Files : f \in cut /\ ~Overwriting(f) /\ TornAlone(f)' => faults' >= 3
  BY <1>2 DEF SettingsInv, CutInv
<1>6. CutInv'
  BY <1>2, <1>4, <1>5 DEF SettingsInv, CutInv
<1>7. QED
  BY <1>3, <1>6

LEMMA SettingsStep ==
  ASSUME SettingsInv, [HooksNext]_hookVars
  PROVE  SettingsInv'
<1>1. HooksTypeOK'
  BY HooksTypingStep DEF SettingsInv
<1>2. ASSUME NEW c \in Commands, WriteScript(c) \/ ReadSettings(c) \/ \E job \in Jobs : Begin(c, job)
      PROVE  BackupInv' /\ CutInv'
  <2>1. \A d \in Commands \ {c} : run'[d] = run[d]
    BY <1>2, RunTyping DEF SettingsInv
  <2>2. backup' = backup /\ cut' = cut /\ faults' >= faults
    <3>1. backup' = backup /\ cut' = cut /\ faults' \in {faults, faults + 1}
      BY <1>2 DEF WriteScript, ScriptThere, ScriptRenamed, ScriptTruncated, ScriptWritten,
           ReadSettings, ReadMalformed, ReadNothingToDo, ReadNoFile, ReadAndMerge, Begin,
           Fault, Fine
    <3>2. QED
      BY <3>1 DEF SettingsInv, HooksTypeOK
  <2>3. run[c].step \in {"off", "script", "scriptContent", "read"}
    BY <1>2 DEF WriteScript, ScriptThere, ScriptRenamed, ScriptTruncated, ScriptWritten,
         ReadSettings, ReadMalformed, ReadNothingToDo, ReadNoFile, ReadAndMerge, Begin, InStep
  <2>4. \/ run'[c].step \in {"off", "script", "scriptContent", "read"}
        \/ run'[c].step = "replace" /\ run'[c].old = Absent
        \/ run'[c].step = "backup" /\ IsWhole(run'[c].old)
    <3>1. CASE Finishes(c) \/ GoesOn(c)
      BY <3>1, FinishesTyping, GoesOnTyping DEF SettingsInv
    <3>2. CASE \E step \in {"scriptContent", "read"} : MovesTo(c, step)
      BY <3>2 DEF MovesTo, SettingsInv, HooksTypeOK
    <3>3. CASE \E job \in Jobs : Begin(c, job)
      BY <3>3 DEF Begin, SettingsInv, HooksTypeOK, Off
    <3>4. CASE ReadNoFile(c)
      BY <3>4 DEF ReadNoFile, SettingsInv, HooksTypeOK
    <3>5. CASE ReadAndMerge(c)
      BY <3>5 DEF ReadAndMerge, SettingsInv, HooksTypeOK
    <3>6. QED
      BY <1>2, <3>1, <3>2, <3>3, <3>4, <3>5
         DEF WriteScript, ScriptThere, ScriptRenamed, ScriptTruncated, ScriptWritten,
             ReadSettings, ReadMalformed, ReadNothingToDo
  <2>5. /\ run[c].step \notin {"copy", "content"} /\ run'[c].step \notin {"copy", "content"}
        /\ run'[c].step = "backup" => IsWhole(run'[c].old)
        /\ run'[c].step = "replace" => run'[c].old = Absent
    BY <2>3, <2>4
  <2>6. QED
    BY <1>1, <2>1, <2>2, <2>5, QuietStep
<1>3. ASSUME NEW f \in Files, Edit(f)
      PROVE  BackupInv' /\ CutInv'
  <2>1. cut' \subseteq cut /\ UNCHANGED <<backup, run, faults>>
    BY <1>3 DEF Edit
  <2>2. QED
    BY <2>1 DEF SettingsInv, BackupInv, CutInv, TornAlone, Overwriting, Copying, InStep, File, Saved
<1>4. CASE UNCHANGED hookVars
  <2>1. UNCHANGED <<backup, run, cut, faults>>
    BY <1>4 DEF hookVars
  <2>2. BackupInv'
    BY <2>1 DEF SettingsInv, BackupInv, InStep, File, Saved
  <2>3. CutInv'
    BY <2>1 DEF SettingsInv, CutInv, TornAlone, Overwriting, Copying, InStep, File
  <2>4. QED
    BY <1>1, <2>2, <2>3 DEF SettingsInv
<1>5. QED
  BY <1>1, <1>2, <1>3, <1>4, BackupStep, ReplaceStep, FailStep DEF HooksNext, SettingsInv

LEMMA WantedKeepsEdit ==
  ASSUME NEW c \in Commands, NEW d \in Document
  PROVE  Wanted(c, d).other = d.other
BY DEF Wanted, Merged, Cleaned, Document

(* A step that leaves the files and the backups and gives a command nothing  *)
(* new leaves the edits where they are.                                      *)
LEMMA EditStays ==
  ASSUME EditInv, NEW c \in Commands, \A d \in Commands \ {c} : run'[d] = run[d],
         UNCHANGED <<settings, backup, lastEdit, raced, aged>>,
         \/ run'[c].step \notin HandSteps
         \/ /\ run[c].step \in HandSteps
            /\ run'[c].old = run[c].old /\ run'[c].new = run[c].new /\ File(c)' = File(c)
  PROVE  EditInv'
<1>1. ASSUME NEW f \in Files \ raced, NEW d \in Commands, run'[d].step \in HandSteps, File(d)' = f
      PROVE  run'[d].new.other = lastEdit[f] /\ EditIn(f, run'[d].old)
  <2>1. CASE d = c
    BY <1>1, <2>1 DEF EditInv
  <2>2. CASE d # c
    BY <1>1, <2>2 DEF EditInv, File
  <2>3. QED
    BY <2>1, <2>2
<1>2. QED
  BY <1>1 DEF EditInv, EditIn

LEMMA EditCommandStep ==
  ASSUME SettingsInv, EditInv, NEW c \in Commands,
         WriteScript(c) \/ ReadSettings(c) \/ WriteBackup(c) \/ ReplaceSettings(c) \/ Fails(c)
           \/ \E job \in Jobs : Begin(c, job)
  PROVE  EditInv'
<1> DEFINE g == File(c)
           own == run[c].job
<1>1. g \in Files /\ own \in Jobs /\ HooksTypeOK
  BY FileTyping DEF SettingsInv
<1>2. \A d \in Commands \ {c} : run'[d] = run[d] /\ File(d)' = File(d)
  BY <1>1, RunTyping DEF File
<1>3. UNCHANGED <<lastEdit, raced, aged>>
  BY DEF WriteScript, ScriptThere, ScriptRenamed, ScriptTruncated, ScriptWritten,
       ReadSettings, ReadMalformed, ReadNothingToDo, ReadNoFile, ReadAndMerge,
       WriteBackup, BackupThere, BackupCreated, BackupWritten,
       ReplaceSettings, Renamed, Truncated, Written, Fails, Begin, Rest, edited
<1>4. CASE WriteScript(c) \/ ReadMalformed(c) \/ ReadNothingToDo(c) \/ Fails(c)
             \/ \E job \in Jobs : Begin(c, job)
  <2>1. UNCHANGED <<settings, backup>>
    BY <1>4 DEF WriteScript, ScriptThere, ScriptRenamed, ScriptTruncated, ScriptWritten,
         ReadMalformed, ReadNothingToDo, Fails, Begin
  <2>2. run'[c].step \notin HandSteps
    <3>1. CASE Finishes(c) \/ GoesOn(c)
      BY <1>1, <3>1, FinishesTyping, GoesOnTyping DEF HandSteps
    <3>2. CASE \E step \in {"scriptContent", "read"} : MovesTo(c, step)
      BY <1>1, <3>2 DEF MovesTo, HooksTypeOK, HandSteps
    <3>3. CASE \E job \in Jobs : Begin(c, job)
      <4>1. PICK job \in Jobs :
              run' = [run EXCEPT ![c] = [Off EXCEPT !.job = job,
                                         !.step = IF job = "install" THEN "script" ELSE "read"]]
        BY <3>3 DEF Begin
      <4>2. run'[c].step = IF job = "install" THEN "script" ELSE "read"
        BY <1>1, <4>1 DEF HooksTypeOK, Off
      <4>3. QED
        BY <4>2 DEF HandSteps
    <3>4. QED
      BY <1>4, <3>1, <3>2, <3>3
         DEF WriteScript, ScriptThere, ScriptRenamed, ScriptTruncated, ScriptWritten,
             ReadMalformed, ReadNothingToDo, Fails
  <2>3. QED
    BY <1>2, <1>3, <2>1, <2>2, EditStays
<1>5. CASE ReadNoFile(c) \/ ReadAndMerge(c)
  <2>1. /\ UNCHANGED <<settings, backup>> /\ run'[c].job = own /\ File(c)' = g
        /\ \/ settings[g] = Absent /\ run'[c].old = Absent /\ run'[c].new = Wanted(c, Blank)
           \/ /\ IsWhole(settings[g]) /\ run'[c].old = settings[g]
              /\ run'[c].new = Wanted(c, settings[g])
    <3>1. CASE ReadNoFile(c)
      <4>1. /\ UNCHANGED <<settings, backup>> /\ settings[g] = Absent
            /\ run' = [run EXCEPT ![c] = [run[c] EXCEPT !.step = "replace", !.old = Absent,
                                                            !.new = Wanted(c, Blank)]]
        BY <3>1 DEF ReadNoFile
      <4>2. QED
        BY <1>1, <4>1 DEF HooksTypeOK, File
    <3>2. CASE ReadAndMerge(c)
      <4> DEFINE d == settings[g]
                 wanted == Wanted(c, d)
      <4>1. /\ UNCHANGED <<settings, backup>> /\ IsWhole(d)
            /\ run' = [run EXCEPT ![c] =
                          [run[c] EXCEPT !.step = "backup", !.old = d, !.new = wanted]]
        BY <3>2 DEF ReadAndMerge
      <4> HIDE DEF wanted
      <4>2. /\ run'[c].old = d /\ run'[c].new = wanted
            /\ run'[c].job = own /\ run'[c].at = run[c].at
        BY <1>1, <4>1 DEF HooksTypeOK
      <4>3. QED
        BY <4>1, <4>2 DEF File, wanted
    <3>3. QED
      BY <1>5, <3>1, <3>2
  <2>2. settings[g] \in Document
    BY <1>1 DEF HooksTypeOK
  <2>3. ASSUME g \notin raced
        PROVE  run'[c].new.other = lastEdit[g] /\ EditIn(g, run'[c].old)
    <3>1. CASE settings[g] = Absent /\ run'[c].old = Absent /\ run'[c].new = Wanted(c, Blank)
      <4>1. Wanted(c, Blank).other = 0
        BY WantedKeepsEdit, DocumentTyping DEF Blank
      <4>2. QED
        BY <1>1, <2>3, <3>1, <4>1, DocumentTyping DEF EditInv, EditIn
    <3>2. CASE /\ IsWhole(settings[g]) /\ run'[c].old = settings[g]
               /\ run'[c].new = Wanted(c, settings[g])
      <4>1. settings[g].other = lastEdit[g]
        BY <1>1, <2>3, <3>2 DEF EditInv, EditIn
      <4>2. Wanted(c, settings[g]).other = settings[g].other
        BY <2>2, WantedKeepsEdit
      <4>3. QED
        BY <3>2, <4>1, <4>2 DEF EditIn
    <3>3. QED
      BY <2>1, <3>1, <3>2
  <2>4. ASSUME NEW f \in Files \ raced, NEW d \in Commands,
               run'[d].step \in HandSteps, File(d)' = f
        PROVE  run'[d].new.other = lastEdit[f] /\ EditIn(f, run'[d].old)
    <3>1. CASE d = c
      BY <2>1, <2>3, <2>4, <3>1
    <3>2. CASE d # c
      BY <1>2, <2>4, <3>2 DEF EditInv
    <3>3. QED
      BY <3>1, <3>2
  <2>5. QED
    BY <1>3, <2>1, <2>4 DEF EditInv, EditIn
<1>6. CASE WriteBackup(c)
  <2>1. /\ run[c].step \in HandSteps /\ settings' = settings
        /\ run'[c].old = run[c].old /\ run'[c].new = run[c].new /\ File(c)' = g
    <3>1. \E step \in HookSteps : MovesTo(c, step)
      BY <1>6 DEF WriteBackup, BackupThere, BackupCreated, BackupWritten, HookSteps
    <3>2. PICK step \in HookSteps : run'[c] = [run[c] EXCEPT !.step = step]
      BY <1>1, <3>1, MovesTyping
    <3>3. run'[c].old = run[c].old /\ run'[c].new = run[c].new /\ File(c)' = g
      BY <1>1, <3>2 DEF HooksTypeOK, File
    <3>4. run[c].step \in HandSteps /\ settings' = settings
      BY <1>6 DEF WriteBackup, BackupThere, BackupCreated, BackupWritten, InStep, HandSteps
    <3>5. QED
      BY <3>3, <3>4
  <2>2. ASSUME NEW f \in Files \ raced, NEW d \in Commands,
               run'[d].step \in HandSteps, File(d)' = f
        PROVE  run'[d].new.other = lastEdit[f] /\ EditIn(f, run'[d].old)
    <3>1. CASE d = c
      BY <2>1, <2>2, <3>1 DEF EditInv
    <3>2. CASE d # c
      BY <1>2, <2>2, <3>2 DEF EditInv
    <3>3. QED
      BY <3>1, <3>2
  <2>3. ASSUME NEW f \in Files \ raced, f \notin aged, NEW job \in Jobs
        PROVE  EditIn(f, backup'[f][job])
    <3>1. \/ backup'[f][job] = backup[f][job]
          \/ backup'[f][job] = Torn
          \/ f = g /\ backup'[f][job] = run[c].old
      BY <1>1, <1>6 DEF WriteBackup, BackupThere, BackupCreated, BackupWritten, HooksTypeOK
    <3>2. EditIn(f, backup[f][job]) /\ (f = g => EditIn(f, run[c].old))
      BY <2>1, <2>3 DEF EditInv
    <3>3. QED
      BY <3>1, <3>2, DocumentTyping DEF EditIn
  <2>4. QED
    BY <1>3, <2>1, <2>2, <2>3 DEF EditInv, EditIn
<1>7. CASE ReplaceSettings(c)
  <2>1. run[c].step \in HandSteps /\ backup' = backup
    BY <1>7 DEF ReplaceSettings, Renamed, Truncated, Written, InStep, HandSteps
  <2>2. \/ run'[c].step \notin HandSteps
        \/ run'[c].old = run[c].old /\ run'[c].new = run[c].new /\ File(c)' = g
    <3>1. CASE GoesOn(c)
      BY <1>1, <3>1, GoesOnTyping DEF HandSteps
    <3>2. CASE MovesTo(c, "content")
      BY <1>1, <3>2 DEF MovesTo, HooksTypeOK, File
    <3>3. QED
      BY <1>7, <3>1, <3>2 DEF ReplaceSettings, Renamed, Truncated, Written
  <2>3. ASSUME NEW f \in Files \ raced, NEW d \in Commands,
               run'[d].step \in HandSteps, File(d)' = f
        PROVE  run'[d].new.other = lastEdit[f] /\ EditIn(f, run'[d].old)
    <3>1. CASE d = c
      BY <2>1, <2>2, <2>3, <3>1 DEF EditInv
    <3>2. CASE d # c
      BY <1>2, <2>3, <3>2 DEF EditInv
    <3>3. QED
      BY <3>1, <3>2
  <2>4. ASSUME NEW f \in Files \ raced
        PROVE  EditIn(f, settings'[f]) /\ (settings'[f] = Absent => lastEdit[f] = 0)
    <3>1. \/ settings'[f] = settings[f]
          \/ settings'[f] = Torn
          \/ f = g /\ settings'[f] = run[c].new
      BY <1>1, <1>7 DEF ReplaceSettings, Renamed, Truncated, Written, HooksTypeOK
    <3>2. CASE f = g /\ settings'[f] = run[c].new
      <4>1. run[c].new.other = lastEdit[f]
        BY <2>1, <2>4, <3>2 DEF EditInv
      <4>2. run[c].new = Absent => lastEdit[f] = 0
        BY <4>1 DEF Absent
      <4>3. QED
        BY <3>2, <4>1, <4>2 DEF EditIn
    <3>3. QED
      BY <2>4, <3>1, <3>2, DocumentTyping DEF EditInv, EditIn
  <2>5. QED
    BY <1>3, <2>1, <2>3, <2>4 DEF EditInv, EditIn
<1>8. QED
  BY <1>4, <1>5, <1>6, <1>7 DEF ReadSettings

LEMMA EditStep ==
  ASSUME SettingsInv, EditInv, [HooksNext]_hookVars
  PROVE  EditInv'
<1>1. ASSUME NEW f \in Files, Edit(f)
      PROVE  EditInv'
  <2>1. /\ UNCHANGED <<backup, run>> /\ lastEdit' = [lastEdit EXCEPT ![f] = edits']
        /\ raced' = IF InHand(f) THEN raced \cup {f} ELSE raced \ {f}
        /\ aged' = IF \E job \in Jobs : backup[f][job] # Absent THEN aged \cup {f} ELSE aged
    BY <1>1 DEF Edit
  <2>2. /\ \A e \in Files \ {f} : settings'[e] = settings[e] /\ lastEdit'[e] = lastEdit[e]
        /\ settings'[f].other = lastEdit'[f] /\ settings'[f].hook # "absent"
    BY <1>1, <2>1 DEF Edit, SettingsInv, HooksTypeOK
  <2>3. \A e \in Files : \A d : e # f => (EditIn(e, d)' <=> EditIn(e, d))
    BY <2>2 DEF EditIn
  <2>4. ASSUME NEW e \in Files \ raced', e # f
        PROVE  /\ EditIn(e, settings[e])' /\ (settings'[e] = Absent => lastEdit'[e] = 0)
               /\ \A c \in Commands : run'[c].step \in HandSteps /\ File(c)' = e =>
                    run'[c].new.other = lastEdit'[e] /\ EditIn(e, run[c].old)'
               /\ e \notin aged' => \A job \in Jobs : EditIn(e, backup[e][job])'
    <3>1. e \in Files \ raced /\ (e \notin aged' => e \notin aged)
      BY <2>1, <2>4
    <3>2. QED
      BY <2>1, <2>2, <2>4, <3>1 DEF EditInv, EditIn, File
  <2>5. ASSUME f \notin raced'
        PROVE  /\ EditIn(f, settings[f])' /\ (settings'[f] = Absent => lastEdit'[f] = 0)
               /\ \A c \in Commands : ~(run'[c].step \in HandSteps /\ File(c)' = f)
               /\ f \notin aged' => \A job \in Jobs : EditIn(f, backup[f][job])'
    <3>1. ~InHand(f)
      BY <2>1, <2>5
    <3>2. f \notin aged' => \A job \in Jobs : backup'[f][job] = Absent
      BY <2>1
    <3>3. QED
      BY <2>1, <2>2, <3>1, <3>2, DocumentTyping DEF InHand, HandSteps, EditIn, File, Absent
  <2>6. QED
    BY <2>4, <2>5 DEF EditInv
<1>2. CASE UNCHANGED hookVars
  <2>1. UNCHANGED <<settings, backup, run, lastEdit, raced, aged>>
    BY <1>2 DEF hookVars, edited
  <2>2. QED
    BY <2>1 DEF EditInv, EditIn, File
<1>3. QED
  BY <1>1, <1>2, EditCommandStep DEF HooksNext

(* Settings cut short can be had back after one failure and after two, the   *)
(* last edit of them too unless a command missed it or no backup is so new   *)
(* (replaceFile, writeBackupOnce), whatever commands run at the same time    *)
(* and whatever users and providers write meanwhile.                         *)
THEOREM SettingsSafety == HooksSpec => []SettingsKept
<1>1. HooksInit => SettingsInv /\ EditInv
  <2>1. SUFFICES ASSUME HooksInit
                 PROVE  BackupInv /\ CutInv /\ EditInv
    BY HooksTypingInit DEF SettingsInv
  <2>2. \A c \in Commands : run[c].step = "off"
    BY <2>1 DEF HooksInit, Off
  <2>3. \A f \in Files, job \in Jobs : backup[f][job] = Absent
    BY <2>1 DEF HooksInit
  <2>4. cut = {}
    BY <2>1 DEF HooksInit
  <2>5. BackupInv /\ CutInv
    BY <2>2, <2>3, <2>4, DocumentTyping DEF BackupInv, CutInv, InStep, TornAlone
  <2>6. \A f \in Files : settings[f].other = 0 /\ lastEdit[f] = 0
    BY <2>1 DEF HooksInit, Absent, Blank
  <2>7. EditInv
    BY <2>2, <2>3, <2>6, DocumentTyping DEF EditInv, EditIn, HandSteps
  <2>8. QED
    BY <2>5, <2>7
<1>2. SettingsInv /\ EditInv /\ [HooksNext]_hookVars => (SettingsInv /\ EditInv)'
  BY SettingsStep, EditStep
<1>3. SettingsInv /\ EditInv => SettingsKept
  <2>1. SUFFICES ASSUME SettingsInv, EditInv, NEW f \in cut
                 PROVE  /\ faults <= 1 /\ f \notin raced =>
                             \E c \in Holders(f) :
                               IsWhole(run[c].old) /\ run[c].old.other = lastEdit[f]
                        /\ faults <= 2 =>
                             \E d \in Copies(f) : f \in raced \cup aged \/ d.other = lastEdit[f]
    BY DEF SettingsKept
  <2>2. f \in Files /\ faults \in Nat
    BY <2>1 DEF SettingsInv, HooksTypeOK
  <2>3. ASSUME Overwriting(f)
        PROVE  \E c \in Holders(f) :
                 IsWhole(run[c].old) /\ (f \notin raced => run[c].old.other = lastEdit[f])
    <3>1. PICK c \in Commands : InStep(c, "content") /\ File(c) = f /\ run[c].old # Absent
      BY <2>3 DEF Overwriting
    <3>2. c \in Holders(f) /\ IsWhole(run[c].old)
      BY <2>1, <3>1 DEF Holders, InStep, SettingsInv, BackupInv
    <3>3. f \notin raced => run[c].old.other = lastEdit[f]
      BY <2>1, <2>2, <3>1, <3>2 DEF EditInv, EditIn, HandSteps, InStep
    <3>4. QED
      BY <3>2, <3>3
  <2>4. ASSUME faults <= 1, f \notin raced
        PROVE  \E c \in Holders(f) : IsWhole(run[c].old) /\ run[c].old.other = lastEdit[f]
    BY <2>1, <2>2, <2>3, <2>4 DEF SettingsInv, CutInv
  <2>5. ASSUME faults <= 2
        PROVE  \E d \in Copies(f) : f \in raced \cup aged \/ d.other = lastEdit[f]
    <3>1. CASE Overwriting(f)
      <4>1. PICK c \in Holders(f) :
                   IsWhole(run[c].old) /\ (f \notin raced => run[c].old.other = lastEdit[f])
        BY <2>3, <3>1
      <4>2. run[c].old \in Copies(f)
        BY <4>1 DEF Copies
      <4>3. QED
        BY <4>1, <4>2
    <3>2. CASE \E c \in Commands, job \in Jobs : Copying(c, f, job)
      <4>1. PICK c \in Commands : InStep(c, "copy") /\ File(c) = f
        BY <3>2 DEF Copying
      <4>2. c \in Holders(f) /\ IsWhole(run[c].old)
        BY <2>1, <4>1 DEF Holders, InStep, SettingsInv, BackupInv
      <4>3. run[c].old \in Copies(f)
        BY <4>2 DEF Copies
      <4>4. f \notin raced => run[c].old.other = lastEdit[f]
        BY <2>1, <2>2, <4>1, <4>2 DEF EditInv, EditIn, HandSteps, InStep
      <4>5. QED
        BY <4>3, <4>4
    <3>3. CASE /\ ~Overwriting(f)
               /\ \A c \in Commands, job \in Jobs : ~Copying(c, f, job)
      <4>1. ~TornAlone(f)
        BY <2>1, <2>2, <2>5, <3>3 DEF SettingsInv, CutInv
      <4>2. PICK job \in Jobs : backup[f][job] # Absent
        BY <2>1, <2>2 DEF SettingsInv, CutInv
      <4>3. backup[f][job] # Torn
        BY <3>3, <4>1 DEF TornAlone
      <4>4. IsWhole(backup[f][job])
        BY <2>1, <2>2, <4>2, <4>3 DEF SettingsInv, BackupInv
      <4>5. backup[f][job] \in Copies(f)
        BY <4>4 DEF Copies
      <4>6. f \notin raced \cup aged => backup[f][job].other = lastEdit[f]
        BY <2>1, <2>2, <4>4 DEF EditInv, EditIn
      <4>7. QED
        BY <4>5, <4>6
    <3>4. QED
      BY <3>1, <3>2, <3>3
  <2>6. QED
    BY <2>4, <2>5
<1>4. QED
  BY <1>1, <1>2, <1>3, PTL DEF HooksSpec

=============================================================================
