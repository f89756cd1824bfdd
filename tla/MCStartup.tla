------------------------------- MODULE MCStartup -------------------------------
(***************************************************************************)
(* What a start of split does, one part at a time: the hooks are put into  *)
(* the settings of the providers (HookInstall), a runtime is found or      *)
(* launched (RuntimeLifecycle), and the database is opened (StoreOpening). *)
(* They have no variable in common, so a behaviour moves one of them and   *)
(* the others stay as they began.                                          *)
(***************************************************************************)
EXTENDS RuntimeLifecycle, StoreOpening, HookInstall

VARIABLE part   \* the part that moves

(* Codex is treated before Claude. *)
CodexAndClaude == <<"codex", "claude">>

(* Two events of one pane and one of another. *)
LegacyEvents == {[pane |-> "p1", at |-> 1], [pane |-> "p1", at |-> 2], [pane |-> "p2", at |-> 1]}

InLifecycle(step) ==
  part = "lifecycle" /\ step /\ UNCHANGED <<part, hookVars, openingVars>>
InHooks(step) ==
  part = "hooks" /\ step /\ UNCHANGED <<part, vars, openingVars>>
InOpening(step) ==
  part = "opening" /\ step /\ UNCHANGED <<part, vars, hookVars, given>>

StartupInit ==
  /\ Init /\ HooksInit /\ OpeningInit
  /\ part \in {"lifecycle", "hooks", "opening"}
  /\ part # "lifecycle" => spelling = "missing"
  /\ part # "hooks" => script = "absent" /\ \A f \in Files : settings[f] = Absent
  /\ part # "opening" => schema = "current" /\ rows = {} /\ files = {}
  /\ part = "opening" => "p1" \in rows

StartupNext ==
  \/ \E u \in Users :
       \/ InLifecycle(Migrating(u))
       \/ InLifecycle(Starting(u))
       \/ InLifecycle(Start(u))
       \/ InLifecycle(Leave(u))
       \/ InLifecycle(TryAgain(u))
       \/ InLifecycle(Abandon(u))
       \/ InLifecycle(StopCommand(u))
       \/ InLifecycle(AskToStop(u))
       \/ InLifecycle(NothingToStop(u))
       \/ InLifecycle(TakeStop(u))
       \/ InLifecycle(StopReturns(u))
  \/ InLifecycle(HookLogs)
  \/ \E r \in Runtimes : InLifecycle(Running(r))
  \/ \E r \in Runtimes : InLifecycle(Serve(r))
  \/ \E r \in Runtimes : InLifecycle(OpenFails(r))
  \/ \E r \in Runtimes : InLifecycle(Crash(r))
  \/ \E c \in Commands, job \in Jobs : InHooks(Begin(c, job))
  \/ \E c \in Commands : InHooks(WriteScript(c))
  \/ \E c \in Commands : InHooks(ReadSettings(c))
  \/ \E c \in Commands : InHooks(WriteBackup(c))
  \/ \E c \in Commands : InHooks(ReplaceSettings(c))
  \/ \E c \in Commands : InHooks(Fails(c))
  \/ \E f \in Files : InHooks(Edit(f))
  \/ \E o \in Openers : InOpening(Opens(o))
  \/ \E o \in Openers : InOpening(Imports(o))
  \/ \E o \in Openers : InOpening(Writes(o))
  \/ \E o \in Openers : InOpening(CloseOrCrash(o))
  \/ \E p \in Panes : InOpening(ClearBinding(p))
  \/ \E p \in Panes : InOpening(ClosePane(p))
  \/ InOpening(TimePasses)

(* The fairness of RuntimeLifecycle; the other parts need none. *)
StartupSpec ==
  /\ StartupInit /\ [][StartupNext]_<<part, vars, hookVars, openingVars>>
  /\ \A u \in Users : WF_vars(Migrating(u)) /\ WF_vars(Starting(u)) /\ WF_vars(TakeStop(u))
  /\ \A r \in Runtimes : WF_vars(Running(r) \/ Serve(r))

=============================================================================
