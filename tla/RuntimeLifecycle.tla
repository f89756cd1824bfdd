--------------------------- MODULE RuntimeLifecycle ---------------------------
(***************************************************************************)
(* How front ends come by a runtime and how a runtime comes and goes       *)
(* (lifecycle.go, run in server.go, main.go), together with what every     *)
(* start does to the directory of the database: its legacy spelling is     *)
(* changed by two renames (MigrateLegacyDefaultDirectory in store.go).     *)
(* Names of files do not depend on case, and a directory in which a        *)
(* process has a file open cannot be renamed, as on Windows.               *)
(***************************************************************************)
EXTENDS Naturals

CONSTANTS
  FrontEnds, \* users who start split
  Stoppers,  \* users who run the stop command
  Runtimes,  \* runtime processes alive at the same time at most
  Nobody,    \* not a runtime
  Faults     \* processes may crash and the workspace may fail to open

ASSUME NobodyAssumption == Nobody \notin Runtimes
ASSUME FaultsAssumption == Faults \in BOOLEAN

Users == FrontEnds \cup Stoppers

VARIABLES
  pc,        \* pc[u]: where ConnectOrStart or Stop of u is
  link,      \* link[u]: the runtime u is connected to
  proc,      \* proc[r]: where run of r is
  endpoint,  \* the runtime that listens
  spelling,  \* the state directory: missing, legacy or lower
  content,   \* what is in it: the user's database, or something new
  aside,     \* aside[u]: what u has moved to a temporary name
  stray      \* what is left under a temporary name nobody knows

userVars == <<pc, link>>
dirVars == <<spelling, content, aside, stray>>
vars == <<userVars, proc, endpoint, dirVars>>

Alive(r) == proc[r] # "none"

(* Between app.Open and the end of model.Close: the database is open and   *)
(* the shells of the workspace run.                                        *)
Owning == {"opening", "serving", "closing"}

Init ==
  /\ pc = [u \in Users |-> "off"]
  /\ link = [u \in Users |-> Nobody]
  /\ proc = [r \in Runtimes |-> "none"]
  /\ endpoint = Nobody
  /\ \/ spelling = "missing" /\ content = "none"
     \/ spelling \in {"legacy", "lower"} /\ content = "database"
  /\ aside = [u \in Users |-> "none"]
  /\ stray = {}

Goes(u, from, to) == pc[u] = from /\ pc' = [pc EXCEPT ![u] = to]

-----------------------------------------------------------------------------
(* The state directory                                                     *)

(* os.MkdirAll, which the diagnostic log does as well                      *)
MakeDirectory ==
  /\ spelling' = IF spelling = "missing" THEN "lower" ELSE spelling
  /\ content' = IF spelling = "missing" THEN "new" ELSE content
  /\ UNCHANGED <<aside, stray>>

InUse == \E r \in Runtimes : Alive(r)

(* A plausible slip: the rename is left to the runtime.                    *)
FindNothing(u) ==
  /\ Goes(u, "migrate", "prepare")
  /\ UNCHANGED <<link, proc, endpoint, dirVars>>

(* MigrateLegacyDefaultDirectory: os.ReadDir of the parent                 *)
FindLegacy(u) ==
  /\ Goes(u, "migrate", IF spelling = "legacy" THEN "rename" ELSE "prepare")
  /\ UNCHANGED <<link, proc, endpoint, dirVars>>

MoveAside(u) ==
  /\ Goes(u, "rename", "restore")
  /\ spelling # "missing" /\ ~InUse
  /\ aside' = [aside EXCEPT ![u] = content]
  /\ spelling' = "missing" /\ content' = "none"
  /\ UNCHANGED <<link, proc, endpoint, stray>>

(* The failure is logged, in the directory.                                *)
MoveAsideFails(u) ==
  /\ Goes(u, "rename", "failed")
  /\ spelling = "missing" \/ InUse
  /\ MakeDirectory
  /\ UNCHANGED <<link, proc, endpoint>>

MoveBack(u, name) ==
  /\ spelling = "missing"
  /\ spelling' = name /\ content' = aside[u]
  /\ aside' = [aside EXCEPT ![u] = "none"]
  /\ UNCHANGED stray

(* A plausible slip: nobody looks whether anything was moved.              *)
ForsakeAnything(u) ==
  /\ stray' = stray \cup {aside[u]}
  /\ aside' = [aside EXCEPT ![u] = "none"]
  /\ UNCHANGED <<spelling, content>>

Forsake(u) ==
  /\ stray' = (stray \cup {aside[u]}) \ {"none"}
  /\ aside' = [aside EXCEPT ![u] = "none"]
  /\ UNCHANGED <<spelling, content>>

FinishMigration(u) ==
  /\ Goes(u, "restore", "prepare")
  /\ MoveBack(u, "lower")
  /\ UNCHANGED <<link, proc, endpoint>>

(* Somebody has made the directory meanwhile.                              *)
FinishFails(u) ==
  /\ Goes(u, "restore", "revert")
  /\ spelling # "missing"
  /\ UNCHANGED <<link, proc, endpoint, dirVars>>

(* The error of the way back is ignored.                                   *)
RevertMigration(u) ==
  /\ Goes(u, "revert", "failed")
  /\ \/ MoveBack(u, "legacy")
     \/ spelling # "missing" /\ Forsake(u)
  /\ UNCHANGED <<link, proc, endpoint>>

(* The hook is installed for every Codex and Claude, split or not.         *)
HookLogs ==
  /\ spelling = "missing"
  /\ MakeDirectory
  /\ UNCHANGED <<userVars, proc, endpoint>>

-----------------------------------------------------------------------------
(* ConnectOrStart                                                          *)
Start(u) ==
  /\ u \in FrontEnds
  /\ Goes(u, "off", "dial")
  /\ MakeDirectory
  /\ UNCHANGED <<link, proc, endpoint>>

(* A runtime that does not accept yet may answer or let the call time out. *)
Answered(u, to) ==
  /\ endpoint # Nobody
  /\ pc' = [pc EXCEPT ![u] = to]
  /\ link' = [link EXCEPT ![u] = endpoint]
  /\ UNCHANGED <<proc, endpoint, dirVars>>

Unanswered == endpoint # Nobody => proc[endpoint] \in {"listening", "opening"}

Attach(u) == pc[u] = "dial" /\ Answered(u, "connected")

NotRunning(u) ==
  /\ Goes(u, "dial", "migrate")
  /\ Unanswered
  /\ UNCHANGED <<link, proc, endpoint, dirVars>>

Prepare(u) ==
  /\ Goes(u, "prepare", "launch")
  /\ MakeDirectory
  /\ UNCHANGED <<link, proc, endpoint>>

(* startDetachedRuntime opens the log of the runtime in the directory.     *)
Launch(u) ==
  /\ Goes(u, "launch", "wait")
  /\ spelling # "missing"
  /\ \E r \in Runtimes : ~Alive(r) /\ proc' = [proc EXCEPT ![r] = "born"]
  /\ UNCHANGED <<link, endpoint, dirVars>>

LaunchFails(u) ==
  /\ Goes(u, "launch", "failed")
  /\ spelling = "missing"
  /\ MakeDirectory
  /\ UNCHANGED <<link, proc, endpoint>>

AttachStarted(u) == pc[u] = "wait" /\ Answered(u, "connected")

(* Eight seconds are enough for whatever is under way.                     *)
NotReady(u) ==
  /\ Goes(u, "wait", "failed")
  /\ ~InUse
  /\ MakeDirectory
  /\ UNCHANGED <<link, proc, endpoint>>

(* The stream ends, or the user detaches; later split is started again.    *)
Leave(u) ==
  /\ Goes(u, "connected", "off")
  /\ link' = [link EXCEPT ![u] = Nobody]
  /\ UNCHANGED <<proc, endpoint, dirVars>>

TryAgain(u) ==
  /\ Goes(u, "failed", "off")
  /\ UNCHANGED <<link, proc, endpoint, dirVars>>

-----------------------------------------------------------------------------
(* Stop                                                                    *)
StopCommand(u) ==
  /\ u \in Stoppers
  /\ Goes(u, "off", "ask")
  /\ MakeDirectory
  /\ UNCHANGED <<link, proc, endpoint>>

AskToStop(u) == pc[u] = "ask" /\ Answered(u, "stop")

NothingToStop(u) ==
  /\ Goes(u, "ask", "off")
  /\ Unanswered
  /\ MakeDirectory
  /\ UNCHANGED <<link, proc, endpoint>>

(* A plausible slip: the endpoint is given up before the workspace.        *)
TakeStopUnlisted(u) ==
  /\ pc[u] = "stop" /\ link[u] # Nobody /\ proc[link[u]] = "serving"
  /\ Goes(u, "stop", "stopping")
  /\ proc' = [proc EXCEPT ![link[u]] = "closing"]
  /\ endpoint' = Nobody
  /\ UNCHANGED <<link, dirVars>>

(* The loop takes the request; from here to its end it takes no other.     *)
TakeStop(u) ==
  /\ pc[u] = "stop" /\ link[u] # Nobody /\ proc[link[u]] = "serving"
  /\ Goes(u, "stop", "stopping")
  /\ proc' = [proc EXCEPT ![link[u]] = "closing"]
  /\ UNCHANGED <<link, endpoint, dirVars>>

(* Acknowledged, or the end of the stream without it                       *)
StopReturns(u) ==
  /\ pc[u] \in {"stop", "stopping"}
  /\ link[u] # Nobody => proc[link[u]] \notin Owning \cup {"listening"}
  /\ pc' = [pc EXCEPT ![u] = "off"]
  /\ link' = [link EXCEPT ![u] = Nobody]
  /\ UNCHANGED <<proc, endpoint, dirVars>>

-----------------------------------------------------------------------------
(* run                                                                     *)
(* The end of a process takes its connections and its endpoint with it.    *)
Ends(r) ==
  /\ proc' = [proc EXCEPT ![r] = "none"]
  /\ endpoint' = IF endpoint = r THEN Nobody ELSE endpoint
  /\ link' = [u \in Users |-> IF link[u] = r THEN Nobody ELSE link[u]]
  /\ UNCHANGED <<pc, dirVars>>

Listen(r) ==
  /\ proc[r] = "born"
  /\ endpoint = Nobody
  /\ endpoint' = r
  /\ proc' = [proc EXCEPT ![r] = "listening"]
  /\ UNCHANGED <<userVars, dirVars>>

ListenFails(r) ==
  /\ proc[r] = "born"
  /\ endpoint # Nobody
  /\ Ends(r)

(* The runtime migrates too, but it has its own log open in the directory. *)
MigrationFails(r) ==
  /\ proc[r] = "listening"
  /\ spelling = "legacy"
  /\ Ends(r)

BeginOpen(r) ==
  /\ proc[r] = "listening"
  /\ spelling # "legacy"
  /\ proc' = [proc EXCEPT ![r] = "opening"]
  /\ MakeDirectory
  /\ UNCHANGED <<userVars, endpoint>>

Serve(r) ==
  /\ proc[r] = "opening"
  /\ proc' = [proc EXCEPT ![r] = "serving"]
  /\ UNCHANGED <<userVars, endpoint, dirVars>>

OpenFails(r) ==
  /\ Faults
  /\ proc[r] = "opening"
  /\ Ends(r)

(* model.Close: saved, every shell ended, the database closed              *)
CloseModel(r) ==
  /\ proc[r] = "closing"
  /\ proc' = [proc EXCEPT ![r] = "closed"]
  /\ UNCHANGED <<userVars, endpoint, dirVars>>

StopListening(r) ==
  /\ proc[r] = "closed"
  /\ proc' = [proc EXCEPT ![r] = "leaving"]
  /\ endpoint' = IF endpoint = r THEN Nobody ELSE endpoint
  /\ UNCHANGED <<userVars, dirVars>>

Exit(r) == proc[r] = "leaving" /\ Ends(r)

Crash(r) == Faults /\ Alive(r) /\ Ends(r)

(* The window of a front end is closed while it starts.                    *)
Abandon(u) ==
  /\ Faults
  /\ pc[u] \notin {"off", "connected"}
  /\ pc' = [pc EXCEPT ![u] = "off"]
  /\ link' = [link EXCEPT ![u] = Nobody]
  /\ Forsake(u)
  /\ UNCHANGED <<proc, endpoint>>

-----------------------------------------------------------------------------
Migrating(u) ==
  \/ FindLegacy(u) \/ MoveAside(u) \/ MoveAsideFails(u)
  \/ FinishMigration(u) \/ FinishFails(u) \/ RevertMigration(u)
Starting(u) ==
  \/ Attach(u) \/ NotRunning(u) \/ Prepare(u) \/ Launch(u) \/ LaunchFails(u)
  \/ AttachStarted(u) \/ NotReady(u)
Running(r) ==
  \/ Listen(r) \/ ListenFails(r) \/ MigrationFails(r) \/ BeginOpen(r)
  \/ CloseModel(r) \/ StopListening(r) \/ Exit(r)

Next ==
  \/ \E u \in Users :
       \/ Migrating(u) \/ Starting(u)
       \/ Start(u) \/ Leave(u) \/ TryAgain(u) \/ Abandon(u)
       \/ StopCommand(u) \/ AskToStop(u) \/ NothingToStop(u) \/ TakeStop(u) \/ StopReturns(u)
  \/ HookLogs
  \/ \E r \in Runtimes : Running(r) \/ Serve(r) \/ OpenFails(r) \/ Crash(r)

Spec == Init /\ [][Next]_vars

(* Programs that run go on; users and crashes come when they like.         *)
FairSpec ==
  /\ Spec
  /\ \A u \in Users : WF_vars(Migrating(u)) /\ WF_vars(Starting(u)) /\ WF_vars(TakeStop(u))
  /\ \A r \in Runtimes : WF_vars(Running(r) \/ Serve(r))

-----------------------------------------------------------------------------
(* Types of users, runtimes and the state directory.                       *)
TypeOK ==
  /\ pc \in [Users -> {"off", "dial", "migrate", "rename", "restore", "revert", "prepare",
                       "launch", "wait", "connected", "failed", "ask", "stop", "stopping"}]
  /\ link \in [Users -> Runtimes \cup {Nobody}]
  /\ proc \in [Runtimes -> {"none", "born", "listening", "opening", "serving", "closing",
                            "closed", "leaving"}]
  /\ endpoint \in Runtimes \cup {Nobody}
  /\ spelling \in {"missing", "legacy", "lower"}
  /\ content \in {"none", "new", "database"}
  /\ aside \in [Users -> {"none", "new", "database"}]
  /\ stray \subseteq {"new", "database"}

(* However many front ends start, stop and crash at the same time, one     *)
(* runtime at most has the database open and shells running.               *)
OneRuntime ==
  \A r, s \in Runtimes : proc[r] \in Owning /\ proc[s] \in Owning => r = s

(* store.go:75: the directory is renamed without losing the database.      *)
DatabaseKept == "database" \notin stray

(* lifecycle.go:27: a runtime is started and waited for.  When runtimes    *)
(* crash no more, none is stopped and no rename is taken back, then as     *)
(* long as anybody waits for one there comes to be one that serves,        *)
(* although launched ones lose the race for the endpoint.                  *)
Trouble ==
  \/ \E u \in Users : TakeStop(u)
  \/ \E r \in Runtimes : Crash(r) /\ ~Running(r)
  \/ spelling # "legacy" /\ spelling' = "legacy"
SomebodyWaits == \E u \in FrontEnds : pc[u] = "wait"
SomebodyServes == \E r \in Runtimes : proc[r] = "serving"

LaunchServes == <>[][~Trouble]_vars /\ []<>SomebodyWaits => []<>SomebodyServes

=============================================================================
