------------------------------ MODULE HookInstall ------------------------------
(***************************************************************************)
(* How split puts its hooks into the settings of Codex and Claude and      *)
(* takes them out again (src/internal/hooks/install.go and uninstall.go):  *)
(* every start runs InstallAll, "hooks uninstall" runs UninstallAll, and   *)
(* the settings belong to programs and users who edit them meanwhile.  A   *)
(* settings file is read, merged in memory, copied to a backup that is     *)
(* made only once, and replaced by a rename, or overwritten in place when  *)
(* the rename fails.                                                       *)
(*                                                                         *)
(* The two managed scripts are alike and written one after the other; they *)
(* are one file here.  What is not split's is one number, the edit that    *)
(* last set it.                                                            *)
(***************************************************************************)
EXTENDS Naturals, Sequences

CONSTANTS
  Commands,   \* processes of split that install or uninstall
  Targets,    \* the settings files, in the order they are treated
  WithLine,   \* those that have a status line: Claude's
  MaxEdits,   \* bound: edits by users and providers
  MaxRuns,    \* bound: commands that are run
  MaxFaults   \* bound: crashes, failed writes and failed renames

Jobs == {"install", "uninstall"}
Files == {Targets[i] : i \in DOMAIN Targets}

ASSUME TargetsAssumption == Targets \in Seq(Files) /\ Targets # <<>>

VARIABLES
  settings,   \* settings[f]: a document, or Absent or Torn
  backup,     \* backup[f][job]: likewise
  script,     \* session-hook.ps1: "absent", "torn", "outdated" or "current"
  run,        \* run[c]: what command c does and holds in memory
  cut,        \* the settings that a command had read and then cut short
  lastEdit,   \* lastEdit[f]: the last edit of file f
  raced,      \* the files whose last edit came while a command had them in hand
  aged,       \* the files that were edited when there was a backup of them
  edits, runs, faults

edited == <<lastEdit, raced, aged>>
hookVars == <<settings, backup, script, run, cut, edited, edits, runs, faults>>

(* hook: split's SessionStart handler.  "odd" stands for settings that are no *)
(* object or array where one is expected.  line: the status line of Claude.   *)
Documents == [other : 0 .. MaxEdits, hook : {"none", "legacy", "own", "odd"},
              line : {"free", "own", "custom"}]
Absent == [other |-> 0, hook |-> "absent", line |-> "free"]
Torn == [other |-> 0, hook |-> "torn", line |-> "free"]
Blank == [other |-> 0, hook |-> "none", line |-> "free"]
IsWhole(d) == d.hook \notin {"absent", "torn"}

Off == [step |-> "off", job |-> "install", at |-> 1, old |-> Absent, new |-> Absent]
InStep(c, step) == run[c].step = step
File(c) == Targets[run[c].at]
Saved(c) == backup[File(c)][run[c].job]
(* The command has read the file and will write it. *)
InHand(f) ==
  \E c \in Commands : run[c].step \in {"backup", "copy", "replace", "content"} /\ File(c) = f

MovesTo(c, step) == run' = [run EXCEPT ![c].step = step]
Finishes(c) == run' = [run EXCEPT ![c] = Off]
(* The next file, or the end. *)
GoesOn(c) ==
  IF run[c].at < Len(Targets)
    THEN run' = [run EXCEPT ![c] = [step |-> "read", job |-> @.job, at |-> @.at + 1,
                                    old |-> Absent, new |-> Absent]]
    ELSE Finishes(c)

Fault == faults < MaxFaults /\ faults' = faults + 1
Fine == UNCHANGED faults
Rest == UNCHANGED <<edited, edits, runs>>

HooksInit ==
  /\ settings \in [Files -> {Absent, Blank,
                             [Blank EXCEPT !.hook = "legacy"],
                             [Blank EXCEPT !.hook = "odd"],
                             [Blank EXCEPT !.line = "custom"]}]
  /\ \A f \in Files \ WithLine : settings[f].line = "free"
  /\ backup = [f \in Files |-> [job \in Jobs |-> Absent]]
  /\ script \in {"absent", "outdated", "current"}
  /\ run = [c \in Commands |-> Off]
  /\ cut = {}
  /\ lastEdit = [f \in Files |-> 0] /\ raced = {} /\ aged = {}
  /\ edits = 0 /\ runs = 0 /\ faults = 0

-----------------------------------------------------------------------------
(* InstallAll begins with the scripts, UninstallAll with the first file. *)
Begin(c, job) ==
  /\ InStep(c, "off") /\ runs < MaxRuns
  /\ runs' = runs + 1
  /\ run' = [run EXCEPT ![c] = [Off EXCEPT !.job = job,
                                           !.step = IF job = "install" THEN "script" ELSE "read"]]
  /\ UNCHANGED <<settings, cut, backup, script, edited, edits, faults>>

(* writeSessionHookScript, writeClaudeStatusLineScript: replaceFile unless    *)
(* the file is as it should be.                                              *)
ScriptThere(c) ==
  /\ InStep(c, "script") /\ script = "current"
  /\ MovesTo(c, "read") /\ Fine
  /\ UNCHANGED <<settings, cut, backup, script>> /\ Rest

ScriptRenamed(c) ==
  /\ InStep(c, "script") /\ script # "current"
  /\ script' = "current"
  /\ MovesTo(c, "read") /\ Fine
  /\ UNCHANGED <<settings, cut, backup>> /\ Rest

ScriptTruncated(c) ==
  /\ InStep(c, "script") /\ script # "current"
  /\ Fault /\ script' = "torn"
  /\ MovesTo(c, "scriptContent")
  /\ UNCHANGED <<settings, cut, backup>> /\ Rest

ScriptWritten(c) ==
  /\ InStep(c, "scriptContent")
  /\ script' = "current"
  /\ MovesTo(c, "read") /\ Fine
  /\ UNCHANGED <<settings, cut, backup>> /\ Rest

-----------------------------------------------------------------------------
(* mergeSessionStartHook and mergeClaudeStatusLine; removeSplitSessionStart-  *)
(* Hooks and removeSplitClaudeStatusLine.                                    *)
Merged(f, d) ==
  [d EXCEPT !.hook = "own",
            !.line = IF f \in WithLine /\ @ = "free" THEN "own" ELSE @]
Cleaned(f, d) ==
  [d EXCEPT !.hook = "none", !.line = IF f \in WithLine /\ @ = "own" THEN "free" ELSE @]
Wanted(c, d) == IF run[c].job = "install" THEN Merged(File(c), d) ELSE Cleaned(File(c), d)

(* installOne, uninstallOne: a file that cannot be understood ends the       *)
(* command.                                                                  *)
ReadMalformed(c) ==
  /\ InStep(c, "read") /\ settings[File(c)].hook \in {"torn", "odd"}
  /\ Finishes(c) /\ Fine
  /\ UNCHANGED <<settings, cut, backup, script>> /\ Rest

ReadNothingToDo(c) ==
  /\ InStep(c, "read")
  /\ LET d == settings[File(c)]
     IN \/ d = Absent /\ run[c].job = "uninstall"
        \/ IsWhole(d) /\ d.hook # "odd" /\ Wanted(c, d) = d
  /\ GoesOn(c) /\ Fine
  /\ UNCHANGED <<settings, cut, backup, script>> /\ Rest

ReadNoFile(c) ==
  /\ InStep(c, "read") /\ settings[File(c)] = Absent /\ run[c].job = "install"
  /\ run' = [run EXCEPT ![c] = [@ EXCEPT !.step = "replace", !.old = Absent,
                                           !.new = Wanted(c, Blank)]]
  /\ Fine
  /\ UNCHANGED <<settings, cut, backup, script>> /\ Rest

(* A plausible slip: the backup is left for later. *)
ReadAndReplace(c) ==
  /\ InStep(c, "read")
  /\ LET d == settings[File(c)]
     IN /\ IsWhole(d) /\ d.hook # "odd" /\ Wanted(c, d) # d
        /\ run' = [run EXCEPT ![c] = [@ EXCEPT !.step = "replace", !.old = d, !.new = Wanted(c, d)]]
  /\ Fine
  /\ UNCHANGED <<settings, cut, backup, script>> /\ Rest

ReadAndMerge(c) ==
  /\ InStep(c, "read")
  /\ LET d == settings[File(c)]
     IN /\ IsWhole(d) /\ d.hook # "odd" /\ Wanted(c, d) # d
        /\ run' = [run EXCEPT ![c] = [@ EXCEPT !.step = "backup", !.old = d, !.new = Wanted(c, d)]]
  /\ Fine
  /\ UNCHANGED <<settings, cut, backup, script>> /\ Rest

(* writeBackupOnce: a backup that is there, whole or not, stays. *)
BackupThere(c) ==
  /\ InStep(c, "backup") /\ Saved(c) # Absent
  /\ MovesTo(c, "replace") /\ Fine
  /\ UNCHANGED <<settings, cut, backup, script>> /\ Rest

BackupCreated(c) ==
  /\ InStep(c, "backup") /\ Saved(c) = Absent
  /\ backup' = [backup EXCEPT ![File(c)][run[c].job] = Torn]
  /\ MovesTo(c, "copy") /\ Fine
  /\ UNCHANGED <<settings, cut, script>> /\ Rest

BackupWritten(c) ==
  /\ InStep(c, "copy")
  /\ backup' = [backup EXCEPT ![File(c)][run[c].job] = run[c].old]
  /\ MovesTo(c, "replace") /\ Fine
  /\ UNCHANGED <<settings, cut, script>> /\ Rest

(* replaceFile: a temporary file that is renamed, or else the file itself. *)
Renamed(c) ==
  /\ InStep(c, "replace")
  /\ settings' = [settings EXCEPT ![File(c)] = run[c].new]
  /\ cut' = cut \ {File(c)}
  /\ GoesOn(c) /\ Fine
  /\ UNCHANGED <<backup, script>> /\ Rest

Truncated(c) ==
  /\ InStep(c, "replace")
  /\ Fault /\ settings' = [settings EXCEPT ![File(c)] = Torn]
  /\ cut' = IF run[c].old = Absent THEN cut ELSE cut \cup {File(c)}
  /\ MovesTo(c, "content")
  /\ UNCHANGED <<backup, script>> /\ Rest

Written(c) ==
  /\ InStep(c, "content")
  /\ settings' = [settings EXCEPT ![File(c)] = run[c].new]
  /\ cut' = cut \ {File(c)}
  /\ GoesOn(c) /\ Fine
  /\ UNCHANGED <<backup, script>> /\ Rest

(* Any step may fail, which ends the command with an error and leaves what   *)
(* is written so far, as the end of the process does.                        *)
Fails(c) ==
  /\ ~InStep(c, "off")
  /\ Fault /\ Finishes(c)
  /\ UNCHANGED <<settings, cut, backup, script>> /\ Rest

-----------------------------------------------------------------------------
(* Users and providers write whole documents.  They change what is theirs,   *)
(* may drop the handler, and may set a status line of their own or drop one.  *)
Edit(f) ==
  /\ edits < MaxEdits /\ edits' = edits + 1
  /\ \E hook \in {"none", settings[f].hook} \ {"absent", "torn"},
        line \in (IF f \in WithLine THEN {settings[f].line, "free", "custom"} ELSE {"free"}) :
       settings' = [settings EXCEPT ![f] = [other |-> edits', hook |-> hook, line |-> line]]
  /\ cut' = cut \ {f}
  /\ lastEdit' = [lastEdit EXCEPT ![f] = edits']
  /\ raced' = IF InHand(f) THEN raced \cup {f} ELSE raced \ {f}
  /\ aged' = IF \E job \in Jobs : backup[f][job] # Absent THEN aged \cup {f} ELSE aged
  /\ UNCHANGED <<backup, script, run, runs, faults>>

WriteScript(c) ==
  ScriptThere(c) \/ ScriptRenamed(c) \/ ScriptTruncated(c) \/ ScriptWritten(c)
ReadSettings(c) ==
  ReadMalformed(c) \/ ReadNothingToDo(c) \/ ReadNoFile(c) \/ ReadAndMerge(c)
WriteBackup(c) == BackupThere(c) \/ BackupCreated(c) \/ BackupWritten(c)
ReplaceSettings(c) == Renamed(c) \/ Truncated(c) \/ Written(c)

HooksNext ==
  \/ \E c \in Commands :
       \/ \E job \in Jobs : Begin(c, job)
       \/ WriteScript(c) \/ ReadSettings(c) \/ WriteBackup(c) \/ ReplaceSettings(c)
       \/ Fails(c)
  \/ \E f \in Files : Edit(f)

HooksSpec == HooksInit /\ [][HooksNext]_hookVars

-----------------------------------------------------------------------------
(* Settings that are cut short (replaceFile) can be had back, however        *)
(* installs, uninstalls and edits interleave (installOne, uninstallOne).      *)
(* After one failure a command that runs still holds the last edit of them,   *)
(* after two a backup does or such a command (writeBackupOnce).  What the     *)
(* code does not promise is left out by name: an edit that a command did not  *)
(* see, since it had read the file before, is overwritten as if it had not    *)
(* been made (raced), and an edit of a file that has its backup is in no      *)
(* backup, which is never made again (aged): of these an earlier state is     *)
(* what two failures leave.                                                  *)
Holders(f) == {c \in Commands : run[c].step \in {"copy", "content"} /\ File(c) = f}
Copies(f) ==
  {d \in {backup[f][job] : job \in Jobs} \cup {run[c].old : c \in Holders(f)} : IsWhole(d)}

SettingsKept ==
  \A f \in cut :
    /\ faults <= 1 /\ f \notin raced =>
         \E c \in Holders(f) : IsWhole(run[c].old) /\ run[c].old.other = lastEdit[f]
    /\ faults <= 2 =>
         \E d \in Copies(f) : f \in raced \cup aged \/ d.other = lastEdit[f]

=============================================================================
