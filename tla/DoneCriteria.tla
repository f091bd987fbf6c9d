---- MODULE DoneCriteria ----
(***************************************************************************)
(* host/done_criteria and the tool that writes its file (host/tools/harness): *)
(* Meta writes the criteria of a task, validated, into a workspace the worker *)
(* can write to as well; when a worker session is over the main loop reads    *)
(* them, validates them again, and runs them one by one, scripts among them.  *)
(* Meta, the worker and the user go on meanwhile.                             *)
(***************************************************************************)
EXTENDS Naturals, Sequences

CONSTANTS
  Kinds,      \* the kinds of check explored, of "file_exists", "file_min_lines", "file_min_bytes",
              \* "yaml_field_present", "dir_min_files" and "script"
  MaxChecks,  \* bound: checks of a file
  MaxRuns     \* bound: worker sessions that end

VARIABLES
  yaml,     \* harness/done_criteria.yaml, and who wrote it
  stage,    \* manifest.stage: "running" or, as the user wishes, "cancelled"
  tool,     \* sh_harness__write_worker: where its call is
  pc,       \* the main loop
  run,      \* the evaluation under way: what was read, and the results so far
  proc,     \* the script of the check under way
  outcome,  \* doneCriteriaOutcome of the last session
  runs

vars == <<yaml, stage, tool, pc, run, proc, outcome, runs>>

Defects(kind) == {"none", "shape", "path"} \cup (IF kind = "script" THEN {"interpreter"} ELSE {})
Checks == UNION {[kind : {k}, defect : Defects(k)] : k \in Kinds}

\* What the file may hold: text that is no YAML, or checks, possibly none.
Contents == {[parses |-> FALSE, checks |-> <<>>]}
            \cup [parses : {TRUE}, checks : UNION {[1..n -> Checks] : n \in 0..MaxChecks}]

NoFile == [parses |-> FALSE, checks |-> <<>>]
NoCall == [pc |-> "idle", file |-> NoFile, create |-> FALSE]
NoRun  == [by |-> "none", checks |-> <<>>, results |-> <<>>]
NoProc == [state |-> "none", code |-> "none", timedOut |-> FALSE, born |-> "none"]
NoOutcome == [overall |-> "none", by |-> "none", checks |-> <<>>, results |-> <<>>]

-----------------------------------------------------------------------------
(* Validation                                                                *)

\* Mutant of Invalid: the interpreter is looked at only when the tool is called, the paths only
\* when the file is read.
InvalidShallow(check, atWrite) ==
  check.defect = "shape" \/ (check.defect = "interpreter" /\ atWrite) \/ (check.defect = "path" /\ ~atWrite)

\* validateAndConvertCheck: the interpreter is a matter of the check itself when it is evaluated.
Invalid(check, atWrite) == check.defect \in {"shape", "path"} \/ (check.defect = "interpreter" /\ atWrite)

\* parseAndValidateConfig
Valid(file, atWrite) ==
  file.parses /\ file.checks # <<>> /\ \A i \in DOMAIN file.checks : ~Invalid(file.checks[i], atWrite)

-----------------------------------------------------------------------------
(* The writers of the file                                                   *)

\* writeHarnessFile, up to its first await after the file was validated.
WriteBegin(file, create) ==
  /\ pc # "down" /\ tool.pc = "idle"
  /\ stage = "running" /\ Valid(file, TRUE)
  /\ tool' = [pc |-> IF create THEN "stat" ELSE "write", file |-> file, create |-> create]
  /\ UNCHANGED <<yaml, stage, pc, run, proc, outcome, runs>>

\* With mode "create" a file that exists is left alone.
WriteStat ==
  /\ tool.pc = "stat"
  /\ tool' = IF yaml.by = "none" THEN [tool EXCEPT !.pc = "write"] ELSE NoCall
  /\ UNCHANGED <<yaml, stage, pc, run, proc, outcome, runs>>

\* The atomic write; it may fail.
WriteFile ==
  /\ tool.pc = "write" /\ tool' = NoCall
  /\ yaml' \in {yaml, [by |-> "tool", file |-> tool.file]}
  /\ UNCHANGED <<stage, pc, run, proc, outcome, runs>>

\* A worker has the workspace to itself.
WorkerWrites(file) ==
  /\ pc = "loop" /\ stage = "running" /\ runs < MaxRuns
  /\ yaml' = [by |-> "worker", file |-> file]
  /\ UNCHANGED <<stage, tool, pc, run, proc, outcome, runs>>

\* The command line, or the web server.
Cancel ==
  /\ stage = "running" /\ stage' = "cancelled"
  /\ UNCHANGED <<yaml, tool, pc, run, proc, outcome, runs>>

-----------------------------------------------------------------------------
(* finalizeWorker: evaluateOutcome                                           *)

\* The loop saw the stage of now, and closed a worker session.
Finalize ==
  /\ pc = "loop" /\ stage = "running" /\ runs < MaxRuns
  /\ pc' = "load" /\ runs' = runs + 1 /\ run' = NoRun
  /\ UNCHANGED <<yaml, stage, tool, proc, outcome>>

Concluded(overall) ==
  /\ outcome' = [overall |-> overall, by |-> run'.by, checks |-> run'.checks, results |-> run'.results]
  /\ pc' = "loop"

\* A file that is missing, cannot be read, or is not valid makes the outcome an error.
LoadFails ==
  /\ pc = "load"
  /\ run' \in {NoRun} \cup {[NoRun EXCEPT !.by = yaml.by] : x \in IF Valid(yaml.file, FALSE) THEN {} ELSE {0}}
  /\ Concluded("error")
  /\ UNCHANGED <<yaml, stage, tool, proc, runs>>

Load ==
  /\ pc = "load" /\ yaml.by # "none" /\ Valid(yaml.file, FALSE)
  /\ run' = [by |-> yaml.by, checks |-> yaml.file.checks, results |-> <<>>]
  /\ pc' = "checks"
  /\ UNCHANGED <<yaml, stage, tool, proc, outcome, runs>>

Check == run.checks[Len(run.results) + 1]
AnyLeft == Len(run.results) < Len(run.checks)

\* What a check finds, in the order it looks: where the path leads, what is there, what is in it.
Looks(kind) ==
  {"escape", "os_error", "absent", "met"}
  \cup (IF kind \in {"file_min_lines", "file_min_bytes", "dir_min_files"} THEN {"unreadable", "below"} ELSE {})
  \cup (IF kind = "yaml_field_present" THEN {"unreadable", "no_yaml", "below"} ELSE {})

\* checkFileExists, checkFileMinLines, checkFileMinBytes, checkYamlFieldPresent, checkDirMinFiles.
FileResult(look) ==
  CASE look = "met" -> "pass" [] look \in {"absent", "below"} -> "fail" [] OTHER -> "error"

Report(seen, result) ==
  run' = [run EXCEPT !.results = Append(@, [seen |-> seen, result |-> result])]

CheckFile(look) ==
  /\ pc = "checks" /\ AnyLeft /\ Check.kind # "script" /\ look \in Looks(Check.kind)
  /\ Report(look, FileResult(look))
  /\ UNCHANGED <<yaml, stage, tool, pc, proc, outcome, runs>>

\* checkScript until it spawns: everything that keeps it from running is an error of this check.
ScriptRefused(why) ==
  /\ pc = "checks" /\ AnyLeft /\ Check.kind = "script"
  /\ (why = "interpreter") = (Check.defect = "interpreter")
  /\ Report(why, "error")
  /\ UNCHANGED <<yaml, stage, tool, pc, proc, outcome, runs>>

SpawnScript ==
  /\ pc = "checks" /\ AnyLeft /\ Check.kind = "script" /\ Check.defect = "none"
  /\ proc' = [NoProc EXCEPT !.state = "running", !.born = stage]
  /\ pc' = "script"
  /\ UNCHANGED <<yaml, stage, tool, run, outcome, runs>>

\* The script ends by itself; what it started may hold its pipes open.
ScriptExits(code) ==
  /\ proc.state = "running"
  /\ proc' = [proc EXCEPT !.state = "exited", !.code = code]
  /\ UNCHANGED <<yaml, stage, tool, pc, run, outcome, runs>>

\* The timer kills the process group, and is noted whether or not the script was still there.
ScriptTimer ==
  /\ pc = "script" /\ ~proc.timedOut
  /\ proc' = [proc EXCEPT !.timedOut = TRUE, !.state = "exited"]
  /\ UNCHANGED <<yaml, stage, tool, pc, run, outcome, runs>>

\* Mutant of ScriptResult: the exit code is looked at before the timer.
ScriptResultByCode(p) ==
  IF p.code = "zero" THEN "pass" ELSE IF p.timedOut THEN "error" ELSE "fail"

ScriptResult(p) ==
  IF p.timedOut THEN "error" ELSE IF p.code = "zero" THEN "pass" ELSE "fail"

\* "close": the pipes are closed, the promise is settled and the process leaves the registry.
ScriptCloses ==
  /\ pc = "script" /\ proc.state = "exited"
  /\ Report(IF proc.timedOut THEN "timeout" ELSE proc.code, ScriptResult(proc))
  /\ proc' = NoProc /\ pc' = "checks"
  /\ UNCHANGED <<yaml, stage, tool, outcome, runs>>

\* Mutant of Overall: checks that could not be evaluated are no failures.
OverallUnlessFailed(results) ==
  IF \A i \in DOMAIN results : results[i].result # "fail" THEN "all_pass" ELSE "some_fail"

Overall(results) ==
  IF results # <<>> /\ \A i \in DOMAIN results : results[i].result = "pass" THEN "all_pass" ELSE "some_fail"

\* The outcome goes into the worker_session_end envelope.
Conclude ==
  /\ pc = "checks" /\ ~AnyLeft
  /\ UNCHANGED run /\ Concluded(Overall(run.results))
  /\ UNCHANGED <<yaml, stage, tool, proc, runs>>

\* The loop looks at the stage between two ticks only.  cleanupAndExit would end the scripts of an
\* evaluation under way: there is none, the loop awaits it.
CleanupAndExit ==
  /\ pc = "loop" /\ stage = "cancelled"
  /\ pc' = "down" /\ tool' = NoCall
  /\ UNCHANGED <<yaml, stage, run, proc, outcome, runs>>

Init ==
  /\ yaml = [by |-> "none", file |-> NoFile] /\ stage = "running" /\ tool = NoCall /\ pc = "loop"
  /\ run = NoRun /\ proc = NoProc /\ outcome = NoOutcome /\ runs = 0

Next ==
  \/ \E file \in Contents, create \in BOOLEAN : WriteBegin(file, create)
  \/ WriteStat \/ WriteFile
  \/ \E file \in Contents : WorkerWrites(file)
  \/ Cancel \/ Finalize \/ LoadFails \/ Load
  \/ \E look \in UNION {Looks(k) : k \in Kinds} : CheckFile(look)
  \/ \E why \in {"interpreter", "escape", "no_file", "no_interpreter", "io_error"} : ScriptRefused(why)
  \/ SpawnScript \/ ScriptTimer \/ ScriptCloses
  \/ \E code \in {"zero", "other"} : ScriptExits(code)
  \/ Conclude \/ CleanupAndExit

Spec == Init /\ [][Next]_vars

-----------------------------------------------------------------------------
\* Meta can go by the verdict: "all_pass" only if the file named checks and each of them was met
\* at its time, a script by ending with 0 in time; "error" never for a file the tool accepted,
\* unless it could not be read (evaluate.ts:4-9, harness.ts:120-122).
VerdictIsEarned ==
  /\ outcome.overall = "all_pass" =>
       /\ outcome.checks # <<>> /\ Len(outcome.results) = Len(outcome.checks)
       /\ \A i \in DOMAIN outcome.results : outcome.results[i].seen \in {"met", "zero"}
  /\ outcome.overall = "error" => outcome.by # "tool"

\* No script that is started after the user cancelled the task is left to run to its own timeout
\* (daemon.ts:506-510, 2378-2380).
CancelledScriptsAreEnded ==
  [][ScriptTimer => ~(proc.state = "running" /\ proc.born = "cancelled")]_vars
====
