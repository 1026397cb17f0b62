------------------------------ MODULE ProofJobs ------------------------------
(***************************************************************************)
(* The external prover's job table and the attempt runs on top of it       *)
(* (prover/attempt_run.rs, prover/proof_job.rs, backends/aristotle.rs).    *)
(*                                                                         *)
(* An attempt and the job submitted for it share an identity here, because *)
(* start makes one of each.  Every CLI command is a process with its own   *)
(* connection: it reads a row, works on the copy, possibly for as long as  *)
(* the external service takes to answer, and writes the whole row back.    *)
(* The jobs are those of a project and a node: the others file no evidence *)
(* and are otherwise the same.  attempt-result is the command "run" with   *)
(* MaxPolls 0: it polls once.                                              *)
(***************************************************************************)
EXTENDS Naturals

CONSTANTS
  Attempt,      \* attempt ids, each with the proof job of the same name
  Proc,         \* operating system processes working on the database
  Operation,    \* what those processes are asked to do
  MaxPolls,     \* max_polls of run_to_completion, which polls once more than that
  Setting       \* the settings the table is used in

\* Answers of the service, grouped by what the attempt makes of them:
\* "in_progress" is Submitted, Queued and InProgress, "proved" is Proved,
\* Partial and Counterexample, "failed" is Failed and Error.
Answer == {"in_progress", "proved", "failed", "cancelled"}
Terminal == {"proved", "failed", "cancelled"}
JobStatus == Answer \cup {"none"}
RunStatus == {"none", "running", "completed", "cancelled", "failed"}

ASSUME JobsAssumption ==
  /\ Operation \subseteq {"start", "poll", "cancel_job", "cancel", "run"}
  /\ MaxPolls \in Nat
  /\ \A x \in Setting : x.procs \subseteq Proc /\ x.faults \subseteq {"crash", "busy"}

VARIABLES
  job,       \* proof_jobs: status and whether result_json is present
  run,       \* attempt_runs: status and the job status in output_json
  evidence,  \* external_prover_artifact rows of each job: none, one or "many" (2)
  proc,      \* the program counter and the row copies of each process
  setting    \* never changes: the processes at work, and what may go wrong:
             \* the "crash" of a process, a "busy" database

vars == <<job, run, evidence, proc, setting>>

Job == [status : JobStatus, result : BOOLEAN]
Run == [status : RunStatus, output : JobStatus]

NoJob == [status |-> "none", result |-> FALSE]
NoRun == [status |-> "none", output |-> "none"]

Free == [at |-> "free"]
ProcState ==
  {Free}
  \cup [at : {"run_read", "job_read", "asked", "evidence", "job_write",
              "run_write", "submitted"},
        op : Operation, id : Attempt, job : Job, run : Run, left : 0..MaxPolls]

ProofJobsTypeOK ==
  /\ job \in [Attempt -> Job]
  /\ run \in [Attempt -> Run]
  /\ evidence \in [Attempt -> 0..2]
  /\ proc \in [Proc -> ProcState]
  /\ setting \in Setting

Init ==
  /\ job = [a \in Attempt |-> NoJob]
  /\ run = [a \in Attempt |-> NoRun]
  /\ evidence = [a \in Attempt |-> 0]
  /\ proc = [p \in Proc |-> Free]
  /\ setting \in Setting

----------------------------------------------------------------------------
\* The process continues at the given place; it ends.
Goto(p, at) == proc' = [proc EXCEPT ![p].at = at]
Done(p) == proc' = [proc EXCEPT ![p] = Free]

\* Mutant of Return: no bound on the polls.
ReturnUnbounded(p, settled) ==
  IF proc[p].op = "run" /\ ~ settled THEN Goto(p, "run_read") ELSE Done(p)

\* run_to_completion calls result again while the attempt is running and
\* polls are left; every other command ends here.
Return(p, settled) ==
  IF proc[p].op = "run" /\ ~ settled /\ proc[p].left > 0
  THEN proc' = [proc EXCEPT ![p].at = "run_read", ![p].left = @ - 1]
  ELSE Done(p)

\* A command is typed: it concerns an attempt that exists, or starts one.
Command(p, op, a) ==
  /\ proc[p] = Free
  /\ op # "start"
  /\ job[a] # NoJob
  /\ op \in {"cancel", "run"} => run[a] # NoRun
  /\ proc' = [proc EXCEPT ![p] =
       [at |-> IF op \in {"cancel", "run"} THEN "run_read" ELSE "job_read",
        op |-> op, id |-> a, job |-> NoJob, run |-> NoRun, left |-> MaxPolls]]
  /\ UNCHANGED <<job, run, evidence, setting>>

\* attempt_run::start: the job row is inserted first ...
Submit(p, a) ==
  /\ proc[p] = Free
  /\ job[a] = NoJob
  /\ job' = [job EXCEPT ![a] = [NoJob EXCEPT !.status = "in_progress"]]
  /\ proc' = [proc EXCEPT ![p] =
       [at |-> "submitted", op |-> "start", id |-> a,
        job |-> NoJob, run |-> NoRun, left |-> 0]]
  /\ UNCHANGED <<run, evidence, setting>>

\* ... and then the attempt that refers to it.
CreateRun(p) ==
  /\ proc[p].at = "submitted"
  /\ run' = [run EXCEPT ![proc[p].id] = [status |-> "running", output |-> "none"]]
  /\ Done(p)
  /\ UNCHANGED <<job, evidence, setting>>

\* Mutants of ReadRun: a settled attempt is taken up again; cancel updates
\* the attempt without the job.
ReadAnyRun(p) ==
  /\ proc[p].at = "run_read"
  /\ proc' = [proc EXCEPT ![p].at = "job_read", ![p].run = run[proc[p].id]]
  /\ UNCHANGED <<job, run, evidence, setting>>
ReadRunKeepJob(p) ==
  /\ proc[p].at = "run_read"
  /\ LET r == run[proc[p].id]
         next == IF proc[p].op = "cancel" THEN "run_write" ELSE "job_read"
     IN  IF r.status = "running"
         THEN proc' = [proc EXCEPT ![p].at = next, ![p].run = r]
         ELSE Done(p)
  /\ UNCHANGED <<job, run, evidence, setting>>

\* attempt_run::result and ::cancel read the attempt; one that is not
\* running is returned as it is.
ReadRun(p) ==
  /\ proc[p].at = "run_read"
  /\ LET r == run[proc[p].id]
     IN  IF r.status = "running"
         THEN proc' = [proc EXCEPT ![p].at = "job_read", ![p].run = r]
         ELSE Done(p)
  /\ UNCHANGED <<job, run, evidence, setting>>

\* poll and cancel read the job.  A terminal one is returned as it is: the
\* command ends, or the attempt takes it over.  cancel puts Cancelled in its
\* copy, poll goes on to ask the service.
ReadJob(p) ==
  /\ proc[p].at = "job_read"
  /\ LET j == job[proc[p].id]
         cancelling == proc[p].op \in {"cancel", "cancel_job"}
     IN  IF j.status \in Terminal
         THEN IF proc[p].op \in {"run", "cancel"}
              THEN proc' = [proc EXCEPT ![p].at = "run_write", ![p].job = j]
              ELSE Done(p)
         ELSE proc' = [proc EXCEPT
                ![p].at = IF cancelling THEN "job_write" ELSE "asked",
                ![p].job = IF cancelling THEN [j EXCEPT !.status = "cancelled"] ELSE j]
  /\ UNCHANGED <<job, run, evidence, setting>>

\* Mutant of Answered: the job is updated without the evidence row.
AnsweredUnfiled(p, answer) ==
  /\ proc[p].at = "asked"
  /\ proc' = [proc EXCEPT ![p].at = "job_write",
       ![p].job = [status |-> answer, result |-> @.result \/ answer \in Terminal]]
  /\ UNCHANGED <<job, run, evidence, setting>>

\* The service answers.  A terminal answer carries a result.
Answered(p, answer) ==
  /\ proc[p].at = "asked"
  /\ proc' = [proc EXCEPT
       ![p].at = IF answer \in Terminal THEN "evidence" ELSE "job_write",
       ![p].job = [status |-> answer, result |-> @.result \/ answer \in Terminal]]
  /\ UNCHANGED <<job, run, evidence, setting>>

\* The command of the service fails: poll and everything above it return Err.
AnswerFails(p) ==
  /\ proc[p].at = "asked"
  /\ Done(p)
  /\ UNCHANGED <<job, run, evidence, setting>>

\* record_artifact_evidence, before the job row is updated.
FileEvidence(p) ==
  /\ proc[p].at = "evidence"
  /\ evidence' = [evidence EXCEPT ![proc[p].id] = IF @ = 0 THEN 1 ELSE 2]
  /\ Goto(p, "job_write")
  /\ UNCHANGED <<job, run, setting>>

\* update_proof_job writes the copy over whatever the row has become.
WriteJob(p) ==
  /\ proc[p].at = "job_write"
  /\ job' = [job EXCEPT ![proc[p].id] = proc[p].job]
  /\ IF proc[p].op \in {"run", "cancel"} /\ proc[p].job.status \in Terminal
     THEN Goto(p, "run_write") ELSE Return(p, FALSE)
  /\ UNCHANGED <<run, evidence, setting>>

\* The status result gives an attempt whose job has ended.
Verdict(st) ==
  CASE st = "cancelled" -> "cancelled"
    [] st = "failed"    -> "failed"
    [] OTHER            -> "completed"

\* Mutant of WriteRun: cancel of an attempt whose job has ended saves its copy.
WriteRunUnchanged(p) ==
  /\ proc[p].at = "run_write"
  /\ run' = [run EXCEPT ![proc[p].id] =
       IF proc[p].op = "cancel" THEN proc[p].run
       ELSE [status |-> Verdict(proc[p].job.status), output |-> proc[p].job.status]]
  /\ Done(p)
  /\ UNCHANGED <<job, evidence, setting>>

\* update_attempt_run, likewise unconditional.  cancel keeps the output it
\* has read and says Cancelled whatever became of the job.
WriteRun(p) ==
  /\ proc[p].at = "run_write"
  /\ run' = [run EXCEPT ![proc[p].id] =
       IF proc[p].op = "cancel" THEN [proc[p].run EXCEPT !.status = "cancelled"]
       ELSE [status |-> Verdict(proc[p].job.status), output |-> proc[p].job.status]]
  /\ Done(p)
  /\ UNCHANGED <<job, evidence, setting>>

\* attempt_run::cancel ignores the error of the job's cancellation.
JobCancelFails(p) ==
  /\ "busy" \in setting.faults
  /\ proc[p].at \in {"job_read", "job_write"}
  /\ proc[p].op = "cancel"
  /\ Goto(p, "run_write")
  /\ UNCHANGED <<job, run, evidence, setting>>

\* The process dies; so ends a command whose database call returns an error.
Crash(p) ==
  /\ "crash" \in setting.faults
  /\ proc[p] # Free
  /\ Done(p)
  /\ UNCHANGED <<job, run, evidence, setting>>

\* What a process does by itself, once it has been started.
Advance(p) ==
  \/ CreateRun(p)
  \/ ReadRun(p)
  \/ ReadJob(p)
  \/ FileEvidence(p)
  \/ WriteJob(p)
  \/ WriteRun(p)

Replies(p) == AnswerFails(p) \/ \E answer \in Answer : Answered(p, answer)

Next ==
  \E p \in setting.procs :
     \/ \E op \in Operation, a \in Attempt : Command(p, op, a)
     \/ "start" \in Operation /\ \E a \in Attempt : Submit(p, a)
     \/ Advance(p)
     \/ Replies(p)
     \/ JobCancelFails(p)
     \/ Crash(p)

Spec == Init /\ [][Next]_vars

\* A started process is scheduled until it ends, and the service answers it
\* one way or another.
JobsFairness == \A p \in Proc : WF_vars(Advance(p)) /\ WF_vars(Replies(p))

----------------------------------------------------------------------------
(* Properties *)

\* A job row never carries a result whose provenance row is missing: poll
\* files the evidence before it updates the job, and neither a crash between
\* the two nor another process's stale copy turns that round.
ResultHasEvidence ==
  \A a \in Attempt : job[a].result => evidence[a] > 0

\* Once an attempt has left Running it never runs again, although result and
\* cancel both overwrite the row with a copy read long before.
AttemptNeverRestarts ==
  [][\A a \in Attempt : run[a].status \notin {"none", "running"} =>
        run'[a].status \notin {"none", "running"}]_vars

\* An attempt is Completed or Failed only with the matching answer of the
\* service in its output, whichever of the racing writers came last.
OutputMatchesStatus ==
  \A a \in Attempt :
     /\ run[a].status = "completed" => run[a].output = "proved" /\ evidence[a] > 0
     /\ run[a].status = "failed" => run[a].output = "failed" /\ evidence[a] > 0

\* run_to_completion is bounded by max_polls, so whoever started a command
\* gets the prompt back, also when the job never ends and when a concurrent
\* cancel takes the attempt away.
CommandsEnd == \A p \in Proc : proc[p] # Free ~> proc[p] = Free

OneAtATime == \A p, q \in setting.procs : p = q

\* With one process at a time: what the job or the attempt was found to be
\* is never replaced by another verdict.
VerdictsAreFinal ==
  [][OneAtATime => \A a \in Attempt :
        /\ job[a].status \in Terminal => job'[a] = job[a]
        /\ run[a].status \notin {"none", "running"} => run'[a] = run[a]]_vars

\* With one process at a time: an attempt that is over has a job that is
\* over, also when the process died between the two updates, so no service
\* keeps working for an attempt nobody will ask about again.
SettledRunHasSettledJob ==
  OneAtATime /\ "busy" \notin setting.faults => \A a \in Attempt : run[a].status \notin {"none", "running"} =>
     job[a].status \in Terminal

============================================================================
