---------------------------- MODULE ProverProofs ----------------------------
(***************************************************************************)
(* Safety proofs about the provers and the tools behind them, whatever     *)
(* these do.                                                               *)
(*                                                                         *)
(* ProofJobs: for any number of attempts and processes, any bound on the   *)
(* polls and any faults, by what a process in the middle of a command      *)
(* knows of the rows it has read.                                          *)
(*                                                                         *)
(* ToolCall: for any pipe, cap and output, by where the output is.         *)
(*                                                                         *)
(* WarmLean: for any sources and any number of requests and processes, by  *)
(* the one command that is under way whenever the server waits.            *)
(***************************************************************************)
EXTENDS ProofJobs, ToolCall, WarmLean, TLAPS

----------------------------------------------------------------------------
(* The jobs and their attempts. *)

\* A process with a command in hand.
Working ==
  [at : {"run_read", "job_read", "asked", "evidence", "job_write",
         "run_write", "submitted"},
   op : Operation, id : Attempt, job : Job, run : Run, left : 0..MaxPolls]

\* A job row, or a copy of one, with a result or a verdict of the service has
\* its provenance on file.
Witnessed(j, a) == j.result \/ j.status \in {"proved", "failed"} => evidence[a] > 0

\* The rows of an attempt agree with each other.
Row(a) ==
  /\ job[a].status = "none" => job[a] = NoJob
  /\ run[a].status = "none" => run[a] = NoRun
  /\ run[a].status # "none" => job[a].status # "none"
  /\ Witnessed(job[a], a)
  /\ run[a].status = "completed" => run[a].output = "proved" /\ evidence[a] > 0
  /\ run[a].status = "failed" => run[a].output = "failed" /\ evidence[a] > 0

\* What a process remembers is safe to write back: the attempt exists, or is
\* yet to be created, and the copy of the job is witnessed by now.
Fits(c) ==
  /\ c.at \in {"run_read", "run_write"} => c.op \in {"run", "cancel"}
  /\ c.at # "free" => job[c.id].status # "none"
  /\ c.at # "free" /\ c.op \in {"run", "cancel"} => run[c.id].status # "none"
  /\ c.at = "submitted" => run[c.id].status = "none"
  /\ c.at \in {"asked", "evidence", "job_write"} => c.job.status # "none"
  /\ c.at \in {"asked", "job_write"} => Witnessed(c.job, c.id)
  /\ c.at = "run_write" /\ c.op # "cancel" =>
        c.job.status \in Terminal /\ Witnessed(c.job, c.id)

\* No attempt is being started twice.
OneStarter ==
  \A p, q \in Proc :
     proc[p].at = "submitted" /\ proc[q].at = "submitted" /\ proc[p].id = proc[q].id => p = q

IInv ==
  /\ ProofJobsTypeOK
  /\ \A a \in Attempt : Row(a)
  /\ \A p \in Proc : Fits(proc[p])
  /\ OneStarter

----------------------------------------------------------------------------
\* The types, in the form the steps use.
LEMMA Types ==
  ASSUME ProofJobsTypeOK
  PROVE  /\ job \in [Attempt -> Job] /\ run \in [Attempt -> Run]
         /\ evidence \in [Attempt -> 0..2] /\ proc \in [Proc -> ProcState]
         /\ setting \in Setting /\ setting.procs \subseteq Proc
         /\ \A p \in Proc : proc[p].at # "free" => proc[p] \in Working
         /\ \A p \in Proc : proc[p] # Free => proc[p] \in Working
<1>1. ProcState = {Free} \cup Working /\ Free.at = "free"
  BY DEF ProcState, Working, Free
<1>2. QED
  BY <1>1, JobsAssumption DEF ProofJobsTypeOK

\* Empty tables and idle processes satisfy the invariant.
LEMMA InitIInv == Init => IInv
<1> SUFFICES ASSUME Init PROVE IInv
  OBVIOUS
<1>1. ProofJobsTypeOK
  BY DEF Init, ProofJobsTypeOK, NoJob, NoRun, Job, Run, JobStatus, RunStatus, ProcState
<1>2. ASSUME NEW a \in Attempt PROVE Row(a)
  BY DEF Init, Row, Witnessed, NoJob, NoRun
<1>3. ASSUME NEW p \in Proc PROVE Fits(proc[p])
  BY DEF Init, Fits, Free
<1>4. OneStarter
  BY DEF Init, OneStarter, Free
<1>5. QED
  BY <1>1, <1>2, <1>3, <1>4 DEF IInv

\* A step that writes no row keeps the invariant if what the process takes
\* into its memory fits.
LEMMA MemoryStep ==
  ASSUME IInv, UNCHANGED <<job, run, evidence, setting>>,
         NEW p \in Proc, NEW c \in ProcState, Fits(c), c.at # "submitted",
         proc' = [proc EXCEPT ![p] = c]
  PROVE  IInv'
<1>1. ProofJobsTypeOK'
  BY DEF IInv, ProofJobsTypeOK
<1>2. ASSUME NEW a \in Attempt PROVE Row(a)'
  BY DEF IInv, Row, Witnessed
<1>3. ASSUME NEW q \in Proc PROVE Fits(proc[q])'
  <2>1. proc'[q] = IF q = p THEN c ELSE proc[q]
    BY Types DEF IInv
  <2>2. Fits(proc'[q])
    BY <2>1 DEF IInv
  <2>3. QED
    BY <2>2 DEF Fits, Witnessed
<1>4. OneStarter'
  <2>1. \A q \in Proc : proc'[q] = IF q = p THEN c ELSE proc[q]
    BY Types DEF IInv
  <2>2. QED
    BY <2>1 DEF IInv, OneStarter
<1>5. QED
  BY <1>1, <1>2, <1>3, <1>4 DEF IInv

\* A step that writes a row of a keeps the invariant if that row and the
\* process's own memory are right afterwards, and nothing that another
\* process has seen is taken back.
LEMMA RowStep ==
  ASSUME IInv, ProofJobsTypeOK', NEW p \in Proc, NEW a \in Attempt,
         \A b \in Attempt \ {a} : /\ job'[b] = job[b] /\ run'[b] = run[b]
                                  /\ evidence'[b] = evidence[b],
         Row(a)',
         \A q \in Proc \ {p} : proc'[q] = proc[q],
         Fits(proc[p])', proc'[p].at = "submitted" => job[a].status = "none" /\ proc'[p].id = a,
         job'[a].status # "none",
         run[a].status # "none" => run'[a].status # "none",
         evidence[a] > 0 => evidence'[a] > 0,
         run[a].status = run'[a].status \/ run[a].status # "none"
           \/ (proc[p].at = "submitted" /\ proc[p].id = a /\ proc'[p] = Free)
  PROVE  IInv'
<1>1. ASSUME NEW b \in Attempt PROVE Row(b)'
  <2>1. CASE b # a
    BY <2>1 DEF IInv, Row, Witnessed
  <2>2. QED
    BY <2>1
<1>2. ASSUME NEW q \in Proc \ {p} PROVE Fits(proc[q])'
  <2>1. proc'[q] = proc[q] /\ Fits(proc[q])
    BY DEF IInv
  <2>2. CASE proc[q].at = "free"
    BY <2>1, <2>2 DEF Fits
  <2>3. CASE proc[q].at # "free"
    <3>1. proc[q] \in Working /\ proc[q].id \in Attempt
      BY <2>3, Types DEF IInv, Working
    <3>2. proc[q].at = "submitted" => run'[proc[q].id].status = run[proc[q].id].status
      BY <2>1, <3>1 DEF IInv, OneStarter, Fits
    <3>3. \A j \in Job : Witnessed(j, proc[q].id) => Witnessed(j, proc[q].id)'
      BY <3>1 DEF Witnessed
    <3>4. QED
      BY <2>1, <2>3, <3>1, <3>2, <3>3 DEF Fits, Working
  <2>4. QED
    BY <2>2, <2>3
<1>3. OneStarter'
  <2>1. ASSUME NEW q \in Proc \ {p}, proc'[p].at = "submitted", proc'[q].at = "submitted",
               proc'[p].id = proc'[q].id
        PROVE  FALSE
    BY <2>1 DEF IInv, Fits
  <2>2. QED
    BY <2>1 DEF IInv, OneStarter
<1>4. QED
  BY <1>1, <1>2, <1>3 DEF IInv

----------------------------------------------------------------------------
\* The steps that only change what a process remembers.
LEMMA MemorySteps ==
  ASSUME IInv, NEW p \in Proc
  PROVE  /\ \A op \in Operation, a \in Attempt : Command(p, op, a) => IInv'
         /\ ReadRun(p) => IInv'
         /\ ReadJob(p) => IInv'
         /\ Replies(p) => IInv'
         /\ JobCancelFails(p) => IInv'
         /\ Crash(p) => IInv'
<1> USE DEF IInv
<1>0. Free \in ProcState /\ Fits(Free) /\ Free.at # "submitted"
  BY DEF ProcState, Fits, Free
<1>1. proc[p].at # "free" => proc[p] \in Working
  BY Types
<1>w. Working \subseteq ProcState
  BY DEF Working, ProcState
<1>r. \A a \in Attempt : Row(a) /\ job[a] \in Job /\ run[a] \in Run
  BY Types
<1>d. ASSUME Done(p), UNCHANGED <<job, run, evidence, setting>> PROVE IInv'
  BY <1>0, <1>d, MemoryStep DEF Done
<1>2. ASSUME NEW op \in Operation, NEW a \in Attempt, Command(p, op, a) PROVE IInv'
  <2>1. PICK c : c = [at |-> IF op \in {"cancel", "run"} THEN "run_read" ELSE "job_read",
                      op |-> op, id |-> a, job |-> NoJob, run |-> NoRun, left |-> MaxPolls]
    OBVIOUS
  <2>2. c \in ProcState
    <3>1. NoJob \in Job /\ NoRun \in Run /\ MaxPolls \in 0..MaxPolls
      BY JobsAssumption DEF NoJob, NoRun, Job, Run, JobStatus, RunStatus
    <3>2. QED
      BY <2>1, <3>1 DEF ProcState
  <2>3. Fits(c) /\ c.at # "submitted"
    <3>1. job[a].status # "none" /\ (op \in {"cancel", "run"} => run[a].status # "none")
      BY <1>2, <1>r DEF Command, Row
    <3>2. QED
      BY <2>1, <3>1 DEF Fits
  <2>4. proc' = [proc EXCEPT ![p] = c] /\ UNCHANGED <<job, run, evidence, setting>>
    BY <1>2, <2>1 DEF Command
  <2>5. QED
    BY <2>2, <2>3, <2>4, MemoryStep
<1>3. ASSUME ReadRun(p) PROVE IInv'
  <2>1. proc[p] \in Working /\ proc[p].id \in Attempt /\ Fits(proc[p])
    BY <1>1, <1>3 DEF ReadRun, Working
  <2>2. CASE run[proc[p].id].status = "running"
    <3>1. PICK c : c = [proc[p] EXCEPT !.at = "job_read", !.run = run[proc[p].id]]
      OBVIOUS
    <3>2. c \in ProcState
      BY <2>1, <3>1, <1>w, <1>r DEF Working
    <3>3. Fits(c) /\ c.at # "submitted"
      BY <2>1, <3>1, <1>3 DEF Fits, ReadRun, Working
    <3>4. proc' = [proc EXCEPT ![p] = c] /\ UNCHANGED <<job, run, evidence, setting>>
      BY <1>3, <2>2, <3>1 DEF ReadRun
    <3>5. QED
      BY <3>2, <3>3, <3>4, MemoryStep
  <2>3. CASE run[proc[p].id].status # "running"
    BY <1>3, <1>d, <2>3 DEF ReadRun
  <2>4. QED
    BY <2>2, <2>3
<1>4. ASSUME ReadJob(p) PROVE IInv'
  <2>1. proc[p] \in Working /\ proc[p].id \in Attempt /\ Fits(proc[p])
    BY <1>1, <1>4 DEF ReadJob, Working
  <2> DEFINE j == job[proc[p].id]
             cancelling == proc[p].op \in {"cancel", "cancel_job"}
  <2>2. CASE j.status \in Terminal /\ proc[p].op \in {"run", "cancel"}
    <3>1. PICK c : c = [proc[p] EXCEPT !.at = "run_write", !.job = j]
      OBVIOUS
    <3>2. c \in ProcState
      BY <2>1, <3>1, <1>w, <1>r DEF Working
    <3>3. Witnessed(j, proc[p].id)
      BY <2>1, <1>r DEF Row
    <3>4. Fits(c) /\ c.at # "submitted"
      BY <1>4, <2>1, <2>2, <3>1, <3>3 DEF Fits, ReadJob, Working
    <3>5. proc' = [proc EXCEPT ![p] = c] /\ UNCHANGED <<job, run, evidence, setting>>
      BY <1>4, <2>2, <3>1 DEF ReadJob
    <3>6. QED
      BY <3>2, <3>4, <3>5, MemoryStep
  <2>3. CASE j.status \in Terminal /\ proc[p].op \notin {"run", "cancel"}
    BY <1>4, <1>d, <2>3 DEF ReadJob
  <2>4. CASE j.status \notin Terminal
    <3>1. PICK k : k = IF cancelling THEN [j EXCEPT !.status = "cancelled"] ELSE j
      OBVIOUS
    <3>2. PICK c : c = [proc[p] EXCEPT !.at = IF cancelling THEN "job_write" ELSE "asked",
                                       !.job = k]
      OBVIOUS
    <3>3. j \in Job /\ k \in Job /\ j.status # "none" /\ Witnessed(j, proc[p].id)
      BY <1>4, <2>1, <3>1, <1>r DEF Job, JobStatus, Answer, Fits, Row, ReadJob
    <3>4. k.status # "none" /\ Witnessed(k, proc[p].id)
      BY <3>1, <3>3 DEF Witnessed, Job
    <3>5. c \in ProcState
      BY <2>1, <3>2, <3>3, <1>w DEF Working
    <3>6. Fits(c) /\ c.at # "submitted"
      BY <1>4, <2>1, <3>2, <3>4 DEF Fits, ReadJob, Working
    <3>7. proc' = [proc EXCEPT ![p] = c] /\ UNCHANGED <<job, run, evidence, setting>>
      BY <1>4, <2>4, <3>1, <3>2 DEF ReadJob
    <3>8. QED
      BY <3>5, <3>6, <3>7, MemoryStep
  <2>5. QED
    BY <2>2, <2>3, <2>4
<1>5. ASSUME Replies(p) PROVE IInv'
  <2>1. CASE AnswerFails(p)
    BY <1>d, <2>1 DEF AnswerFails
  <2>2. ASSUME NEW answer \in Answer, Answered(p, answer) PROVE IInv'
    <3>1. proc[p] \in Working /\ proc[p].id \in Attempt /\ Fits(proc[p])
      BY <1>1, <2>2 DEF Answered, Working
    <3>2. PICK k : k = [status |-> answer,
                        result |-> proc[p].job.result \/ answer \in Terminal]
      OBVIOUS
    <3>3. PICK c : c = [proc[p] EXCEPT
                          !.at = IF answer \in Terminal THEN "evidence" ELSE "job_write",
                          !.job = k]
      OBVIOUS
    <3>4. k \in Job /\ k.status # "none"
      BY <3>1, <3>2 DEF Working, Job, JobStatus, Answer
    <3>5. answer \notin Terminal => Witnessed(k, proc[p].id)
      BY <2>2, <3>1, <3>2 DEF Fits, Witnessed, Answered, Terminal, Working, Job
    <3>6. c \in ProcState
      BY <3>1, <3>3, <3>4, <1>w DEF Working
    <3>7. Fits(c) /\ c.at # "submitted"
      BY <2>2, <3>1, <3>3, <3>4, <3>5 DEF Fits, Answered, Working
    <3>8. proc' = [proc EXCEPT ![p] = c] /\ UNCHANGED <<job, run, evidence, setting>>
      BY <2>2, <3>2, <3>3 DEF Answered
    <3>9. QED
      BY <3>6, <3>7, <3>8, MemoryStep
  <2>3. QED
    BY <1>5, <2>1, <2>2 DEF Replies
<1>6. ASSUME JobCancelFails(p) PROVE IInv'
  <2>1. proc[p] \in Working /\ Fits(proc[p])
    BY <1>1, <1>6 DEF JobCancelFails
  <2>2. PICK c : c = [proc[p] EXCEPT !.at = "run_write"]
    OBVIOUS
  <2>3. c \in ProcState /\ Fits(c) /\ c.at # "submitted"
    BY <1>6, <2>1, <2>2, <1>w DEF Fits, JobCancelFails, Working
  <2>4. proc' = [proc EXCEPT ![p] = c] /\ UNCHANGED <<job, run, evidence, setting>>
    BY <1>6, <2>2 DEF JobCancelFails, Goto
  <2>5. QED
    BY <2>3, <2>4, MemoryStep
<1>7. ASSUME Crash(p) PROVE IInv'
  BY <1>d, <1>7 DEF Crash
<1>8. QED
  BY <1>2, <1>3, <1>4, <1>5, <1>6, <1>7

----------------------------------------------------------------------------
(* The steps that write a row, one lemma each. *)

\* attempt_run::start inserts the job: nobody knows of it yet.
LEMMA SubmitStep ==
  ASSUME IInv, NEW p \in Proc, NEW a \in Attempt, Submit(p, a), "start" \in Operation
  PROVE  IInv'
<1>0. ProofJobsTypeOK /\ Row(a)
  BY DEF IInv
<1>j. NoJob \in Job /\ NoRun \in Run /\ NoJob.status = "none" /\ ~ NoJob.result
  BY DEF NoJob, NoRun, Job, Run, JobStatus, RunStatus
<1>k. PICK k : k = [NoJob EXCEPT !.status = "in_progress"]
  OBVIOUS
<1>c. PICK c : c = [at |-> "submitted", op |-> "start", id |-> a,
                    job |-> NoJob, run |-> NoRun, left |-> 0]
  OBVIOUS
<1>f. /\ k \in Job /\ k.status = "in_progress" /\ ~ k.result
      /\ c.at = "submitted" /\ c.op = "start" /\ c.id = a
  BY <1>j, <1>k, <1>c DEF Job, JobStatus, Answer
<1>1. /\ job' = [job EXCEPT ![a] = k] /\ proc' = [proc EXCEPT ![p] = c]
      /\ job[a] = NoJob /\ job[a].status = "none" /\ UNCHANGED <<run, evidence, setting>>
  BY <1>j, <1>k, <1>c DEF Submit
<1>2. c \in ProcState
  <2>1. 0 \in 0..MaxPolls
    BY JobsAssumption
  <2>2. QED
    BY <1>j, <1>c, <2>1 DEF ProcState
<1>3. ProofJobsTypeOK'
  BY <1>0, <1>1, <1>2, <1>f DEF ProofJobsTypeOK
<1>4. /\ job'[a] = k /\ proc'[p] = c /\ run'[a] = run[a] /\ evidence'[a] = evidence[a]
      /\ \A q \in Proc \ {p} : proc'[q] = proc[q]
      /\ \A b \in Attempt \ {a} : job'[b] = job[b] /\ run'[b] = run[b] /\ evidence'[b] = evidence[b]
  BY <1>0, <1>1, Types
<1>5. run[a].status = "none" /\ Row(a)'
  BY <1>0, <1>1, <1>4, <1>f DEF Row, Witnessed
<1>6. Fits(proc[p])'
  BY <1>4, <1>5, <1>f DEF Fits
<1>7. QED
  BY <1>1, <1>3, <1>4, <1>5, <1>6, <1>f, RowStep

\* ... and then the attempt: it is the only starter of that attempt.
LEMMA CreateRunStep ==
  ASSUME IInv, NEW p \in Proc, CreateRun(p)
  PROVE  IInv'
<1> DEFINE r == [status |-> "running", output |-> "none"]
<1>0. ProofJobsTypeOK /\ proc[p].at = "submitted" /\ Fits(proc[p])
  BY DEF IInv, CreateRun
<1>1. PICK a \in Attempt : a = proc[p].id /\ proc[p] \in Working
  BY <1>0, Types DEF Working
<1>2. Row(a)
  BY <1>1 DEF IInv
<1>3. /\ run' = [run EXCEPT ![a] = r] /\ proc' = [proc EXCEPT ![p] = Free]
      /\ UNCHANGED <<job, evidence, setting>>
  BY <1>1 DEF CreateRun, Done
<1>4. r \in Run /\ Free \in ProcState
  BY DEF Run, RunStatus, JobStatus, ProcState
<1>5. ProofJobsTypeOK'
  BY <1>0, <1>1, <1>3, <1>4 DEF ProofJobsTypeOK
<1>6. /\ job'[a] = job[a] /\ proc'[p] = Free /\ run'[a] = r /\ evidence'[a] = evidence[a]
      /\ \A q \in Proc \ {p} : proc'[q] = proc[q]
      /\ \A b \in Attempt \ {a} : job'[b] = job[b] /\ run'[b] = run[b] /\ evidence'[b] = evidence[b]
  BY <1>0, <1>1, <1>3, Types
<1>7. job[a].status # "none" /\ run[a].status = "none" /\ Row(a)'
  BY <1>0, <1>1, <1>2, <1>6 DEF Row, Witnessed, Fits, Working
<1>8. Fits(proc[p])' /\ proc'[p].at # "submitted"
  BY <1>6 DEF Fits, Free
<1>9. QED
  BY <1>0, <1>1, <1>5, <1>6, <1>7, <1>8, RowStep

\* The provenance row witnesses the copy that is written next.
LEMMA FileEvidenceStep ==
  ASSUME IInv, NEW p \in Proc, FileEvidence(p)
  PROVE  IInv'
<1>0. ProofJobsTypeOK /\ proc[p].at = "evidence" /\ Fits(proc[p])
  BY DEF IInv, FileEvidence
<1>1. PICK a \in Attempt : a = proc[p].id /\ proc[p] \in Working
  BY <1>0, Types DEF Working
<1>2. Row(a)
  BY <1>1 DEF IInv
<1>3. PICK c : c = [proc[p] EXCEPT !.at = "job_write"]
  OBVIOUS
<1>4. PICK e : e = IF evidence[a] = 0 THEN 1 ELSE 2
  OBVIOUS
<1>5. /\ evidence' = [evidence EXCEPT ![a] = e] /\ proc' = [proc EXCEPT ![p] = c]
      /\ UNCHANGED <<job, run, setting>>
  BY <1>0, <1>1, <1>3, <1>4, Types DEF FileEvidence, Goto
<1>6. e \in 0..2 /\ e > 0 /\ c \in ProcState
  BY <1>1, <1>3, <1>4 DEF Working, ProcState
<1>7. ProofJobsTypeOK'
  BY <1>0, <1>1, <1>5, <1>6 DEF ProofJobsTypeOK
<1>8. /\ job'[a] = job[a] /\ proc'[p] = c /\ run'[a] = run[a] /\ evidence'[a] > 0
      /\ \A q \in Proc \ {p} : proc'[q] = proc[q]
      /\ \A b \in Attempt \ {a} : job'[b] = job[b] /\ run'[b] = run[b] /\ evidence'[b] = evidence[b]
  BY <1>0, <1>1, <1>5, <1>6, Types
<1>9. job[a].status # "none" /\ Row(a)'
  BY <1>0, <1>1, <1>2, <1>8 DEF Row, Witnessed, Fits, Working
<1>10. Fits(proc[p])' /\ proc'[p].at # "submitted"
  BY <1>0, <1>1, <1>3, <1>8 DEF Fits, Witnessed, Working
<1>11. QED
  BY <1>1, <1>7, <1>8, <1>9, <1>10, RowStep

\* The copy written over the job row is witnessed, however old it is.
LEMMA WriteJobStep ==
  ASSUME IInv, NEW p \in Proc, WriteJob(p)
  PROVE  IInv'
<1>0. ProofJobsTypeOK /\ proc[p].at = "job_write" /\ Fits(proc[p])
  BY DEF IInv, WriteJob
<1>1. PICK a \in Attempt : a = proc[p].id /\ proc[p] \in Working
  BY <1>0, Types DEF Working
<1>2. Row(a)
  BY <1>1 DEF IInv
<1>3. PICK k \in Job : k = proc[p].job /\ k.status # "none" /\ Witnessed(k, a)
  BY <1>0, <1>1 DEF Working, Fits
<1>4. job' = [job EXCEPT ![a] = k] /\ UNCHANGED <<run, evidence, setting>>
  BY <1>1, <1>3 DEF WriteJob
\* Where the process goes: the attempt, the next poll, or its end.
<1>5. PICK c \in ProcState : /\ proc' = [proc EXCEPT ![p] = c]
                             /\ c.at \notin {"submitted", "asked", "evidence", "job_write"}
                             /\ c.at # "free" => c.id = a /\ c.op = proc[p].op
                             /\ c.at \in {"run_read", "run_write"} => c.op \in {"run", "cancel"}
                             /\ c.at = "run_write" => c.job = k /\ k.status \in Terminal
  <2>1. CASE proc[p].op \in {"run", "cancel"} /\ k.status \in Terminal
    <3>1. PICK c : c = [proc[p] EXCEPT !.at = "run_write"]
      OBVIOUS
    <3>2. c \in Working /\ c.at = "run_write" /\ c.id = a /\ c.op = proc[p].op /\ c.job = k
      BY <1>1, <1>3, <3>1 DEF Working
    <3>3. proc' = [proc EXCEPT ![p] = c]
      BY <1>3, <2>1, <3>1 DEF WriteJob, Goto
    <3>4. c \in ProcState
      BY <3>2 DEF Working, ProcState
    <3>5. QED
      BY <2>1, <3>2, <3>3, <3>4
  <2>2. CASE ~ (proc[p].op \in {"run", "cancel"} /\ k.status \in Terminal)
    <3>0. Return(p, FALSE)
      BY <1>3, <2>2 DEF WriteJob
    <3>1. CASE proc[p].op = "run" /\ proc[p].left > 0
      <4>1. PICK c : c = [proc[p] EXCEPT !.at = "run_read", !.left = @ - 1]
        OBVIOUS
      <4>2. proc[p].left - 1 \in 0..MaxPolls
        BY <1>1, <3>1, JobsAssumption DEF Working
      <4>3. c \in Working /\ c.at = "run_read" /\ c.id = a /\ c.op = proc[p].op
        BY <1>1, <4>1, <4>2 DEF Working
      <4>4. proc' = [proc EXCEPT ![p] = c]
        BY <3>0, <3>1, <4>1 DEF Return
      <4>5. c \in ProcState
        BY <4>3 DEF Working, ProcState
      <4>6. QED
        BY <3>1, <4>3, <4>4, <4>5
    <3>2. CASE ~ (proc[p].op = "run" /\ proc[p].left > 0)
      <4>1. proc' = [proc EXCEPT ![p] = Free]
        BY <3>0, <3>2 DEF Return, Done
      <4>2. Free \in ProcState /\ Free.at = "free"
        BY DEF Free, ProcState
      <4>3. QED
        BY <4>1, <4>2
    <3>3. QED
      BY <3>1, <3>2
  <2>3. QED
    BY <2>1, <2>2
<1>6. ProofJobsTypeOK'
  BY <1>0, <1>1, <1>3, <1>4, <1>5 DEF ProofJobsTypeOK
<1>7. /\ job'[a] = k /\ proc'[p] = c /\ run'[a] = run[a] /\ evidence'[a] = evidence[a]
      /\ \A q \in Proc \ {p} : proc'[q] = proc[q]
      /\ \A b \in Attempt \ {a} : job'[b] = job[b] /\ run'[b] = run[b] /\ evidence'[b] = evidence[b]
  BY <1>0, <1>1, <1>4, <1>5, Types
<1>8. job'[a].status # "none" /\ Row(a)'
  BY <1>0, <1>1, <1>2, <1>3, <1>7 DEF Row, Witnessed
<1>9. Fits(proc[p])' /\ proc'[p].at # "submitted"
  BY <1>0, <1>1, <1>3, <1>5, <1>7 DEF Fits, Witnessed, Working
<1>10. QED
  BY <1>1, <1>6, <1>7, <1>8, <1>9, RowStep

\* A verdict that result gives is that of the answer; cancel says cancelled.
LEMMA WriteRunRow ==
  ASSUME IInv, NEW p \in Proc, WriteRun(p)
  PROVE  /\ proc[p] \in Working /\ proc[p].id \in Attempt
         /\ \E r \in Run :
               /\ run' = [run EXCEPT ![proc[p].id] = r]
               /\ r.status \in {"completed", "failed", "cancelled"}
               /\ r.status = "completed" => r.output = "proved" /\ evidence[proc[p].id] > 0
               /\ r.status = "failed" => r.output = "failed" /\ evidence[proc[p].id] > 0
<1>0. ProofJobsTypeOK /\ proc[p].at = "run_write" /\ Fits(proc[p])
  BY DEF IInv, WriteRun
<1>1. proc[p] \in Working /\ proc[p].id \in Attempt /\ proc[p].run \in Run /\ proc[p].job \in Job
  BY <1>0, Types DEF Working
<1>2. CASE proc[p].op = "cancel"
  <2>1. PICK r : r = [proc[p].run EXCEPT !.status = "cancelled"]
    OBVIOUS
  <2>2. r \in Run /\ r.status = "cancelled"
    BY <1>1, <2>1 DEF Run, RunStatus
  <2>3. run' = [run EXCEPT ![proc[p].id] = r]
    BY <1>2, <2>1 DEF WriteRun
  <2>4. QED
    BY <1>1, <2>2, <2>3
<1>3. CASE proc[p].op # "cancel"
  <2>1. PICK st : st = proc[p].job.status
    OBVIOUS
  <2>2. st \in Terminal /\ (st \in {"proved", "failed"} => evidence[proc[p].id] > 0)
    BY <1>0, <1>3, <2>1 DEF Fits, Witnessed
  <2>3. PICK r : r = [status |-> Verdict(st), output |-> st]
    OBVIOUS
  <2>4. /\ r.output = st /\ r.status = Verdict(st)
        /\ Verdict(st) = IF st = "proved" THEN "completed" ELSE st
    BY <2>2, <2>3 DEF Verdict, Terminal
  <2>5. r \in Run
    BY <2>2, <2>3, <2>4 DEF Run, RunStatus, JobStatus, Answer, Terminal
  <2>6. run' = [run EXCEPT ![proc[p].id] = r]
    BY <1>3, <2>1, <2>3 DEF WriteRun
  <2>7. QED
    BY <1>1, <2>2, <2>4, <2>5, <2>6 DEF Terminal
<1>4. QED
  BY <1>2, <1>3

\* Writing the attempt keeps the invariant.
LEMMA WriteRunStep ==
  ASSUME IInv, NEW p \in Proc, WriteRun(p)
  PROVE  IInv'
<1>0. ProofJobsTypeOK /\ proc[p].at = "run_write" /\ Fits(proc[p])
  BY DEF IInv, WriteRun
<1>1. PICK a \in Attempt : a = proc[p].id /\ proc[p] \in Working
  BY WriteRunRow
<1>2. Row(a)
  BY <1>1 DEF IInv
<1>3. PICK r \in Run : /\ run' = [run EXCEPT ![a] = r]
                       /\ r.status \in {"completed", "failed", "cancelled"}
                       /\ r.status = "completed" => r.output = "proved" /\ evidence[a] > 0
                       /\ r.status = "failed" => r.output = "failed" /\ evidence[a] > 0
  BY <1>1, WriteRunRow
<1>4. proc' = [proc EXCEPT ![p] = Free] /\ UNCHANGED <<job, evidence, setting>>
  BY DEF WriteRun, Done
<1>5. ProofJobsTypeOK'
  BY <1>0, <1>1, <1>3, <1>4 DEF ProofJobsTypeOK, ProcState
<1>6. /\ job'[a] = job[a] /\ proc'[p] = Free /\ run'[a] = r /\ evidence'[a] = evidence[a]
      /\ \A q \in Proc \ {p} : proc'[q] = proc[q]
      /\ \A b \in Attempt \ {a} : job'[b] = job[b] /\ run'[b] = run[b] /\ evidence'[b] = evidence[b]
  BY <1>0, <1>1, <1>3, <1>4, Types
<1>7. job[a].status # "none" /\ run[a].status # "none" /\ Row(a)'
  BY <1>0, <1>1, <1>2, <1>3, <1>6 DEF Row, Witnessed, Fits
<1>8. Fits(proc[p])' /\ proc'[p].at # "submitted"
  BY <1>6 DEF Fits, Free
<1>9. QED
  BY <1>1, <1>3, <1>5, <1>6, <1>7, <1>8, RowStep

----------------------------------------------------------------------------
\* One step per action.
LEMMA NextIInv == IInv /\ [Next]_vars => IInv'
<1> SUFFICES ASSUME IInv, [Next]_vars PROVE IInv'
  OBVIOUS
<1>1. ASSUME Next PROVE IInv'
  <2>1. PICK p \in Proc :
          \/ \E op \in Operation, a \in Attempt : Command(p, op, a)
          \/ "start" \in Operation /\ \E a \in Attempt : Submit(p, a)
          \/ Advance(p)
          \/ Replies(p)
          \/ JobCancelFails(p)
          \/ Crash(p)
    BY <1>1, Types DEF Next, IInv
  <2>2. CASE Advance(p)
    BY <2>2, MemorySteps, CreateRunStep, FileEvidenceStep, WriteJobStep, WriteRunStep
       DEF Advance
  <2>3. QED
    BY <2>1, <2>2, MemorySteps, SubmitStep
<1>2. ASSUME UNCHANGED vars PROVE IInv'
  BY <1>2 DEF vars, IInv, ProofJobsTypeOK, Row, Fits, Witnessed, OneStarter
<1>3. QED
  BY <1>1, <1>2

\* The invariant holds in every reachable state.
LEMMA SpecIInv == Spec => []IInv
<1>1. QED
  BY InitIInv, NextIInv, PTL DEF Spec

\* The tables and the copies that processes hold stay well typed.
THEOREM JobsTypeCorrect == Spec => []ProofJobsTypeOK
<1>1. IInv => ProofJobsTypeOK
  BY DEF IInv
<1>2. QED
  BY SpecIInv, <1>1, PTL

\* However many processes poll, cancel and die, no job row carries a result
\* whose provenance row is missing.
THEOREM ProvenanceFirst == Spec => []ResultHasEvidence
<1>1. IInv => ResultHasEvidence
  BY DEF IInv, Row, Witnessed, ResultHasEvidence
<1>2. QED
  BY SpecIInv, <1>1, PTL

\* An attempt is completed or failed only with that answer of the service in
\* its output and its provenance on file.
THEOREM VerdictsAreAnswers == Spec => []OutputMatchesStatus
<1>1. IInv => OutputMatchesStatus
  BY DEF IInv, Row, OutputMatchesStatus
<1>2. QED
  BY SpecIInv, <1>1, PTL

\* An attempt that has left Running never runs again.
THEOREM NoRestart == Spec => AttemptNeverRestarts
<1> DEFINE Over(a) == run[a].status \notin {"none", "running"}
<1>1. IInv /\ [Next]_vars =>
        [\A a \in Attempt : run[a].status \notin {"none", "running"} =>
              run'[a].status \notin {"none", "running"}]_vars
  <2> SUFFICES ASSUME IInv, Next, NEW a \in Attempt, Over(a)
               PROVE  run'[a].status \notin {"none", "running"}
    OBVIOUS
  <2>0. run \in [Attempt -> Run]
    BY Types DEF IInv
  <2>1. ASSUME NEW p \in Proc, CreateRun(p) PROVE run'[a] = run[a]
    <3>1. run[proc[p].id].status = "none"
      BY <2>1 DEF IInv, Fits, CreateRun
    <3>2. proc[p].id # a
      BY <3>1
    <3>3. QED
      BY <2>0, <2>1, <3>2 DEF CreateRun
  <2>2. ASSUME NEW p \in Proc, WriteRun(p)
        PROVE  run'[a].status \notin {"none", "running"}
    <3>1. PICK r \in Run : /\ run' = [run EXCEPT ![proc[p].id] = r]
                           /\ r.status \in {"completed", "failed", "cancelled"}
      BY <2>2, WriteRunRow
    <3>2. run'[a] = IF a = proc[p].id THEN r ELSE run[a]
      BY <2>0, <3>1
    <3>3. QED
      BY <3>1, <3>2
  <2>3. PICK p \in Proc : run' = run \/ CreateRun(p) \/ WriteRun(p)
    BY Types DEF IInv, Next, Command, Submit, Advance, ReadRun, ReadJob, FileEvidence, WriteJob,
                 Replies, AnswerFails, Answered, JobCancelFails, Crash
  <2>4. QED
    BY <2>1, <2>2, <2>3
<1>2. QED
  BY SpecIInv, <1>1, PTL DEF Spec, AttemptNeverRestarts

----------------------------------------------------------------------------
(* One process at a time. *)

\* What the only process holds is still so: it writes a job it found
\* unsettled, and an attempt it found running, over rows nobody has changed;
\* it settles the attempt of a job that is settled.
Lone(c) ==
  /\ c.at \in {"asked", "evidence"} => c.op # "cancel"
  /\ c.at \in {"asked", "evidence", "job_write"} => job[c.id].status \notin Terminal
  /\ c.at \in {"job_read", "asked", "evidence", "job_write", "run_write"}
        /\ c.op \in {"run", "cancel"} => run[c.id].status = "running"
  /\ c.at = "run_write" /\ (c.op # "cancel" \/ "busy" \notin setting.faults) =>
        job[c.id].status \in Terminal
  /\ c.at = "job_write" /\ c.op = "cancel" => c.job.status = "cancelled"

LoneInv ==
  /\ \A q \in Proc \ setting.procs : proc[q] = Free
  /\ OneAtATime => \A q \in Proc : Lone(proc[q])
  /\ SettledRunHasSettledJob

\* A step of p keeps the invariant if, when p is alone, what it holds
\* afterwards is so and no attempt is over before its job.
LEMMA LoneStep ==
  ASSUME IInv, LoneInv, NEW p \in setting.procs, setting' = setting,
         \A q \in Proc \ {p} : proc'[q] = proc[q],
         OneAtATime => Lone(proc[p])',
         SettledRunHasSettledJob'
  PROVE  LoneInv'
<1>1. setting.procs \subseteq Proc
  BY Types DEF IInv
<1>2. \A q \in Proc \ setting.procs : proc'[q] = Free
  BY <1>1 DEF LoneInv
<1>3. ASSUME OneAtATime, NEW q \in Proc PROVE Lone(proc[q])'
  <2>1. CASE q = p
    BY <1>3, <2>1
  <2>2. CASE q # p
    <3>1. proc'[q] = Free
      BY <1>2, <1>3, <2>2 DEF OneAtATime
    <3>2. proc'[q].at = "free"
      BY <3>1 DEF Free
    <3>3. QED
      BY <3>2 DEF Lone
  <2>3. QED
    BY <2>1, <2>2
<1>4. OneAtATime' => OneAtATime
  BY DEF OneAtATime
<1>5. QED
  BY <1>2, <1>3, <1>4 DEF LoneInv

\* So does a step that writes no row.
LEMMA LoneMemoryStep ==
  ASSUME IInv, LoneInv, NEW p \in setting.procs, NEW c,
         UNCHANGED <<job, run, evidence, setting>>,
         proc' = [proc EXCEPT ![p] = c], OneAtATime => Lone(c)
  PROVE  LoneInv'
<1>1. p \in Proc /\ proc \in [Proc -> ProcState]
  BY Types DEF IInv
<1>2. proc'[p] = c /\ \A q \in Proc \ {p} : proc'[q] = proc[q]
  BY <1>1
<1>3. OneAtATime => Lone(proc[p])'
  BY <1>2 DEF Lone
<1>4. SettledRunHasSettledJob'
  BY DEF LoneInv, SettledRunHasSettledJob, OneAtATime
<1>5. QED
  BY <1>2, <1>3, <1>4, LoneStep

\* Reading, asking and giving up.
LEMMA LoneMemorySteps ==
  ASSUME IInv, LoneInv, NEW p \in setting.procs,
         \/ \E op \in Operation, a \in Attempt : Command(p, op, a)
         \/ ReadRun(p) \/ ReadJob(p) \/ Replies(p) \/ JobCancelFails(p) \/ Crash(p)
  PROVE  LoneInv'
<1>p. p \in Proc /\ (proc[p].at # "free" => proc[p] \in Working)
  BY Types DEF IInv
<1>l. OneAtATime => Lone(proc[p])
  BY <1>p DEF LoneInv
<1>d. Lone(Free)
  BY DEF Lone, Free
<1>e. ASSUME Done(p), UNCHANGED <<job, run, evidence, setting>> PROVE LoneInv'
  BY <1>d, <1>e, LoneMemoryStep DEF Done
<1>1. ASSUME NEW op \in Operation, NEW a \in Attempt, Command(p, op, a) PROVE LoneInv'
  <2>1. PICK c : c = [at |-> IF op \in {"cancel", "run"} THEN "run_read" ELSE "job_read",
          op |-> op, id |-> a, job |-> NoJob, run |-> NoRun, left |-> MaxPolls]
    OBVIOUS
  <2>2. Lone(c)
    BY <2>1 DEF Lone
  <2>3. proc' = [proc EXCEPT ![p] = c] /\ UNCHANGED <<job, run, evidence, setting>>
    BY <1>1, <2>1 DEF Command
  <2>4. QED
    BY <2>2, <2>3, LoneMemoryStep
<1>2. ASSUME ReadRun(p) PROVE LoneInv'
  <2>1. CASE run[proc[p].id].status = "running"
    <3>1. PICK c : c = [proc[p] EXCEPT !.at = "job_read", !.run = run[proc[p].id]]
      OBVIOUS
    <3>2. c.at = "job_read" /\ c.id = proc[p].id
      BY <1>2, <1>p, <3>1 DEF ReadRun, Working
    <3>3. Lone(c)
      BY <2>1, <3>2 DEF Lone
    <3>4. proc' = [proc EXCEPT ![p] = c] /\ UNCHANGED <<job, run, evidence, setting>>
      BY <1>2, <2>1, <3>1 DEF ReadRun
    <3>5. QED
      BY <3>3, <3>4, LoneMemoryStep
  <2>2. CASE run[proc[p].id].status # "running"
    BY <1>2, <1>e, <2>2 DEF ReadRun
  <2>3. QED
    BY <2>1, <2>2
<1>3. ASSUME ReadJob(p) PROVE LoneInv'
  <2> DEFINE a == proc[p].id
             cancelling == proc[p].op \in {"cancel", "cancel_job"}
  <2>0. /\ proc[p] \in Working /\ proc[p].at = "job_read" /\ job[a] \in Job
        /\ UNCHANGED <<job, run, evidence, setting>>
    <3>1. proc[p] \in Working /\ proc[p].at = "job_read" /\ UNCHANGED <<job, run, evidence, setting>>
      BY <1>3, <1>p DEF ReadJob
    <3>2. a \in Attempt
      BY <3>1 DEF Working
    <3>3. QED
      BY <3>1, <3>2, Types DEF IInv
  <2>1. CASE job[a].status \in Terminal /\ proc[p].op \in {"run", "cancel"}
    <3>1. PICK c : c = [proc[p] EXCEPT !.at = "run_write", !.job = job[a]]
      OBVIOUS
    <3>2. c.at = "run_write" /\ c.id = a /\ c.op = proc[p].op
      BY <2>0, <3>1 DEF Working
    <3>3. OneAtATime => Lone(c)
      BY <1>l, <2>0, <2>1, <3>2 DEF Lone
    <3>4. proc' = [proc EXCEPT ![p] = c]
      BY <1>3, <2>1, <3>1 DEF ReadJob
    <3>5. QED
      BY <2>0, <3>3, <3>4, LoneMemoryStep
  <2>2. CASE job[a].status \in Terminal /\ proc[p].op \notin {"run", "cancel"}
    BY <1>3, <1>e, <2>2 DEF ReadJob
  <2>3. CASE job[a].status \notin Terminal
    <3>0. PICK stage, j : /\ stage = (IF cancelling THEN "job_write" ELSE "asked")
                       /\ j = (IF cancelling THEN [job[a] EXCEPT !.status = "cancelled"] ELSE job[a])
      OBVIOUS
    <3>1. PICK c : c = [proc[p] EXCEPT !.at = stage, !.job = j]
      OBVIOUS
    <3>2. c.at = stage /\ c.id = a /\ c.op = proc[p].op /\ c.job = j
      BY <2>0, <3>1 DEF Working
    <3>3. c.op = "cancel" => j.status = "cancelled" /\ stage = "job_write"
      BY <2>0, <3>0, <3>2 DEF Job
    <3>4. stage \in {"job_write", "asked"}
      BY <3>0
    <3>5. OneAtATime => Lone(c)
      BY <1>l, <2>0, <2>3, <3>2, <3>3, <3>4 DEF Lone
    <3>6. proc' = [proc EXCEPT ![p] = c]
      BY <1>3, <2>3, <3>0, <3>1 DEF ReadJob
    <3>7. QED
      BY <2>0, <3>5, <3>6, LoneMemoryStep
  <2>4. QED
    BY <2>1, <2>2, <2>3
<1>4. ASSUME Replies(p) PROVE LoneInv'
  <2>1. CASE AnswerFails(p)
    BY <1>e, <2>1 DEF AnswerFails
  <2>2. ASSUME NEW answer \in Answer, Answered(p, answer) PROVE LoneInv'
    <3>1. PICK stage : stage = IF answer \in Terminal THEN "evidence" ELSE "job_write"
      OBVIOUS
    <3>2. PICK c : c = [proc[p] EXCEPT
            !.at = stage, !.job = [status |-> answer, result |-> @.result \/ answer \in Terminal]]
      OBVIOUS
    <3>3. proc[p] \in Working /\ proc[p].at = "asked"
      BY <2>2, <1>p DEF Answered
    <3>4. c.at = stage /\ c.id = proc[p].id /\ c.op = proc[p].op /\ stage \in {"evidence", "job_write"}
      BY <3>1, <3>2, <3>3 DEF Working
    <3>5. OneAtATime => Lone(c)
      BY <1>l, <3>3, <3>4 DEF Lone
    <3>6. proc' = [proc EXCEPT ![p] = c] /\ UNCHANGED <<job, run, evidence, setting>>
      BY <2>2, <3>1, <3>2 DEF Answered
    <3>7. QED
      BY <3>5, <3>6, LoneMemoryStep
  <2>3. QED
    BY <1>4, <2>1, <2>2 DEF Replies
<1>5. ASSUME JobCancelFails(p) PROVE LoneInv'
  <2>1. proc[p] \in Working /\ proc[p].at \in {"job_read", "job_write"} /\ proc[p].op = "cancel"
        /\ "busy" \in setting.faults
    BY <1>5, <1>p DEF JobCancelFails
  <2>2. PICK c : c = [proc[p] EXCEPT !.at = "run_write"]
    OBVIOUS
  <2>3. c.at = "run_write" /\ c.id = proc[p].id /\ c.op = "cancel"
    BY <2>1, <2>2 DEF Working
  <2>4. OneAtATime => Lone(c)
    BY <1>l, <2>1, <2>3 DEF Lone
  <2>5. proc' = [proc EXCEPT ![p] = c] /\ UNCHANGED <<job, run, evidence, setting>>
    BY <1>5, <2>2 DEF JobCancelFails, Goto
  <2>6. QED
    BY <2>4, <2>5, LoneMemoryStep
<1>6. ASSUME Crash(p) PROVE LoneInv'
  BY <1>e, <1>6 DEF Crash
<1>7. QED
  BY <1>1, <1>2, <1>3, <1>4, <1>5, <1>6

\* The steps that write a row.
LEMMA LoneRowSteps ==
  ASSUME IInv, LoneInv, NEW p \in setting.procs,
         \/ "start" \in Operation /\ \E a \in Attempt : Submit(p, a)
         \/ CreateRun(p) \/ FileEvidence(p) \/ WriteJob(p) \/ WriteRun(p)
  PROVE  LoneInv'
<1>p. /\ p \in Proc /\ (proc[p].at # "free" => proc[p] \in Working)
      /\ job \in [Attempt -> Job] /\ run \in [Attempt -> Run] /\ proc \in [Proc -> ProcState]
  BY Types DEF IInv
<1>l. OneAtATime => Lone(proc[p])
  BY <1>p DEF LoneInv
<1>f. Fits(proc[p]) /\ \A a \in Attempt : Row(a)
  BY <1>p DEF IInv
<1>d. ASSUME proc' = [proc EXCEPT ![p] = Free] PROVE Lone(proc[p])'
  <2>1. proc'[p] = Free
    BY <1>d, <1>p
  <2>2. QED
    BY <2>1 DEF Lone, Free
<1>1. ASSUME NEW a \in Attempt, Submit(p, a) PROVE LoneInv'
  <2>1. PICK c : c = [at |-> "submitted", op |-> "start", id |-> a,
                      job |-> NoJob, run |-> NoRun, left |-> 0]
    OBVIOUS
  <2>2. proc' = [proc EXCEPT ![p] = c] /\ UNCHANGED <<run, evidence, setting>>
        /\ \A b \in Attempt \ {a} : job'[b] = job[b]
    BY <1>1, <1>p, <2>1 DEF Submit
  <2>3. Lone(proc[p])'
    <3>1. proc'[p] = c
      BY <1>p, <2>2
    <3>2. QED
      BY <2>1, <3>1 DEF Lone
  <2>4. run[a].status = "none"
    BY <1>1, <1>f DEF Row, Submit, NoJob
  <2>5. SettledRunHasSettledJob'
    BY <2>2, <2>4 DEF LoneInv, SettledRunHasSettledJob, OneAtATime
  <2>6. \A q \in Proc \ {p} : proc'[q] = proc[q]
    BY <1>p, <2>2
  <2>7. QED
    BY <2>2, <2>3, <2>5, <2>6, LoneStep
<1>2. ASSUME CreateRun(p) PROVE LoneInv'
  <2>1. proc[p] \in Working /\ proc[p].id \in Attempt
    BY <1>2, <1>p DEF CreateRun, Working
  <2>2. /\ proc' = [proc EXCEPT ![p] = Free] /\ UNCHANGED <<job, evidence, setting>>
        /\ run'[proc[p].id].status = "running"
        /\ \A b \in Attempt \ {proc[p].id} : run'[b] = run[b]
    BY <1>2, <1>p, <2>1 DEF CreateRun, Done
  <2>3. SettledRunHasSettledJob'
    BY <2>2 DEF LoneInv, SettledRunHasSettledJob, OneAtATime
  <2>4. \A q \in Proc \ {p} : proc'[q] = proc[q]
    BY <1>p, <2>2
  <2>5. QED
    BY <1>d, <2>2, <2>3, <2>4, LoneStep
<1>3. ASSUME FileEvidence(p) PROVE LoneInv'
  <2>1. proc[p] \in Working /\ proc[p].at = "evidence"
    BY <1>3, <1>p DEF FileEvidence
  <2>2. PICK c : c = [proc[p] EXCEPT !.at = "job_write"]
    OBVIOUS
  <2>3. proc' = [proc EXCEPT ![p] = c] /\ UNCHANGED <<job, run, setting>>
    BY <1>3, <2>2 DEF FileEvidence, Goto
  <2>4. c.at = "job_write" /\ c.id = proc[p].id /\ c.op = proc[p].op
    BY <2>1, <2>2 DEF Working
  <2>5. OneAtATime => Lone(proc[p])'
    <3>1. proc'[p] = c
      BY <1>p, <2>3
    <3>2. QED
      BY <1>l, <2>1, <2>3, <2>4, <3>1 DEF Lone
  <2>6. SettledRunHasSettledJob'
    BY <2>3 DEF LoneInv, SettledRunHasSettledJob, OneAtATime
  <2>7. \A q \in Proc \ {p} : proc'[q] = proc[q]
    BY <1>p, <2>3
  <2>8. QED
    BY <2>3, <2>5, <2>6, <2>7, LoneStep
<1>4. ASSUME WriteJob(p) PROVE LoneInv'
  <2>1. /\ proc[p] \in Working /\ proc[p].at = "job_write" /\ proc[p].id \in Attempt
        /\ UNCHANGED <<run, evidence, setting>>
    BY <1>4, <1>p DEF WriteJob, Working
  <2>2. PICK k : k = proc[p].job
    OBVIOUS
  <2>3. job'[proc[p].id] = k /\ \A b \in Attempt \ {proc[p].id} : job'[b] = job[b]
    BY <1>4, <1>p, <2>1, <2>2 DEF WriteJob
  <2>4. PICK c : /\ proc' = [proc EXCEPT ![p] = c]
                 /\ \/ c.at \in {"free", "run_read"}
                    \/ /\ c.at = "run_write" /\ c.id = proc[p].id /\ c.op = proc[p].op
                       /\ c.op \in {"run", "cancel"} /\ k.status \in Terminal
    <3>1. CASE proc[p].op \in {"run", "cancel"} /\ k.status \in Terminal
      <4>1. PICK c : c = [proc[p] EXCEPT !.at = "run_write"]
        OBVIOUS
      <4>2. proc' = [proc EXCEPT ![p] = c]
        BY <1>4, <2>2, <3>1, <4>1 DEF WriteJob, Goto
      <4>3. c.at = "run_write" /\ c.id = proc[p].id /\ c.op = proc[p].op
        BY <2>1, <4>1 DEF Working
      <4>4. QED
        BY <3>1, <4>2, <4>3
    <3>2. CASE ~ (proc[p].op \in {"run", "cancel"} /\ k.status \in Terminal)
      <4>1. Return(p, FALSE)
        BY <1>4, <2>2, <3>2 DEF WriteJob
      <4>2. CASE proc[p].op = "run" /\ proc[p].left > 0
        <5>1. PICK c : c = [proc[p] EXCEPT !.at = "run_read", !.left = @ - 1]
          OBVIOUS
        <5>2. c.at = "run_read" /\ proc' = [proc EXCEPT ![p] = c]
          BY <2>1, <4>1, <4>2, <5>1 DEF Return, Working
        <5>3. QED
          BY <5>2
      <4>3. CASE ~ (proc[p].op = "run" /\ proc[p].left > 0)
        <5>1. proc' = [proc EXCEPT ![p] = Free]
          BY <4>1, <4>3 DEF Return, Done
        <5>2. Free.at = "free"
          BY DEF Free
        <5>3. QED
          BY <5>1, <5>2
      <4>4. QED
        BY <4>2, <4>3
    <3>3. QED
      BY <3>1, <3>2
  <2>5. OneAtATime => Lone(proc[p])'
    <3>1. proc'[p] = c
      BY <1>p, <2>4
    <3>2. QED
      BY <1>l, <2>1, <2>3, <2>4, <3>1 DEF Lone
  <2>6. SettledRunHasSettledJob'
    <3> SUFFICES ASSUME OneAtATime, "busy" \notin setting.faults, NEW b \in Attempt,
                        run[b].status \notin {"none", "running"}
                 PROVE  job'[b].status \in Terminal
      BY <2>1 DEF SettledRunHasSettledJob, OneAtATime
    <3>1. job[b].status \in Terminal
      BY DEF LoneInv, SettledRunHasSettledJob
    <3>2. b # proc[p].id
      BY <1>l, <2>1, <3>1 DEF Lone
    <3>3. QED
      BY <2>3, <3>1, <3>2
  <2>7. \A q \in Proc \ {p} : proc'[q] = proc[q]
    BY <1>p, <2>4
  <2>8. QED
    BY <2>1, <2>5, <2>6, <2>7, LoneStep
<1>5. ASSUME WriteRun(p) PROVE LoneInv'
  <2>1. PICK a \in Attempt : a = proc[p].id
    BY <1>5, <1>p, WriteRunRow
  <2>2. proc[p].at = "run_write" /\ \A b \in Attempt \ {a} : run'[b] = run[b]
    BY <1>5, <1>p, <2>1 DEF WriteRun
  <2>3. proc' = [proc EXCEPT ![p] = Free] /\ UNCHANGED <<job, evidence, setting>>
    BY <1>5 DEF WriteRun, Done
  <2>4. SettledRunHasSettledJob'
    <3> SUFFICES ASSUME OneAtATime, "busy" \notin setting.faults, NEW b \in Attempt,
                        run'[b].status \notin {"none", "running"}
                 PROVE  job[b].status \in Terminal
      BY <2>3 DEF SettledRunHasSettledJob, OneAtATime
    <3>1. CASE b = a
      BY <1>l, <2>1, <2>2, <3>1 DEF Lone
    <3>2. CASE b # a
      BY <2>2, <3>2 DEF LoneInv, SettledRunHasSettledJob
    <3>3. QED
      BY <3>1, <3>2
  <2>5. \A q \in Proc \ {p} : proc'[q] = proc[q]
    BY <1>p, <2>3
  <2>6. QED
    BY <1>d, <2>3, <2>4, <2>5, LoneStep
<1>6. QED
  BY <1>1, <1>2, <1>3, <1>4, <1>5

\* Both invariants hold in every reachable state.
LEMMA SpecLoneInv == Spec => [](IInv /\ LoneInv)
<1>1. Init => IInv /\ LoneInv
  <2> SUFFICES ASSUME Init PROVE LoneInv
    BY InitIInv
  <2>1. \A q \in Proc : proc[q] = Free /\ Lone(proc[q])
    BY DEF Init, Lone, Free
  <2>2. SettledRunHasSettledJob
    BY DEF Init, SettledRunHasSettledJob, NoRun
  <2>3. QED
    BY <2>1, <2>2 DEF LoneInv
<1>2. IInv /\ LoneInv /\ [Next]_vars => (IInv /\ LoneInv)'
  <2> SUFFICES ASSUME IInv, LoneInv, [Next]_vars PROVE LoneInv'
    BY NextIInv
  <2>1. CASE Next
    BY <2>1, LoneMemorySteps, LoneRowSteps DEF Next, Advance
  <2>2. CASE UNCHANGED vars
    BY <2>2 DEF vars, LoneInv, Lone, OneAtATime, SettledRunHasSettledJob
  <2>3. QED
    BY <2>1, <2>2
<1>3. QED
  BY <1>1, <1>2, PTL DEF Spec

\* With one process at a time and a database that answers, an attempt that
\* is over has a job that is over, wherever the process died.
THEOREM NoJobLeftBehind == Spec => []SettledRunHasSettledJob
<1>1. LoneInv => SettledRunHasSettledJob
  BY DEF LoneInv
<1>2. QED
  BY SpecLoneInv, <1>1, PTL

\* With one process at a time, no verdict on a job or an attempt is ever
\* replaced.
THEOREM FinalVerdicts == Spec => VerdictsAreFinal
<1> DEFINE Kept ==
  OneAtATime => \A a \in Attempt :
    /\ job[a].status \in Terminal => job'[a] = job[a]
    /\ run[a].status \notin {"none", "running"} => run'[a] = run[a]
<1>1. IInv /\ LoneInv /\ [Next]_vars => [Kept]_vars
  <2> SUFFICES ASSUME IInv, LoneInv, Next, OneAtATime, NEW a \in Attempt
               PROVE  /\ job[a].status \in Terminal => job'[a] = job[a]
                      /\ run[a].status \notin {"none", "running"} => run'[a] = run[a]
    OBVIOUS
  <2>0. /\ job \in [Attempt -> Job] /\ run \in [Attempt -> Run]
        /\ \A p \in Proc : Fits(proc[p]) /\ Lone(proc[p])
    BY Types DEF IInv, LoneInv
  <2>1. PICK p \in Proc :
          \/ job' = job /\ run' = run
          \/ \E b \in Attempt : Submit(p, b)
          \/ CreateRun(p) \/ WriteJob(p) \/ WriteRun(p)
    BY Types DEF IInv, Next, Command, Advance, ReadRun, ReadJob, FileEvidence,
                 Replies, AnswerFails, Answered, JobCancelFails, Crash
  <2>2. ASSUME NEW b \in Attempt, Submit(p, b)
        PROVE  run' = run /\ (job[a].status \in Terminal => job'[a] = job[a])
    <3>1. job[b].status \notin Terminal
      BY <2>2 DEF Submit, NoJob, Terminal
    <3>2. QED
      BY <2>0, <2>2, <3>1 DEF Submit
  <2>3. ASSUME CreateRun(p)
        PROVE  job' = job /\ (run[a].status \notin {"none", "running"} => run'[a] = run[a])
    <3>1. run[proc[p].id].status = "none"
      BY <2>0, <2>3 DEF Fits, CreateRun
    <3>2. QED
      BY <2>0, <2>3, <3>1 DEF CreateRun
  <2>4. ASSUME WriteJob(p)
        PROVE  run' = run /\ (job[a].status \in Terminal => job'[a] = job[a])
    <3>1. job[proc[p].id].status \notin Terminal
      BY <2>0, <2>4 DEF Lone, WriteJob
    <3>2. QED
      BY <2>0, <2>4, <3>1 DEF WriteJob
  <2>5. ASSUME WriteRun(p)
        PROVE  job' = job /\ (run[a].status \notin {"none", "running"} => run'[a] = run[a])
    <3>1. run[proc[p].id].status = "running"
      <4>1. proc[p].at = "run_write" /\ proc[p].op \in {"run", "cancel"}
        BY <2>0, <2>5 DEF Fits, WriteRun
      <4>2. QED
        BY <2>0, <4>1 DEF Lone
    <3>2. QED
      BY <2>0, <2>5, <3>1 DEF WriteRun
  <2>6. QED
    BY <2>1, <2>2, <2>3, <2>4, <2>5
<1>2. QED
  BY SpecLoneInv, <1>1, PTL DEF Spec, VerdictsAreFinal
----------------------------------------------------------------------------
(* One process per call. *)

\* Where the output is: in the pipe, with the reader, or over the cap; and once
\* the reader is done nobody can write any more.
OutputInv ==
  /\ reader.kept + stdout <= wrote
  /\ ~ reader.cut => reader.kept + stdout = wrote
  /\ reader.cut => kind = "exec"
  /\ reader.done => stdout = 0 /\ ~ Open

\* What the caller knows of the child at each stage.
CallerInv ==
  /\ at = "start" => child = "none"
  /\ child = "none" => at = "start" \/ (at = "done" /\ result = NoResult)
  /\ child = "none" => heir = "none" /\ ~ reader.on /\ ~ reader.done
  /\ at \in {"start", "write", "wait", "kill"} => result = NoResult
  /\ at = "collect" =>
       /\ result.launched /\ ~ result.capped /\ ~ result.success
       /\ Exited /\ (result.status = "ok" => child = "ok")
  /\ at = "done" /\ result.launched /\ ~ result.capped =>
       reader.done /\ ~ reader.cut /\ result.kept = reader.kept

ToolInv == ToolTypeOK /\ OutputInv /\ CallerInv /\ SuccessIsOwnExit


LEMMA ToolInitHolds ==
  ASSUME ToolInit
  PROVE  ToolInv
<1>1. ToolTypeOK
  <2>1. toSend \in 0 .. MaxInput
    <3>1. CASE kind = "worker"
      BY <3>1, ToolAssumption DEF ToolInit
    <3>2. CASE kind # "worker"
      BY <3>2, ToolAssumption DEF ToolInit
    <3>. QED BY <3>1, <3>2
  <2>2. 0 \in 0 .. MaxWrites /\ 0 \in 0 .. PipeSize
    BY ToolAssumption
  <2>3. reader \in [kept : 0 .. MaxWrites, cut : BOOLEAN, done : BOOLEAN, on : BOOLEAN]
    BY <2>2 DEF ToolInit
  <2>4. result \in [launched : BOOLEAN, status : Status, timedOut : BOOLEAN,
                    kept : 0 .. MaxWrites, capped : BOOLEAN, success : BOOLEAN]
    BY <2>2 DEF ToolInit, NoResult, Status
  <2>. QED BY <2>1, <2>2, <2>3, <2>4 DEF ToolInit, ToolTypeOK, Stage
<1>2. OutputInv
  BY DEF ToolInit, OutputInv, Open
<1>3. CallerInv /\ SuccessIsOwnExit
  BY DEF ToolInit, CallerInv, SuccessIsOwnExit, NoResult
<1>. QED BY <1>1, <1>2, <1>3 DEF ToolInv

LEMMA ChildReadsHolds ==
  ASSUME ToolInv, ChildReads
  PROVE  ToolInv'
<1>1. ToolTypeOK'
  BY ToolAssumption DEF ToolInv, ToolTypeOK, ChildReads, processes
<1>2. OutputInv'
  BY DEF ToolInv, OutputInv, ChildReads, processes, Open
<1>3. CallerInv'
  BY DEF ToolInv, CallerInv, ChildReads, processes, Exited
<1>4. SuccessIsOwnExit'
  BY DEF ToolInv, SuccessIsOwnExit, ChildReads
<1>. QED BY <1>1, <1>2, <1>3, <1>4 DEF ToolInv

LEMMA WritesHolds ==
  ASSUME ToolInv, Writes
  PROVE  ToolInv'
<1>1. ToolTypeOK'
  BY ToolAssumption DEF ToolInv, ToolTypeOK, Writes
<1>2. OutputInv'
  BY DEF ToolInv, ToolTypeOK, OutputInv, Writes
<1>3. CallerInv'
  BY DEF ToolInv, CallerInv, Writes, Exited
<1>4. SuccessIsOwnExit'
  BY DEF ToolInv, SuccessIsOwnExit, Writes
<1>. QED BY <1>1, <1>2, <1>3, <1>4 DEF ToolInv

LEMMA ChildForksHolds ==
  ASSUME ToolInv, ChildForks
  PROVE  ToolInv'
<1>1. ToolTypeOK'
  BY DEF ToolInv, ToolTypeOK, ChildForks
<1>2. OutputInv'
  BY DEF ToolInv, OutputInv, ChildForks, Open
<1>3. CallerInv'
  BY DEF ToolInv, CallerInv, ChildForks, Exited
<1>4. SuccessIsOwnExit'
  BY DEF ToolInv, SuccessIsOwnExit, ChildForks
<1>. QED BY <1>1, <1>2, <1>3, <1>4 DEF ToolInv

LEMMA ChildExitsHolds ==
  ASSUME ToolInv, ChildExits
  PROVE  ToolInv'
<1>1. ToolTypeOK'
  BY DEF ToolInv, ToolTypeOK, ChildExits, Status
<1>2. OutputInv'
  BY DEF ToolInv, OutputInv, ChildExits, Open
<1>3. CallerInv'
  BY DEF ToolInv, CallerInv, ChildExits, Exited, Status
<1>4. SuccessIsOwnExit'
  BY DEF ToolInv, SuccessIsOwnExit, ChildExits
<1>. QED BY <1>1, <1>2, <1>3, <1>4 DEF ToolInv

LEMMA HeirExitsHolds ==
  ASSUME ToolInv, HeirExits
  PROVE  ToolInv'
<1>1. ToolTypeOK'
  BY DEF ToolInv, ToolTypeOK, HeirExits
<1>2. OutputInv'
  BY DEF ToolInv, OutputInv, HeirExits, Open
<1>3. CallerInv'
  BY DEF ToolInv, CallerInv, HeirExits, Exited
<1>4. SuccessIsOwnExit'
  BY DEF ToolInv, SuccessIsOwnExit, HeirExits
<1>. QED BY <1>1, <1>2, <1>3, <1>4 DEF ToolInv

LEMMA DeadlinePassesHolds ==
  ASSUME ToolInv, DeadlinePasses
  PROVE  ToolInv'
<1>1. ToolTypeOK'
  BY DEF ToolInv, ToolTypeOK, DeadlinePasses, processes
<1>2. OutputInv'
  BY DEF ToolInv, OutputInv, DeadlinePasses, processes, Open
<1>3. CallerInv'
  BY DEF ToolInv, CallerInv, DeadlinePasses, processes
<1>4. SuccessIsOwnExit'
  BY DEF ToolInv, SuccessIsOwnExit, DeadlinePasses
<1>. QED BY <1>1, <1>2, <1>3, <1>4 DEF ToolInv

LEMMA ReaderTakesHolds ==
  ASSUME ToolInv, ReaderTakes
  PROVE  ToolInv'
<1>1. ToolTypeOK'
  <2>1. reader.kept \in 0 .. MaxWrites /\ stdout \in 0 .. PipeSize /\ wrote \in 0 .. MaxWrites
    BY DEF ToolInv, ToolTypeOK
  <2>2. reader.kept + 1 \in 0 .. MaxWrites /\ stdout - 1 \in 0 .. PipeSize
    BY <2>1, ToolAssumption DEF ToolInv, OutputInv, ReaderTakes
  <2>3. reader' \in [kept : 0 .. MaxWrites, cut : BOOLEAN, done : BOOLEAN, on : BOOLEAN]
    BY <2>2 DEF ToolInv, ToolTypeOK, ReaderTakes
  <2>. QED BY <2>2, <2>3 DEF ToolInv, ToolTypeOK, ReaderTakes, processes
<1>2. OutputInv'
  BY DEF ToolInv, ToolTypeOK, OutputInv, ReaderTakes, processes
<1>3. CallerInv'
  BY DEF ToolInv, OutputInv, CallerInv, ReaderTakes, processes, Exited
<1>4. SuccessIsOwnExit'
  BY DEF ToolInv, SuccessIsOwnExit, ReaderTakes, processes
<1>. QED BY <1>1, <1>2, <1>3, <1>4 DEF ToolInv

LEMMA ReaderEndsHolds ==
  ASSUME ToolInv, ReaderEnds
  PROVE  ToolInv'
<1>1. ToolTypeOK'
  BY ToolAssumption DEF ToolInv, ToolTypeOK, CallerInv, ReaderEnds, processes, Open
<1>2. OutputInv'
  BY DEF ToolInv, OutputInv, ReaderEnds, processes, Open
<1>3. CallerInv'
  BY DEF ToolInv, CallerInv, ReaderEnds, processes, Exited
<1>4. SuccessIsOwnExit'
  BY DEF ToolInv, SuccessIsOwnExit, ReaderEnds, processes
<1>. QED BY <1>1, <1>2, <1>3, <1>4 DEF ToolInv

LEMMA SpawnFailsHolds ==
  ASSUME ToolInv, SpawnFails
  PROVE  ToolInv'
<1>1. ToolTypeOK'
  BY DEF ToolInv, ToolTypeOK, CallerInv, SpawnFails, processes, Stage, Returns
<1>2. OutputInv'
  BY DEF ToolInv, OutputInv, SpawnFails, processes, Open
<1>3. CallerInv'
  BY DEF ToolInv, CallerInv, SpawnFails, processes, Returns, NoResult
<1>4. SuccessIsOwnExit'
  BY DEF SuccessIsOwnExit, SpawnFails, Returns, NoResult
<1>. QED BY <1>1, <1>2, <1>3, <1>4 DEF ToolInv

LEMMA SpawnHolds ==
  ASSUME ToolInv, Spawn
  PROVE  ToolInv'
<1>1. ToolTypeOK'
  BY DEF ToolInv, ToolTypeOK, Spawn, Stage
<1>2. OutputInv'
  BY DEF ToolInv, OutputInv, CallerInv, Spawn
<1>3. CallerInv'
  BY DEF ToolInv, CallerInv, Spawn
<1>4. SuccessIsOwnExit'
  BY DEF ToolInv, SuccessIsOwnExit, Spawn
<1>. QED BY <1>1, <1>2, <1>3, <1>4 DEF ToolInv

LEMMA WriteInputHolds ==
  ASSUME ToolInv, WriteInput
  PROVE  ToolInv'
<1>1. ToolTypeOK'
  <2>1. UNCHANGED <<kind, late, child, heir, wrote, stdout>> /\ ToolTypeOK
    BY DEF ToolInv, WriteInput, processes
  <2>2. CASE toSend = 0
    BY <2>1, <2>2 DEF ToolTypeOK, WriteInput, Stage
  <2>3. CASE toSend # 0 /\ child # "running"
    <3>1. at' = "done" /\ result' = result /\ UNCHANGED <<toSend, stdin, reader>>
      BY <2>3 DEF ToolInv, CallerInv, WriteInput, Returns
    <3>. QED BY <2>1, <3>1 DEF ToolTypeOK, Stage
  <2>4. CASE toSend # 0 /\ child = "running"
    BY <2>1, <2>4, ToolAssumption DEF ToolTypeOK, WriteInput
  <2>. QED BY <2>2, <2>3, <2>4
<1>2. OutputInv'
  BY DEF ToolInv, ToolTypeOK, OutputInv, WriteInput, processes, Open
<1>3. CallerInv'
  BY DEF ToolInv, CallerInv, WriteInput, processes, Returns, NoResult
<1>4. SuccessIsOwnExit'
  BY DEF ToolInv, SuccessIsOwnExit, WriteInput, Returns, NoResult
<1>. QED BY <1>1, <1>2, <1>3, <1>4 DEF ToolInv

LEMMA ReapsHolds ==
  ASSUME ToolInv, Reaps
  PROVE  ToolInv'
<1>1. ToolTypeOK'
  BY DEF ToolInv, ToolTypeOK, Reaps, processes, Exited, Stage
<1>2. OutputInv'
  BY DEF ToolInv, OutputInv, Reaps, processes, Open
<1>3. CallerInv'
  BY DEF ToolInv, CallerInv, Reaps, processes, Exited, NoResult
<1>4. SuccessIsOwnExit'
  BY DEF ToolInv, SuccessIsOwnExit, Reaps
<1>. QED BY <1>1, <1>2, <1>3, <1>4 DEF ToolInv

LEMMA GivesUpHolds ==
  ASSUME ToolInv, GivesUp
  PROVE  ToolInv'
<1>1. ToolTypeOK'
  BY DEF ToolInv, ToolTypeOK, GivesUp, processes, Stage
<1>2. OutputInv'
  BY DEF ToolInv, OutputInv, GivesUp, processes, Open
<1>3. CallerInv'
  BY DEF ToolInv, CallerInv, GivesUp, processes
<1>4. SuccessIsOwnExit'
  BY DEF ToolInv, SuccessIsOwnExit, GivesUp
<1>. QED BY <1>1, <1>2, <1>3, <1>4 DEF ToolInv

LEMMA KillsHolds ==
  ASSUME ToolInv, Kills
  PROVE  ToolInv'
<1>1. ToolTypeOK'
  BY DEF ToolInv, ToolTypeOK, Kills, Exited, Status, Stage
<1>2. OutputInv'
  BY DEF ToolInv, OutputInv, Kills, Open
<1>3. CallerInv'
  BY DEF ToolInv, CallerInv, Kills, Exited, Status, NoResult
<1>4. SuccessIsOwnExit'
  BY DEF ToolInv, SuccessIsOwnExit, Kills
<1>. QED BY <1>1, <1>2, <1>3, <1>4 DEF ToolInv

LEMMA CollectsHolds ==
  ASSUME ToolInv, Collects
  PROVE  ToolInv'
<1>1. ToolTypeOK'
  BY DEF ToolInv, ToolTypeOK, Collects, processes, Stage, Returns, Success
<1>2. OutputInv'
  BY DEF ToolInv, OutputInv, Collects, processes, Open
<1>3. CallerInv'
  BY DEF ToolInv, CallerInv, Collects, processes, Returns
<1>4. SuccessIsOwnExit'
  BY DEF ToolInv, ToolTypeOK, CallerInv, SuccessIsOwnExit, Collects, processes, Returns, Success
<1>. QED BY <1>1, <1>2, <1>3, <1>4 DEF ToolInv

LEMMA GraceHolds ==
  ASSUME ToolInv, Grace
  PROVE  ToolInv'
<1>1. ToolTypeOK'
  BY DEF ToolInv, ToolTypeOK, Grace, processes, Stage, Returns, Success
<1>2. OutputInv'
  BY DEF ToolInv, OutputInv, Grace, processes
<1>3. CallerInv'
  BY DEF ToolInv, CallerInv, Grace, processes, Returns
<1>4. SuccessIsOwnExit'
  BY DEF ToolInv, ToolTypeOK, CallerInv, SuccessIsOwnExit, Grace, processes, Returns, Success
<1>. QED BY <1>1, <1>2, <1>3, <1>4 DEF ToolInv

LEMMA ToolNextHolds ==
  ASSUME ToolInv, [ToolNext]_toolVars
  PROVE  ToolInv'
<1>1. CASE World
  BY <1>1, ChildReadsHolds, WritesHolds, ChildForksHolds, ChildExitsHolds, HeirExitsHolds DEF World
<1>2. CASE Reader
  BY <1>2, ReaderTakesHolds, ReaderEndsHolds DEF Reader
<1>3. CASE DeadlinePasses
  BY <1>3, DeadlinePassesHolds
<1>4. CASE Caller
  BY <1>4, SpawnFailsHolds, SpawnHolds, WriteInputHolds, ReapsHolds, GivesUpHolds, KillsHolds,
     CollectsHolds, GraceHolds DEF Caller
<1>5. CASE UNCHANGED toolVars
  BY <1>5 DEF toolVars, ToolInv, ToolTypeOK, OutputInv, CallerInv, SuccessIsOwnExit, Open, Exited
<1>. QED BY <1>1, <1>2, <1>3, <1>4, <1>5 DEF ToolNext

LEMMA ToolInvAlways == ToolSpec => []ToolInv
<1>1. ToolInit => ToolInv
  BY ToolInitHolds
<1>2. ToolInv /\ [ToolNext]_toolVars => ToolInv'
  BY ToolNextHolds
<1>. QED BY <1>1, <1>2, PTL DEF ToolSpec

\* Whatever the child and what it leaves behind do, and whenever the deadline
\* passes: a call that reports success had a child that ended by itself and
\* well, and spawn_with had not given it up.
THEOREM SuccessIsAlwaysOwnExit == ToolSpec => [](ToolTypeOK /\ SuccessIsOwnExit)
<1>1. ToolInv => ToolTypeOK /\ SuccessIsOwnExit
  BY DEF ToolInv
<1>. QED BY <1>1, ToolInvAlways, PTL

\* Output that a call returns without a mark is all that was written, by the
\* child and its descendants, whatever the pipe holds and the cap is.
THEOREM UnmarkedOutputIsComplete == ToolSpec => []UnmarkedOutputIsAll
<1>1. ASSUME ToolInv PROVE UnmarkedOutputIsAll
  <2>1. SUFFICES ASSUME at = "done", result.launched, ~ result.capped
                 PROVE  result.kept = wrote
    BY DEF UnmarkedOutputIsAll
  <2>2. reader.done /\ ~ reader.cut /\ result.kept = reader.kept
    BY <1>1, <2>1 DEF ToolInv, CallerInv
  <2>3. reader.kept + stdout = wrote /\ stdout = 0 /\ reader.kept \in 0 .. MaxWrites
    BY <1>1, <2>2 DEF ToolInv, OutputInv, ToolTypeOK
  <2>. QED BY <2>2, <2>3, ToolAssumption
<1>. QED BY <1>1, ToolInvAlways, PTL
----------------------------------------------------------------------------
(* The warm session. *)

\* One command is under way: with the process, printed, read, or lost with it.
Waiting(c) ==
  /\ Len(procs) = 1 /\ object.proc = 1
  /\ \/ queue = <<>> /\ procs[1].out = <<>> /\ procs[1].inbox = <<c>>
     \/ queue = <<>> /\ procs[1].out = <<c>> /\ procs[1].inbox = <<>>
     \/ queue = <<c>> /\ procs[1].out = <<>> /\ procs[1].inbox = <<>>
     \/ /\ ~ procs[1].alive /\ ~ procs[1].open /\ procs[1].out = <<>>
        /\ \/ queue = <<c, EOF>> /\ procs[1].inbox = <<>>
           \/ queue = <<EOF>> /\ procs[1].inbox = <<c>>

\* None is, in a session that goes on with its process.
Quiet ==
  \A p \in DOMAIN procs : procs[p].alive =>
    queue = <<>> /\ procs[p].out = <<>> /\ procs[p].inbox = <<>>

\* A session object that has not restarted its process inside a request waits
\* for the answer to what it sent last, and for nothing else.
Orderly ==
  /\ Len(procs) <= 1 /\ serve.at # "rewarm"
  /\ serve.at \in {"idle", "ensure", "check", "compile", "heir"} /\ client.session = "warm" => Quiet
  /\ serve.at = "warm" => Waiting([do |-> "import"])
  /\ serve.at = "answer" => Waiting([do |-> "check", src |-> client.asks.src])
  /\ serve.at = "audit" =>
       /\ Waiting([do |-> "audit", src |-> client.asks.src, env |-> client.asks.src])
       /\ serve.ok => client.asks.src \in Compiles

WarmInv ==
  /\ WarmTypeOK
  /\ serve.at # "idle" => client.session = "warm" /\ client.asks # None
  /\ ~ object.torn => Orderly
  /\ VerdictsAreLeans

LEMMA Ones ==
  ASSUME NEW c, NEW e
  PROVE  /\ <<c>> # <<>> /\ Head(<<c>>) = c /\ Tail(<<c>>) = <<>>
         /\ Append(<<>>, c) = <<c>> /\ Append(<<c>>, e) = <<c, e>>
         /\ <<c, e>> # <<>> /\ Head(<<c, e>>) = c /\ Tail(<<c, e>>) = <<e>>
<1>. DEFINE S == {c, e}
<1>1. <<c>> \in Seq(S) /\ <<c, e>> \in Seq(S) /\ <<>> \in Seq(S) /\ c \in S /\ e \in S
  OBVIOUS
<1>2. <<c>> # <<>> /\ <<c, e>> # <<>>
  OBVIOUS
<1>3. Head(<<c>>) = c /\ Head(<<c, e>>) = c
  BY <1>1
<1>4. Tail(<<c>>) = <<>>
  BY <1>1
<1>5. Tail(<<c, e>>) = <<e>>
  BY <1>1
<1>6. Append(<<>>, c) = <<c>>
  BY <1>1
<1>7. Append(<<c>>, e) = <<c, e>>
  <2>. DEFINE s == <<c>>
              b == Append(s, e)
  <2>1. s \in Seq(S) /\ Len(s) = 1 /\ s[1] = c
    BY <1>1
  <2>. HIDE DEF s
  <2>2. b \in Seq(S) /\ Len(b) = 2 /\ b[1] = c /\ b[2] = e
    BY <1>1, <2>1
  <2>. HIDE DEF b
  <2>3. b = <<c, e>>
    BY <1>1, <2>2
  <2>. QED BY <2>3 DEF b, s
<1>. QED BY <1>2, <1>3, <1>4, <1>5, <1>6, <1>7

LEMMA ProcTyped ==
  ASSUME WarmTypeOK, NEW p \in DOMAIN procs
  PROVE  /\ procs[p] \in Process /\ procs[p].alive \in BOOLEAN /\ procs[p].open \in BOOLEAN
         /\ procs[p].inbox \in Seq(ReplCommand) /\ procs[p].out \in Seq(ReplCommand)
<1>1. procs \in Seq(Process)
  BY DEF WarmTypeOK
<1>2. procs[p] \in Process
  BY <1>1
<1>. QED BY <1>2 DEF Process

\* What the server reads of an answer.
LEMMA AnswerRead ==
  ASSUME NEW a \in ReplCommand
  PROVE  /\ a # EOF /\ EnvOf(a) \in Source \cup {Base}
         /\ a.do = "import" => OkOf(a)
         /\ a.do = "check" => (OkOf(a) <=> a.src \in Compiles) /\ EnvOf(a) = a.src
<1>1. CASE a \in [do : {"import"}]
  <2>1. a.do = "import" /\ a # EOF
    BY <1>1 DEF EOF
  <2>. QED BY <2>1 DEF EnvOf, OkOf
<1>2. CASE a \in [do : {"check"}, src : Source]
  <2>1. a.do = "check" /\ a.src \in Source /\ a # EOF
    BY <1>2 DEF EOF
  <2>2. OkOf(a) <=> a.src \in Compiles
    BY <2>1 DEF OkOf
  <2>3. EnvOf(a) = a.src
    BY <2>1 DEF EnvOf
  <2>. QED BY <2>1, <2>2, <2>3
<1>3. CASE a \in [do : {"audit"}, src : Source, env : Source \cup {Base}]
  BY <1>3 DEF EnvOf, OkOf, EOF
<1>. QED BY <1>1, <1>2, <1>3 DEF ReplCommand

LEMMA AnswerBoolean ==
  ASSUME NEW a \in ReplCommand
  PROVE  OkOf(a) \in BOOLEAN
<1>1. a.do = "import" \/ a.do = "check" \/ a.do = "audit"
  BY DEF ReplCommand
<1>2. CASE a.do = "import"
  BY <1>2 DEF OkOf
<1>3. CASE a.do = "check"
  BY <1>3 DEF OkOf
<1>4. CASE a.do = "audit"
  BY <1>4 DEF OkOf
<1>. QED BY <1>1, <1>2, <1>3, <1>4

\* The answer at the head of the queue is to the command under way.
LEMMA AnswerIsToIt ==
  ASSUME NEW c \in ReplCommand, Waiting(c), queue # <<>>, Head(queue) # EOF
  PROVE  /\ Head(queue) = c /\ procs[1].out = <<>> /\ procs[1].inbox = <<>>
         /\ Tail(queue) = <<>> \/ (Tail(queue) = <<EOF>> /\ ~ procs[1].alive /\ ~ procs[1].open)
<1>1. queue = <<c>> \/ queue = <<c, EOF>>
  <2>1. queue # <<EOF>>
    BY Ones
  <2>. QED BY <2>1 DEF Waiting
<1>2. CASE queue = <<c>>
  <2>1. <<c>> # <<EOF>> /\ <<c>> # <<c, EOF>>
    BY AnswerRead
  <2>2. procs[1].out = <<>> /\ procs[1].inbox = <<>>
    BY <1>2, <2>1 DEF Waiting
  <2>. QED BY <1>2, <2>2, Ones
<1>3. CASE queue = <<c, EOF>>
  <2>1. <<c, EOF>> # <<EOF>> /\ <<c, EOF>> # <<c>>
    OBVIOUS
  <2>2. procs[1].out = <<>> /\ procs[1].inbox = <<>> /\ ~ procs[1].alive /\ ~ procs[1].open
    BY <1>3, <2>1 DEF Waiting
  <2>. QED BY <1>3, <2>2, Ones
<1>. QED BY <1>1, <1>2, <1>3

LEMMA EndIsOfTheDead ==
  ASSUME NEW c \in ReplCommand, Waiting(c), queue # <<>>, Head(queue) = EOF
  PROVE  ~ procs[1].alive
<1>1. queue # <<c>>
  BY AnswerRead, Ones
<1>. QED BY <1>1 DEF Waiting

\* A process and its reader carry the command on, or lose it.
LEMMA WaitingGoesOn ==
  ASSUME WarmTypeOK, NEW c \in ReplCommand, Waiting(c), NEW p \in DOMAIN procs,
         LeanAnswers(p) \/ LeanDies(p) \/ ReaderPuts(p)
  PROVE  Waiting(c)'
<1>1. p = 1 /\ Len(procs) = 1 /\ object.proc = 1 /\ object' = object
  BY DEF Waiting, WarmTypeOK, LeanAnswers, LeanDies, ReaderPuts
<1>2. procs \in Seq(Process) /\ procs[1] \in Process
  BY <1>1, ProcTyped DEF WarmTypeOK
<1>3. ASSUME NEW r, procs' = [procs EXCEPT ![1] = r]
      PROVE  Len(procs') = 1 /\ procs'[1] = r
  BY <1>1, <1>2, <1>3
<1>4. CASE LeanAnswers(p)
  <2>. DEFINE r == [procs[1] EXCEPT !.inbox = Tail(procs[1].inbox),
                                    !.out = Append(procs[1].out, Head(procs[1].inbox))]
  <2>1. /\ procs[1].open /\ procs[1].inbox # <<>> /\ queue' = queue
        /\ procs' = [procs EXCEPT ![1] = r]
    BY <1>1, <1>4 DEF LeanAnswers
  <2>2. /\ r.inbox = Tail(procs[1].inbox) /\ r.alive = procs[1].alive
        /\ r.out = Append(procs[1].out, Head(procs[1].inbox))
    BY <1>2 DEF Process
  <2>3. queue = <<>> /\ procs[1].out = <<>> /\ procs[1].inbox = <<c>>
    BY <2>1 DEF Waiting
  <2>4. procs'[1].inbox = <<>> /\ procs'[1].out = <<c>> /\ Len(procs') = 1
    <3>1. r.inbox = <<>> /\ r.out = <<c>>
      BY <2>2, <2>3, Ones
    <3>. HIDE DEF r
    <3>. QED BY <1>3, <2>1, <3>1
  <2>. QED BY <1>1, <2>1, <2>3, <2>4 DEF Waiting
<1>5. CASE LeanDies(p)
  <2>. DEFINE r == [procs[1] EXCEPT !.alive = FALSE]
  <2>1. queue' = queue /\ procs' = [procs EXCEPT ![1] = r]
    BY <1>1, <1>5 DEF LeanDies
  <2>2. r.inbox = procs[1].inbox /\ ~ r.alive /\ r.out = procs[1].out /\ r.open = procs[1].open
    BY <1>2 DEF Process
  <2>3. procs'[1] = r /\ Len(procs') = 1
    <3>. HIDE DEF r
    <3>. QED BY <1>3, <2>1
  <2>. HIDE DEF r
  <2>. QED BY <1>1, <2>1, <2>2, <2>3 DEF Waiting
<1>6. CASE ReaderPuts(p) /\ procs[1].out # <<>>
  <2>. DEFINE r == [procs[1] EXCEPT !.out = Tail(procs[1].out)]
  <2>1. queue' = Append(queue, Head(procs[1].out)) /\ procs' = [procs EXCEPT ![1] = r]
    BY <1>1, <1>6 DEF ReaderPuts
  <2>2. r.inbox = procs[1].inbox /\ r.out = Tail(procs[1].out)
    BY <1>2 DEF Process
  <2>3. queue = <<>> /\ procs[1].out = <<c>> /\ procs[1].inbox = <<>>
    BY <1>6 DEF Waiting
  <2>4. queue' = <<c>> /\ procs'[1].out = <<>> /\ procs'[1].inbox = <<>> /\ Len(procs') = 1
    <3>. HIDE DEF r
    <3>. QED BY <1>3, <2>1, <2>2, <2>3, Ones
  <2>. QED BY <1>1, <2>4 DEF Waiting
<1>7. CASE ReaderPuts(p) /\ procs[1].out = <<>>
  <2>. DEFINE r == [procs[1] EXCEPT !.open = FALSE]
  <2>1. /\ procs[1].open /\ ~ procs[1].alive
        /\ queue' = Append(queue, EOF) /\ procs' = [procs EXCEPT ![1] = r]
    BY <1>1, <1>7 DEF ReaderPuts
  <2>2. /\ r.inbox = procs[1].inbox /\ r.out = procs[1].out
        /\ r.alive = procs[1].alive /\ ~ r.open
    BY <1>2 DEF Process
  <2>3. \/ queue = <<>> /\ procs[1].inbox = <<c>>
        \/ queue = <<c>> /\ procs[1].inbox = <<>>
    BY <1>7, <2>1 DEF Waiting
  <2>4. procs'[1] = r /\ Len(procs') = 1
    <3>. HIDE DEF r
    <3>. QED BY <1>3, <2>1
  <2>. HIDE DEF r
  <2>5. \/ queue' = <<EOF>> /\ procs'[1].inbox = <<c>>
        \/ queue' = <<c, EOF>> /\ procs'[1].inbox = <<>>
    BY <2>1, <2>2, <2>3, <2>4, Ones
  <2>6. ~ procs'[1].alive /\ ~ procs'[1].open /\ procs'[1].out = <<>>
    BY <1>7, <2>1, <2>2, <2>4
  <2>. QED BY <1>1, <2>4, <2>5, <2>6 DEF Waiting
<1>. QED BY <1>4, <1>5, <1>6, <1>7

\* What is sent when nothing is under way, or nothing but the end of the file.
LEMMA SendStartsIt ==
  ASSUME WarmTypeOK, NEW c \in ReplCommand, Len(procs) = 1, object.proc = 1, object' = object,
         procs' = Send(object.proc, c), procs[1].out = <<>>, procs[1].inbox = <<>>,
         queue' = <<>> \/ (queue' = <<EOF>> /\ ~ procs[1].alive /\ ~ procs[1].open)
  PROVE  Waiting(c)'
<1>. DEFINE r == [procs[1] EXCEPT !.inbox = Append(procs[1].inbox, c)]
<1>1. procs \in Seq(Process) /\ procs[1] \in Process /\ 1 \in DOMAIN procs
  BY ProcTyped DEF WarmTypeOK
<1>2. procs' = [procs EXCEPT ![1] = r]
  BY DEF Send
<1>3. r.inbox = <<c>> /\ r.out = <<>> /\ r.alive = procs[1].alive /\ r.open = procs[1].open
  BY <1>1, Ones DEF Process
<1>. HIDE DEF r
<1>4. procs'[1] = r /\ Len(procs') = 1
  BY <1>1, <1>2
<1>. QED BY <1>3, <1>4 DEF Waiting

LEMMA StartedTyped == Started \in Process /\ Started.out = <<>> /\ Started.inbox = <<[do |-> "import"]>>
<1>1. [do |-> "import"] \in ReplCommand
  BY DEF ReplCommand
<1>2. <<[do |-> "import"]>> \in Seq(ReplCommand) /\ <<>> \in Seq(ReplCommand)
  BY <1>1
<1>. QED BY <1>2 DEF Started, Process

\* The parts of the type invariant that the steps of the server change.
LEMMA QueueTyped ==
  ASSUME WarmTypeOK, queue # <<>>
  PROVE  /\ Tail(queue) \in Seq(ReplCommand \cup {EOF})
         /\ Head(queue) # EOF => Head(queue) \in ReplCommand
BY DEF WarmTypeOK

LEMMA SendTyped ==
  ASSUME WarmTypeOK, NEW c \in ReplCommand, procs' = Send(object.proc, c)
  PROVE  procs' \in Seq(Process) /\ Len(procs') = Len(procs)
<1>1. procs \in Seq(Process)
  BY DEF WarmTypeOK
<1>2. CASE object.proc \in DOMAIN procs
  <2>1. procs[object.proc].inbox \in Seq(ReplCommand) /\ procs[object.proc] \in Process
    BY <1>2, ProcTyped
  <2>. DEFINE r == [procs[object.proc] EXCEPT !.inbox = Append(procs[object.proc].inbox, c)]
  <2>2. Append(procs[object.proc].inbox, c) \in Seq(ReplCommand)
    BY <2>1
  <2>3. r \in Process
    BY <2>1, <2>2 DEF Process
  <2>4. procs' = [procs EXCEPT ![object.proc] = r]
    BY DEF Send
  <2>. HIDE DEF r
  <2>. QED BY <1>1, <1>2, <2>3, <2>4
<1>3. CASE object.proc \notin DOMAIN procs
  <2>1. procs' = procs
    BY <1>1, <1>3 DEF Send
  <2>. QED BY <1>1, <2>1
<1>. QED BY <1>2, <1>3

\* A line back to the agent.
LEMMA ReplyHolds ==
  ASSUME WarmInv, serve.at # "idle", NEW ok \in BOOLEAN, NEW clean \in BOOLEAN,
         NEW audited \in BOOLEAN, Reply(ok, clean, audited),
         ~ object.torn => /\ ok => client.asks.src \in Compiles
                          /\ clean /\ audited /\ client.asks.src \in Named
                               => client.asks.src \in Allowed
  PROVE  /\ verdict' \in {None} \cup WarmVerdict
         /\ client' \in [session : {"warm", "gone"}, asks : {None} \cup Request]
         /\ serve' \in [at : At, ok : BOOLEAN] /\ serve'.at = "idle"
         /\ VerdictsAreLeans'
<1>1. client.asks \in Request /\ client \in [session : {"warm", "gone"}, asks : {None} \cup Request]
      /\ object \in [proc : 0 .. MaxProcs, warmed : BOOLEAN, torn : BOOLEAN]
  BY DEF WarmInv, WarmTypeOK
<1>2. PICK src \in Source, thm \in BOOLEAN, torn \in BOOLEAN :
             src = client.asks.src /\ thm = client.asks.thm /\ torn = object.torn
  BY <1>1 DEF Request
<1>. DEFINE v == [src |-> src, thm |-> thm, ok |-> ok, clean |-> clean, audited |-> audited,
                  torn |-> torn]
<1>3. verdict' = v /\ v \in WarmVerdict
  BY <1>2 DEF Reply, WarmVerdict
<1>4. v.src = src /\ v.ok = ok /\ v.clean = clean /\ v.audited = audited /\ v.torn = torn
  OBVIOUS
<1>. HIDE DEF v
<1>5. VerdictsAreLeans'
  BY <1>2, <1>3, <1>4 DEF VerdictsAreLeans
<1>6. client' \in [session : {"warm", "gone"}, asks : {None} \cup Request]
      /\ serve' \in [at : At, ok : BOOLEAN] /\ serve'.at = "idle"
  BY <1>1 DEF Reply, At
<1>. QED BY <1>3, <1>5, <1>6

LEMMA EnsureHolds ==
  ASSUME WarmInv, Ensure
  PROVE  WarmInv'
<1>1. /\ WarmTypeOK /\ client.session = "warm" /\ client.asks # None /\ serve.at = "ensure"
      /\ UNCHANGED <<mode, calls, client, verdict>>
  BY DEF Ensure, WarmInv
<1>2. CASE mode = "lean" \/ Alive
  <2>1. serve' = [serve EXCEPT !.at = "check"] /\ UNCHANGED <<object, procs, queue>>
    BY <1>2 DEF Ensure
  <2>2. WarmTypeOK' /\ serve'.at = "check"
    BY <1>1, <2>1 DEF WarmTypeOK, At
  <2>3. ~ object.torn => Orderly'
    BY <1>1, <2>1, <2>2 DEF WarmInv, Orderly, Quiet
  <2>. QED BY <1>1, <2>1, <2>2, <2>3 DEF WarmInv, VerdictsAreLeans
<1>3. CASE ~ (mode = "lean" \/ Alive)
  <2>1. /\ procs' = <<Started>> /\ queue' = <<>>
        /\ object' = [proc |-> 1, warmed |-> FALSE, torn |-> FALSE]
        /\ serve' = [serve EXCEPT !.at = "warm"]
    BY <1>3 DEF Ensure
  <2>2. procs' \in Seq(Process) /\ Len(procs') = 1 /\ procs'[1] = Started
    BY <2>1, StartedTyped
  <2>a. /\ client' \in [session : {"warm", "gone"}, asks : {None} \cup Request]
        /\ mode' \in {"repl", "lean"} /\ calls' \in 0..MaxCalls
        /\ verdict' \in {None} \cup WarmVerdict
    BY <1>1 DEF WarmTypeOK
  <2>b. serve' \in [at : At, ok : BOOLEAN] /\ serve'.at = "warm"
    BY <1>1, <2>1 DEF WarmTypeOK, At
  <2>c. object' \in [proc : 0..MaxProcs, warmed : BOOLEAN, torn : BOOLEAN] /\ object'.proc = 1
    BY <2>1, SourceAssumption
  <2>d. queue' \in Seq(ReplCommand \cup {EOF})
    BY <2>1
  <2>3. WarmTypeOK' /\ serve'.at = "warm" /\ object'.proc = 1
    BY <2>2, <2>a, <2>b, <2>c, <2>d DEF WarmTypeOK
  <2>4. Waiting([do |-> "import"])'
    BY <2>1, <2>2, <2>3, StartedTyped DEF Waiting
  <2>5. Orderly'
    BY <2>2, <2>3, <2>4 DEF Orderly
  <2>. QED BY <1>1, <2>3, <2>5 DEF WarmInv, VerdictsAreLeans
<1>. QED BY <1>2, <1>3

LEMMA CheckSendsHolds ==
  ASSUME WarmInv, CheckSends
  PROVE  WarmInv'
<1>. DEFINE c == [do |-> "check", src |-> client.asks.src]
<1>1. /\ WarmTypeOK /\ client.session = "warm" /\ client.asks # None /\ serve.at = "check"
      /\ procs' = Send(object.proc, c) /\ serve' = [serve EXCEPT !.at = "answer"] /\ Alive
      /\ UNCHANGED <<mode, calls, client, object, queue, verdict>>
  BY DEF CheckSends, WarmInv
<1>2. client.asks \in Request
  BY <1>1 DEF WarmTypeOK
<1>3. c \in ReplCommand
  BY <1>2 DEF ReplCommand, Request
<1>. HIDE DEF c
<1>4. procs' \in Seq(Process) /\ Len(procs') = Len(procs)
  BY <1>1, <1>3, SendTyped
<1>5. WarmTypeOK' /\ serve'.at = "answer"
  BY <1>1, <1>4 DEF WarmTypeOK, At
<1>6. ASSUME ~ object.torn PROVE Orderly'
  <2>1. Len(procs) <= 1 /\ Quiet
    BY <1>1, <1>6 DEF WarmInv, Orderly
  <2>2. Len(procs) = 1 /\ object.proc = 1 /\ 1 \in DOMAIN procs /\ procs[1].alive
    <3>1. Len(procs) \in Nat /\ DOMAIN procs = 1 .. Len(procs)
      BY <1>1 DEF WarmTypeOK
    <3>2. object.proc \in 1 .. Len(procs) /\ procs[object.proc].alive
      BY <1>1, <3>1 DEF WarmTypeOK, Alive
    <3>. QED BY <2>1, <3>1, <3>2
  <2>3. queue = <<>> /\ procs[1].out = <<>> /\ procs[1].inbox = <<>>
    BY <2>1, <2>2 DEF Quiet
  <2>4. PICK k \in ReplCommand : k = c
    BY <1>3
  <2>5. queue' = <<>> /\ object' = object /\ procs' = Send(object.proc, k)
    BY <1>1, <2>3, <2>4
  <2>6. Waiting(k)'
    BY <1>1, <2>2, <2>3, <2>5, SendStartsIt
  <2>7. k = [do |-> "check", src |-> client'.asks.src]
    BY <1>1, <2>4 DEF c
  <2>. QED BY <1>4, <1>5, <2>1, <2>6, <2>7 DEF Orderly
<1>. QED BY <1>1, <1>5, <1>6 DEF WarmInv, VerdictsAreLeans

LEMMA CheckRestartsHolds ==
  ASSUME WarmInv, CheckRestarts
  PROVE  WarmInv'
<1>1. /\ WarmTypeOK /\ client.session = "warm" /\ client.asks # None /\ serve.at = "check"
      /\ Len(procs) < MaxProcs /\ procs' = Append(procs, Started) /\ queue' = <<>>
      /\ object' = [object EXCEPT !.proc = Len(procs) + 1, !.torn = TRUE]
      /\ serve' = [serve EXCEPT !.at = "rewarm"]
      /\ UNCHANGED <<mode, calls, client, verdict>>
  BY DEF CheckRestarts, WarmInv
<1>2. procs' \in Seq(Process) /\ Len(procs') = Len(procs) + 1 /\ Len(procs) \in Nat
  BY <1>1, StartedTyped DEF WarmTypeOK
<1>3. WarmTypeOK' /\ object'.torn
  <2>1. Len(procs) + 1 \in 0 .. MaxProcs /\ Len(procs) + 1 <= Len(procs')
    BY <1>1, <1>2, SourceAssumption
  <2>2. object' \in [proc : 0 .. MaxProcs, warmed : BOOLEAN, torn : BOOLEAN]
        /\ object'.proc = Len(procs) + 1 /\ object'.torn
    BY <1>1, <2>1 DEF WarmTypeOK
  <2>3. serve' \in [at : At, ok : BOOLEAN] /\ queue' \in Seq(ReplCommand \cup {EOF})
    BY <1>1 DEF WarmTypeOK, At
  <2>. QED BY <1>1, <1>2, <2>1, <2>2, <2>3 DEF WarmTypeOK
<1>. QED BY <1>1, <1>3 DEF WarmInv, VerdictsAreLeans

\* The server comes to a compilation, or to what is left of one, that nobody
\* else sees.
LEMMA CompileStarts ==
  ASSUME WarmInv, serve.at \in {"check", "compile"}, NEW next \in {"compile", "heir"},
         serve' = [serve EXCEPT !.at = next],
         UNCHANGED <<mode, calls, client, object, procs, queue, verdict>>
  PROVE  WarmInv'
<1>1. WarmTypeOK /\ client.session = "warm" /\ client.asks # None
  BY DEF WarmInv
<1>2. serve' \in [at : At, ok : BOOLEAN] /\ serve'.at = next
  BY <1>1 DEF WarmTypeOK, At
<1>3. WarmTypeOK'
  BY <1>1, <1>2 DEF WarmTypeOK
<1>4. ~ object.torn => Orderly'
  BY <1>1, <1>2 DEF WarmInv, Orderly, Quiet
<1>. QED BY <1>1, <1>2, <1>3, <1>4 DEF WarmInv, VerdictsAreLeans

\* A compilation comes to a line back.
LEMMA CompileReplies ==
  ASSUME WarmInv, serve.at \in {"compile", "heir"},
         NEW ok \in BOOLEAN, ok => client.asks.src \in Compiles, Reply(ok, ok, FALSE),
         UNCHANGED <<mode, calls, object, procs, queue>>
  PROVE  WarmInv'
<1>1. WarmTypeOK /\ client.session = "warm"
  BY DEF WarmInv
<1>2. /\ verdict' \in {None} \cup WarmVerdict
      /\ client' \in [session : {"warm", "gone"}, asks : {None} \cup Request]
      /\ serve' \in [at : At, ok : BOOLEAN] /\ serve'.at = "idle"
      /\ VerdictsAreLeans'
  BY <1>1, ReplyHolds
<1>3. WarmTypeOK'
  BY <1>1, <1>2 DEF WarmTypeOK
<1>4. ~ object.torn => Orderly'
  BY <1>1, <1>2 DEF WarmInv, Orderly, Quiet
<1>. QED BY <1>2, <1>3, <1>4 DEF WarmInv

LEMMA CompileHolds ==
  ASSUME WarmInv, CheckCompiles \/ CompileEnds \/ CompileExpires \/ HeirEnds
  PROVE  WarmInv'
<1>1. CASE CheckCompiles
  BY <1>1, CompileStarts DEF CheckCompiles
<1>2. CASE CompileEnds
  <2>1. PICK ok \in {client.asks.src \in Compiles, FALSE} : Reply(ok, ok, FALSE)
    BY <1>2 DEF CompileEnds
  <2>2. ok \in BOOLEAN /\ (ok => client.asks.src \in Compiles)
    <3>1. ok = (client.asks.src \in Compiles) \/ ok = FALSE
      BY <2>1
    <3>2. (client.asks.src \in Compiles) \in BOOLEAN
      OBVIOUS
    <3>. QED BY <3>1, <3>2
  <2>. QED BY <1>2, <2>1, <2>2, CompileReplies DEF CompileEnds
<1>3. CASE CompileExpires
  <2>1. CASE Fails
    BY <1>3, <2>1, CompileReplies DEF CompileExpires, Fails
  <2>2. CASE ~ Fails
    BY <1>3, <2>2, CompileStarts DEF CompileExpires
  <2>. QED BY <2>1, <2>2
<1>4. CASE HeirEnds
  BY <1>4, CompileReplies DEF HeirEnds, Fails
<1>. QED BY <1>1, <1>2, <1>3, <1>4

LEMMA WarmedHolds ==
  ASSUME WarmInv, Warmed
  PROVE  WarmInv'
<1>1. /\ WarmTypeOK /\ serve.at \in {"warm", "rewarm"} /\ client.session = "warm" /\ client.asks \in Request
      /\ queue # <<>> /\ Head(queue) # EOF /\ queue' = Tail(queue)
      /\ object' = [object EXCEPT !.warmed = TRUE] /\ UNCHANGED <<mode, calls>>
  BY DEF Warmed, WarmInv, WarmTypeOK
<1>2. /\ queue' \in Seq(ReplCommand \cup {EOF}) /\ Head(queue) \in ReplCommand
      /\ object' \in [proc : 0 .. MaxProcs, warmed : BOOLEAN, torn : BOOLEAN]
      /\ object'.torn = object.torn /\ object'.proc = object.proc
  BY <1>1, QueueTyped DEF WarmTypeOK
<1>3. ASSUME ~ object.torn
      PROVE  /\ serve.at = "warm" /\ OkOf(Head(queue)) /\ Len(procs) = 1
             /\ procs[1].out = <<>> /\ procs[1].inbox = <<>> /\ (procs[1].alive => queue' = <<>>)
  <2>1. serve.at = "warm" /\ Waiting([do |-> "import"])
    BY <1>1, <1>3 DEF WarmInv, Orderly
  <2>2. [do |-> "import"] \in ReplCommand
    BY DEF ReplCommand
  <2>3. /\ Head(queue) = [do |-> "import"] /\ procs[1].out = <<>> /\ procs[1].inbox = <<>>
        /\ Tail(queue) = <<>> \/ (Tail(queue) = <<EOF>> /\ ~ procs[1].alive /\ ~ procs[1].open)
    BY <1>1, <2>1, <2>2, AnswerIsToIt
  <2>4. OkOf(Head(queue))
    BY <2>2, <2>3, AnswerRead
  <2>. QED BY <1>1, <2>1, <2>3, <2>4 DEF Waiting
<1>4. CASE ~ OkOf(Head(queue))
  <2>1. Reply(FALSE, FALSE, FALSE) /\ procs' = procs
    BY <1>4 DEF Warmed, Fails
  <2>2. /\ verdict' \in {None} \cup WarmVerdict
        /\ client' \in [session : {"warm", "gone"}, asks : {None} \cup Request]
        /\ serve' \in [at : At, ok : BOOLEAN] /\ serve'.at = "idle"
        /\ VerdictsAreLeans'
    BY <1>1, <2>1, ReplyHolds
  <2>3. WarmTypeOK'
    BY <1>1, <1>2, <2>1, <2>2 DEF WarmTypeOK
  <2>. QED BY <1>2, <1>3, <1>4, <2>2, <2>3 DEF WarmInv
<1>5. CASE OkOf(Head(queue)) /\ serve.at = "warm"
  <2>1. serve' = [serve EXCEPT !.at = "check"] /\ UNCHANGED <<client, procs, verdict>>
    BY <1>5 DEF Warmed
  <2>2. WarmTypeOK' /\ serve'.at = "check"
    BY <1>1, <1>2, <2>1 DEF WarmTypeOK, At
  <2>3. ASSUME ~ object.torn PROVE Orderly'
    <3>1. DOMAIN procs = {1}
      BY <1>1, <1>3, <2>3 DEF WarmTypeOK
    <3>2. Quiet'
      BY <1>3, <2>1, <2>3, <3>1 DEF Quiet
    <3>3. Len(procs') <= 1
      BY <1>3, <2>1, <2>3
    <3>. QED BY <2>2, <3>2, <3>3 DEF Orderly
  <2>. QED BY <1>1, <1>2, <2>1, <2>2, <2>3 DEF WarmInv, VerdictsAreLeans
<1>6. CASE OkOf(Head(queue)) /\ serve.at # "warm"
  <2>. DEFINE c == [do |-> "check", src |-> client.asks.src]
  <2>1. /\ procs' = Send(object.proc, c) /\ serve' = [serve EXCEPT !.at = "answer"]
        /\ UNCHANGED <<client, verdict>>
    BY <1>6 DEF Warmed
  <2>2. c \in ReplCommand
    BY <1>1 DEF ReplCommand, Request
  <2>. HIDE DEF c
  <2>3. procs' \in Seq(Process) /\ Len(procs') = Len(procs)
    BY <1>1, <2>1, <2>2, SendTyped
  <2>4. WarmTypeOK'
    BY <1>1, <1>2, <2>1, <2>3 DEF WarmTypeOK, At
  <2>. QED BY <1>1, <1>2, <1>3, <1>6, <2>1, <2>4 DEF WarmInv, VerdictsAreLeans
<1>. QED BY <1>4, <1>5, <1>6

LEMMA CheckAnsweredHolds ==
  ASSUME WarmInv, CheckAnswered
  PROVE  WarmInv'
<1>. DEFINE c == [do |-> "check", src |-> client.asks.src]
            h == Head(queue)
            a == [do |-> "audit", src |-> client.asks.src, env |-> EnvOf(h)]
<1>1. /\ WarmTypeOK /\ serve.at = "answer" /\ client.session = "warm" /\ client.asks \in Request
      /\ queue # <<>> /\ h # EOF /\ queue' = Tail(queue)
      /\ UNCHANGED <<mode, calls, object>>
  BY DEF CheckAnswered, WarmInv, WarmTypeOK
<1>2. queue' \in Seq(ReplCommand \cup {EOF}) /\ h \in ReplCommand /\ c \in ReplCommand
      /\ client.asks.src \in Source /\ client.asks.thm \in BOOLEAN
  BY <1>1, QueueTyped DEF ReplCommand, Request
<1>3. a \in ReplCommand
  BY <1>2, AnswerRead DEF ReplCommand
<1>4. IF client.asks.thm
        THEN /\ procs' = Send(object.proc, a) /\ serve' = [at |-> "audit", ok |-> OkOf(h)]
             /\ UNCHANGED <<client, verdict>>
        ELSE Reply(OkOf(h), OkOf(h), FALSE) /\ UNCHANGED procs
  BY DEF CheckAnswered
<1>5. OkOf(h) \in BOOLEAN
  BY <1>2, AnswerBoolean
<1>6. ASSUME ~ object.torn
      PROVE  /\ Len(procs) = 1 /\ object.proc = 1 /\ h = c
             /\ procs[1].out = <<>> /\ procs[1].inbox = <<>>
             /\ queue' = <<>> \/ (queue' = <<EOF>> /\ ~ procs[1].alive /\ ~ procs[1].open)
  <2>1. Waiting(c)
    BY <1>1, <1>6 DEF WarmInv, Orderly
  <2>2. /\ h = c /\ procs[1].out = <<>> /\ procs[1].inbox = <<>>
        /\ Tail(queue) = <<>> \/ (Tail(queue) = <<EOF>> /\ ~ procs[1].alive /\ ~ procs[1].open)
    BY <1>1, <1>2, <2>1, AnswerIsToIt
  <2>. QED BY <1>1, <2>1, <2>2 DEF Waiting
<1>7. ASSUME ~ object.torn
      PROVE  (OkOf(h) => client.asks.src \in Compiles) /\ EnvOf(h) = client.asks.src
  <2>1. h = c
    BY <1>6, <1>7
  <2>2. c.do = "check" /\ c.src = client.asks.src
    OBVIOUS
  <2>. HIDE DEF c, h
  <2>. QED BY <1>2, <2>1, <2>2, AnswerRead
<1>. HIDE DEF c, h
<1>8. CASE client.asks.thm
  <2>1. /\ procs' = Send(object.proc, a) /\ serve' = [at |-> "audit", ok |-> OkOf(h)]
        /\ UNCHANGED <<client, verdict>>
    BY <1>4, <1>8
  <2>. HIDE DEF a
  <2>2. procs' \in Seq(Process) /\ Len(procs') = Len(procs)
    BY <1>1, <1>3, <2>1, SendTyped
  <2>3. WarmTypeOK' /\ serve'.at = "audit" /\ serve'.ok = OkOf(h)
    BY <1>1, <1>2, <1>5, <2>1, <2>2 DEF WarmTypeOK, At
  <2>4. ASSUME ~ object.torn PROVE Orderly'
    <3>1. PICK k \in ReplCommand : k = a
      BY <1>3
    <3>2. procs' = Send(object.proc, k) /\ object' = object
      BY <1>1, <2>1, <3>1
    <3>3. Waiting(k)'
      BY <1>1, <1>6, <2>4, <3>2, SendStartsIt
    <3>4. k = [do |-> "audit", src |-> client'.asks.src, env |-> client'.asks.src]
      BY <1>7, <2>1, <2>4, <3>1 DEF a
    <3>5. client' = client /\ Len(procs') <= 1
      BY <1>6, <2>1, <2>2, <2>4
    <3>. QED BY <1>7, <2>3, <2>4, <3>3, <3>4, <3>5 DEF Orderly
  <2>. QED BY <1>1, <2>1, <2>3, <2>4 DEF WarmInv, VerdictsAreLeans
<1>9. CASE ~ client.asks.thm
  <2>1. Reply(OkOf(h), OkOf(h), FALSE) /\ procs' = procs
    BY <1>4, <1>9
  <2>2. /\ verdict' \in {None} \cup WarmVerdict
        /\ client' \in [session : {"warm", "gone"}, asks : {None} \cup Request]
        /\ serve' \in [at : At, ok : BOOLEAN] /\ serve'.at = "idle"
        /\ VerdictsAreLeans'
    BY <1>1, <1>5, <1>7, <2>1, ReplyHolds
  <2>3. WarmTypeOK'
    BY <1>1, <1>2, <2>1, <2>2 DEF WarmTypeOK
  <2>4. ASSUME ~ object.torn PROVE Orderly'
    <3>1. DOMAIN procs = {1}
      BY <1>1, <1>6, <2>4 DEF WarmTypeOK
    <3>2. Quiet'
      BY <1>6, <2>1, <2>4, <3>1 DEF Quiet
    <3>. QED BY <1>6, <2>1, <2>2, <2>4, <3>2 DEF Orderly
  <2>. QED BY <1>1, <2>2, <2>3, <2>4 DEF WarmInv
<1>. QED BY <1>2, <1>8, <1>9

LEMMA AuditedHolds ==
  ASSUME WarmInv, Audited
  PROVE  WarmInv'
<1>. DEFINE h == Head(queue)
<1>1. /\ WarmTypeOK /\ serve.at = "audit" /\ client.session = "warm" /\ client.asks \in Request
      /\ queue # <<>> /\ h # EOF /\ queue' = Tail(queue)
      /\ UNCHANGED <<mode, calls, object, procs>>
  BY DEF Audited, WarmInv, WarmTypeOK
<1>2. queue' \in Seq(ReplCommand \cup {EOF}) /\ serve.ok \in BOOLEAN /\ client.asks.src \in Source
  BY <1>1, QueueTyped DEF WarmTypeOK, Request
<1>3. PICK others \in BOOLEAN : others \in NamesOthers(h) /\ Reply(serve.ok, CleanAfter(others), TRUE)
  <2>1. PICK others \in NamesOthers(h) : Reply(serve.ok, CleanAfter(others), TRUE)
    BY DEF Audited
  <2>2. others \in BOOLEAN
    BY <2>1 DEF NamesOthers
  <2>. QED BY <2>1, <2>2
<1>4. ASSUME ~ object.torn
      PROVE  /\ Len(procs) = 1 /\ procs[1].out = <<>> /\ procs[1].inbox = <<>>
             /\ procs[1].alive => queue' = <<>>
             /\ h = [do |-> "audit", src |-> client.asks.src, env |-> client.asks.src]
             /\ serve.ok => client.asks.src \in Compiles
  <2>. DEFINE a == [do |-> "audit", src |-> client.asks.src, env |-> client.asks.src]
  <2>1. Waiting(a) /\ (serve.ok => client.asks.src \in Compiles)
    BY <1>1, <1>4 DEF WarmInv, Orderly
  <2>2. a \in ReplCommand
    BY <1>2 DEF ReplCommand
  <2>. HIDE DEF a
  <2>3. /\ h = a /\ procs[1].out = <<>> /\ procs[1].inbox = <<>>
        /\ Tail(queue) = <<>> \/ (Tail(queue) = <<EOF>> /\ ~ procs[1].alive /\ ~ procs[1].open)
    BY <1>1, <2>1, <2>2, AnswerIsToIt
  <2>. QED BY <1>1, <2>1, <2>3 DEF Waiting, a
<1>5. ASSUME ~ object.torn
      PROVE  /\ serve.ok => client.asks.src \in Compiles
             /\ CleanAfter(others) /\ client.asks.src \in Named => client.asks.src \in Allowed
  <2>1. h.do = "audit" /\ h.env = h.src /\ h.src = client.asks.src
    BY <1>4, <1>5
  <2>. HIDE DEF h
  <2>2. client.asks.src \in Named => others = (client.asks.src \in Compiles \ Allowed)
    BY <1>3, <2>1 DEF NamesOthers
  <2>. QED BY <1>4, <1>5, <2>2 DEF CleanAfter
<1>. HIDE DEF h
<1>6. /\ verdict' \in {None} \cup WarmVerdict
      /\ client' \in [session : {"warm", "gone"}, asks : {None} \cup Request]
      /\ serve' \in [at : At, ok : BOOLEAN] /\ serve'.at = "idle"
      /\ VerdictsAreLeans'
  <2>1. CleanAfter(others) \in BOOLEAN
    BY <1>2, <1>3 DEF CleanAfter
  <2>. QED BY <1>1, <1>2, <1>3, <1>5, <2>1, ReplyHolds
<1>7. WarmTypeOK'
  BY <1>1, <1>2, <1>6 DEF WarmTypeOK
<1>8. ASSUME ~ object.torn PROVE Orderly'
  <2>1. DOMAIN procs = {1}
    BY <1>1, <1>4, <1>8 DEF WarmTypeOK
  <2>2. Quiet'
    BY <1>1, <1>4, <1>8, <2>1 DEF Quiet
  <2>3. Len(procs') <= 1
    <3>1. procs' = procs
      BY <1>1
    <3>2. Len(procs) = 1
      BY <1>4, <1>8
    <3>. QED BY <3>1, <3>2
  <2>. QED BY <1>6, <2>2, <2>3 DEF Orderly
<1>. QED BY <1>1, <1>6, <1>7, <1>8 DEF WarmInv

\* A request that gets no answer any more: the process is dead.
LEMMA NoAnswerHolds ==
  ASSUME WarmInv, serve.at \in {"warm", "rewarm", "answer", "audit"}, NoAnswer
  PROVE  /\ verdict' \in {None} \cup WarmVerdict
         /\ client' \in [session : {"warm", "gone"}, asks : {None} \cup Request]
         /\ serve' \in [at : At, ok : BOOLEAN] /\ serve'.at = "idle"
         /\ VerdictsAreLeans'
<1>1. CASE serve.at = "audit"
  <2>1. Reply(serve.ok, serve.ok, FALSE) /\ serve.ok \in BOOLEAN
    BY <1>1 DEF NoAnswer, WarmInv, WarmTypeOK
  <2>2. ~ object.torn => (serve.ok => client.asks.src \in Compiles)
    BY <1>1 DEF WarmInv, Orderly
  <2>. QED BY <1>1, <2>1, <2>2, ReplyHolds
<1>2. CASE serve.at # "audit"
  <2>1. Reply(FALSE, FALSE, FALSE)
    BY <1>2 DEF NoAnswer, Fails
  <2>. QED BY <2>1, ReplyHolds
<1>. QED BY <1>1, <1>2

\* The command under way, whatever the server waits for.
LEMMA WaitsForOne ==
  ASSUME WarmInv, ~ object.torn, serve.at \in {"warm", "rewarm", "answer", "audit"}
  PROVE  \E c \in ReplCommand : Waiting(c)
<1>1. client.asks \in Request
  BY DEF WarmInv, WarmTypeOK
<1>2. client.asks.src \in Source
  BY <1>1 DEF Request
<1>3. /\ [do |-> "import"] \in ReplCommand
      /\ [do |-> "check", src |-> client.asks.src] \in ReplCommand
      /\ [do |-> "audit", src |-> client.asks.src, env |-> client.asks.src] \in ReplCommand
  BY <1>2 DEF ReplCommand
<1>. QED BY <1>3 DEF WarmInv, Orderly

LEMMA BrokenHolds ==
  ASSUME WarmInv, Broken
  PROVE  WarmInv'
<1>1. /\ WarmTypeOK /\ serve.at \in {"warm", "rewarm", "answer", "audit"}
      /\ queue # <<>> /\ Head(queue) = EOF /\ queue' = Tail(queue) /\ NoAnswer
      /\ UNCHANGED <<mode, calls, object, procs>>
  BY DEF Broken, WarmInv
<1>2. queue' \in Seq(ReplCommand \cup {EOF})
  BY <1>1, QueueTyped
<1>3. /\ verdict' \in {None} \cup WarmVerdict
      /\ client' \in [session : {"warm", "gone"}, asks : {None} \cup Request]
      /\ serve' \in [at : At, ok : BOOLEAN] /\ serve'.at = "idle"
      /\ VerdictsAreLeans'
  BY <1>1, NoAnswerHolds
<1>4. WarmTypeOK'
  BY <1>1, <1>2, <1>3 DEF WarmTypeOK
<1>5. ASSUME ~ object.torn PROVE Orderly'
  <2>1. PICK c \in ReplCommand : Waiting(c)
    BY <1>1, <1>5, WaitsForOne
  <2>2. ~ procs[1].alive /\ Len(procs) = 1
    BY <1>1, <2>1, EndIsOfTheDead DEF Waiting
  <2>3. DOMAIN procs = {1}
    BY <1>1, <2>2 DEF WarmTypeOK
  <2>4. Quiet' /\ Len(procs') <= 1
    BY <1>1, <2>2, <2>3 DEF Quiet
  <2>. QED BY <1>3, <2>4 DEF Orderly
<1>. QED BY <1>1, <1>3, <1>4, <1>5 DEF WarmInv

LEMMA TimedOutHolds ==
  ASSUME WarmInv, TimedOut
  PROVE  WarmInv'
<1>1. /\ WarmTypeOK /\ serve.at \in {"warm", "rewarm", "answer", "audit"}
      /\ Killed /\ NoAnswer /\ UNCHANGED <<mode, calls, queue>>
  BY DEF TimedOut, WarmInv
<1>2. /\ verdict' \in {None} \cup WarmVerdict
      /\ client' \in [session : {"warm", "gone"}, asks : {None} \cup Request]
      /\ serve' \in [at : At, ok : BOOLEAN] /\ serve'.at = "idle"
      /\ VerdictsAreLeans'
  BY <1>1, NoAnswerHolds
<1>3. /\ object' \in [proc : 0 .. MaxProcs, warmed : BOOLEAN, torn : BOOLEAN]
      /\ object'.proc = 0 /\ object'.torn = object.torn
  <2>1. object' = [object EXCEPT !.proc = 0, !.warmed = FALSE]
    BY <1>1 DEF Killed
  <2>2. 0 \in 0 .. MaxProcs
    BY SourceAssumption
  <2>. QED BY <1>1, <2>1, <2>2 DEF WarmTypeOK
<1>4. procs' \in Seq(Process) /\ Len(procs') = Len(procs)
  <2>1. CASE object.proc = 0
    BY <1>1, <2>1 DEF Killed, WarmTypeOK
  <2>2. CASE object.proc # 0
    <3>1. object.proc \in DOMAIN procs /\ procs \in Seq(Process)
      BY <1>1, <2>2 DEF WarmTypeOK
    <3>. DEFINE r == [procs[object.proc] EXCEPT !.alive = FALSE]
    <3>2. procs' = [procs EXCEPT ![object.proc] = r]
      BY <1>1, <2>2 DEF Killed
    <3>3. r \in Process
      BY <1>1, <3>1, ProcTyped DEF Process
    <3>. HIDE DEF r
    <3>. QED BY <3>1, <3>2, <3>3
  <2>. QED BY <2>1, <2>2
<1>5. WarmTypeOK'
  BY <1>1, <1>2, <1>3, <1>4 DEF WarmTypeOK
<1>6. ASSUME ~ object.torn PROVE Orderly'
  <2>1. PICK c \in ReplCommand : Waiting(c)
    BY <1>1, <1>6, WaitsForOne
  <2>2. Len(procs) = 1 /\ object.proc = 1 /\ procs \in Seq(Process) /\ 1 \in DOMAIN procs
    BY <1>1, <2>1 DEF WarmTypeOK, Waiting
  <2>3. procs' = [procs EXCEPT ![1].alive = FALSE]
    BY <1>1, <2>2 DEF Killed
  <2>4. procs[1] \in Process
    BY <1>1, <2>2, ProcTyped
  <2>5. ~ procs'[1].alive
    BY <2>2, <2>3, <2>4 DEF Process
  <2>6. DOMAIN procs' = {1}
    BY <1>4, <2>2
  <2>7. Quiet' /\ Len(procs') <= 1
    BY <1>4, <2>2, <2>5, <2>6 DEF Quiet
  <2>. QED BY <1>2, <2>7 DEF Orderly
<1>. QED BY <1>2, <1>3, <1>5, <1>6 DEF WarmInv

LEMMA AskHolds ==
  ASSUME WarmInv, NEW r \in Request, Ask(r)
  PROVE  WarmInv'
<1>1. /\ WarmTypeOK /\ client.session = "warm" /\ client.asks = None /\ calls < MaxCalls
      /\ calls' = calls + 1 /\ client' = [client EXCEPT !.asks = r]
      /\ serve' = [serve EXCEPT !.at = "ensure"] /\ verdict' = None
      /\ UNCHANGED <<mode, object, procs, queue>>
  BY DEF Ask, WarmInv
<1>2. serve.at = "idle" /\ r # None
  BY <1>1, SourceAssumption DEF WarmInv, Request
<1>3. client' \in [session : {"warm", "gone"}, asks : {None} \cup Request]
      /\ client'.session = "warm" /\ client'.asks = r
      /\ serve' \in [at : At, ok : BOOLEAN] /\ serve'.at = "ensure"
  BY <1>1 DEF WarmTypeOK, At
<1>4. WarmTypeOK'
  BY <1>1, <1>3, SourceAssumption DEF WarmTypeOK
<1>5. ~ object.torn => Orderly'
  BY <1>1, <1>2, <1>3 DEF WarmInv, Orderly, Quiet
<1>. QED BY <1>1, <1>2, <1>3, <1>4, <1>5 DEF WarmInv, VerdictsAreLeans

\* A cold check trusts nothing but Lean.
LEMMA ColdCheckHolds ==
  ASSUME NEW r \in Request, ColdCheck(r)
  PROVE  verdict' \in WarmVerdict /\ VerdictsAreLeans'
<1>1. PICK ok \in {r.src \in Compiles, FALSE},
           audit \in IF r.src \in Named THEN {r.src \in Allowed, FALSE} ELSE BOOLEAN :
        verdict' = [src |-> r.src, thm |-> r.thm, ok |-> ok, clean |-> ok /\ r.thm /\ audit,
                    audited |-> ok /\ r.thm, torn |-> FALSE]
  BY DEF ColdCheck
<1>2. /\ ok \in BOOLEAN /\ (ok => r.src \in Compiles)
      /\ audit \in BOOLEAN /\ (audit /\ r.src \in Named => r.src \in Allowed)
  <2>1. /\ ok = (r.src \in Compiles) \/ ok = FALSE
        /\ IF r.src \in Named THEN audit = (r.src \in Allowed) \/ audit = FALSE ELSE audit \in BOOLEAN
    BY <1>1
  <2>2. (r.src \in Compiles) \in BOOLEAN /\ (r.src \in Allowed) \in BOOLEAN
    OBVIOUS
  <2>. QED BY <2>1, <2>2
<1>3. PICK clean \in BOOLEAN, audited \in BOOLEAN :
        clean = (ok /\ r.thm /\ audit) /\ audited = (ok /\ r.thm)
  BY <1>2
<1>4. r.src \in Source /\ r.thm \in BOOLEAN
  BY DEF Request
<1>. DEFINE v == [src |-> r.src, thm |-> r.thm, ok |-> ok, clean |-> clean, audited |-> audited,
                  torn |-> FALSE]
<1>5. verdict' = v
  BY <1>1, <1>3
<1>6. v \in WarmVerdict
  BY <1>2, <1>3, <1>4 DEF WarmVerdict
<1>7. v.src = r.src /\ v.ok = ok /\ v.clean = clean
  OBVIOUS
<1>8. clean /\ r.src \in Named => r.src \in Allowed
  BY <1>2, <1>3
<1>. HIDE DEF v
<1>. QED BY <1>2, <1>5, <1>6, <1>7, <1>8 DEF VerdictsAreLeans

LEMMA ServerDiesHolds ==
  ASSUME WarmInv, ServerDies
  PROVE  WarmInv'
<1>1. /\ WarmTypeOK /\ client.asks # None /\ client' = [session |-> "gone", asks |-> None]
      /\ ColdCheck(client.asks) /\ serve' = [at |-> "idle", ok |-> FALSE]
      /\ UNCHANGED <<mode, calls, object, procs, queue>>
  BY DEF ServerDies, WarmInv
<1>2. client.asks \in Request
  BY <1>1 DEF WarmTypeOK
<1>3. verdict' \in WarmVerdict /\ VerdictsAreLeans'
  BY <1>1, <1>2, ColdCheckHolds
<1>4. WarmTypeOK'
  BY <1>1, <1>3 DEF WarmTypeOK, At
<1>5. ~ object.torn => Orderly'
  BY <1>1 DEF WarmInv, Orderly
<1>. QED BY <1>1, <1>3, <1>4, <1>5 DEF WarmInv

LEMMA AskColdHolds ==
  ASSUME WarmInv, NEW r \in Request, AskCold(r)
  PROVE  WarmInv'
<1>1. /\ WarmTypeOK /\ calls < MaxCalls /\ calls' = calls + 1 /\ ColdCheck(r)
      /\ UNCHANGED <<mode, client, serve, object, procs, queue>>
  BY DEF AskCold, WarmInv
<1>2. verdict' \in WarmVerdict /\ VerdictsAreLeans'
  BY <1>1, ColdCheckHolds
<1>3. WarmTypeOK'
  BY <1>1, <1>2, SourceAssumption DEF WarmTypeOK
<1>4. ~ object.torn => Orderly'
  BY <1>1 DEF WarmInv, Orderly, Quiet, Waiting
<1>. QED BY <1>1, <1>2, <1>3, <1>4 DEF WarmInv

\* As long as the server and the agent stand still.
LEMMA OrderlyGoesOn ==
  ASSUME WarmInv, ~ object.torn, UNCHANGED <<client, serve>>, Len(procs') = Len(procs), Quiet => Quiet',
         \A c \in ReplCommand : Waiting(c) => Waiting(c)'
  PROVE  Orderly'
<1>1. serve.at # "idle" => client.asks.src \in Source
  BY DEF WarmInv, WarmTypeOK, Request
<1>2. [do |-> "import"] \in ReplCommand
  BY DEF ReplCommand
<1>3. CASE serve.at = "answer"
  <2>1. PICK k \in ReplCommand : k = [do |-> "check", src |-> client.asks.src]
    BY <1>1, <1>3 DEF ReplCommand
  <2>2. Waiting(k)'
    BY <1>3, <2>1 DEF WarmInv, Orderly
  <2>. QED BY <1>3, <2>1, <2>2 DEF WarmInv, Orderly
<1>4. CASE serve.at = "audit"
  <2>1. PICK k \in ReplCommand : k = [do |-> "audit", src |-> client.asks.src, env |-> client.asks.src]
    BY <1>1, <1>4 DEF ReplCommand
  <2>2. Waiting(k)'
    BY <1>4, <2>1 DEF WarmInv, Orderly
  <2>. QED BY <1>4, <2>1, <2>2 DEF WarmInv, Orderly
<1>5. CASE serve.at \notin {"answer", "audit"}
  BY <1>2, <1>5 DEF WarmInv, Orderly
<1>. QED BY <1>3, <1>4, <1>5

\* A process and its reader leave everything typed, and a session that waits for
\* nothing as it was.
LEMMA LeanAnswersHolds ==
  ASSUME WarmInv, NEW p \in DOMAIN procs, LeanAnswers(p)
  PROVE  WarmInv'
<1>. DEFINE r == [procs[p] EXCEPT !.inbox = Tail(procs[p].inbox),
                                  !.out = Append(procs[p].out, Head(procs[p].inbox))]
<1>1. /\ WarmTypeOK /\ procs[p].inbox # <<>>
      /\ procs' = [procs EXCEPT ![p] = r]
      /\ UNCHANGED <<mode, calls, client, serve, object, queue, verdict>>
  BY DEF LeanAnswers, WarmInv
<1>2. /\ procs[p] \in Process /\ procs[p].inbox \in Seq(ReplCommand)
      /\ procs[p].out \in Seq(ReplCommand) /\ procs \in Seq(Process)
  BY <1>1, ProcTyped DEF WarmTypeOK
<1>3. r \in Process /\ r.alive = procs[p].alive
  <2>1. /\ Tail(procs[p].inbox) \in Seq(ReplCommand)
        /\ Append(procs[p].out, Head(procs[p].inbox)) \in Seq(ReplCommand)
    BY <1>1, <1>2
  <2>. QED BY <1>2, <2>1 DEF Process
<1>. HIDE DEF r
<1>4. procs' \in Seq(Process) /\ Len(procs') = Len(procs)
  BY <1>1, <1>2, <1>3
<1>5. WarmTypeOK'
  BY <1>1, <1>4 DEF WarmTypeOK
<1>6. ASSUME ~ object.torn PROVE Orderly'
  <2>1. Quiet => Quiet'
    <3>1. ASSUME Quiet PROVE ~ procs[p].alive
      BY <1>1, <3>1 DEF Quiet
    <3>2. ASSUME Quiet, NEW q \in DOMAIN procs', procs'[q].alive
          PROVE  q \in DOMAIN procs /\ procs'[q] = procs[q]
      BY <1>1, <1>2, <1>3, <3>1, <3>2
    <3>. QED BY <1>1, <3>2 DEF Quiet
  <2>2. \A c \in ReplCommand : Waiting(c) => Waiting(c)'
    BY <1>1, WaitingGoesOn
  <2>. QED BY <1>1, <1>4, <1>6, <2>1, <2>2, OrderlyGoesOn
<1>. QED BY <1>1, <1>5, <1>6 DEF WarmInv, VerdictsAreLeans

LEMMA LeanDiesHolds ==
  ASSUME WarmInv, NEW p \in DOMAIN procs, LeanDies(p)
  PROVE  WarmInv'
<1>. DEFINE r == [procs[p] EXCEPT !.alive = FALSE]
<1>1. /\ WarmTypeOK /\ procs' = [procs EXCEPT ![p] = r]
      /\ UNCHANGED <<mode, calls, client, serve, object, queue, verdict>>
  BY DEF LeanDies, WarmInv
<1>2. procs[p] \in Process /\ procs \in Seq(Process)
  BY <1>1, ProcTyped DEF WarmTypeOK
<1>3. r \in Process /\ ~ r.alive
  BY <1>2 DEF Process
<1>. HIDE DEF r
<1>4. procs' \in Seq(Process) /\ Len(procs') = Len(procs)
  BY <1>1, <1>2, <1>3
<1>5. WarmTypeOK'
  BY <1>1, <1>4 DEF WarmTypeOK
<1>6. ASSUME ~ object.torn PROVE Orderly'
  <2>1. Quiet => Quiet'
    <3>1. \A q \in DOMAIN procs' : procs'[q].alive => q \in DOMAIN procs /\ procs'[q] = procs[q]
      BY <1>1, <1>2, <1>3
    <3>. QED BY <1>1, <3>1 DEF Quiet
  <2>2. \A c \in ReplCommand : Waiting(c) => Waiting(c)'
    BY <1>1, WaitingGoesOn
  <2>. QED BY <1>1, <1>4, <1>6, <2>1, <2>2, OrderlyGoesOn
<1>. QED BY <1>1, <1>5, <1>6 DEF WarmInv, VerdictsAreLeans

LEMMA ReaderPutsHolds ==
  ASSUME WarmInv, NEW p \in DOMAIN procs, ReaderPuts(p)
  PROVE  WarmInv'
<1>1. /\ WarmTypeOK /\ procs[p] \in Process /\ procs \in Seq(Process)
      /\ procs[p].out \in Seq(ReplCommand) /\ queue \in Seq(ReplCommand \cup {EOF})
      /\ UNCHANGED <<mode, calls, client, serve, object, verdict>>
  BY ProcTyped DEF ReaderPuts, WarmInv, WarmTypeOK
<1>2. PICK r \in Process : procs' = [procs EXCEPT ![p] = r]
  <2>1. CASE procs[p].out # <<>>
    <3>. DEFINE r == [procs[p] EXCEPT !.out = Tail(procs[p].out)]
    <3>1. procs' = [procs EXCEPT ![p] = r]
      BY <2>1 DEF ReaderPuts
    <3>2. Tail(procs[p].out) \in Seq(ReplCommand)
      BY <1>1, <2>1
    <3>3. r \in Process
      BY <1>1, <3>2 DEF Process
    <3>. QED BY <3>1, <3>3
  <2>2. CASE procs[p].out = <<>>
    <3>. DEFINE r == [procs[p] EXCEPT !.open = FALSE]
    <3>1. procs' = [procs EXCEPT ![p] = r]
      BY <2>2 DEF ReaderPuts
    <3>2. r \in Process
      BY <1>1 DEF Process
    <3>. QED BY <3>1, <3>2
  <2>. QED BY <2>1, <2>2
<1>3. queue' \in Seq(ReplCommand \cup {EOF})
  <2>1. PICK a \in ReplCommand \cup {EOF} : queue' = Append(queue, a)
    <3>1. procs[p].out # <<>> => Head(procs[p].out) \in ReplCommand
      BY <1>1
    <3>. QED BY <3>1 DEF ReaderPuts
  <2>. QED BY <1>1, <2>1
<1>4. procs' \in Seq(Process) /\ Len(procs') = Len(procs)
  BY <1>1, <1>2
<1>5. WarmTypeOK'
  BY <1>1, <1>3, <1>4 DEF WarmTypeOK
<1>6. ASSUME ~ object.torn PROVE Orderly'
  <2>1. ASSUME Quiet, Len(procs) <= 1 PROVE Quiet'
    <3>1. ~ procs[p].alive
      BY <2>1 DEF Quiet, ReaderPuts
    <3>2. DOMAIN procs = {p} /\ DOMAIN procs' = {p}
      <4>1. Len(procs) \in Nat /\ DOMAIN procs = 1 .. Len(procs)
        BY <1>1
      <4>2. Len(procs) = 1 /\ p = 1
        BY <2>1, <4>1
      <4>3. DOMAIN procs' = 1 .. Len(procs')
        BY <1>4
      <4>4. 1 .. 1 = {1} /\ Len(procs') = 1
        BY <1>4, <4>2
      <4>. QED BY <4>1, <4>2, <4>3, <4>4
    <3>3. procs'[p].alive = procs[p].alive
      BY <1>1 DEF ReaderPuts, Process
    <3>. QED BY <3>1, <3>2, <3>3 DEF Quiet
  <2>2. \A c \in ReplCommand : Waiting(c) => Waiting(c)'
    BY <1>1, WaitingGoesOn
  <2>3. Len(procs) <= 1
    BY <1>6 DEF WarmInv, Orderly
  <2>. QED BY <1>1, <1>4, <1>6, <2>1, <2>2, <2>3, OrderlyGoesOn
<1>. QED BY <1>1, <1>5, <1>6 DEF WarmInv, VerdictsAreLeans

LEMMA WarmInitHolds ==
  ASSUME WarmInit
  PROVE  WarmInv
<1>1. WarmTypeOK
  <2>1. client \in [session : {"warm", "gone"}, asks : {None} \cup Request] /\ client.asks = None
    BY DEF WarmInit
  <2>2. CASE client.session = "warm"
    <3>. DEFINE r == [Started EXCEPT !.inbox = <<>>]
    <3>1. object = [proc |-> 1, warmed |-> TRUE, torn |-> FALSE] /\ procs = <<r>>
      BY <2>2 DEF WarmInit
    <3>2. <<>> \in Seq(ReplCommand)
      OBVIOUS
    <3>3. r \in Process
      BY <3>2, StartedTyped DEF Process
    <3>. HIDE DEF r
    <3>4. procs \in Seq(Process) /\ Len(procs) = 1
      BY <3>1, <3>3
    <3>. QED BY <2>1, <3>1, <3>4, SourceAssumption DEF WarmInit, WarmTypeOK, At
  <2>3. CASE client.session # "warm"
    <3>1. object = [proc |-> 0, warmed |-> FALSE, torn |-> FALSE] /\ procs = <<>>
      BY <2>3 DEF WarmInit
    <3>. QED BY <2>1, <3>1, SourceAssumption DEF WarmInit, WarmTypeOK, At
  <2>. QED BY <2>2, <2>3
<1>2. Len(procs) <= 1 /\ Quiet
  <2>1. CASE client.session = "warm"
    <3>1. procs = <<[Started EXCEPT !.inbox = <<>>]>> /\ queue = <<>>
      BY <2>1 DEF WarmInit
    <3>2. Len(procs) = 1 /\ procs[1].inbox = <<>> /\ procs[1].out = <<>> /\ DOMAIN procs = {1}
      BY <3>1 DEF Started
    <3>. QED BY <3>1, <3>2 DEF Quiet
  <2>2. CASE client.session # "warm"
    <3>1. procs = <<>>
      BY <2>2 DEF WarmInit
    <3>. QED BY <3>1 DEF Quiet
  <2>. QED BY <2>1, <2>2
<1>3. serve.at = "idle" /\ verdict = None
  BY DEF WarmInit
<1>. QED BY <1>1, <1>2, <1>3 DEF WarmInv, Orderly, VerdictsAreLeans

LEMMA WarmNextHolds ==
  ASSUME WarmInv, [WarmNext]_warmVars
  PROVE  WarmInv'
<1>1. ASSUME NEW r \in Request, Ask(r) \/ AskCold(r) PROVE WarmInv'
  BY <1>1, AskHolds, AskColdHolds
<1>2. CASE ServerDies
  BY <1>2, ServerDiesHolds
<1>3. CASE Serve \/ HeirEnds
  BY <1>3, EnsureHolds, CheckSendsHolds, CheckRestartsHolds, CompileHolds, WarmedHolds,
     CheckAnsweredHolds, AuditedHolds, BrokenHolds, TimedOutHolds DEF Serve
<1>4. ASSUME NEW p \in DOMAIN procs, LeanAnswers(p) \/ LeanDies(p) \/ ReaderPuts(p) PROVE WarmInv'
  BY <1>4, LeanAnswersHolds, LeanDiesHolds, ReaderPutsHolds
<1>5. CASE UNCHANGED warmVars
  BY <1>5 DEF warmVars, WarmInv, WarmTypeOK, Orderly, Quiet, Waiting, VerdictsAreLeans
<1>. QED BY <1>1, <1>2, <1>3, <1>4, <1>5 DEF WarmNext

\* For every source and any number of requests, and however the REPL, its
\* readers and the server hang, die and are replaced: the verdict of a session
\* object that did not restart its process inside a request is Lean's on the
\* source that was sent, because exactly one command is under way whenever the
\* server waits, and none when it does not.
THEOREM VerdictsAreAlwaysLeans == WarmSpec => [](WarmTypeOK /\ VerdictsAreLeans)
<1>1. WarmInit => WarmInv
  BY WarmInitHolds
<1>2. WarmInv /\ [WarmNext]_warmVars => WarmInv'
  BY WarmNextHolds
<1>3. WarmInv => WarmTypeOK /\ VerdictsAreLeans
  BY DEF WarmInv
<1>. QED BY <1>1, <1>2, <1>3, PTL DEF WarmSpec
=============================================================================
