------------------------------ MODULE ToolCall ------------------------------
(***************************************************************************)
(* A call of an external tool.  Three functions start a child process and  *)
(* wait for it: spawn_with (session/exec.rs), PythonCheck::run and         *)
(* LeanCheck::run (tools/mod.rs).  The child is a program nobody controls: *)
(* it may hang at any point, fill its pipe, or start a process of its own  *)
(* that inherits the pipe and outlives it.                                 *)
(*                                                                         *)
(* Standard output and standard error are alike, each with its reader; one *)
(* stands for both.                                                        *)
(***************************************************************************)
EXTENDS Naturals

CONSTANTS
  Kind,       \* the functions called: a subset of {"exec", "worker", "lean"}
  PipeSize,   \* what a pipe holds
  MaxStored,  \* max_output_bytes
  MaxWrites,  \* bound on what the child and its descendants write
  MaxInput    \* bound on the input of a worker

ASSUME ToolAssumption ==
  /\ Kind \subseteq {"exec", "worker", "lean"}
  /\ PipeSize \in Nat /\ MaxStored \in Nat /\ MaxWrites \in Nat /\ MaxInput \in Nat

VARIABLES
  kind,
  at,         \* where the caller is
  late,       \* the deadline has passed
  toSend,     \* input not yet written
  stdin,      \* input in the pipe
  child,      \* "none", "running" or its exit status
  heir,       \* the descendant that holds the pipe: "none", "running" or "gone"
  wrote,      \* output written so far
  stdout,     \* output in the pipe
  reader,     \* the reader: what it read and kept, if it cut anything, if it is done
  result      \* what the caller returns

toolVars == <<kind, at, late, toSend, stdin, child, heir, wrote, stdout, reader, result>>
processes == <<child, heir, wrote>>

\* Exit statuses: success, any other, killed.
Status == {"ok", "failed", "killed"}
Stage == {"start", "write", "wait", "kill", "collect", "done"}
NoResult == [launched |-> FALSE, status |-> "killed", timedOut |-> FALSE,
             kept |-> 0, capped |-> FALSE, success |-> FALSE]

ToolTypeOK ==
  /\ kind \in Kind /\ at \in Stage /\ late \in BOOLEAN
  /\ toSend \in 0 .. MaxInput /\ stdin \in 0 .. PipeSize
  /\ child \in {"none", "running"} \cup Status
  /\ heir \in {"none", "running", "gone"}
  /\ wrote \in 0 .. MaxWrites /\ stdout \in 0 .. PipeSize
  /\ reader \in [kept : 0 .. MaxWrites, cut : BOOLEAN, done : BOOLEAN, on : BOOLEAN]
  /\ result \in [launched : BOOLEAN, status : Status, timedOut : BOOLEAN,
                 kept : 0 .. MaxWrites, capped : BOOLEAN, success : BOOLEAN]

ToolInit ==
  /\ kind \in Kind
  /\ at = "start" /\ late = FALSE
  /\ toSend \in IF kind = "worker" THEN 1 .. MaxInput ELSE {0}
  /\ stdin = 0 /\ stdout = 0 /\ wrote = 0
  /\ child = "none" /\ heir = "none"
  /\ reader = [kept |-> 0, cut |-> FALSE, done |-> FALSE, on |-> FALSE]
  /\ result = NoResult

\* Somebody may still write to the pipe.
Open == "running" \in {child, heir}
Exited == child \in Status
----------------------------------------------------------------------------
(* The child and what it leaves behind (external).                         *)

ChildReads ==
  /\ child = "running" /\ stdin > 0
  /\ stdin' = stdin - 1
  /\ UNCHANGED <<kind, at, late, toSend, processes, stdout, reader, result>>

Writes ==
  /\ Open /\ stdout < PipeSize /\ wrote < MaxWrites
  /\ stdout' = stdout + 1 /\ wrote' = wrote + 1
  /\ UNCHANGED <<kind, at, late, toSend, stdin, child, heir, reader, result>>

ChildForks ==
  /\ child = "running" /\ heir = "none"
  /\ heir' = "running"
  /\ UNCHANGED <<kind, at, late, toSend, stdin, child, wrote, stdout, reader, result>>

ChildExits ==
  /\ child = "running"
  /\ child' \in {"ok", "failed"}
  /\ UNCHANGED <<kind, at, late, toSend, stdin, heir, wrote, stdout, reader, result>>

HeirExits ==
  /\ heir = "running"
  /\ heir' = "gone"
  /\ UNCHANGED <<kind, at, late, toSend, stdin, child, wrote, stdout, reader, result>>

DeadlinePasses ==
  /\ at = "wait" /\ ~ late /\ kind # "lean"
  /\ late' = TRUE
  /\ UNCHANGED <<kind, at, toSend, stdin, processes, stdout, reader, result>>
----------------------------------------------------------------------------
(* The reader: read_capped for exec, read_to_end for the others.           *)

ReaderTakes ==
  /\ reader.on /\ stdout > 0
  /\ stdout' = stdout - 1
  /\ reader' = IF kind = "exec" /\ reader.kept >= MaxStored
                 THEN [reader EXCEPT !.cut = TRUE]
                 ELSE [reader EXCEPT !.kept = @ + 1]
  /\ UNCHANGED <<kind, at, late, toSend, stdin, processes, result>>

ReaderEnds ==
  /\ reader.on /\ ~ reader.done /\ stdout = 0 /\ ~ Open
  /\ reader' = [reader EXCEPT !.done = TRUE]
  /\ UNCHANGED <<kind, at, late, toSend, stdin, processes, stdout, result>>
----------------------------------------------------------------------------
(* The caller.                                                             *)

Returns(r) == at' = "done" /\ result' = r

SpawnFails ==
  /\ at = "start"
  /\ Returns(NoResult)
  /\ UNCHANGED <<kind, late, toSend, stdin, processes, stdout, reader>>

\* The worker's readers are started only after its input is written.
Spawn ==
  /\ at = "start"
  /\ child' = "running"
  /\ at' = IF kind = "worker" THEN "write" ELSE "wait"
  /\ reader' = [reader EXCEPT !.on = kind # "worker"]
  /\ UNCHANGED <<kind, late, toSend, stdin, heir, wrote, stdout, result>>

\* write_all, which fails when the child is gone, then the readers.
WriteInput ==
  /\ at = "write"
  /\ IF toSend = 0
       THEN /\ at' = "wait" /\ reader' = [reader EXCEPT !.on = TRUE]
            /\ UNCHANGED <<toSend, stdin, result>>
     ELSE IF child # "running"
       THEN Returns(NoResult) /\ UNCHANGED <<toSend, stdin, reader>>
     ELSE /\ stdin < PipeSize
          /\ stdin' = stdin + 1 /\ toSend' = toSend - 1
          /\ UNCHANGED <<at, reader, result>>
  /\ UNCHANGED <<kind, late, processes, stdout>>

\* The child exited by itself: wait_timeout, try_wait, or the wait of output,
\* which first reads the pipes to their end.
Reaps ==
  /\ at = "wait" /\ Exited
  /\ kind = "lean" => reader.done
  /\ at' = "collect"
  /\ result' = [result EXCEPT !.launched = TRUE, !.status = child]
  /\ UNCHANGED <<kind, late, toSend, stdin, processes, stdout, reader>>

\* The child had not exited, and the deadline has passed.
GivesUp ==
  /\ at = "wait" /\ late /\ ~ Exited
  /\ at' = "kill"
  /\ UNCHANGED <<kind, late, toSend, stdin, processes, stdout, reader, result>>

\* kill and wait: a child that has just exited keeps its own status, which a
\* worker's result then has.
Kills ==
  /\ at = "kill"
  /\ at' = "collect"
  /\ child' = IF Exited THEN child ELSE "killed"
  /\ result' = [result EXCEPT !.launched = TRUE, !.timedOut = TRUE,
                              !.status = IF kind = "worker" THEN child' ELSE "killed"]
  /\ UNCHANGED <<kind, late, toSend, stdin, heir, wrote, stdout, reader>>

\* Mutant of Success: the missing exit code of a killed child reads as zero.
SuccessNoCode(r) == r.status # "failed" /\ (kind = "exec" => ~ r.timedOut)
\* ExecOutcome::success, and finish for the tools.
Success(r) == r.status = "ok" /\ (kind = "exec" => ~ r.timedOut)

\* The reader's output, complete but for what was over the cap.
Collects ==
  /\ at = "collect" /\ reader.done
  /\ Returns([result EXCEPT !.kept = reader.kept, !.capped = reader.cut,
                           !.success = Success(result)])
  /\ UNCHANGED <<kind, late, toSend, stdin, processes, stdout, reader>>

\* Mutants of Grace: nothing says that the output is not all there; only a
\* child that was killed gets the grace.
GraceUnsaid ==
  /\ at = "collect" /\ kind = "exec" /\ ~ reader.done
  /\ Returns([result EXCEPT !.success = Success(result)])
  /\ UNCHANGED <<kind, late, toSend, stdin, processes, stdout, reader>>
GraceAfterKill ==
  /\ at = "collect" /\ kind = "exec" /\ ~ reader.done /\ result.timedOut
  /\ Returns([result EXCEPT !.capped = TRUE, !.success = Success(result)])
  /\ UNCHANGED <<kind, late, toSend, stdin, processes, stdout, reader>>
\* spawn_with waits a grace for its reader and then does without it; the
\* other two join it, however long it takes.
Grace ==
  /\ at = "collect" /\ kind = "exec" /\ ~ reader.done
  /\ Returns([result EXCEPT !.capped = TRUE, !.success = Success(result)])
  /\ UNCHANGED <<kind, late, toSend, stdin, processes, stdout, reader>>

Caller == SpawnFails \/ Spawn \/ WriteInput \/ Reaps \/ GivesUp \/ Kills \/ Collects \/ Grace
Reader == ReaderTakes \/ ReaderEnds
World == ChildReads \/ Writes \/ ChildForks \/ ChildExits \/ HeirExits

ToolNext == Caller \/ Reader \/ World \/ DeadlinePasses

\* Time passes, the caller and its readers are scheduled; the child need not be.
ToolFairness == WF_toolVars(Caller) /\ WF_toolVars(Reader) /\ WF_toolVars(DeadlinePasses)

ToolSpec == ToolInit /\ [][ToolNext]_toolVars /\ ToolFairness
----------------------------------------------------------------------------
(* Properties.                                                             *)

\* A success is a child that ran to its own end: never one that was killed,
\* and for spawn_with never one that was given up, even if it ended just then.
SuccessIsOwnExit ==
  result.success => /\ at = "done" /\ result.launched /\ child = "ok"
                    /\ (kind = "exec" => ~ result.timedOut)

\* Output returned as complete is all that was ever written to the pipe; a
\* worker's or Lean's, which is never marked, always is.
UnmarkedOutputIsAll ==
  at = "done" /\ result.launched /\ ~ result.capped => result.kept = wrote

\* spawn_with returns whatever the child does.  The other two return unless a
\* descendant holds the pipe for ever, the input is never read, or, for Lean,
\* which has no deadline, the child never ends.
HeldUp == \/ at = "write" /\ stdin = PipeSize
          \/ at \in {"wait", "collect"} /\ heir = "running"
          \/ at = "wait" /\ kind = "lean" /\ child = "running"
OnlyHeldUp == <>(at = "done") \/ (kind # "exec" /\ <>[]HeldUp)

=============================================================================
