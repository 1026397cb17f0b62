-------------------------------- MODULE Team --------------------------------
(***************************************************************************)
(* Team::process_batch (orchestration/team.rs): a batch of obligations is  *)
(* cut into chunks, and one thread per chunk, with its own connection,     *)
(* records for each obligation that it was dispatched: an attempt, its     *)
(* event, an evidence row and its event, each committed by itself.         *)
(*                                                                         *)
(* Any of these commits may find the database locked, by a sibling or by   *)
(* another program, and nothing undoes the ones before it: retry_locked    *)
(* runs all four again.                                                    *)
(***************************************************************************)
EXTENDS Integers, Sequences, FiniteSets, SequencesExt

CONSTANTS
  Batch,       \* the obligations, a sequence without repetitions
  Known,       \* those of them that the project has
  MaxWorkers,  \* the values of max_workers
  MaxTries     \* the tries of retry_locked, 200 in the code

ASSUME TeamAssumption ==
  /\ Batch \in Seq(ToSet(Batch)) /\ IsInjective(Batch)
  /\ MaxWorkers \subseteq Nat
  /\ MaxTries \in Nat \ {0}

VARIABLES
  workers,   \* one per chunk: where it is, the index of its obligation, the commit
             \* it is at, its tries so far, its outcomes
  chunks,    \* the chunks of the batch
  rows,      \* what is recorded of each obligation, row by row
  result     \* what process_batch returned

batchVars == <<workers, chunks, rows, result>>

\* The commits of one dispatch: an attempt, its event, the evidence, its event.
Step == 1 .. 4
Outcome == [node : ToSet(Batch), ok : BOOLEAN]

TeamTypeOK ==
  /\ chunks \in Seq(Seq(ToSet(Batch))) /\ Len(workers) = Len(chunks)
  /\ \A w \in DOMAIN workers :
       /\ workers[w] \in [at : {"open", "node", "commit", "done", "failed"},
                          i : 1 .. Len(chunks[w]) + 1, step : Step,
                          tries : 0 .. MaxTries - 1, out : Seq(Outcome)]
       /\ workers[w].at = "commit" => workers[w].i \in DOMAIN chunks[w]
  /\ rows \in [ToSet(Batch) -> [Step -> 0 .. MaxTries]]
  /\ result \in [is : {"running", "error", "ok"}, out : Seq(Outcome)]

\* The batch in chunks of the rounded up quotient: at most n, perhaps fewer.
Chunks(n) ==
  LET k == IF n > Len(Batch) THEN Len(Batch) ELSE IF n = 0 THEN 1 ELSE n
      size == (Len(Batch) + k - 1) \div k
      last(w) == IF w * size > Len(Batch) THEN Len(Batch) ELSE w * size
  IN [w \in 1 .. ((Len(Batch) + size - 1) \div size) |->
        SubSeq(Batch, (w - 1) * size + 1, last(w))]

BatchInit ==
  /\ Batch # <<>>
  /\ \E n \in MaxWorkers : chunks = Chunks(n)
  /\ workers = [w \in DOMAIN chunks |-> [at |-> "open", i |-> 1, step |-> 1, tries |-> 0, out |-> <<>>]]
  /\ rows = [n \in ToSet(Batch) |-> [s \in Step |-> 0]]
  /\ result = [is |-> "running", out |-> <<>>]

Current(w) == chunks[w][workers[w].i]
----------------------------------------------------------------------------
\* Store::open, outside retry_locked: a locked database ends the worker.
OpenStore(w) ==
  /\ workers[w].at = "open"
  /\ \E opened \in BOOLEAN :
       workers' = [workers EXCEPT ![w].at = IF opened THEN "node" ELSE "failed"]
  /\ UNCHANGED <<chunks, rows, result>>

\* The next obligation of the chunk; one the project does not have gets an
\* outcome and nothing else.
Take(w) ==
  /\ workers[w].at = "node"
  /\ workers' =
       IF workers[w].i > Len(chunks[w]) THEN [workers EXCEPT ![w].at = "done"]
       ELSE IF Current(w) \in Known THEN [workers EXCEPT ![w].at = "commit", ![w].step = 1]
       ELSE [workers EXCEPT ![w].i = @ + 1,
                            ![w].out = Append(@, [node |-> Current(w), ok |-> FALSE])]
  /\ UNCHANGED <<chunks, rows, result>>

\* One of the commits goes through; after the last the obligation is done.
Commit(w) ==
  /\ workers[w].at = "commit"
  /\ rows' = [rows EXCEPT ![Current(w)][workers[w].step] = @ + 1]
  /\ workers' =
       IF workers[w].step < 4 THEN [workers EXCEPT ![w].step = @ + 1]
       ELSE [workers EXCEPT ![w].at = "node", ![w].i = @ + 1, ![w].tries = 0,
                            ![w].out = Append(@, [node |-> Current(w), ok |-> TRUE])]
  /\ UNCHANGED <<chunks, result>>

\* Mutant of Locked: a retry goes on with the next commit.
LockedSkips(w) ==
  /\ workers[w].at = "commit"
  /\ workers' = IF workers[w].tries + 1 = MaxTries THEN [workers EXCEPT ![w].at = "failed"]
                ELSE [workers EXCEPT ![w].step = IF @ < 4 THEN @ + 1 ELSE 4,
                                     ![w].tries = @ + 1]
  /\ UNCHANGED <<chunks, rows, result>>
\* The database is locked: all over again, so many times.
Locked(w) ==
  /\ workers[w].at = "commit"
  /\ workers' = IF workers[w].tries + 1 = MaxTries THEN [workers EXCEPT ![w].at = "failed"]
                ELSE [workers EXCEPT ![w].step = 1, ![w].tries = @ + 1]
  /\ UNCHANGED <<chunks, rows, result>>

Outcomes == [is |-> "ok", out |-> FlattenSeq([w \in DOMAIN workers |-> workers[w].out])]

Ended(w) == workers[w].at \in {"done", "failed"}

\* The scope returns when every thread has ended: an error if one of them has
\* failed, and otherwise the outcomes in the order of the batch.
ReturnBatch ==
  /\ result.is = "running" /\ \A w \in DOMAIN workers : Ended(w)
  /\ result' = IF \E w \in DOMAIN workers : workers[w].at = "failed"
                 THEN [is |-> "error", out |-> <<>>] ELSE Outcomes
  /\ UNCHANGED <<workers, chunks, rows>>

Worker(w) == OpenStore(w) \/ Take(w) \/ Commit(w) \/ Locked(w)

BatchNext == ReturnBatch \/ \E w \in DOMAIN workers : Worker(w)

BatchSpec == BatchInit /\ [][BatchNext]_batchVars
----------------------------------------------------------------------------
(* Properties.                                                             *)

\* A dispatch is on record.  However often the database was locked, a row never
\* lacks the ones that come before it, whatever a retry repeats or a failing
\* worker leaves behind, and a complete set is there at most once; a batch that
\* returns outcomes has one per obligation, in order, and for each that is ok
\* all four rows.
DispatchesAreRecorded ==
  /\ \A n \in ToSet(Batch) :
       /\ \A s \in Step \ {1} : rows[n][s] <= rows[n][s - 1]
       /\ rows[n][4] <= 1
  /\ result.is = "ok" =>
       /\ [i \in DOMAIN result.out |-> result.out[i].node] = Batch
       /\ \A i \in DOMAIN result.out :
            LET o == result.out[i]
            IN (o.ok <=> o.node \in Known) /\ (o.ok => \A s \in Step : rows[o.node][s] > 0)

=============================================================================
