# A verification of Theoremata's proof graph, its gates and its concurrency

Theoremata is a terminal agent for mathematics. It keeps a project's claims as
a directed acyclic graph in SQLite, lets models, provers and people change it,
and must never show a claim as verified that is not. This directory models the
parts of the program that decide that, checks them with TLC on small instances,
and proves the central invariants with TLAPS for instances of every size. Paths
below are relative to the repository; `db.rs` is `components/graph/db.rs`, and
the other short names are unambiguous.

## 1. Inventory

| part | state | operations | talks to |
|---|---|---|---|
| Proof graph store (`components/graph`) | tables nodes (status, taint, formal statement, lemma hints), edges, lemmas, evidence, attempts, runs | add node, add edge, merge, set status, set taint, extract lemma, set formal statement | everything: each process or thread opens a `Store` with a connection of its own |
| Taint and graph algorithms (`reason/critique/taint.rs`) | none | propagate, closures, cycle test | called by the store in and outside transactions |
| Scheduler (`graph/scheduler.rs`) | none | topological levels, open batches, centrality, sibling groups | agent, team |
| Chat approval gate (`reason/orchestration/chat.rs`) | proposals table | file, approve, reject, auto-approve | store; TUI and CLI sessions |
| Prover jobs and attempts (`prover/proof_job.rs`, `attempt_run.rs`, `backends`) | tables proof_jobs and attempt_runs, evidence | submit, poll, cancel, start, result, run to completion, resume | external prover services, the store; agent, CLI |
| Concurrent fan-out (`reason/search/concurrent.rs`) | atomics and a results mutex for one call | `first_success`, `collect_all_results` | search strategies |
| Agent loop (`reason/orchestration/agent.rs`, `proving/router.rs`, `critique/guard.rs`) | sets and counters in memory, one run row | seed, research, passes over a plan, seven routes, certification, hardening, critique | store, scheduler, prover jobs, models, verifiers |
| Team dispatch (`orchestration/team.rs`) | none of its own | threads that each write attempts and evidence, with retries | store, router |
| Live plan, retry policy, proof pool (`orchestration`, `proving`) | in memory; the pool is a table | plan step transitions, backoff, ranking | agent |
| Terminal interface (`app/tui`) | UI state, one worker per turn | turns, slash commands, background actions | store, chat, agent |
| Command line and HTTP API (`app`) | none | one command or request per process or thread | all of the above |
| Checked generation (`reason/proving/formal_generate.rs`, `checker_cache.rs`, `search/sampling.rs`) | one cache per thread, one event per call | best of N, correction rounds, hammer, cache | models, checkers, events |
| Staleness sweep (`proving/staleness_sweep.rs`, `staleness.rs`) | a file of remembered elaborations | collect, skip, replay, elaborate, classify | events, Lean |
| Best-first search (`search/best_first.rs`, `minimize.rs`) | arena, frontier, keys seen, for one call | search, minimise behind a replay | scorers, checkers |
| Graph search driver (`search/driver.rs`) | nodes, sides, edges, for one call | descend, expand, negate, roll out, judge | expanders, negators, provers |
| Forward saturation (`search/inverse_method.rs`, `subsumption.rs`) | stored sequents, given or not, for one call | derive, drop and evict what is subsumed, stop at the goal | command line |
| Other searches and strategies (`reason/search`, `reason/proving`) | in memory | tree search, portfolio, sketches | provers, models |
| Tool processes (`prover/session/exec.rs`, `tools/mod.rs`) | a child, its pipes, reader threads | spawn, drain, kill at a deadline, judge | external compilers, Python workers |
| Warm Lean session (`verify/lean_session.rs`, `lean_repl.py`) | a server, a Lean process, a queue of answers | warm, check, audit, restart, cold fallback | agent, Lean |
| Prover backends (`prover/backends`) | none | compile, audit, recheck | tool processes |
| Python workers, retrieval, evaluation, training | files | offline tools | subprocess calls from Rust |

What is hard here, and to test:

* **Several writers, no locks.** SQLite serialises statements and transactions.
  Many methods are several autocommitted statements, and all callers work on
  copies they read earlier. A TUI, a CLI command, an agent and a team of
  threads can all hold connections to one database.
* **Slow calls in the middle.** A prover answers after minutes, and the row read
  before the call is written back after it.
* **Derived data.** Taint is stored, not computed on demand, and is right only
  if every mutation recomputes it, in the same transaction.
* **Crashes.** Any process may be killed between two commits.
* **Shared-memory threads** with an early exit that has to give the same answer
  as a sequential loop.
* **Bounded effort.** Passes, attempts, polls, gate rounds and a loop detector
  each bound the work, and overlap.
* **A world that moves.** The proof library is updated or rolled back under
  caches, labels and remembered answers.
* **Programs nobody controls.** A checker hangs, floods its pipe, dies, or leaves
  a process behind that holds the pipe.

What makes each part correct: the graph stays acyclic and no node that leans on
a rejected, blocked or admitted one looks clean (store, taint); models never
certify, a recorded verdict matches what was done (chat);
no result without provenance, settled attempts stay settled, commands end
(jobs); the answer of the sequential loop under every schedule (fan-out);
certificates only for sources that passed the gate, honest counts, no work on a
refuted branch, runs that end (agent); verdicts that are the gate's and labels
that name the library they were earned in (generation, sweep); emitted lines
that are proofs, verdicts with a line of tactics behind them, hits that are
derivable and searches that miss nothing (searches); complete rows for a dispatch
that is reported (team);
one turn at a time that gives the prompt back (terminal); success only from a
child that ended by itself, verdicts on the source that was sent (tools).
`PROJECT.json` lists each hazard with its
line and the properties that would catch it.

## 2. Modules

```
Taint            pure operators of taint.rs, the value sets of model.rs
 '- ProofGraph       the store, one action per committed call
      |- ProofGraphProofs   type, acyclicity, taint               (TLAPS)
      |- StoreRaces         several connections, calls split at their commits
      |- Proposals          the approval gate on top of the graph
      |    '- StoreWritersProofs   the gate, StoreRaces and Team    (TLAPS);
      |                     MCStoreWriters runs the three in one instance
      '- AgentLoop          solve phase of the agent, on an INSTANCE of it
           '- AgentLoopProofs   certificates, counts, plans, the
                            refinement of CertifiedClaims         (TLAPS)
CertifiedClaims  what a run of the agent owes the claims: what AgentLoop implements
ProofJobs        job and attempt tables, one process per command
 '- ProverProofs     it, ToolCall and WarmLean                  (TLAPS);
                     MCProvers runs the three in one instance
SequentialFirst  the sequential first-success loop: what is promised
 '- FirstSuccess     the thread pool that implements it
      '- FirstSuccessProofs  the refinement                       (TLAPS)
CheckedRuns      calls of generate_and_verify, cache, moving library
 '- StalenessSweep   sweeps over what the calls filed
      '- StalenessSweepProofs  both: verdicts, labels, census     (TLAPS)
BestFirst        search and minimisation behind a replay
SearchDriver     graph search with a negator
Subsumption      canonical literals, and the equivalence they stand for
 '- Calculus         sequents, rules, subsumption
      '- InverseMethod   forward saturation; MCSearches runs it, BestFirst and
           |              SearchDriver in one instance
           '- SearchProofs   the three searches, canonical forms  (TLAPS)
Team             one batch on its threads
Cockpit          main loop and workers of the terminal
 '- CockpitProofs    one worker, interrupts                     (TLAPS)
WarmLean         the Lean server and its client
ToolCall         one process per call
MC*              model values, small sets and settings for TLC
```

Conventions. An action is one commit; in `StoreRaces` also one read between commits, in
`FirstSuccess` one atomic instruction. In `ProofGraph` the two calls that open no
transaction, `set_taint` and `extract_lemma`, are one action each, because nobody else
runs there; `StoreRaces` takes them apart. A call that returns `Err` and rolls back is a
stuttering step. Rows that only record what happened (events, most evidence, traces) are left
out, and so are texts, hashes and timestamps. An operator whose comment begins
with "Mutant of" is a plausible bug: it takes no part in the specification.
Where one module covers several situations (who is at work, what may go wrong),
a variable `setting` is chosen in the initial state and never changes. It lets
one run cover all of them, and lets a property say in which of them it holds.

**Taint.** `propagate` and `dependency_closure` are worklist loops. The models
say what the loops compute, the least set that contains the seeds and is closed
under the edges, as an intersection of closed sets. That keeps recursion out of
every module with a theorem and gives the proofs their induction principle.
`has_cycle` is a set in which every node has a successor.

**ProofGraph.** State: `nodes`, `status`, `taint`, `edges`, `lemmas`, the tables
of those names. `AddEdge` is `add_edge_scoped` with the self-edge test, foreign
keys, uniqueness, cycle check and the recomputation of taint inside its
transaction. `MergeNodes` is all or nothing. `SetNodeStatus` recomputes only for
Rejected and Blocked, as the code does. `SetTaint` and `ExtractLemma` run alone
here.

**StoreRaces.** The two calls without a transaction, statement by statement, on several
connections, next to the transactional calls: `set_taint` is its own UPDATE, the read of
the nodes, the read of the edges, and one UPDATE for each row that was read
(`db.rs:1534-1543`), in any order; the code's is that of creation times. Between any two of them others
run, the process dies, or the statement fails. The variable `overtaken` is a history: it
tells the recomputations during which another connection changed a table.

**Proposals.** `approve` is read-and-test, apply, resolve: three steps of a
session. `resolve_auto_approvals` runs it over a snapshot of the queue and stops
at the first error. Mutations are the real `ProofGraph` actions. The variable
`applied` is a ghost.

**ProofJobs.** An attempt and its job share a name. A process has a program
counter and copies of the rows it read. The service answers whenever it likes,
with any answer, or with an error. Writes are whole-row and unconditional, as in
`update_proof_job` and `update_attempt_run`.

**SequentialFirst, FirstSuccess.** A task succeeds, fails, panics, hangs, or
returns a value on which the caller's predicate panics. `FirstSuccess` has one
action per atomic operation of a worker: `fetch_add`, the test against `best`,
the task, `fetch_min`, the store under the mutex, and the join of the scope.

**CertifiedClaims.** A claim is absent, open, certified or withdrawn, and has a stored
source. It is certified only while the source is a proof, which is then never replaced;
the run takes a certificate back only while it tests it; it reports once, truly, with no
test pending. `AgentLoop` implements it with one agent: `Life` reads the statuses,
`OnTrial` the node being hardened, `Reports` the row of the run. Passes, copies, routes,
the gate and the verifier's errors are stuttering steps. Where other sessions decide too
(`contested`), the report may be false, and a withdrawn claim may be certified from an
old copy. `CertificateIsOfStoredSource` follows from it.

**AgentLoop.** State: the graph (an instance of `ProofGraph` without lemmas), the
stored formal statement, lemma hints and attempt counts of each node, and for
each agent its memory over the run (`mem`), the copy its pass works on (`snap`)
and what it does with the node in hand (`work`). Each action corresponds to the
work up to the next commit. Lean sources are `proof` or `junk`. The verifier may
refuse a proof in any round and may pass junk, though never K rounds in a row:
the gate cannot be right without that assumption. A source in which the audited name
does not denote the theorem (run `unlisted_axioms`) makes it err in every round: there
`proof` means no more than what passes the gate. A counterexample is remembered for
the run: a node that another session proposes again is escalated, by the router's third
rule. Init is the project after
seeding and research, with nodes the user may have given a wrong formal
statement.

**CheckedRuns.** One thread's calls: best of N, correction rounds, hammer, the
cache, and the event that records the verdict. The library is a revision that
others change or make unreadable at any step. `Gate` says what the live checker
answers for a statement, a source and a revision. A candidate carries as a ghost,
`earned`, the revision it was checked in; the code stores only the fingerprint
it resolved at the start. One thread is enough: the cache is thread-local.

**StalenessSweep.** A sweep beside those calls: the newest events up to the
limit, the latest verdict of each statement, the skip gates, the remembered
answers, the bound, Lean, the classification, the file. A sweep may be killed.
`filed` holds the events that carry the sweep's project; where they come from
is left open, since the generator's carry none (run `lost_provenance`).

**SearchDriver.** `run_attempt`: a descent edge by edge, the expansion under width
and node caps, the flag of the disproof side, a rollout, the judgement of its
end. A world says what expander and negator do. Scores, priors and critics only
choose among edges and candidates: the model takes any. A rollout may follow any
line, however long, so the model has every verdict of the code and some more.

**BestFirst.** A world gives each state its tactics, its key and whether it is
closed. The order of the frontier is arbitrary, so every scorer is covered. A
key may take two states for one. Minimisation works on the graph of keys and
emits a line only if it replays.

**Subsumption, Calculus, InverseMethod.** A literal is a sequence of parts, each a
predicate with the names it binds and the names it is about. `Canonical` renames
as `canonical_literal` does, by name and not by scope, and `AlphaEquivalent` is
what that stands for. The place of a bound name is how many names are bound no later than it (`Place`),
a count that stands for the loop's next free index. A sequent's literals are taken
as written, and compared by `Form`. `InverseMethod` is `saturate` under the rules `RuleSpec` can express: one
action per sequent that `add` looks at, per given sequent, focus round and
synchronous pass. What a rule set emits is added in any order, and ties of
`order_key` beyond the number of hypotheses are left open, because they depend on
the text.

**Team.** One action per commit of a dispatch: the attempt, its event, the
evidence, its event. Each may find the database locked, and then `retry_locked`
repeats them all.

**Cockpit.** The main loop drains its mailbox, then takes one key. The worker of
a turn opens a store, polls the flag, streams, acts, and ends with a message.
Stores may fail to open and workers may panic.

**WarmLean.** The agent's `verify_source`, the server's `serve` and `check`, and the
Lean processes with their readers and pipes. Lean hangs or dies at any point.
An answer carries the command it belongs to as a ghost; the code sees none. Lean
audits the name that `extract_theorem` reads in the source, the bare name of its first
theorem. In the sources of `Named` it denotes that theorem; in the others, a theorem in a
namespace for one, the audit is answered by an error, which has no list, or by the axioms
of another declaration (`NamesOthers`). Without a REPL a request is a compilation of its
own: it ends in time, or it expires and either ends at the kill or, where Lean outlives
lake, waits for the pipe (`CompileExpires`, `HeirEnds`). A source fits the pipe to the
REPL, so that sending never blocks, and `LeanSession::start`, whose own first request
could hang in the same way, is over at the start.

**ToolCall.** `spawn_with`, `PythonCheck::run` and `LeanCheck::run`, chosen by
`kind`: a pipe of bounded size, a reader, a deadline, a child, and a descendant
that may hold the pipe.

## 3. Runs

All passing runs explore the complete state space of their instance.

| run | instance | asks |
|---|---|---|
| `proof_graph` | 3 nodes (one an assumption), 2 edge kinds, 3 statuses, 1 lemma; about 340 000 states | Do all sequences of calls keep the graph acyclic (`Acyclic`) and the taint sound (`TaintSound`)? Are labels stale only after a bad status is lifted (`ExactLostOnlyByRevival`)? Do admitted gaps keep their mark (`AdmittedIsSticky`)? Does a lemma extracted as clean rest on nothing bad, also along taint-carrying edges outside the closure that was examined (`CleanLemmaHasCleanBasis`)? |
| `store_writers` | 4 proposals with two sessions that may die, or one that does not; or 2 nodes and 2 connections; or a batch of 3 obligations, one unknown, 1 to 3 threads, 3 tries; about 1 973 000 states | Does no path let a model certify (`NoModelCertificate`)? Was what is approved applied (`ApprovedWasApplied`), and is the graph exactly what was approved when one session lives through (`GraphMatchesVerdicts`)? After stale, dead or half-finished `set_taint` calls, does the next complete recomputation make every label sound, and is it only a `set_taint` on its way that unsettles sound labels (`RecomputingHeals`)? Does an outcome of the team that is ok have all its rows, in order, and does a retry repeat whole prefixes only (`DispatchesAreRecorded`)? |
| `provers` | 2 requests of 4 sources on 3 processes, with and without a REPL; or one call of each kind with a pipe of 2 and output of 5; or 1 attempt with 2 processes, crashes and a busy database, or with 1 process, with and without crashes, at most 2 polls; about 129 000 states | Is a verdict Lean's on the source that was sent (`VerdictsAreLeans`), is every request answered unless an outliving Lean holds the pipe (`RequestsAnswered`)? Is success the child's own exit (`SuccessIsOwnExit`), output whole or marked (`UnmarkedOutputIsAll`), and a call held up by nothing but the named blocks (`OnlyHeldUp`)? Is provenance filed before results (`ResultHasEvidence`), does a settled attempt stay settled (`AttemptNeverRestarts`), does every command end (`CommandsEnd`)? For one process also `VerdictsAreFinal` and `SettledRunHasSettledJob` |
| `agent_loop` | 5 projects of at most 3 nodes, 3 passes (the default of `max_iterations`), K = 2, hardening on; one agent, one agent beside other sessions, two agents on one obligation; about 61 500 states | Does a single agent do to the claims only what `CertifiedClaims` allows (`AgentKeepsClaims`, the refinement)? Is the count that of the graph (`CountMatchesGraph`)? Does the next plan leave a refuted branch (`PlanLeavesRefutedBranch`), and does every run end (`RunEnds`)? |
| `first_success` | 3 tasks of all five behaviours, 3 workers | `SameAsSequential` (the refinement), `CallReturns` |
| `staleness_sweep` | 2 statements, 2 sources, 2 revisions, workloads of up to 3 calls and updates together, at most 3 events; about 613 000 states | Are cached, held and filed verdicts the gate's (`VerdictsAreTheGates`) and their labels true (`LabelsTrue`)? Is the census right in a library that stays (`CensusIsTrue`), and the memory file right across sweeps, updates and rollbacks (`MemoIsTrue`)? |
| `cockpit` | 2 turns, 2 rounds, 2 interrupts, every set of faults; about 691 000 states | Is one worker at work at a time (`OneWorkerInFlight`), does an interrupted turn start no further round (`InterruptIsHonoured`), does every turn give the prompt back (`TurnsEnd`)? |
| `searches` | the driver on a goal, a subgoal, their negations and a proof, every way tactics lead between them, budgets of 0 and 4; or best-first search on 4 states, 2 tactics, all ways they can lead, 3 key functions, budgets 1 and 4; or saturation from 1 or 2 axioms with 2 rules over 7 sequents, 3 goals, 4 limits; about 234 000 states | Has every verdict of the driver a line of tactics behind it, although the two sides share nodes (`VerdictHasLine`)? Is what best-first search emits a proof (`KeptIsAProof`), and is there none when it is exhausted (`ExhaustedIsRight`)? Is what saturation stores and hits derivable (`HitIsDerivable`), does a hit prove the goal itself where names are used with care (`WellNamedHitIsGenuine`), and did a saturated search miss nothing (`SaturatedIsRight`)? |

Four runs end in a violation of what a comment of the repository says.
`lost_provenance`: `generate_and_verify` files `formal_generate.completed` without
a project (`formal_generate.rs:485`), and the sweep reads the events of one
project (`db.rs:817`), so `GeneratedIsSwept`, the documentation at
`staleness_sweep.rs:13-18`, does not hold. `false_refutation`: the driver negates
every state of the proof side (`driver.rs:617`), and a disproof anywhere sets
`refuted` (`driver.rs:669`), which its documentation (`driver.rs:124`) explains as
"the goal is false". In the trace a tactic leads from the goal to a false
subgoal, whose negation closes; another tactic, known but not yet followed, proves
the goal.
`VerdictHasLine` says what a refutation does mean. `false_hit`:
`canonical_literal` renames a name that a literal binds anywhere wherever it
stands (`subsumption.rs:233`), and a free `v0` reads like a canonical name, so
`(∀ y, Q y) → R y` and `(∀ x, Q x) → R x` are one literal to `subsumes`, and so are
`∀ x, S x x` and `∀ x, S x v0`. From the one as an axiom, `saturate` derives the other
as its goal, although `inverse_method.rs:30-33` says that it reports only what a
derived clause "genuinely subsumes". `WellNamedHitIsGenuine` says when that is true.
`unlisted_axioms`: `_parse_axiom_names` returns an empty list for every answer without a
bracketed list (`lean_repl.py:502`), an error such as "unknown constant" included, and no
axioms are clean (`lean_repl.py:573`). The agent audits the bare first name of a source
(`agent.rs:1948-1964`), which a namespace keeps from resolving. In the trace such a theorem
rests on a gap, compiles, is audited, and is reported clean, although
`lean_session.rs:205-207` says that its axioms are "checked against the allowlist and
reported as `axioms_clean`". The cold audit calls the same answer not clean
(`axioms.py:145-158`). `VerdictsAreLeans` says what a verdict does mean.

### Observations

Met while modelling, and excluded or left open by the properties above. Some are
at odds with a comment.

* Store. A status that leaves rejected is committed with stale taint, although
  `db.rs:510-512` says an observer never sees that; the labels err on the safe
  side (`ExactLostOnlyByRevival`). `extract_lemma` reads nodes, then edges: a
  dependency inserted in between is in the closure but not in the map, and is
  passed over (`db.rs:1652`). A recomputation outside a transaction writes labels row by
  row from what it read earlier: until the next complete one, a row that another
  connection has poisoned meanwhile may be clean, or an admitted mark be lost. Only
  tests call `set_taint`.
* Approvals. Another session may resolve a proposal between `approve`'s test and
  its application, and the mutation is applied all the same, also after a rejection:
  `ApprovedWasApplied` speaks of what is recorded as approved only. One low-risk
  proposal that cannot be applied (an edge that would close a cycle) ends
  `resolve_auto_approvals` with an error on every turn; those behind it wait. A
  crash between applying an `add_node` and recording the verdict makes the next
  approval add the node again.
* Jobs. A poll that read the job before it was cancelled writes its copy back
  when the service answers: the job is in progress again, or a verdict overwritten. The
  code takes no lock; `VerdictsAreFinal` speaks of one process at a time. A cancellation
  that finds the database busy leaves the job open under a cancelled attempt, because its
  error is ignored (`attempt_run.rs:109`); `SettledRunHasSettledJob` leaves it out.
* Fan-out. `first_success` waits for a dominated task that was started
  (`concurrent.rs:247` says it does not), for ever if it never returns.
* Agent. The loop guard sees titles: of three obligations with one title the
  third is blocked in the first pass. A pass works on the copy it read at its
  start, so a lemma is still certified after the agent's own falsifier refuted
  what it rests on; the next pass stops. Of two agents on one project the second
  may replace a source between the gate and the certificate of the first, so
  `CertificateIsOfStoredSource` and `AgentKeepsClaims` speak of one.
* Team. An obligation the project does not have gets an outcome without any row
  (`team.rs:38` says every node gets both rows), and a retry repeats the attempt
  row, which counts against the agent's budget.
* Terminal. A worker that cannot open its store says `Failed` and then `TurnDone`.
  A turn submitted between the two is ended by the second: its worker goes on
  unseen, its flag is lowered, and another turn can start. A worker that panics
  leaves the prompt busy for good.
* Warm session. Without a REPL, and when the audit of a theorem times out, no
  axioms were read, and `_parse_axiom_names(None)` makes that clean too
  (`lean_repl.py:493`, `573`); the cold path calls such a source not clean. After the
  kill of a compilation, `communicate` reads without a deadline (`lean_repl.py:383`): a
  Lean that outlives lake holds the pipe, and with it the server, whose client reads its
  line without a deadline as well. When
  `check` restarts the process of a session object, the old reader still puts its
  end of file on the new queue, and the request is answered by it.
  `LeanSession::start` looks for a directory `python` that the repository no longer
  has, so from its root the agent always works cold.
* Tools. `tools/mod.rs:30` wants "never returns" made impossible and `:281` says the
  kill guarantees that the pipes close. Neither holds when a descendant holds the
  pipe or the input is not read. `LeanCheck::run` has no deadline, and caches
  failures. `spawn_with` returns a placeholder for output it could have had when a
  descendant keeps the pipe open beyond the grace period, marked as capped.
* Driver. `rounds.max(1)` runs one round on an exhausted budget. With AND/OR
  selection a single closed subgoal still counts as the whole goal solved
  (`driver.rs:666`).
* Saturation. A rule's trigger is compared as the caller wrote it with the
  conclusion's canonical text (`inverse_method.rs:601`), so `P(x)`, which the
  canonical form spells `P ( x )`, never fires a rule, nor does a trigger with a
  bound name that is not canonical, although `:536` says "when a known clause has
  conclusion `trigger`". A sequent dropped because `max_clauses` is reached leaves
  the outcome "saturated" (`:684`); `SaturatedIsRight` speaks of searches that dropped
  none. The derivation names the given sequent as the only premise of what its
  macro-step emitted, also where another fired the rule.
* Search. A closed state on the frontier is returned after the budget is spent
  only when it is popped first (`best_first.rs:621` promises more).

### Bounds, and why they are enough

* Three nodes are the least number with a chain, a diamond-free fork and a cycle
  longer than two. The theorems of section 5 lift the bound for `Acyclic` and
  `TaintSound`. Two edge kinds are the two the code tells apart: taint-carrying
  and in the extraction closure, and taint-carrying only. A kind that carries
  no taint only adds cycles, which the chosen kinds form too. `StoreRaces` needs
  two nodes, one to mark and one to depend on it; only pairs of calls race.
* Statuses are one per class that the code distinguishes: open, bad, verified.
* `MaxLemmas` bounds the lemma table, which is never read again. `MaxPolls`,
  `MaxAttempts` and K are constants of the code's configuration. Rows of two
  attempts never touch, so one attempt stands for all. `MaxVerdicts` bounds how
  often other sessions interfere with an agent. `evidence` and `applied` count
  up to 2, "more than once".
* Three workers on three tasks let one worker overtake two others. The proof
  lifts this bound too.
* The loop guard's window of 64 observations is never left on these instances:
  `GuardAssumption` says so, and TLC evaluates it.
* Two statements, sources and revisions are the least for a cache hit of the wrong
  statement, source or library. `Workload` bounds calls and updates, `MaxFiled` and
  `Limit` the events, `MaxReelaborations = 1` makes the bound bite with two records.
* A pipe of 2 and output of 5 fill the pipe twice and pass the cap. `MaxProcs = 3`
  allows a restart inside a request after a replacement before it.
* Two turns are one that ends late and one that suffers from it. The cap of 4
  rounds is 2 here; 3 tries stand for 200.
* A goal, a subgoal, both negations and one closed state are the least on which
  the sides can share a node, a subgoal be false, and a cap of 2 nodes cut the
  negation off; four rounds reach every expansion of the disproof side but one.
  Section 5 lifts these bounds.
* For saturation, the rules emit a sequent that is new, one that is subsumed, and one
  that subsumes what triggered the rule, in both orders and both phases; a store of
  two and a single step make the limits bite. Sequents over two predicates and a
  bound name under two names show renaming; section 5 lifts the bound on the search.
* Two states under one key and three lines to a state show every merge the guard
  can make; a larger world repeats them.
* Symmetry is used for interchangeable nodes and connections only, in runs
  without liveness properties.

### Fairness

`CommandsEnd` assumes that a started process is scheduled and that the service
answers, one way or another: every call to it is a subprocess or request whose
failure is an answer too. It does not assume that a job ever ends. `CallReturns`
assumes that threads are scheduled and that the caller waits in the join; it
speaks of tasks that do not hang. `RunEnds` assumes that an agent keeps
executing: its loop has no wait other than calls that return. `TurnsEnd`
assumes that the main loop runs (it polls for 50 ms and never blocks) and that a worker's calls return. `RequestsAnswered` assumes the
server alone, whose deadlines pass, not Lean nor the readers: a reader that gets nothing
is a time-out. It excepts the compilation whose pipe an outliving Lean holds; in that case
the agent's call does not return either, so `RunEnds` speaks of runs without it.
`OnlyHeldUp` assumes the caller, the readers and the clock, not the child. The sweep, the searches and the team state safety only. Crashes, further
commands and the interference of others are never fair. No run assumes strong
fairness.

## 4. What each property would catch

Every property of a passing run has a mutant in `PROJECT.json`: a change to one
definition that a plausible bug would make (a recomputation left out, a cycle
test over one edge kind only, a retry that goes on where it failed, a missing
exit code read as zero, a source certified but not stored), under which TLC
reports the property violated in the same instance. Each module states its type
invariant; the runs check that of the graph, and section 5 proves all of them,
of the agent and the sweep only for the fields that the proofs need.

## 5. Proofs

The theorems hold for every value of the constants. Assumptions: `GraphAssumption`
(the sets of kinds and statuses are subsets of the code's), `RunAssumption` (the
gate answers for every triple, budgets are numbers), `TasksAssumption`
and `PoolAssumption` (a number of tasks, some worker), `JobsAssumption` (the
operations are the code's, faults are crashes and a busy database),
`DriverAssumption` (a world maps states to states, limits are numbers),
`BestFirstAssumption` (a world maps a state and one of finitely many tactics to a
state or a failure), `CalculusAssumption` (sequents are made of literals, problems of sequents and rules,
canonical names are different and enough), `TeamAssumption` (an obligation is in a
batch once, a transaction is tried at least once), `ToolAssumption` (pipe, cap and
writes are numbers), `SourceAssumption` (what Lean allows it accepts, a process can
be started), `ProposalAssumption` (mutations are of the gate's types), `AgentAssumption` (projects start as graphs without a cycle, every route
may be tried once), `SweepAssumption` (what is on file at the start was filed with a
true label; pins and elaborations are functions), `CockpitAssumption` (turns are
numbered from 1, rounds and mail are bounded by some number). TLC evaluates each of
them on the instance of a run.

* **ProofGraphProofs**: `TypeCorrect`, `GraphAcyclic`, `TaintNeverMissing`. The
  inductive invariant is `IInv == TypeOK /\ FreshIds /\ NoCycle /\ TaintSound`.
  `TaintSound` is not inductive alone: that a fresh node cannot sit below an
  edge or carry a label needs `FreshIds` (an id without a row has the inserted
  defaults and no edge), and the new edges of a merge are sound only because the
  labels are computed again (`RecomputedSound`). `NoCycle` is the code's own test
  as a state predicate. `FreshNodeNoCycle` carries it over `AddNode`, and
  `NoCycleNoLoop` turns it into `Acyclic`, which is stated on the closure that
  the scheduler and `extract_lemma` walk. Three action properties follow from
  the same invariant. `GapsStayMarked`: only `set_taint` on the node itself takes
  an admitted mark away. `CleanLemmasAreClean`: under `TaintSound` the clean nodes
  are closed under taint-carrying edges (`CleanAllTheWayDown`), so a lemma whose
  root is clean rests on clean nodes, those the extraction never looked at
  included. `StaleOnlyAfterRevival`: `recompute_taint` reads of the old labels
  only the admitted marks (`RecomputedSame`), so a second run changes nothing
  (`RecomputedTwice`), a fresh node disturbs nobody (`RecomputedFreshNode`), and
  only a status that leaves rejected or blocked can make exact labels stale.
  Behind them are lemmas about `Taint`: a closure contains its seeds and is closed
  (`DependentsClosed`, `ClosureClosed`), a member other than the root is reached
  through a first edge (`ClosureStep`), no cycle means no loop (`NoCycleNoLoop`).
* **StoreWritersProofs**, the gate: `ModelsCertifyNothing`, `NothingApprovedUnapplied`,
  `SoloGateIsExact`, and `GateImplementsStore`: every step of the gate is a step of
  `ProofGraph` or leaves it alone (`MutationIsStoreCall`), so acyclicity and taint hold
  behind it. `ApprovedWasApplied` needs that a session about to write "approved" has
  applied what it holds (`Applied`). `GraphMatchesVerdicts` holds of a single session
  between its calls only. Its strengthening `SoloInv` speaks of the middle of a call: a
  proposal in hand is still pending, and applied once if its verdict is about to be
  written (`Matching`).
  The connections: `RacesKeepTables` and `RecomputingHealsLabels`, for any nodes, labels
  and number of connections. Labels are not sound here, so the invariant of the store
  does not hold. What is left of it is `Tables` (its rows without its labels), which every
  transaction keeps for itself (`AddEdgeKeeps` and its like in `ProofGraphProofs`), and
  `Remembers`: a connection in the middle of a call writes rows that are still there,
  because none is deleted. `RecomputedSound` then gives sound labels after any transaction
  that recomputes, whatever it found. For `set_taint` the loop over the rows must be
  followed: `UpToDate` says, of a recomputation nobody has overtaken, that what it read is
  still so, or that the labels it has computed are sound for the tables as they are and
  stand in the rows it has written, so that the last row completes them (`ReadNodesHolds`,
  `ReadEdgesHolds`, `WriteRowHolds`, `LastRowHeals`).
  Team: `DispatchesAlwaysRecorded`, for any batch, project, number of threads and of
  tries. Threads share the table, so the invariant `BatchInv` must know that they never
  write the same rows: the chunks cut the batch at rising places (`Partitioned`,
  `ChunksPartition`), whence no obligation is in two (`ChunksDisjoint`), none is left out
  (`ChunksCover`), and the outcomes of the threads, put together as the code does, are in
  the order of the batch (`PiecesJoin`, `OutcomesReport`). `Recorded` is what one thread
  has on file: four rows each for what it has passed, for the obligation in hand the
  earlier commits once more than the later ones, nothing for the rest.
* **AgentLoopProofs**: `CertificatesAreGenuine`, `ReportMatchesGraph`,
  `NothingRefutedIsDispatched`, for any projects, router tables, failures, attempts and
  K, and `AgentImplementsStore` as for the gate, however many agents there are. The
  invariant of the store is taken from `ProofGraphProofs` by INSTANCE. What makes a
  certificate genuine is spread over several commits. `Cert` follows the source: the
  copy of a pass agrees with the stored column except for the node at the gate; what is
  in hand at the gate is what is stored; a source that is no proof never has a streak of
  K. `Tally` ties the count to the graph: a node still to be dispatched is not verified,
  so neither a block nor a refutation lowers the number of certificates behind the
  counter's back, and hardening keeps its node verified until it takes both back.
  `AgentImplementsClaims`: a single agent refines `CertifiedClaims`. The mapping needs
  one invariant more, `Kept`: a run has no report before its end, what is about to be
  stored is a source, and undisturbed, no node still to be dispatched was withdrawn.
  Each action of the agent is then a stuttering step (the lemmas `...Unseen`) or one
  abstract action (`PoseSeen`, `RewriteSeen`, `CertifySeen`, `WithdrawSeen`, `HardenSeen`,
  `ReportSeen`, `StopSeen`, `OverruleSeen`); that the report is true is `CountMatchesGraph`.
* **FirstSuccessProofs**: `SkipsAlwaysDominated` and `ConcurrentIsSequential`:
  the pool refines the sequential loop for any number of tasks and workers. Its
  invariant needs `Accounted`: an index that was handed out is in a worker's
  hand, or stored, or above a known success, or failed, unless a worker died of
  the predicate. When all workers have left, `JoinAnswers` concludes that the
  least stored index is the sequential answer.
* **ProverProofs**, the jobs: `JobsTypeCorrect`, `ProvenanceFirst`, `VerdictsAreAnswers`
  and `NoRestart`, for any number of attempts and processes, any faults and any
  bound on polls (`JobsAssumption`). Writers overwrite rows with copies read long
  before, so the invariant must speak of what every process remembers: `Fits` says
  that the attempt a copy belongs to still exists, that an attempt to be created
  does not, and that a copy of a job with a result or a verdict is *witnessed*, its
  provenance is on file by now. `Row` is the same of the rows, and `OneStarter`
  keeps a second `start` from another's attempt. `MemoryStep` and `RowStep` reduce
  each action to its own row and its own process. `NoJobLeftBehind` and `FinalVerdicts`
  are about one process at a time, and rest on `Lone`: the rows a process read are still
  so when it writes, it settles an attempt only after its job, and a process that died
  leaves nobody with old copies. A cancellation on a busy database is the exception, as
  in the property.
  Tools: `SuccessIsAlwaysOwnExit` and `UnmarkedOutputIsComplete`, for any pipe, cap and
  number of writes. `OutputInv` says where output is: what the reader kept and what is in
  the pipe are all that was written, unless something was cut; and once the reader is done
  the pipe is empty and nobody holds it, so nothing can come later. `CallerInv` says
  what the caller knows at each stage; at the end, unmarked output is that of a reader that
  was done.
  Warm session: `VerdictsAreAlwaysLeans`, for any sources, requests and processes. Answers
  carry no name, so that the next one belongs to what was sent last is a fact about the
  whole channel. `Orderly` states it while no process was restarted inside a request:
  whenever the server waits, one command is under way, between the process's input and
  the queue or lost with the process (`Waiting`), and none when it does not (`Quiet`).
  A timeout breaks this, and is why the code kills the process. What an audit says of the
  axioms is tied to the source by `Named` only. In `WarmInv` all of it is
  conditional on `torn`, for the restart inside a request really spoils it (see the
  observations).
* **StalenessSweepProofs**, the calls: `RunTypesHold`, `VerdictsAreReal`, `LabelsAreTrue` and
  `PassIsLast`, for any goals, sources, revisions, budgets and updates. `LabelsTrue` is
  not inductive: what a call holds must be tied to the environment it resolved.
  `SeenBy` says of a candidate in hand that its verdict is the gate's in the
  revision it was earned in, and that, while no call was disturbed, this is the
  environment of the call. `RunGood` adds that a call at work holds no accepted
  candidate and that an undisturbed call with a resolved environment has the
  installed one. `CheckedIsSeen` covers the live check and the cache hit alike.
  The sweeps: `CensusTellsTheTruth`, `MemoryTellsTheTruth`, `CallsAreUndisturbed`, for any
  pins, elaborations, history and limits. A sweep reads the library once and the file
  once; `SweepGood` says what it holds since: the records it gathered are accepted and
  truly labelled, the library it named is the installed one, and each answer, new or
  remembered, is Lean's on the form that the record pins there. `Sound` says of a memory,
  on disk or in hand, that each answer is Lean's in the library of its key, which is why
  updates and rollbacks between sweeps do no harm. All of it is conditional on the
  ghosts `moved` and `shifted`: a library that changes under a call or a sweep spoils
  labels and answers from then on, and the proofs show that nothing else does.
* **SearchProofs**, the driver: `VerdictsHaveLines`, for any states, tactics, negator and
  limits. A node changes sides when the disproof side finds it, so being flagged
  says little about how it was first reached. The inductive invariant is
  `Sides`: a state that is not flagged is led to from the root, a flagged one from
  the negation of such a state (`Denied`). `FromStep` and `FromJoin` take it over an
  expansion, `JudgeSound` from a closed leaf or rollout to the verdict, and
  `Undecided` (no verdict while a round is open) gives that it is never both.
  Canonical forms: `CanonicalFormsAreFaithful`, for literals of any length over any
  names. That literals of one form are equivalent where names are used with care needs
  that different bound names get different places (`PlacesDiffer`): every bound name has
  a first spot (`FirstSpot`, from `LeastNatural`), so of two names one is bound before
  the other (`NamesInOrder`), and the count of names that come no later tells them
  apart. With `BinderUnique`, a name then belongs to the same binder before and after.
  `HitsAreGenuine` combines this with what follows.
  Saturation: `SaturationInvariant`, `HitsAreDerivable` and
  `SaturationIsRight`, for any literals, rules, limits and renaming. That a saturated
  search is complete is not inductive: sequents that fired a rule are evicted later,
  and what a macro-step emits is passive when it is chained. `NothingLost` speaks of
  the present only: while no sequent was dropped for want of room, every axiom, and
  whatever a rule emits that some *active* sequent triggers, is subsumed by a stored
  sequent or waits in `todo`, unless the rule's turn in this step is still to come
  (`Postponed`). An eviction keeps that: what evicts a sequent has its conclusion, is
  passive, and brings the rule back when it is given.
  At the end what the stored sequents subsume is a set that holds the axioms and is
  closed under the rules, hence contains all that is derivable; a derivable sequent
  that subsumed the goal would be subsumed by a stored one, which would be a hit.
  Best-first search: `EmittedIsAProof` and `ExhaustionIsRight`, for any worlds, keys,
  orders of the frontier, answers of the gate and budgets. `BestInv` says that a node of
  the arena is what a tactic makes of an older one (`Placed`), and that a node off the
  frontier has a key that was seen, of a node whose children are all in the arena
  (`OffFrontier`). When the frontier is empty and keys tell states apart, the states in
  the arena are then closed under the tactics. For the proof that is emitted, `PathTo`,
  the replay and the walk on merged keys must be unfolded: a least bad point shows that
  each recursive function exists (`PathUnfolds`, `Stepwise`). Then the found line
  replays (`FoundIsAProof`) and closes the merged graph too, so the shortest line
  that closes it exists and is no longer (`ShortestAreShort`); the gate refuses it when
  it does not replay.
* **CockpitProofs**: `OneWriter`, `InterruptsReachTheirTurn`, for any number of turns,
  rounds, mail and keys and any faults but a store that does not open, for which both
  fail (see the observations). The prompt knows of a worker only what has been read from
  the mailbox, which may lag behind. `Handover` links them: at most one worker is in
  flight or one word that ends a turn is in the mail, never both, and a free prompt means
  neither. `FlagUp` says that an interrupted worker still in flight finds the flag up,
  because only the end of a turn lowers it and there is no other turn. `CockpitTypes`
  includes that a worker at its poll has rounds left.

Only model-checked: the violations, and all liveness (`CommandsEnd`, `CallReturns`,
`RunEnds`, `TurnsEnd`, `RequestsAnswered`, `OnlyHeldUp`); every safety property of a passing
run is a theorem. Liveness under fairness is out of the prover's reach here. So are the
library's induction theorems; where a proof needs induction, a least number does
(`LeastNatural`), or a least closed set. That the worklist loops compute the latter is
the modelling step of `Taint`, not a theorem.

## 6. Not modelled, and why

* Store: edge scopes and strengths, content hashes, the library, pool and trace
  tables. `widen_edge_scope` is a read-modify-write without a transaction; only a
  test calls it.
* Jobs: the resume machine for sparse polls, which only tests call, and everything
  inside a backend.
* Saturation: `focus` as a public function, which repeats the macro-step; rules other
  than `RuleSpec`, which no caller in the repository supplies outside tests; parsing,
  the derivation witness, the evidence row.
* Driver: visit counts and the distilled policy, which are reports, and how a
  controller sizes the budget.
* Agent: seeding and research before the solve phase, the critique after it
  (it writes reports only), the generator path of non-Lean targets, hints in
  routing, the abstention count, the limit of 1000 rows when attempts are read.
* `collect_all_results` writes disjoint slots and joins: no schedule matters.
* The other searches and strategies are numerical heuristics over model output,
  each in one thread without shared state. Statement preservation, alignment and
  the library parsers are string analysis: their hazards are in the text, which
  a model would have to copy.
* Backends translate for external tools; how a tool is run is modelled, what is
  passed and parsed is not. Evaluation and training are offline.
* The warm server's requests with other imports or roots, and the global cache of
  `LeanCheck`.
* Rendering, argument parsing and the texts of prompts.

## 7. Plan

Next: *live plan, retry policy, proof pool, verification ladder*, and edge scopes.
