----------------------------- MODULE CheckedRuns -----------------------------
(***************************************************************************)
(* The calls of generate_and_verify that one thread makes                  *)
(* (reason/proving/formal_generate.rs) with its checker cache              *)
(* (reason/proving/checker_cache.rs), while others update the proof        *)
(* library on disk, roll it back or make its manifest unreadable.          *)
(*                                                                         *)
(* A call resolves the library that its cache keys and its event name      *)
(* once, at its start; a checker run reads the library installed when it   *)
(* runs.  "earned" is the library a verdict was obtained in: the code does *)
(* not store it, the properties compare it with what the code does store.  *)
(***************************************************************************)
EXTENDS Naturals

CONSTANTS
  Goal, Code,    \* the statements asked for, the sources generated
  Env,           \* the revisions of the library that get installed
  Gate,          \* Gate[<<g, c, e>>]: what the live checker says of c in e
  Unresolved,    \* a library whose revision could not be read
  MockLib,       \* the library of the mock backend: none
  None,          \* no entry, no candidate, no goal
  Workload,      \* the numbers of calls and updates that may come (a bound)
  N,             \* samples of the first round
  Rounds,        \* THEOREMATA_FORMAL_CORRECTION_ROUNDS
  Samples        \* THEOREMATA_FORMAL_CORRECTION_SAMPLES

\* "clean" passes every layer of the gate; "weak" passes the selector, which
\* reads lexically_verified alone; "red" is rejected.
Verdict == {"clean", "weak", "red"}
Accepted(v) == v \in {"clean", "weak"}

Key == Goal \X Code \X Env

ASSUME RunAssumption ==
  /\ Gate \in [Key -> Verdict]
  /\ Unresolved \notin Env /\ MockLib \notin Env \cup {Unresolved}
  /\ Workload \subseteq [calls : Nat, updates : Nat]
  /\ N \in Nat \ {0} /\ Rounds \in Nat /\ Samples \in Nat

Entry == [verdict : Verdict, earned : Env]
Candidate == [code : Code, verdict : Verdict, earned : Env \cup {MockLib}]
Record == [goal : Goal, against : Env \cup {Unresolved, MockLib},
           verdict : Verdict, code : Code, earned : Env \cup {MockLib}]

ASSUME NoneAssumption == None \notin Entry \cup Candidate \cup Goal \cup Code

VARIABLES
  library,    \* the revision installed
  visible,    \* whether its manifest can be read
  cache,      \* the thread's entries, by key
  run,        \* the call in progress
  log,        \* the provenance records of the completed calls
  moved,      \* some call has had the library change under it
  spare       \* the calls and updates still to come

vars == <<library, visible, cache, run, log, moved, spare>>

Phase == {"idle", "generate", "check", "round_end", "hammer", "recheck", "finish"}

RunType ==
  [at : Phase, goal : Goal \cup {None}, live : BOOLEAN,
   env : Env \cup {Unresolved, MockLib},
   left : Nat,                      \* samples left in this round
   rounds : Nat,                    \* correction rounds left
   lead : BOOLEAN,                  \* a rejected candidate came with feedback
   code : Code \cup {None},         \* the source to check
   last : Candidate \cup {None},    \* the latest candidate of this round
   best : Candidate \cup {None}]    \* the candidate to return

IdleRun ==
  [at |-> "idle", goal |-> None, live |-> FALSE, env |-> MockLib, left |-> 0,
   rounds |-> 0, lead |-> FALSE, code |-> None, last |-> None, best |-> None]

EmptyCache == [k \in Key |-> None]

RunTypeOK ==
  /\ library \in Env /\ visible \in BOOLEAN /\ moved \in BOOLEAN
  /\ cache \in [Key -> Entry \cup {None}]
  /\ run \in RunType
  /\ log \subseteq Record
  /\ spare \in [calls : Nat, updates : Nat]

\* A fresh process, with an empty thread-local cache.
RunInit ==
  /\ library \in Env /\ visible = TRUE
  /\ cache = EmptyCache
  /\ run = IdleRun
  /\ log = {}
  /\ moved = FALSE
  /\ spare \in Workload
----------------------------------------------------------------------------
(* The library, which no part of the program owns.                          *)

\* `lake update`, a rollback: another revision at the same path.
Update(e) ==
  /\ e # library /\ spare.updates > 0
  /\ library' = e
  /\ moved' = (moved \/ run.at # "idle")
  /\ spare' = [spare EXCEPT !.updates = @ - 1]
  /\ UNCHANGED <<visible, cache, run, log>>

\* The manifest disappears or comes back.
Toggle ==
  /\ spare.updates > 0
  /\ visible' = ~ visible
  /\ spare' = [spare EXCEPT !.updates = @ - 1]
  /\ UNCHANGED <<library, cache, run, log, moved>>
----------------------------------------------------------------------------
(* One call.                                                                *)

\* EnvironmentFingerprint::resolve of the live backend.
Fingerprint == IF visible THEN library ELSE Unresolved

\* The call picks its backend and resolves the environment before it asks
\* for the first proof.
Start(g, live) ==
  /\ run.at = "idle" /\ spare.calls > 0
  /\ run' = [IdleRun EXCEPT !.at = "generate", !.goal = g, !.live = live,
                            !.env = IF live THEN Fingerprint ELSE MockLib,
                            !.left = N, !.rounds = Rounds]
  /\ spare' = [spare EXCEPT !.calls = @ - 1]
  /\ UNCHANGED <<library, visible, cache, log, moved>>

\* What is left to do in a round when one of its samples is spent.
AfterSample(r) ==
  [r EXCEPT !.left = @ - 1, !.at = IF r.left = 1 THEN "round_end" ELSE "generate"]

Generate(c) ==
  /\ run.at = "generate"
  /\ run' = [run EXCEPT !.at = "check", !.code = c]
  /\ UNCHANGED <<library, visible, cache, log, moved, spare>>

\* Mutant of KeyOf: the names of the imports without what they resolve to.
KeyWithoutEnv(r) == <<r.goal, r.code, CHOOSE e \in Env : TRUE>>
KeyOf(r) == <<r.goal, r.code, r.env>>

\* Mutant of Cached: looked up by the source, whatever statement it proves.
CachedAnyGoal(r) ==
  IF r.live /\ r.env \in Env
    THEN {cache[<<g, r.code, r.env>>] : g \in Goal} \ {None}
    ELSE {}

\* cache_key has no value for an unresolved environment, and the entries are
\* live verdicts, so a mock call finds none.
Cached(r) == IF r.live /\ r.env \in Env THEN {cache[KeyOf(r)]} \ {None} ELSE {}

\* verify_candidate: the stored verdict, or a run of the checker in the
\* library installed now.  The mock backend only scans the source.
Checked(r) ==
  IF Cached(r) # {}
    THEN {[code |-> r.code, verdict |-> e.verdict, earned |-> e.earned] : e \in Cached(r)}
  ELSE IF r.live
    THEN {[code |-> r.code, verdict |-> Gate[<<r.goal, r.code, library>>], earned |-> library]}
    ELSE {[code |-> r.code, verdict |-> v, earned |-> MockLib] : v \in {"weak", "red"}}

\* insert_verified: live, every layer clean, environment resolved.
Remember(r, cand) ==
  IF r.live /\ r.env \in Env /\ cand.verdict = "clean"
    THEN [cache EXCEPT ![KeyOf(r)] = [verdict |-> cand.verdict, earned |-> cand.earned]]
    ELSE cache

\* A sample is checked.  The first accepted one ends the search; a rejected
\* one may carry feedback for a correction round.
Check ==
  /\ run.at = "check"
  /\ \E cand \in Checked(run) :
       /\ cache' = Remember(run, cand)
       /\ \/ /\ Accepted(cand.verdict)
             /\ run' = [run EXCEPT !.at = "finish", !.best = cand]
          \/ /\ ~ Accepted(cand.verdict)
             /\ \E hint \in BOOLEAN :
                  run' = [AfterSample(run) EXCEPT !.last = cand, !.lead = @ \/ hint]
  /\ UNCHANGED <<library, visible, log, moved, spare>>

\* best_of_n skips a sample whose generation or whose checker run fails.
SampleFails ==
  /\ \/ run.at = "generate"
     \/ run.at = "check" /\ Cached(run) = {}
  /\ run' = AfterSample(run)
  /\ UNCHANGED <<library, visible, cache, log, moved, spare>>

\* No sample of the first round yielded a candidate: the call is an error and
\* files no event.
GiveUp ==
  /\ run.at = "round_end" /\ run.last = None /\ run.best = None
  /\ run' = IdleRun
  /\ UNCHANGED <<library, visible, cache, log, moved, spare>>

\* A round without an accepted sample.  Its last candidate supersedes the
\* incumbent; a correction round follows while the budget lasts, there is
\* feedback to work from and the round has produced something.
RoundEnd ==
  /\ run.at = "round_end" /\ ~ (run.last = None /\ run.best = None)
  /\ LET kept == IF run.last # None THEN run.last ELSE run.best
         again == run.last # None /\ run.rounds > 0 /\ Samples > 0 /\ run.lead
     IN  run' = [run EXCEPT !.best = kept, !.last = None,
                            !.at = IF again THEN "generate" ELSE "hammer",
                            !.left = IF again THEN Samples ELSE 0,
                            !.rounds = IF again THEN @ - 1 ELSE @]
  /\ UNCHANGED <<library, visible, cache, log, moved, spare>>

\* The hammer proposes one more source, only to a live backend; it may
\* decline.
Hammer ==
  /\ run.at = "hammer"
  /\ \/ run.live /\ \E c \in Code : run' = [run EXCEPT !.at = "recheck", !.code = c]
     \/ run' = [run EXCEPT !.at = "finish"]
  /\ UNCHANGED <<library, visible, cache, log, moved, spare>>

\* Its source passes the same gate or leaves the incumbent as it was.
Recheck ==
  /\ run.at = "recheck"
  /\ \/ \E cand \in Checked(run) :
          /\ cache' = Remember(run, cand)
          /\ run' = [run EXCEPT !.at = "finish",
                                !.best = IF Accepted(cand.verdict) THEN cand ELSE @]
     \/ Cached(run) = {} /\ run' = [run EXCEPT !.at = "finish"] /\ UNCHANGED cache
  /\ UNCHANGED <<library, visible, log, moved, spare>>

\* provenance_value of the candidate returned.
RecordOf(r) ==
  [goal |-> r.goal, against |-> r.env, verdict |-> r.best.verdict,
   code |-> r.best.code, earned |-> r.best.earned]

\* The event is filed and the candidate returned; if the insert fails the
\* call is an error.
Finish ==
  /\ run.at = "finish"
  /\ \/ log' = log \cup {RecordOf(run)}
     \/ UNCHANGED log
  /\ run' = IdleRun
  /\ UNCHANGED <<library, visible, cache, moved, spare>>

\* The process ends and another starts: the cache is thread-local memory.
Restart ==
  /\ cache' = EmptyCache
  /\ run' = IdleRun
  /\ UNCHANGED <<library, visible, log, moved, spare>>

RunStep ==
  \/ \E c \in Code : Generate(c)
  \/ Check \/ SampleFails \/ GiveUp \/ RoundEnd \/ Hammer \/ Recheck \/ Finish

RunNext ==
  \/ \E e \in Env : Update(e)
  \/ Toggle
  \/ \E g \in Goal, live \in BOOLEAN : Start(g, live)
  \/ RunStep
  \/ Restart

RunSpec == RunInit /\ [][RunNext]_vars

----------------------------------------------------------------------------
(* Properties.                                                             *)

\* A live verdict at hand, stored or on record is the gate's own, for that
\* statement and that source in some library; only clean ones are stored.
VerdictIsTheGates(g, x) ==
  x.earned \in Env => x.verdict = Gate[<<g, x.code, x.earned>>]

\* A verdict is never of another statement, a mock's or a generator's word:
\* whatever the order of samples, correction rounds, hammer and cache hits.
VerdictsAreTheGates ==
  /\ \A k \in Key : cache[k] # None =>
       cache[k].verdict = "clean" /\ Gate[<<k[1], k[2], cache[k].earned>>] = "clean"
  /\ \A x \in {run.last, run.best} \ {None} : VerdictIsTheGates(run.goal, x)
  /\ \A r \in log : VerdictIsTheGates(r.goal, r)

\* As long as no call had the library change under it, what a verdict is
\* filed under is the library it was earned in: a cache entry under its key,
\* and the record that a later sweep reads under verified_against.
LabelsTrue ==
  ~ moved =>
    /\ \A k \in Key : cache[k] # None => cache[k].earned = k[3]
    /\ \A r \in log : r.against \in Env => r.earned = r.against

\* A pass ends the search: no sample, correction round or hammer follows it,
\* so none of them can replace it.
PassEndsTheSearch ==
  run.at \in {"generate", "check", "round_end", "hammer", "recheck"} =>
    \A x \in {run.last, run.best} \ {None} : ~ Accepted(x.verdict)

=============================================================================
