--------------------------- MODULE StalenessSweep ---------------------------
(***************************************************************************)
(* The staleness sweep (reason/proving/staleness_sweep.rs, staleness.rs):  *)
(* it reads the verdicts on file for a project, asks which library is      *)
(* installed now, has Lean elaborate again the pinned statements of those  *)
(* whose library moved, remembers the answers on disk, and files each      *)
(* verdict under fresh, repair, moved or unknown.                          *)
(*                                                                         *)
(* It runs beside the calls of CheckedRuns and the updates of the library. *)
(* "filed" are the events the sweep reads, those of a project: the         *)
(* generator's own events ("log") carry no project, so a record gets there *)
(* only when a caller files it again (FileRecord).                         *)
(***************************************************************************)
EXTENDS CheckedRuns, Sequences, SequencesExt

\* What is on file at the start was filed by calls under which the library did
\* not change: the verdict is the checker's, in the library the record names.
TrueRecord(r) ==
  /\ VerdictIsTheGates(r.goal, r)
  /\ r.against # Unresolved => r.earned = r.against

CONSTANTS
  Form,         \* elaborated statements, each with the imports it goes with
  Pin,          \* Pin[<<g, e>>]: what a verification of g in e pins, or None
  Elab,         \* Elab[<<p, e>>]: what Lean makes of a pinned form p in e
  Projects,     \* Projects[w]: the events on file at the start and the number of
                \* sweeps that may come (a bound), for each workload w
  MaxFiled,     \* how many events a project may have (a bound)
  Limit,        \* how many events a sweep reads
  MaxReelaborations

NoLibrary == "no library"       \* today's environment could not be resolved

ASSUME SweepAssumption ==
  /\ NoLibrary \notin Env
  /\ Pin \in [Goal \X Env -> Form \cup {None}]
  /\ Elab \in [Form \X Env -> Form \cup {"rejected"}]
  /\ Projects \in [Workload -> SUBSET [filed : Seq(Record), sweeps : Nat]]
  /\ \A w \in Workload : \A p \in Projects[w] : \A i \in DOMAIN p.filed : TrueRecord(p.filed[i])
  /\ MaxFiled \in Nat /\ Limit \in Nat /\ MaxReelaborations \in Nat

VARIABLES
  filed,      \* the project's events, oldest first
  disk,       \* staleness-reelaborations.json
  sweep,      \* the sweep in progress
  census,     \* the outcome of the latest sweep
  shifted,    \* some sweep has had the library change under it
  toSweep     \* sweeps still to come

sweepVars == <<filed, disk, sweep, census, shifted, toSweep>>
allVars == <<vars, sweepVars>>

Answer == Form \cup {"rejected", "unavailable"}
Bucket == {"fresh", "repair", "moved", "unknown"}
MemoKey == Env \X Form
Memo == [MemoKey -> Form \cup {"rejected", None}]
NoMemo == [k \in MemoKey |-> None]

IdleSweep ==
  [active |-> FALSE, pinned |-> FALSE, env |-> NoLibrary, records |-> <<>>, todo |-> {},
   answers |-> <<>>, left |-> 0, memo |-> NoMemo, learned |-> FALSE]
NoCensus == [env |-> NoLibrary, nodes |-> {}]

SweepTypeOK ==
  /\ RunTypeOK
  /\ filed \in Seq(Record) /\ Len(filed) <= MaxFiled
  /\ disk \in Memo
  /\ sweep.active \in BOOLEAN /\ sweep.pinned \in BOOLEAN /\ sweep.learned \in BOOLEAN
  /\ sweep.env \in Env \cup {MockLib, NoLibrary}
  /\ sweep.memo \in Memo
  /\ DOMAIN sweep.records \subseteq 1 .. Limit
  /\ sweep.records \in [DOMAIN sweep.records -> Record]
  /\ sweep.todo \subseteq DOMAIN sweep.records
  /\ sweep.answers \in [DOMAIN sweep.records -> Answer \cup {None}]
  /\ sweep.left \in 0 .. MaxReelaborations
  /\ census.nodes \subseteq [record : Record, bucket : Bucket]
  /\ shifted \in BOOLEAN /\ toSweep \in Nat

SweepInit ==
  /\ RunInit
  /\ disk = NoMemo
  /\ sweep = IdleSweep
  /\ census = NoCensus
  /\ shifted = FALSE
  /\ \E p \in Projects[spare] : filed = p.filed /\ toSweep = p.sweeps
----------------------------------------------------------------------------
(* What is read.                                                           *)

\* Another part of the program, or a script, files a record that a call
\* returned with its report under a project.
FileRecord(r) ==
  /\ r \in log /\ Len(filed) < MaxFiled
  /\ filed' = Append(filed, r)
  /\ UNCHANGED <<vars, disk, sweep, census, shifted, toSweep>>

\* Store::events: newest first, at most Limit.
Newest == Reverse(SubSeq(filed, IF Len(filed) > Limit THEN Len(filed) - Limit + 1 ELSE 1, Len(filed)))

\* A record counts when it is the latest of its statement, and a green.
Counted(events) ==
  {i \in DOMAIN events :
     /\ Accepted(events[i].verdict)
     /\ \A j \in 1 .. i - 1 : events[j].goal # events[i].goal}

Gathered == [i \in Counted(Newest) |-> Newest[i]]

\* resolve_current_environment: an unresolved one is no environment.  The
\* prover may be pinned to the mock backend, or Lean may be absent.
Today(pinned) ==
  IF pinned THEN {MockLib} ELSE {MockLib, IF visible THEN library ELSE NoLibrary}
----------------------------------------------------------------------------
(* The sweep.                                                              *)

\* Records, environment and remembered answers are read; a file that cannot
\* be read or parsed is no memory.
OpenSweep(pinned) ==
  /\ ~ sweep.active /\ toSweep > 0
  /\ \E env \in Today(pinned), memo \in {disk, NoMemo} :
       sweep' = [IdleSweep EXCEPT
                   !.active = TRUE, !.pinned = pinned, !.env = env,
                   !.records = Gathered, !.todo = DOMAIN Gathered,
                   !.answers = [i \in DOMAIN Gathered |-> None],
                   !.left = MaxReelaborations, !.memo = memo]
  /\ toSweep' = toSweep - 1
  /\ UNCHANGED <<vars, filed, disk, census, shifted>>

\* The form the verification of a record published: none for a mock.
PinOf(r) == IF r.earned \in Env THEN Pin[<<r.goal, r.earned>>] ELSE None

\* The skip gates: an answer can change the bucket.
Eligible(r) ==
  sweep.env # NoLibrary /\ r.against # sweep.env /\ PinOf(r) # None

\* Mutant of KeyIn: the pinned form alone.
KeyInAny(r) == <<CHOOSE e \in Env : TRUE, PinOf(r)>>
KeyIn(r) == <<sweep.env, PinOf(r)>>
Remembered(r) == IF sweep.env \in Env THEN sweep.memo[KeyIn(r)] ELSE None

Answered(i, a) == [sweep EXCEPT !.answers[i] = a, !.todo = @ \ {i}]

\* The gates drop it, or the mock prover has nothing to say: free.
Skip(i) ==
  LET r == sweep.records[i] IN
  /\ (~ Eligible(r) \/ sweep.pinned)
  /\ sweep' = Answered(i, IF Eligible(r) THEN "unavailable" ELSE None)

Replay(i) ==
  LET r == sweep.records[i] IN
  /\ Eligible(r) /\ ~ sweep.pinned
  /\ Remembered(r) # None
  /\ sweep' = Answered(i, Remembered(r))

Refuse(i) ==
  LET r == sweep.records[i] IN
  /\ Eligible(r) /\ ~ sweep.pinned
  /\ Remembered(r) = None /\ sweep.left = 0
  /\ sweep' = Answered(i, "unavailable")

\* What Lean answers in the library installed now; without Lean, or when the
\* control probe or the names fail, nothing is learned.
LeanAnswers(r) ==
  {"unavailable"} \cup (IF sweep.env \in Env THEN {Elab[<<PinOf(r), library>>]} ELSE {})

Elaborate(i) ==
  LET r == sweep.records[i] IN
  /\ Eligible(r) /\ ~ sweep.pinned
  /\ Remembered(r) = None /\ sweep.left > 0
  /\ \E a \in LeanAnswers(r) :
       sweep' = [Answered(i, a) EXCEPT
                   !.left = @ - 1,
                   !.memo = IF a = "unavailable" THEN @ ELSE [@ EXCEPT ![KeyIn(r)] = a],
                   !.learned = @ \/ a # "unavailable"]

\* The loop runs from the oldest record, the last, to the newest.
Attempt(i) ==
  /\ sweep.active /\ i \in sweep.todo /\ \A j \in sweep.todo : j <= i
  /\ Skip(i) \/ Replay(i) \/ Refuse(i) \/ Elaborate(i)
  /\ UNCHANGED <<vars, filed, disk, census, shifted, toSweep>>

\* Mutant of Assess: no answer is read as no change.
AssessHopeful(r, env, a) ==
  IF env = NoLibrary THEN "unknown"
  ELSE IF r.against = env THEN "fresh"
  ELSE IF a \in {"unavailable", PinOf(r)} THEN "repair"
  ELSE IF PinOf(r) = None \/ a = None THEN "unknown"
  ELSE "moved"

\* staleness::assess.
Assess(r, env, a) ==
  IF env = NoLibrary THEN "unknown"
  ELSE IF r.against = env THEN "fresh"
  ELSE IF PinOf(r) = None \/ a \in {None, "unavailable"} THEN "unknown"
  ELSE IF a = PinOf(r) THEN "repair"
  ELSE "moved"

\* The memory is written if it grew, as far as the disk lets it, and every
\* record is classified.
CloseSweep ==
  /\ sweep.active /\ sweep.todo = {}
  /\ census' = [env |-> sweep.env,
                nodes |-> {[record |-> sweep.records[i],
                            bucket |-> Assess(sweep.records[i], sweep.env, sweep.answers[i])] :
                             i \in DOMAIN sweep.records}]
  /\ disk' \in IF sweep.learned THEN {disk, sweep.memo} ELSE {disk}
  /\ sweep' = [sweep EXCEPT !.active = FALSE]
  /\ UNCHANGED <<vars, filed, shifted, toSweep>>

\* The process dies; a file half written is one that cannot be parsed.
KillSweep ==
  /\ sweep.active
  /\ sweep' = IdleSweep
  /\ disk' \in IF sweep.todo = {} /\ sweep.learned THEN {disk, NoMemo} ELSE {disk}
  /\ UNCHANGED <<vars, filed, census, shifted, toSweep>>

\* The calls and the library go on beside the sweep.
Beside ==
  /\ RunNext
  /\ shifted' = (shifted \/ (sweep.active /\ library' # library))
  /\ UNCHANGED <<filed, disk, sweep, census, toSweep>>

Next ==
  \/ Beside
  \/ \E r \in log : FileRecord(r)
  \/ \E pinned \in BOOLEAN : OpenSweep(pinned)
  \/ \E i \in 1 .. Limit : Attempt(i)
  \/ CloseSweep
  \/ KillSweep

Spec == SweepInit /\ [][Next]_allVars
----------------------------------------------------------------------------
(* Properties.                                                             *)

Steady == ~ moved /\ ~ shifted

\* What the census says of a verdict is so in the library the sweep found,
\* as long as no call and no sweep had the library change under it: a fresh
\* one would still pass the gate, a withdrawn statement no longer means what
\* it meant and a repairable one does, also when the answer comes from the
\* file and the library went away and came back in between.
CensusIsTrue ==
  Steady => \A n \in census.nodes :
    CASE n.bucket = "fresh" ->
           /\ n.record.earned = census.env
           /\ census.env \in Env => Accepted(Gate[<<n.record.goal, n.record.code, census.env>>])
      [] n.bucket = "repair" ->
           /\ PinOf(n.record) # None /\ census.env \in Env
           /\ Elab[<<PinOf(n.record), census.env>>] = PinOf(n.record)
      [] n.bucket = "moved" ->
           /\ PinOf(n.record) # None /\ census.env \in Env
           /\ Elab[<<PinOf(n.record), census.env>>] # PinOf(n.record)
      [] n.bucket = "unknown" -> TRUE

\* The remembered answers are Lean's in the library they are filed under.
MemoIsTrue ==
  ~ shifted => \A k \in MemoKey : disk[k] # None => disk[k] = Elab[<<k[2], k[1]>>]

\* What the module documentation of the sweep says of its input: the verdicts
\* the generator publishes on its event stream are what is swept.
GeneratedIsSwept ==
  [][~ sweep.active /\ sweep'.active /\ Len(filed) + Cardinality(log) <= Limit =>
       \A r \in log :
         (\A q \in log : q.goal = r.goal => Accepted(q.verdict)) =>
           \E i \in DOMAIN sweep'.records : sweep'.records[i].goal = r.goal]_allVars
=============================================================================
