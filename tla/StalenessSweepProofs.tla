------------------------ MODULE StalenessSweepProofs ------------------------
(***************************************************************************)
(* Proofs about CheckedRuns and StalenessSweep, for any gate, any library  *)
(* revisions, any project history, any pinned forms and elaborations of    *)
(* them, any limits.  First the checked runs: the types, that no verdict   *)
(* is of another statement or made up, that labels are true, that a pass   *)
(* ends a search.  Then the sweep over their records: the census and the   *)
(* remembered answers are true, as long as the library does not change     *)
(* under a call or a sweep.                                                *)
(***************************************************************************)
EXTENDS StalenessSweep, TLAPS

----------------------------------------------------------------------------
\* Checked runs: the gate, the cache, the log and the calls.

\* A candidate seen by call r: the gate's verdict, earned in the call's own
\* library if nothing moved, and in none by a mock.
SeenBy(r, x) ==
  /\ x \in Candidate
  /\ VerdictIsTheGates(r.goal, x)
  /\ ~ moved /\ r.env \in Env => x.earned = r.env
  /\ ~ r.live => x.earned = MockLib

\* What a call has at hand in each of its phases.
RunGood(r) ==
  /\ r \in RunType
  /\ r.at # "idle" => r.goal \in Goal
  /\ r.at \in {"generate", "check"} => r.left > 0
  /\ r.at \in {"check", "recheck"} => r.code \in Code
  /\ r.at \in {"hammer", "recheck", "finish"} => r.best # None
  /\ ~ r.live <=> r.env = MockLib
  /\ ~ moved /\ r.at # "idle" /\ r.env \in Env => r.env = library
  /\ r.last # None => SeenBy(r, r.last)
  /\ r.best # None => SeenBy(r, r.best)
  /\ r.at # "finish" /\ r.last # None => ~ Accepted(r.last.verdict)
  /\ r.at # "finish" /\ r.best # None => ~ Accepted(r.best.verdict)

CacheGood ==
  /\ cache \in [Key -> Entry \cup {None}]
  /\ \A k \in Key : cache[k] # None =>
       /\ cache[k].verdict = "clean"
       /\ Gate[<<k[1], k[2], cache[k].earned>>] = "clean"
       /\ ~ moved => cache[k].earned = k[3]

LogGood ==
  /\ log \subseteq Record
  /\ \A r \in log : VerdictIsTheGates(r.goal, r)
  /\ \A r \in log : r.against = MockLib => r.earned = MockLib
  /\ ~ moved => \A r \in log : r.against \in Env => r.earned = r.against

IInv ==
  /\ library \in Env /\ visible \in BOOLEAN /\ moved \in BOOLEAN
  /\ spare \in [calls : Nat, updates : Nat]
  /\ RunGood(run) /\ CacheGood /\ LogGood

----------------------------------------------------------------------------
\* The strengthened invariant has every property of the runs as a part.
LEMMA IInvImplies ==
  ASSUME IInv
  PROVE  RunTypeOK /\ VerdictsAreTheGates /\ LabelsTrue /\ PassEndsTheSearch
<1>1. RunTypeOK
  BY DEF IInv, RunGood, CacheGood, LogGood, RunTypeOK
<1>2. VerdictsAreTheGates
  BY DEF IInv, RunGood, CacheGood, LogGood, VerdictsAreTheGates, SeenBy
<1>3. LabelsTrue
  BY DEF IInv, CacheGood, LogGood, LabelsTrue
<1>4. PassEndsTheSearch
  BY DEF IInv, RunGood, PassEndsTheSearch
<1>5. QED
  BY <1>1, <1>2, <1>3, <1>4

\* No call in progress is a good state of a call.
LEMMA IdleIsGood == RunGood(IdleRun)
BY NoneAssumption, RunAssumption DEF RunGood, IdleRun, RunType, Phase

\* A fresh process with an empty cache satisfies the invariant.
LEMMA InitIInv == RunInit => IInv
<1> SUFFICES ASSUME RunInit PROVE IInv
  OBVIOUS
<1>1. RunGood(run)
  BY IdleIsGood DEF RunInit
<1>2. CacheGood
  BY DEF RunInit, CacheGood, EmptyCache
<1>3. LogGood
  BY DEF RunInit, LogGood
<1>4. QED
  BY <1>1, <1>2, <1>3, RunAssumption DEF IInv, RunInit

\* Goodness of a call depends on the library only through these two facts.
LEMMA RunGoodAgain ==
  ASSUME NEW r, RunGood(r), UNCHANGED <<library, moved>>
  PROVE  RunGood(r)'
BY DEF RunGood, SeenBy

\* A step of the call that leaves cache and events alone.
LEMMA CallStep ==
  ASSUME IInv, NEW r, RunGood(r), run' = r,
         UNCHANGED <<library, visible, cache, log, moved>>,
         spare' \in [calls : Nat, updates : Nat]
  PROVE  IInv'
<1>1. RunGood(run)'
  BY RunGoodAgain DEF RunGood, SeenBy
<1>2. CacheGood' /\ LogGood'
  BY DEF IInv, CacheGood, LogGood
<1>3. QED
  BY <1>1, <1>2 DEF IInv

\* What verify_candidate returns, from the cache or from the checker.
LEMMA CheckedIsSeen ==
  ASSUME IInv, run.at \in {"check", "recheck"}, NEW x \in Checked(run)
  PROVE  /\ SeenBy(run, x)
         /\ run.live /\ run.env \in Env => x.earned \in Env
<1>1. run.goal \in Goal /\ run.code \in Code /\ library \in Env
  BY DEF IInv, RunGood
<1>2. CASE Cached(run) # {}
  <2>1. run.live /\ run.env \in Env /\ KeyOf(run) \in Key /\ cache[KeyOf(run)] # None
    BY <1>1, <1>2 DEF Cached, KeyOf, Key
  <2>2. PICK e \in Cached(run) :
          x = [code |-> run.code, verdict |-> e.verdict, earned |-> e.earned]
    BY <1>2 DEF Checked
  <2>3. e = cache[KeyOf(run)]
    BY <2>1, <2>2 DEF Cached
  <2>4. e \in Entry /\ e.verdict = "clean"
          /\ Gate[<<run.goal, run.code, e.earned>>] = "clean"
          /\ (~ moved => e.earned = run.env)
    BY <2>1, <2>3 DEF IInv, CacheGood, KeyOf
  <2>5. SeenBy(run, x) /\ x.earned \in Env
    <3>1. x \in Candidate /\ VerdictIsTheGates(run.goal, x) /\ x.earned = e.earned
      BY <1>1, <2>2, <2>4 DEF Candidate, Entry, VerdictIsTheGates
    <3>2. QED
      BY <2>1, <2>4, <3>1 DEF SeenBy, Entry
  <2>6. QED
    BY <2>5
<1>3. CASE Cached(run) = {} /\ run.live
  <2>1. x = [code |-> run.code, verdict |-> Gate[<<run.goal, run.code, library>>],
             earned |-> library]
    BY <1>3 DEF Checked
  <2>2. <<run.goal, run.code, library>> \in Key
    BY <1>1 DEF Key
  <2>3. Gate[<<run.goal, run.code, library>>] \in Verdict
    BY <2>2, RunAssumption
  <2>4. ~ moved /\ run.env \in Env => library = run.env
    BY DEF IInv, RunGood
  <2>5. SeenBy(run, x) /\ x.earned \in Env
    BY <1>1, <1>3, <2>1, <2>3, <2>4 DEF SeenBy, Candidate, VerdictIsTheGates
  <2>6. QED
    BY <2>5
<1>4. CASE Cached(run) = {} /\ ~ run.live
  <2>1. PICK v \in {"weak", "red"} :
          x = [code |-> run.code, verdict |-> v, earned |-> MockLib]
    BY <1>4 DEF Checked
  <2>2. run.env = MockLib
    BY <1>4 DEF IInv, RunGood
  <2>3. QED
    BY <1>1, <1>4, <2>1, <2>2, RunAssumption
    DEF SeenBy, Candidate, Verdict, VerdictIsTheGates
<1>5. QED
  BY <1>2, <1>3, <1>4

\* Remembering what was seen keeps the cache good.
LEMMA RememberIsGood ==
  ASSUME IInv, run.at \in {"check", "recheck"}, NEW x \in Checked(run),
         cache' = Remember(run, x), UNCHANGED <<library, moved>>
  PROVE  CacheGood'
<1>1. run.goal \in Goal /\ run.code \in Code
  BY DEF IInv, RunGood
<1>2. SeenBy(run, x) /\ (run.live /\ run.env \in Env => x.earned \in Env)
  BY CheckedIsSeen
<1>3. CASE run.live /\ run.env \in Env /\ x.verdict = "clean"
  <2> DEFINE e == [verdict |-> x.verdict, earned |-> x.earned]
             k == <<run.goal, run.code, run.env>>
  <2>1. k \in Key /\ cache' = [cache EXCEPT ![k] = e]
    BY <1>1, <1>3 DEF Key, Remember, KeyOf
  <2>2. e \in Entry
    BY <1>2, <1>3 DEF Entry, SeenBy, Candidate
  <2>3. Gate[<<run.goal, run.code, e.earned>>] = "clean" \/ x.code # run.code
    BY <1>2, <1>3 DEF SeenBy, VerdictIsTheGates
  <2>4. x.code = run.code
    BY DEF Checked
  <2>5. ~ moved => e.earned = run.env
    BY <1>2, <1>3 DEF SeenBy
  <2> HIDE DEF e
  <2>6. e.verdict = "clean"
    BY <1>3 DEF e
  <2>7. QED
    BY <2>1, <2>2, <2>3, <2>4, <2>5, <2>6 DEF IInv, CacheGood
<1>4. CASE ~ (run.live /\ run.env \in Env /\ x.verdict = "clean")
  BY <1>4 DEF Remember, IInv, CacheGood
<1>5. QED
  BY <1>3, <1>4

\* A step of the call that checks a source.
LEMMA CheckStep ==
  ASSUME IInv, run.at \in {"check", "recheck"}, NEW x \in Checked(run),
         cache' = Remember(run, x), NEW r, RunGood(r), run' = r,
         UNCHANGED <<library, visible, log, moved, spare>>
  PROVE  IInv'
<1>1. RunGood(run)'
  BY DEF RunGood, SeenBy
<1>2. CacheGood'
  BY RememberIsGood
<1>3. LogGood'
  BY DEF IInv, LogGood
<1>4. QED
  BY <1>1, <1>2, <1>3 DEF IInv

----------------------------------------------------------------------------
\* An update under a call is what "moved" stands for.
LEMMA UpdateIInv ==
  ASSUME IInv, NEW e \in Env, Update(e)
  PROVE  IInv'
<1>1. spare' \in [calls : Nat, updates : Nat] /\ library' \in Env /\ moved' \in BOOLEAN
  BY DEF IInv, Update
<1>2. RunGood(run)'
  BY DEF IInv, Update, RunGood, SeenBy
<1>3. CacheGood' /\ LogGood'
  BY DEF IInv, Update, CacheGood, LogGood
<1>4. QED
  BY <1>1, <1>2, <1>3 DEF IInv, Update

\* A new call starts with the library it has just resolved.
LEMMA StartIInv ==
  ASSUME IInv, NEW g \in Goal, NEW live \in BOOLEAN, Start(g, live)
  PROVE  IInv'
<1>1. PICK r : r = run' /\ r = [IdleRun EXCEPT !.at = "generate", !.goal = g, !.live = live,
                            !.env = IF live THEN Fingerprint ELSE MockLib,
                            !.left = N, !.rounds = Rounds]
  BY DEF Start
<1>2. Fingerprint \in Env \cup {Unresolved} /\ (Fingerprint \in Env => Fingerprint = library)
  BY RunAssumption DEF IInv, Fingerprint
<1>a. PICK env \in Env \cup {Unresolved, MockLib} :
        /\ env = IF live THEN Fingerprint ELSE MockLib
        /\ env \in Env => env = library
        /\ ~ live <=> env = MockLib
  BY <1>2, RunAssumption
<1>b. r = [IdleRun EXCEPT !.at = "generate", !.goal = g, !.live = live, !.env = env,
                          !.left = N, !.rounds = Rounds]
  BY <1>1, <1>a
<1>c. r \in RunType
  BY <1>b, RunAssumption DEF RunType, Phase, IdleRun
<1>3. RunGood(r)
  BY <1>a, <1>b, <1>c, RunAssumption DEF RunGood, IdleRun
<1>4. spare' \in [calls : Nat, updates : Nat]
  BY DEF IInv, Start
<1>5. QED
  BY <1>1, <1>3, <1>4, CallStep DEF Start

\* One sample fewer is left.
LEMMA AfterSampleType ==
  ASSUME run \in RunType, run.left > 0
  PROVE  \E a \in {"generate", "round_end"}, n \in Nat :
           /\ AfterSample(run) = [run EXCEPT !.left = n, !.at = a]
           /\ a = "generate" => n > 0
<1>1. run.left - 1 \in Nat /\ (run.left # 1 => run.left - 1 > 0)
  BY DEF RunType
<1>2. CASE run.left = 1
  BY <1>1, <1>2 DEF AfterSample
<1>3. CASE run.left # 1
  BY <1>1, <1>3 DEF AfterSample
<1>4. QED
  BY <1>2, <1>3

\* What is left of a round is good, with or without the candidate at hand.
LEMMA AfterSampleIsGood ==
  ASSUME IInv, run.at \in {"generate", "check"}, NEW x, NEW h \in BOOLEAN,
         x = run.last \/ (SeenBy(run, x) /\ ~ Accepted(x.verdict))
  PROVE  RunGood([AfterSample(run) EXCEPT !.last = x, !.lead = h])
<1>1. PICK r : r = [AfterSample(run) EXCEPT !.last = x, !.lead = h]
  OBVIOUS
<1>2. run \in RunType /\ run.left > 0 /\ x \in Candidate \cup {None}
  BY DEF IInv, RunGood, RunType, SeenBy
<1>a. PICK a \in {"generate", "round_end"}, n \in Nat :
        /\ AfterSample(run) = [run EXCEPT !.left = n, !.at = a]
        /\ a = "generate" => n > 0
  BY <1>2, AfterSampleType
<1>b. r = [run EXCEPT !.left = n, !.at = a, !.last = x, !.lead = h]
  BY <1>1, <1>2, <1>a DEF RunType
<1>3. r \in RunType /\ r.last = x /\ r.best = run.best /\ r.env = run.env
        /\ r.goal = run.goal /\ r.live = run.live /\ r.left = n /\ r.at = a
  BY <1>2, <1>b DEF RunType, Phase
<1>4. RunGood(r)
  BY <1>2, <1>a, <1>3, NoneAssumption DEF IInv, RunGood, SeenBy
<1>5. QED
  BY <1>1, <1>4

\* Checking a sample.
LEMMA CheckIInv ==
  ASSUME IInv, Check
  PROVE  IInv'
<1>1. PICK x \in Checked(run) :
        /\ cache' = Remember(run, x)
        /\ \/ Accepted(x.verdict) /\ run' = [run EXCEPT !.at = "finish", !.best = x]
           \/ /\ ~ Accepted(x.verdict)
              /\ \E hint \in BOOLEAN :
                   run' = [AfterSample(run) EXCEPT !.last = x, !.lead = @ \/ hint]
  BY DEF Check
<1>2. SeenBy(run, x) /\ run.at = "check"
  BY CheckedIsSeen DEF Check
<1>3. CASE Accepted(x.verdict)
  <2>1. PICK r : r = [run EXCEPT !.at = "finish", !.best = x]
    OBVIOUS
  <2>2. r \in RunType /\ r.last = run.last /\ r.best = x /\ r.env = run.env
          /\ r.goal = run.goal /\ r.live = run.live /\ r.at = "finish"
    BY <1>2, <2>1 DEF IInv, RunGood, RunType, Phase, SeenBy
  <2>3. RunGood(r)
    BY <1>2, <2>2, NoneAssumption DEF IInv, RunGood, SeenBy
  <2>4. QED
    BY <1>1, <1>2, <1>3, <2>1, <2>3, CheckStep DEF Check
<1>4. CASE ~ Accepted(x.verdict)
  <2>1. PICK hint \in BOOLEAN :
          run' = [AfterSample(run) EXCEPT !.last = x, !.lead = @ \/ hint]
    BY <1>1, <1>4
  <2>2. PICK h \in BOOLEAN : h = (AfterSample(run).lead \/ hint)
    OBVIOUS
  <2>3. PICK r : r = [AfterSample(run) EXCEPT !.last = x, !.lead = h]
    OBVIOUS
  <2>4. RunGood(r)
    BY <1>2, <1>4, <2>3, AfterSampleIsGood
  <2>5. run' = r
    BY <2>1, <2>2, <2>3
  <2>6. QED
    BY <1>1, <1>2, <2>4, <2>5, CheckStep DEF Check
<1>5. QED
  BY <1>3, <1>4

\* A sample that could not be generated or checked.
LEMMA SampleFailsIInv ==
  ASSUME IInv, SampleFails
  PROVE  IInv'
<1>1. run \in RunType /\ run.left > 0 /\ run.at \in {"generate", "check"}
  BY DEF IInv, RunGood, SampleFails
<1>2. PICK a \in {"generate", "round_end"}, n \in Nat :
        /\ AfterSample(run) = [run EXCEPT !.left = n, !.at = a]
        /\ a = "generate" => n > 0
  BY <1>1, AfterSampleType
<1>r. PICK r : r = run' /\ r = [run EXCEPT !.left = n, !.at = a]
  BY <1>2 DEF SampleFails
<1>3. r \in RunType /\ r.last = run.last /\ r.best = run.best /\ r.env = run.env
        /\ r.goal = run.goal /\ r.live = run.live /\ r.left = n /\ r.at = a
  BY <1>1, <1>r DEF RunType, Phase
<1>4. RunGood(r)
  BY <1>1, <1>2, <1>3 DEF IInv, RunGood, SeenBy
<1>5. QED
  BY <1>r, <1>4, CallStep DEF SampleFails, IInv

\* The end of a round.
LEMMA RoundEndIInv ==
  ASSUME IInv, RoundEnd
  PROVE  IInv'
<1> DEFINE kept == IF run.last # None THEN run.last ELSE run.best
           again == run.last # None /\ run.rounds > 0 /\ Samples > 0 /\ run.lead
<1>1. PICK r : r = run' /\ r = [run EXCEPT !.best = kept, !.last = None,
                            !.at = IF again THEN "generate" ELSE "hammer",
                            !.left = IF again THEN Samples ELSE 0,
                            !.rounds = IF again THEN @ - 1 ELSE @]
  BY DEF RoundEnd
<1>2. kept # None /\ SeenBy(run, kept) /\ ~ Accepted(kept.verdict) /\ kept \in Candidate
  BY DEF RoundEnd, IInv, RunGood, SeenBy
<1>3. again => run.rounds - 1 \in Nat
  BY DEF IInv, RunGood, RunType
<1>4. Samples \in Nat
  BY RunAssumption
<1> HIDE DEF kept
<1>a. PICK at \in {"generate", "hammer"}, left \in Nat, rounds \in Nat :
        /\ at = IF again THEN "generate" ELSE "hammer"
        /\ left = IF again THEN Samples ELSE 0
        /\ rounds = IF again THEN run.rounds - 1 ELSE run.rounds
        /\ at = "generate" => left > 0
  <2>1. run.rounds \in Nat
    BY DEF IInv, RunGood, RunType
  <2>2. QED
    BY <1>3, <1>4, <2>1
<1>b. run \in RunType
  BY DEF IInv, RunGood
<1>c. r = [run EXCEPT !.best = kept, !.last = None, !.at = at, !.left = left,
                      !.rounds = rounds]
  BY <1>1, <1>a, <1>b DEF RunType
<1>5. r \in RunType /\ r.last = None /\ r.best = kept /\ r.env = run.env
        /\ r.goal = run.goal /\ r.live = run.live
        /\ r.at \in {"generate", "hammer"} /\ (r.at = "generate" => r.left > 0)
  <2>1. /\ r.at = at /\ r.left = left /\ r.rounds = rounds /\ r.last = None
        /\ r.best = kept /\ r.env = run.env /\ r.goal = run.goal /\ r.live = run.live
    BY <1>b, <1>c DEF RunType
  <2>2. at \in Phase
    BY DEF Phase
  <2>3. r \in RunType
    BY <1>2, <1>b, <1>c, <2>2 DEF RunType
  <2>. QED BY <1>a, <2>1, <2>3
<1>6. RunGood(r)
  <2>1. run.at = "round_end"
    BY DEF RoundEnd
  <2>2. QED
    BY <1>2, <1>5, <2>1 DEF IInv, RunGood, SeenBy
<1>7. QED
  BY <1>1, <1>6, CallStep DEF RoundEnd, IInv

\* The hammer proposes or declines.
LEMMA HammerIInv ==
  ASSUME IInv, Hammer
  PROVE  IInv'
<1>1. CASE \E c \in Code : run' = [run EXCEPT !.at = "recheck", !.code = c]
  <2>1. PICK c \in Code : run' = [run EXCEPT !.at = "recheck", !.code = c]
    BY <1>1
  <2>2. PICK r : r = run' /\ r = [run EXCEPT !.at = "recheck", !.code = c]
    BY <2>1
  <2>3. RunGood(r)
    BY <2>2 DEF Hammer, IInv, RunGood, RunType, Phase, SeenBy
  <2>4. QED
    BY <2>2, <2>3, CallStep DEF Hammer, IInv
<1>2. CASE run' = [run EXCEPT !.at = "finish"]
  <2>1. PICK r : r = run' /\ r = [run EXCEPT !.at = "finish"]
    BY <1>2
  <2>2. RunGood(r)
    BY <2>1 DEF Hammer, IInv, RunGood, RunType, Phase, SeenBy
  <2>3. QED
    BY <2>1, <2>2, CallStep DEF Hammer, IInv
<1>3. QED
  BY <1>1, <1>2 DEF Hammer

\* The hammer's source is checked like any other.
LEMMA RecheckIInv ==
  ASSUME IInv, Recheck
  PROVE  IInv'
<1>1. run.at = "recheck"
  BY DEF Recheck
<1>2. ASSUME NEW x \in Checked(run), cache' = Remember(run, x),
             run' = [run EXCEPT !.at = "finish",
                                !.best = IF Accepted(x.verdict) THEN x ELSE @]
      PROVE  IInv'
  <2>1. SeenBy(run, x)
    BY <1>1, CheckedIsSeen
  <2>2. PICK r : r = run' /\ r = [run EXCEPT !.at = "finish",
                                !.best = IF Accepted(x.verdict) THEN x ELSE @]
    BY <1>2
  <2>3. r \in RunType /\ r.last = run.last /\ r.best \in {x, run.best} /\ r.env = run.env
          /\ r.goal = run.goal /\ r.live = run.live /\ r.at = "finish"
    BY <2>1, <2>2 DEF IInv, RunGood, RunType, Phase, SeenBy
  <2>4. RunGood(r)
    BY <1>1, <2>1, <2>3, NoneAssumption DEF IInv, RunGood, SeenBy
  <2>5. QED
    BY <1>1, <1>2, <2>2, <2>4, CheckStep DEF Recheck
<1>3. CASE run' = [run EXCEPT !.at = "finish"] /\ UNCHANGED cache
  <2>1. PICK r : r = run' /\ r = [run EXCEPT !.at = "finish"]
    BY <1>3
  <2>2. RunGood(r)
    BY <1>1, <2>1 DEF IInv, RunGood, RunType, Phase, SeenBy
  <2>3. QED
    BY <1>3, <2>1, <2>2, CallStep DEF Recheck, IInv
<1>4. QED
  BY <1>2, <1>3 DEF Recheck

\* The event is filed as the call ends.
LEMMA FinishIInv ==
  ASSUME IInv, Finish
  PROVE  IInv'
<1>1. RunGood(run)'
  BY IdleIsGood, RunGoodAgain DEF Finish, RunGood, SeenBy
<1>2. CacheGood'
  BY DEF IInv, CacheGood, Finish
<1>3. RecordOf(run) \in Record /\ VerdictIsTheGates(RecordOf(run).goal, RecordOf(run))
        /\ (~ moved /\ RecordOf(run).against \in Env => RecordOf(run).earned = RecordOf(run).against)
  BY DEF Finish, IInv, RunGood, RunType, SeenBy, RecordOf, Record, Candidate, VerdictIsTheGates
<1>m. RecordOf(run).against = MockLib => RecordOf(run).earned = MockLib
  BY DEF Finish, IInv, RunGood, SeenBy, RecordOf
<1>4. LogGood'
  BY <1>3, <1>m DEF Finish, IInv, LogGood
<1>5. QED
  BY <1>1, <1>2, <1>4 DEF IInv, Finish

\* Every step keeps the invariant.
LEMMA NextIInv == IInv /\ [RunNext]_vars => IInv'
<1> SUFFICES ASSUME IInv, [RunNext]_vars PROVE IInv'
  OBVIOUS
<1>1. ASSUME NEW e \in Env, Update(e) PROVE IInv'
  BY <1>1, UpdateIInv
<1>2. CASE Toggle
  <2>1. spare' \in [calls : Nat, updates : Nat] /\ visible' \in BOOLEAN
    BY <1>2 DEF Toggle, IInv
  <2>2. RunGood(run)' /\ CacheGood' /\ LogGood'
    BY <1>2 DEF Toggle, IInv, RunGood, SeenBy, CacheGood, LogGood
  <2>3. QED
    BY <1>2, <2>1, <2>2 DEF Toggle, IInv
<1>3. ASSUME NEW g \in Goal, NEW live \in BOOLEAN, Start(g, live) PROVE IInv'
  BY <1>3, StartIInv
<1>4. ASSUME NEW c \in Code, Generate(c) PROVE IInv'
  <2>1. PICK r : r = run' /\ r = [run EXCEPT !.at = "check", !.code = c]
    BY <1>4 DEF Generate
  <2>2. RunGood(r)
    BY <1>4, <2>1 DEF Generate, IInv, RunGood, RunType, Phase, SeenBy
  <2>3. QED
    BY <1>4, <2>1, <2>2, CallStep DEF Generate, IInv
<1>5. CASE Check
  BY <1>5, CheckIInv
<1>6. CASE SampleFails
  BY <1>6, SampleFailsIInv
<1>7. CASE GiveUp
  BY <1>7, IdleIsGood, CallStep DEF GiveUp, IInv
<1>8. CASE RoundEnd
  BY <1>8, RoundEndIInv
<1>9. CASE Hammer
  BY <1>9, HammerIInv
<1>10. CASE Recheck
  BY <1>10, RecheckIInv
<1>11. CASE Finish
  BY <1>11, FinishIInv
<1>12. CASE Restart
  <2>1. RunGood(run)'
    BY <1>12, IdleIsGood, RunGoodAgain DEF Restart, RunGood, SeenBy
  <2>2. CacheGood' /\ LogGood'
    BY <1>12 DEF Restart, IInv, CacheGood, LogGood, EmptyCache
  <2>3. QED
    BY <1>12, <2>1, <2>2 DEF Restart, IInv
<1>13. CASE UNCHANGED vars
  BY <1>13, CallStep DEF vars, IInv
<1>14. QED
  BY <1>1, <1>2, <1>3, <1>4, <1>5, <1>6, <1>7, <1>8, <1>9, <1>10, <1>11, <1>12, <1>13
  DEF RunNext, RunStep

\* The invariant holds throughout.
LEMMA IInvAlways == RunSpec => []IInv
BY InitIInv, NextIInv, PTL DEF RunSpec

----------------------------------------------------------------------------
\* The variables keep their types.
THEOREM RunTypesHold == RunSpec => []RunTypeOK
BY IInvAlways, IInvImplies, PTL

\* No verdict at hand, stored or on record is of another statement, a mock's
\* taken for live, or made up, whatever the interleaving with cache hits.
THEOREM VerdictsAreReal == RunSpec => []VerdictsAreTheGates
BY IInvAlways, IInvImplies, PTL

\* Unless the library changed under a call, verdicts are filed under the
\* library they were earned in.
THEOREM LabelsAreTrue == RunSpec => []LabelsTrue
BY IInvAlways, IInvImplies, PTL

\* Nothing follows a pass.
THEOREM PassIsLast == RunSpec => []PassEndsTheSearch
BY IInvAlways, IInvImplies, PTL

----------------------------------------------------------------------------
\* The sweep over what is on file.

\* A memory holds Lean's answers, each in the library it is filed under.
Sound(memo) ==
  /\ memo \in Memo
  /\ ~ shifted => \A k \in MemoKey : memo[k] # None => memo[k] = Elab[<<k[2], k[1]>>]

\* A record that a sweep may look at.
Recorded(r) == r \in Record /\ Accepted(r.verdict) /\ (~ moved => TrueRecord(r))

\* No answer, or Lean's on the form that the record pins.
Answers(r, env, a) ==
  \/ a \in {None, "unavailable"}
  \/ PinOf(r) # None /\ env \in Env /\ a = Elab[<<PinOf(r), env>>]

SweepGood(s) ==
  /\ s = [active |-> s.active, pinned |-> s.pinned, env |-> s.env, records |-> s.records,
          todo |-> s.todo, answers |-> s.answers, left |-> s.left, memo |-> s.memo,
          learned |-> s.learned]
  /\ s.env \in Env \cup {MockLib, NoLibrary}
  /\ s.active /\ ~ shifted /\ s.env \in Env => s.env = library
  /\ s.todo \subseteq DOMAIN s.records
  /\ s.answers = [i \in DOMAIN s.records |-> s.answers[i]]
  /\ \A i \in DOMAIN s.records :
       /\ Recorded(s.records[i])
       /\ ~ shifted => Answers(s.records[i], s.env, s.answers[i])
  /\ Sound(s.memo)

\* What the census says of one node.
Told(n, env) ==
  CASE n.bucket = "fresh" ->
         /\ n.record.earned = env
         /\ env \in Env => Accepted(Gate[<<n.record.goal, n.record.code, env>>])
    [] n.bucket = "repair" ->
         /\ PinOf(n.record) # None /\ env \in Env
         /\ Elab[<<PinOf(n.record), env>>] = PinOf(n.record)
    [] n.bucket = "moved" ->
         /\ PinOf(n.record) # None /\ env \in Env
         /\ Elab[<<PinOf(n.record), env>>] # PinOf(n.record)
    [] n.bucket = "unknown" -> TRUE

FiledGood ==
  /\ filed \in Seq(Record)
  /\ ~ moved => \A i \in DOMAIN filed : TrueRecord(filed[i])

SweepInv == IInv /\ FiledGood /\ Sound(disk) /\ SweepGood(sweep) /\ CensusIsTrue

----------------------------------------------------------------------------
\* Nobody forgets that the library changed under a call.
LEMMA MovedStays == RunNext /\ moved => moved'
BY DEF RunNext, Update, Toggle, Start, RunStep, Generate, Check, SampleFails, GiveUp, RoundEnd,
       Hammer, Recheck, Finish, Restart

\* The form pinned with a record, if it has one.
LEMMA PinnedForm ==
  ASSUME NEW r \in Record, PinOf(r) # None
  PROVE  PinOf(r) \in Form
BY SweepAssumption DEF PinOf, Record

\* Events are read from the end of what is filed.
LEMMA NewestFiled ==
  ASSUME filed \in Seq(Record), NEW i \in DOMAIN Newest
  PROVE  \E j \in DOMAIN filed : Newest[i] = filed[j]
<1> DEFINE k == IF Len(filed) > Limit THEN Len(filed) - Limit + 1 ELSE 1
           s == SubSeq(filed, k, Len(filed))
<1>1. Len(filed) \in Nat /\ Limit \in Nat /\ k \in Nat \ {0}
  BY SweepAssumption
<1>2. s \in Seq(Record) /\ \A j \in 1 .. Len(s) : s[j] = filed[k + j - 1]
      /\ Len(s) = IF k <= Len(filed) THEN Len(filed) - k + 1 ELSE 0
  BY <1>1
<1>3. Newest = [j \in 1 .. Len(s) |-> s[(Len(s) - j) + 1]]
  BY DEF Newest, Reverse
<1> HIDE DEF k, s
<1>4. i \in 1 .. Len(s) /\ Newest[i] = s[(Len(s) - i) + 1] /\ Len(s) \in Nat
  BY <1>2, <1>3
<1>5. PICK j \in 1 .. Len(s) : j = Len(s) - i + 1
  BY <1>4
<1>6. k + j - 1 \in DOMAIN filed /\ Newest[i] = filed[k + j - 1]
  BY <1>1, <1>2, <1>4, <1>5
<1>7. QED
  BY <1>6

\* So what a sweep gathers are accepted records on file.
LEMMA GatheredIsRecorded ==
  ASSUME FiledGood, NEW i \in DOMAIN Gathered
  PROVE  Recorded(Gathered[i])
<1>1. i \in DOMAIN Newest /\ Accepted(Newest[i].verdict) /\ Gathered[i] = Newest[i]
  BY DEF Gathered, Counted
<1>2. PICK j \in DOMAIN filed : Newest[i] = filed[j]
  BY <1>1, NewestFiled DEF FiledGood
<1>3. filed[j] \in Record /\ (~ moved => TrueRecord(filed[j]))
  BY DEF FiledGood
<1>4. QED
  BY <1>1, <1>2, <1>3 DEF Recorded

----------------------------------------------------------------------------
(* A step of the others, and what a sweep knows after it. *)

LEMMA SoundStays ==
  ASSUME NEW memo, Sound(memo), shifted => shifted'
  PROVE  memo \in Memo /\ (~ shifted' => \A k \in MemoKey :
                             memo[k] # None => memo[k] = Elab[<<k[2], k[1]>>])
BY DEF Sound

LEMMA RecordedStays ==
  ASSUME NEW r, Recorded(r), moved => moved'
  PROVE  r \in Record /\ Accepted(r.verdict) /\ (~ moved' => TrueRecord(r))
BY DEF Recorded

\* A sweep is as good as before.
LEMMA SweepStays ==
  ASSUME SweepGood(sweep), UNCHANGED sweep, moved => moved', shifted => shifted',
         sweep.active /\ ~ shifted' => library' = library
  PROVE  SweepGood(sweep)'
<1>1. Sound(sweep.memo)'
  BY SoundStays DEF SweepGood, Sound
<1>2. \A i \in DOMAIN sweep.records : Recorded(sweep.records[i])'
  BY RecordedStays DEF SweepGood, Recorded, TrueRecord, VerdictIsTheGates
<1>3. QED
  BY <1>1, <1>2 DEF SweepGood, Answers, PinOf

LEMMA CensusStays ==
  ASSUME CensusIsTrue, UNCHANGED census, moved => moved', shifted => shifted'
  PROVE  CensusIsTrue'
<1>1. Steady' => Steady
  BY DEF Steady
<1>2. CensusIsTrue <=> (Steady => \A n \in census.nodes : Told(n, census.env))
  BY DEF CensusIsTrue, Told
<1>3. CensusIsTrue' <=> (Steady' => \A n \in census'.nodes : Told(n, census'.env))
  BY DEF CensusIsTrue, Told, PinOf
<1>4. QED
  BY <1>1, <1>2, <1>3

LEMMA SoundDisk ==
  ASSUME Sound(disk), UNCHANGED disk, shifted => shifted'
  PROVE  Sound(disk)'
BY SoundStays DEF Sound

\* The types that CheckedRuns keeps say that the library is a revision.
LEMMA BesideStep ==
  ASSUME SweepInv, Beside
  PROVE  SweepInv'
<1>0. RunNext /\ IInv
  BY DEF SweepInv, Beside
<1>1. IInv'
  BY <1>0, NextIInv
<1>2. /\ moved => moved'
      /\ shifted => shifted'
      /\ sweep.active /\ ~ shifted' => library' = library
      /\ UNCHANGED <<filed, disk, sweep, census>>
  <2>1. moved => moved'
    BY <1>0, MovedStays
  <2>2. shifted' = (shifted \/ (sweep.active /\ library' # library))
        /\ UNCHANGED <<filed, disk, sweep, census>>
    BY DEF Beside
  <2>3. QED
    BY <2>1, <2>2
<1>3. FiledGood'
  <2>1. FiledGood /\ filed' = filed /\ (moved => moved')
    BY <1>2 DEF SweepInv
  <2>2. filed' \in Seq(Record) /\ (~ moved' => \A i \in DOMAIN filed' : TrueRecord(filed'[i]))
    BY <2>1 DEF FiledGood
  <2>3. QED
    BY <2>2 DEF FiledGood, TrueRecord, VerdictIsTheGates
<1>4. Sound(disk)' /\ SweepGood(sweep)' /\ CensusIsTrue'
  <2>1. Sound(disk) /\ SweepGood(sweep) /\ CensusIsTrue
    BY DEF SweepInv
  <2>2. Sound(disk)'
    BY <1>2, <2>1, SoundDisk
  <2>3. SweepGood(sweep)'
    BY <1>2, <2>1, SweepStays
  <2>4. CensusIsTrue'
    BY <1>2, <2>1, CensusStays
  <2>5. QED
    BY <2>2, <2>3, <2>4
<1>5. QED
  BY <1>1, <1>3, <1>4 DEF SweepInv

\* A record of a completed call is true.
LEMMA FileRecordStep ==
  ASSUME SweepInv, NEW r \in log, FileRecord(r)
  PROVE  SweepInv'
<1>1. UNCHANGED <<library, visible, cache, run, log, moved, spare, disk, sweep, census, shifted>>
  BY DEF FileRecord, vars
<1>2. IInv'
  BY <1>1, NextIInv DEF SweepInv, vars
<1>3. r \in Record /\ (~ moved => TrueRecord(r))
  BY DEF SweepInv, IInv, LogGood, TrueRecord, Record
<1>4. FiledGood'
  <2>1. filed \in Seq(Record) /\ filed' = Append(filed, r)
    BY DEF FileRecord, SweepInv, FiledGood
  <2>2. /\ filed' \in Seq(Record)
        /\ \A i \in DOMAIN filed' : filed'[i] = r \/ (i \in DOMAIN filed /\ filed'[i] = filed[i])
    BY <1>3, <2>1
  <2>3. ~ moved => \A i \in DOMAIN filed' : TrueRecord(filed'[i])
    BY <1>3, <2>2 DEF SweepInv, FiledGood
  <2>4. QED
    BY <1>1, <2>2, <2>3 DEF FiledGood, TrueRecord, VerdictIsTheGates
<1>5. QED
  BY <1>1, <1>2, <1>4, SoundDisk, SweepStays, CensusStays DEF SweepInv

\* A step of the sweep itself: the library and the records stay.
LEMMA OwnStep ==
  ASSUME SweepInv, UNCHANGED <<vars, filed, shifted>>, NEW s, sweep' = s, SweepGood(s),
         UNCHANGED census \/ (Steady => \A n \in census'.nodes : Told(n, census'.env)),
         Sound(disk')
  PROVE  SweepInv'
<1>1. UNCHANGED <<library, visible, cache, run, log, moved, spare>>
  BY DEF vars
<1>2. IInv'
  BY NextIInv DEF SweepInv
<1>3. FiledGood'
  BY <1>1 DEF SweepInv, FiledGood, TrueRecord, VerdictIsTheGates
<1>4. Sound(disk)'
  BY <1>1 DEF Sound
<1>5. SweepGood(sweep)'
  <2>1. Sound(s.memo) /\ \A i \in DOMAIN s.records : Recorded(s.records[i])
    BY DEF SweepGood
  <2>2. Sound(s.memo)' /\ \A i \in DOMAIN s.records : Recorded(s.records[i])'
    BY <1>1, <2>1 DEF Sound, Recorded, TrueRecord, VerdictIsTheGates
  <2>3. QED
    BY <1>1, <2>2 DEF SweepGood, Answers, PinOf, Sound, Recorded, TrueRecord, VerdictIsTheGates
<1>6. CensusIsTrue'
  <2>1. CASE UNCHANGED census
    BY <1>1, <2>1, CensusStays DEF SweepInv
  <2>2. CASE Steady => \A n \in census'.nodes : Told(n, census'.env)
    BY <1>1, <2>2 DEF CensusIsTrue, Steady, Told, PinOf
  <2>3. QED
    BY <2>1, <2>2
<1>7. QED
  BY <1>2, <1>3, <1>4, <1>5, <1>6 DEF SweepInv

\* No sweep, or one that died.
LEMMA NoMemoIsSound == Sound(NoMemo)
BY DEF Sound, NoMemo, Memo

LEMMA IdleIsNoSweep == SweepGood(IdleSweep)
<1>1. PICK s : s = IdleSweep
  OBVIOUS
<1>2. /\ s = [active |-> s.active, pinned |-> s.pinned, env |-> s.env, records |-> s.records,
              todo |-> s.todo, answers |-> s.answers, left |-> s.left, memo |-> s.memo,
              learned |-> s.learned]
      /\ s.active = FALSE /\ s.env = NoLibrary /\ s.records = <<>> /\ s.todo = {}
      /\ s.answers = <<>> /\ s.memo = NoMemo
  BY <1>1 DEF IdleSweep
<1>3. DOMAIN s.records = {} /\ s.answers = [i \in DOMAIN s.records |-> s.answers[i]]
  BY <1>2
<1>4. SweepGood(s)
  BY <1>2, <1>3, NoMemoIsSound DEF SweepGood
<1>5. QED
  BY <1>1, <1>4

\* A sweep that starts names the library of this moment.
LEMMA OpenStep ==
  ASSUME SweepInv, NEW pinned \in BOOLEAN, OpenSweep(pinned)
  PROVE  SweepInv'
<1>1. PICK env \in Today(pinned), memo \in {disk, NoMemo} :
        sweep' = [IdleSweep EXCEPT
                   !.active = TRUE, !.pinned = pinned, !.env = env,
                   !.records = Gathered, !.todo = DOMAIN Gathered,
                   !.answers = [i \in DOMAIN Gathered |-> None],
                   !.left = MaxReelaborations, !.memo = memo]
  BY DEF OpenSweep
<1>2. env \in Env \cup {MockLib, NoLibrary} /\ (env \in Env => env = library)
  BY RunAssumption, SweepAssumption DEF Today, SweepInv, IInv
<1>3. Sound(memo)
  BY NoMemoIsSound DEF SweepInv
<1>4. \A i \in DOMAIN Gathered : Recorded(Gathered[i])
  BY GatheredIsRecorded DEF SweepInv
<1>5. PICK records : records = Gathered
  OBVIOUS
<1>6. PICK answers : answers = [i \in DOMAIN records |-> None]
  OBVIOUS
<1>7. PICK s : s = [IdleSweep EXCEPT
                   !.active = TRUE, !.pinned = pinned, !.env = env,
                   !.records = records, !.todo = DOMAIN records,
                   !.answers = answers, !.left = MaxReelaborations, !.memo = memo]
  OBVIOUS
<1>8. /\ s = [active |-> s.active, pinned |-> s.pinned, env |-> s.env, records |-> s.records,
              todo |-> s.todo, answers |-> s.answers, left |-> s.left, memo |-> s.memo,
              learned |-> s.learned]
      /\ s.env = env /\ s.records = records /\ s.todo = DOMAIN records
      /\ s.answers = answers /\ s.memo = memo
  BY <1>7 DEF IdleSweep
<1>9. SweepGood(s)
  BY <1>2, <1>3, <1>4, <1>5, <1>6, <1>8 DEF SweepGood, Answers
<1>10. sweep' = s
  BY <1>1, <1>5, <1>6, <1>7
<1>11. UNCHANGED <<vars, filed, disk, census, shifted>>
  BY DEF OpenSweep
<1>12. Sound(disk')
  BY <1>11 DEF SweepInv
<1>13. QED
  BY <1>9, <1>10, <1>11, <1>12, OwnStep

\* One more record has an answer, and perhaps the memory one more entry.
LEMMA AnswerKeeps ==
  ASSUME SweepInv, sweep.active, NEW i \in sweep.todo, NEW a, NEW left, NEW memo, NEW learned,
         ~ shifted => Answers(sweep.records[i], sweep.env, a), Sound(memo),
         NEW s, s = [sweep EXCEPT !.answers[i] = a, !.todo = @ \ {i}, !.left = left,
                                  !.memo = memo, !.learned = learned]
  PROVE  SweepGood(s)
<1>1. SweepGood(sweep) /\ i \in DOMAIN sweep.records
  BY DEF SweepInv, SweepGood
<1>2. PICK answers : answers = [sweep.answers EXCEPT ![i] = a]
  OBVIOUS
<1>3. /\ answers = [j \in DOMAIN sweep.records |-> answers[j]] /\ answers[i] = a
      /\ \A j \in DOMAIN sweep.records \ {i} : answers[j] = sweep.answers[j]
  BY <1>1, <1>2 DEF SweepGood
<1>a. PICK active : active = sweep.active
  OBVIOUS
<1>b. PICK pinned : pinned = sweep.pinned
  OBVIOUS
<1>4. s = [active |-> active, pinned |-> pinned, env |-> sweep.env,
           records |-> sweep.records, todo |-> sweep.todo \ {i}, answers |-> answers,
           left |-> left, memo |-> memo, learned |-> learned]
  BY <1>1, <1>2, <1>a, <1>b DEF SweepGood
<1>5. /\ s.env = sweep.env /\ s.records = sweep.records
      /\ s.todo = sweep.todo \ {i} /\ s.answers = answers /\ s.memo = memo
      /\ s = [active |-> s.active, pinned |-> s.pinned, env |-> s.env, records |-> s.records,
              todo |-> s.todo, answers |-> s.answers, left |-> s.left, memo |-> s.memo,
              learned |-> s.learned]
  <2>1. s.env = sweep.env /\ s.records = sweep.records /\ s.todo = sweep.todo \ {i}
    BY ONLY <1>4
  <2>2. s.answers = answers /\ s.memo = memo
    BY ONLY <1>4
  <2>3. s = [active |-> s.active, pinned |-> s.pinned, env |-> s.env, records |-> s.records,
              todo |-> s.todo, answers |-> s.answers, left |-> s.left, memo |-> s.memo,
              learned |-> s.learned]
    BY ONLY <1>4
  <2>4. QED
    BY <2>1, <2>2, <2>3
<1>6. \A j \in DOMAIN s.records :
        ~ shifted => Answers(s.records[j], s.env, s.answers[j])
  BY <1>1, <1>3, <1>5 DEF SweepGood
<1>7. QED
  BY <1>1, <1>3, <1>5, <1>6 DEF SweepGood

\* An eligible record has a key when the library of the sweep is a revision.
LEMMA KeyOfEligible ==
  ASSUME SweepInv, NEW i \in DOMAIN sweep.records, Eligible(sweep.records[i])
  PROVE  /\ PinOf(sweep.records[i]) \in Form /\ PinOf(sweep.records[i]) # None
         /\ sweep.env \in Env => KeyIn(sweep.records[i]) \in MemoKey
<1>1. sweep.records[i] \in Record
  BY DEF SweepInv, SweepGood, Recorded
<1>2. QED
  BY <1>1, PinnedForm DEF Eligible, KeyIn, MemoKey

\* Skipped, replayed, refused: the memory stays.
LEMMA FreeAttempts ==
  ASSUME SweepInv, NEW i \in sweep.todo, sweep.active, Skip(i) \/ Replay(i) \/ Refuse(i),
         UNCHANGED <<vars, filed, disk, census, shifted, toSweep>>
  PROVE  SweepInv'
<1>1. i \in DOMAIN sweep.records /\ Sound(sweep.memo) /\ Sound(disk)
  BY DEF SweepInv, SweepGood
<1>2. PICK a : sweep' = Answered(i, a) /\ (~ shifted => Answers(sweep.records[i], sweep.env, a))
  <2>1. CASE Skip(i)
    BY <2>1 DEF Skip, Answers
  <2>2. CASE Replay(i)
    <3>1. PICK a : a = Remembered(sweep.records[i])
      OBVIOUS
    <3>2. a # None /\ Eligible(sweep.records[i]) /\ sweep' = Answered(i, a)
      BY <2>2, <3>1 DEF Replay
    <3>3. sweep.env \in Env /\ a = sweep.memo[KeyIn(sweep.records[i])]
      BY <3>1, <3>2 DEF Remembered
    <3>4. ~ shifted => a = Elab[<<PinOf(sweep.records[i]), sweep.env>>]
      BY <1>1, <3>2, <3>3, KeyOfEligible DEF Sound, KeyIn
    <3>5. QED
      BY <1>1, <3>2, <3>3, <3>4, KeyOfEligible DEF Answers
  <2>3. CASE Refuse(i)
    BY <2>3 DEF Refuse, Answers
  <2>4. QED
    BY <2>1, <2>2, <2>3
<1>3. PICK s : s = [sweep EXCEPT !.answers[i] = a, !.todo = @ \ {i}, !.left = sweep.left,
                                 !.memo = sweep.memo, !.learned = sweep.learned]
  OBVIOUS
<1>4. SweepGood(s)
  BY <1>1, <1>2, <1>3, AnswerKeeps
<1>5. sweep' = s
  <2>1. SweepGood(sweep)
    BY DEF SweepInv
  <2>2. PICK b : b = sweep.answers
    OBVIOUS
  <2>3. QED
    BY <1>2, <1>3, <2>1, <2>2 DEF Answered, SweepGood
<1>6. Sound(disk')
  BY <1>1
<1>7. QED
  BY <1>4, <1>5, <1>6, OwnStep

\* Lean answers about the library of this moment, which is the sweep's.
LEMMA ElaborateStep ==
  ASSUME SweepInv, NEW i \in sweep.todo, sweep.active, Elaborate(i),
         UNCHANGED <<vars, filed, disk, census, shifted, toSweep>>
  PROVE  SweepInv'
<1>1. i \in DOMAIN sweep.records /\ Sound(sweep.memo) /\ Sound(disk)
      /\ Eligible(sweep.records[i]) /\ SweepGood(sweep)
  BY DEF SweepInv, SweepGood, Elaborate
<1>2. PICK r : r = sweep.records[i]
  OBVIOUS
<1>3. PICK k : k = KeyIn(r)
  OBVIOUS
<1>4. PICK a \in LeanAnswers(r) :
        sweep' = [Answered(i, a) EXCEPT
                   !.left = @ - 1,
                   !.memo = IF a = "unavailable" THEN @ ELSE [@ EXCEPT ![k] = a],
                   !.learned = @ \/ a # "unavailable"]
  BY <1>2, <1>3 DEF Elaborate
<1>5. a # "unavailable" => /\ sweep.env \in Env /\ k \in MemoKey /\ a = Elab[<<PinOf(r), library>>]
                           /\ k[1] = sweep.env /\ k[2] = PinOf(r) /\ a \in Form \cup {"rejected"}
  <2>1. ASSUME a # "unavailable"
        PROVE  sweep.env \in Env /\ a = Elab[<<PinOf(r), library>>]
    BY <1>4, <2>1 DEF LeanAnswers
  <2>2. PinOf(r) \in Form /\ library \in Env
    BY <1>1, <1>2, KeyOfEligible DEF SweepInv, IInv
  <2>3. Elab[<<PinOf(r), library>>] \in Form \cup {"rejected"}
    BY <2>2, SweepAssumption
  <2>4. QED
    BY <1>1, <1>2, <1>3, <2>1, <2>2, <2>3, KeyOfEligible DEF KeyIn
<1>6. a # "unavailable" /\ ~ shifted => a = Elab[<<PinOf(r), sweep.env>>]
  BY <1>1, <1>5 DEF SweepGood
<1>7. ~ shifted => Answers(r, sweep.env, a)
  BY <1>1, <1>2, <1>5, <1>6, KeyOfEligible DEF Answers
<1>8. PICK memo : memo = IF a = "unavailable" THEN sweep.memo ELSE [sweep.memo EXCEPT ![k] = a]
  OBVIOUS
<1>9. Sound(memo)
  <2>1. CASE a = "unavailable"
    BY <1>1, <1>8, <2>1
  <2>2. CASE a # "unavailable"
    <3>1. memo = [sweep.memo EXCEPT ![k] = a]
      BY <1>8, <2>2
    <3>2. memo \in Memo
      BY <1>1, <1>5, <2>2, <3>1 DEF Sound, Memo
    <3>3. memo[k] = a /\ \A l \in MemoKey \ {k} : memo[l] = sweep.memo[l]
      BY <1>1, <1>5, <2>2, <3>1 DEF Sound, Memo
    <3>4. QED
      BY <1>1, <1>5, <1>6, <2>2, <3>2, <3>3 DEF Sound
  <2>3. QED
    BY <2>1, <2>2
<1>10. PICK left : left = sweep.left - 1
  OBVIOUS
<1>11. PICK learned : learned = (sweep.learned \/ a # "unavailable")
  OBVIOUS
<1>12. PICK s : s = [sweep EXCEPT !.answers[i] = a, !.todo = @ \ {i}, !.left = left,
                                  !.memo = memo, !.learned = learned]
  OBVIOUS
<1>13. SweepGood(s)
  BY <1>1, <1>2, <1>7, <1>9, <1>12, AnswerKeeps
<1>14. sweep' = s
  <2>1. PICK d : d = Answered(i, a)
    OBVIOUS
  <2>2. /\ d = [d EXCEPT !.left = sweep.left, !.memo = sweep.memo, !.learned = sweep.learned]
        /\ d.left = sweep.left /\ d.memo = sweep.memo /\ d.learned = sweep.learned
        /\ d = [sweep EXCEPT !.answers[i] = a, !.todo = @ \ {i}]
    BY <1>1, <2>1 DEF Answered, SweepGood
  <2>3. sweep' = [d EXCEPT !.left = left, !.memo = memo, !.learned = learned]
    BY <1>4, <1>8, <1>10, <1>11, <2>1, <2>2
  <2>4. QED
    BY <1>1, <1>12, <2>2, <2>3 DEF SweepGood
<1>15. Sound(disk')
  BY <1>1
<1>16. QED
  BY <1>13, <1>14, <1>15, OwnStep

\* The bucket of a record follows from what the sweep knows of it.
LEMMA AssessTells ==
  ASSUME SweepGood(sweep), Steady, NEW i \in DOMAIN sweep.records, NEW n,
         n = [record |-> sweep.records[i],
              bucket |-> Assess(sweep.records[i], sweep.env, sweep.answers[i])]
  PROVE  Told(n, sweep.env)
<1>1. PICK r : r = sweep.records[i]
  OBVIOUS
<1>2. PICK a : a = sweep.answers[i]
  OBVIOUS
<1>3. PICK env : env = sweep.env
  OBVIOUS
<1>4. /\ r \in Record /\ Accepted(r.verdict) /\ TrueRecord(r) /\ Answers(r, env, a)
      /\ env \in Env \cup {MockLib, NoLibrary}
  BY <1>1, <1>2, <1>3 DEF SweepGood, Steady, Recorded
<1>5. n.record = r /\ n.bucket = Assess(r, env, a)
  BY <1>1, <1>2, <1>3
<1>6. CASE n.bucket = "fresh"
  <2>1. r.against = env /\ env \in Env \cup {MockLib}
    BY <1>4, <1>5, <1>6 DEF Assess
  <2>2. r.earned = env
    BY <1>4, <2>1, RunAssumption DEF TrueRecord
  <2>3. env \in Env => Accepted(Gate[<<r.goal, r.code, env>>])
    BY <1>4, <2>2 DEF TrueRecord, VerdictIsTheGates
  <2>4. QED
    BY <1>3, <1>5, <1>6, <2>2, <2>3 DEF Told
<1>7. CASE n.bucket \in {"repair", "moved"}
  <2>1. /\ PinOf(r) # None /\ a \notin {None, "unavailable"}
        /\ n.bucket = "repair" <=> a = PinOf(r)
    BY <1>5, <1>7 DEF Assess
  <2>2. env \in Env /\ a = Elab[<<PinOf(r), env>>]
    BY <1>4, <2>1 DEF Answers
  <2>3. QED
    BY <1>3, <1>5, <1>7, <2>1, <2>2 DEF Told
<1>8. CASE n.bucket = "unknown"
  BY <1>8 DEF Told
<1>9. QED
  BY <1>5, <1>6, <1>7, <1>8 DEF Assess

LEMMA CloseStep ==
  ASSUME SweepInv, CloseSweep
  PROVE  SweepInv'
<1>1. UNCHANGED <<vars, filed, shifted>> /\ SweepGood(sweep) /\ Sound(disk)
  BY DEF CloseSweep, SweepInv
<1>2. PICK s : s = [sweep EXCEPT !.active = FALSE]
  OBVIOUS
<1>3. /\ s.env = sweep.env /\ s.records = sweep.records /\ s.todo = sweep.todo
      /\ s.answers = sweep.answers /\ s.memo = sweep.memo /\ s.active = FALSE
      /\ s = [active |-> s.active, pinned |-> s.pinned, env |-> s.env, records |-> s.records,
              todo |-> s.todo, answers |-> s.answers, left |-> s.left, memo |-> s.memo,
              learned |-> s.learned]
  BY <1>1, <1>2 DEF SweepGood
<1>4. SweepGood(s)
  BY <1>1, <1>3 DEF SweepGood
<1>5. Sound(disk')
  BY <1>1 DEF CloseSweep, SweepGood
<1>6. census'.env = sweep.env
      /\ census'.nodes =
           {[record |-> sweep.records[i],
             bucket |-> Assess(sweep.records[i], sweep.env, sweep.answers[i])] :
              i \in DOMAIN sweep.records}
  BY DEF CloseSweep
<1>7. Steady => \A n \in census'.nodes : Told(n, census'.env)
  BY <1>1, <1>6, AssessTells
<1>8. sweep' = s
  BY <1>2 DEF CloseSweep
<1>9. QED
  BY <1>1, <1>4, <1>5, <1>7, <1>8, OwnStep

\* A file half written is no memory, and none is a sound one.
LEMMA KillStep ==
  ASSUME SweepInv, KillSweep
  PROVE  SweepInv'
<1>1. UNCHANGED <<vars, filed, census, shifted>> /\ Sound(disk)
  BY DEF KillSweep, SweepInv
<1>2. sweep' = IdleSweep /\ disk' \in {disk, NoMemo}
  BY DEF KillSweep
<1>3. Sound(disk')
  BY <1>1, <1>2, NoMemoIsSound
<1>4. QED
  BY <1>1, <1>2, <1>3, IdleIsNoSweep, OwnStep

LEMMA InitSweepInv == SweepInit => SweepInv
<1> SUFFICES ASSUME SweepInit PROVE SweepInv
  OBVIOUS
<1>1. IInv
  BY InitIInv DEF SweepInit
<1>2. PICK p \in Projects[spare] : filed = p.filed
  BY DEF SweepInit
<1>3. spare \in Workload
  BY DEF SweepInit, RunInit
<1>4. p \in [filed : Seq(Record), sweeps : Nat] /\ \A i \in DOMAIN p.filed : TrueRecord(p.filed[i])
  BY <1>2, <1>3, SweepAssumption
<1>5. FiledGood
  BY <1>2, <1>4 DEF FiledGood
<1>6. Sound(disk) /\ SweepGood(sweep)
  BY NoMemoIsSound, IdleIsNoSweep DEF SweepInit
<1>7. CensusIsTrue
  BY DEF SweepInit, NoCensus, CensusIsTrue
<1>8. QED
  BY <1>1, <1>5, <1>6, <1>7 DEF SweepInv

LEMMA StutterStep ==
  ASSUME SweepInv, UNCHANGED allVars
  PROVE  SweepInv'
<1>1. UNCHANGED <<vars, filed, shifted, sweep, census, disk>>
  BY DEF allVars, sweepVars
<1>2. SweepGood(sweep) /\ Sound(disk')
  BY <1>1 DEF SweepInv
<1>3. QED
  BY <1>1, <1>2, OwnStep

LEMMA NextSweepInv == SweepInv /\ [Next]_allVars => SweepInv'
<1> SUFFICES ASSUME SweepInv, [Next]_allVars PROVE SweepInv'
  OBVIOUS
<1>1. ASSUME NEW i \in 1 .. Limit, Attempt(i) PROVE SweepInv'
  BY <1>1, FreeAttempts, ElaborateStep DEF Attempt
<1>2. QED
  BY <1>1, BesideStep, FileRecordStep, OpenStep, CloseStep, KillStep, StutterStep DEF Next

LEMMA SweepInvAlways == Spec => []SweepInv
BY InitSweepInv, NextSweepInv, PTL DEF Spec

----------------------------------------------------------------------------
\* What the census says of a verdict is so in the library the sweep found: the
\* answer may come from the file, and the library may have gone and come back.
THEOREM CensusTellsTheTruth == Spec => []CensusIsTrue
<1>1. SweepInv => CensusIsTrue
  BY DEF SweepInv
<1>2. QED
  BY SweepInvAlways, <1>1, PTL

\* What the file remembers is Lean's answer in the library it is filed under,
\* whatever sweeps died and whatever the file lost.
THEOREM MemoryTellsTheTruth == Spec => []MemoIsTrue
<1>1. SweepInv => MemoIsTrue
  BY DEF SweepInv, Sound, MemoIsTrue
<1>2. QED
  BY SweepInvAlways, <1>1, PTL

\* The calls beside the sweeps keep what is proved of them alone.
THEOREM CallsAreUndisturbed ==
  Spec => [](RunTypeOK /\ VerdictsAreTheGates /\ LabelsTrue /\ PassEndsTheSearch)
<1>1. SweepInv => RunTypeOK /\ VerdictsAreTheGates /\ LabelsTrue /\ PassEndsTheSearch
  BY IInvImplies DEF SweepInv
<1>2. QED
  BY SweepInvAlways, <1>1, PTL
=============================================================================
