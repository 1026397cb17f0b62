------------------------------ MODULE WarmLean ------------------------------
(***************************************************************************)
(* The warm Lean checker.  The agent's verify_source asks a LeanSession    *)
(* (verify/lean_session.rs) to check a source and to audit the axioms of a *)
(* theorem in it.  Each request is one line to a Python server             *)
(* (lean_repl.py, serve), which keeps one session object with a Lean REPL  *)
(* process behind it, or compiles file by file when no REPL is installed.  *)
(* A reader thread per process moves the answers to the session's queue.   *)
(*                                                                         *)
(* The REPL answers in order, may hang and may die at any moment.  Answers *)
(* carry no identification: what arrives is taken for what was asked.  A   *)
(* source is taken to fit in the pipe to the REPL: _send waits for ever.   *)
(***************************************************************************)
EXTENDS Naturals, Sequences, FiniteSets

CONSTANTS
  Source,
  None,
  Compiles,    \* the sources Lean accepts
  Allowed,     \* those of them that rest on the allowed axioms only
  Named,       \* the sources in which the name that extract_theorem reads, the
               \* bare name of the first theorem, denotes that theorem
  Mode,        \* "repl" or "lean", as serve may find them installed
  MaxCalls,    \* bound on the requests of the agent
  MaxProcs     \* bound on the processes that serve starts

ASSUME SourceAssumption ==
  /\ None \notin Source \cup [src : Source, thm : BOOLEAN]
  /\ Compiles \subseteq Source /\ Allowed \subseteq Compiles
  /\ Named \subseteq Source
  /\ Mode \subseteq {"repl", "lean"}
  /\ MaxCalls \in Nat /\ MaxProcs \in Nat \ {0}

Base == "base"        \* the environment that holds the imports

\* Commands to the REPL.  An environment is known by the source it holds.
ReplCommand == [do : {"import"}] \cup [do : {"check"}, src : Source]
             \cup [do : {"audit"}, src : Source, env : Source \cup {Base}]
EOF == [do |-> "eof"]

VARIABLES
  mode,
  calls,     \* requests made
  client,    \* the agent's side: session "warm" or "gone", and what it waits for
  serve,     \* the server: where it is in a request and what it knows of it
  object,    \* the session object: its process, if it is warm, if it restarted by itself
  procs,     \* the processes the object started: [alive, inbox, out, read]
  queue,     \* answers, and ends of files, in the order the readers put them
  verdict    \* what the last request came to

warmVars == <<mode, calls, client, serve, object, procs, queue, verdict>>

Process == [alive : BOOLEAN, inbox : Seq(ReplCommand), out : Seq(ReplCommand), open : BOOLEAN]
Request == [src : Source, thm : BOOLEAN]
At == {"idle", "ensure", "check", "warm", "rewarm", "answer", "audit", "compile", "heir"}
WarmVerdict == [src : Source, thm : BOOLEAN, ok : BOOLEAN, clean : BOOLEAN,
                audited : BOOLEAN, torn : BOOLEAN]

WarmTypeOK ==
  /\ mode \in {"repl", "lean"}
  /\ calls \in 0 .. MaxCalls
  /\ client \in [session : {"warm", "gone"}, asks : {None} \cup Request]
  /\ serve \in [at : At, ok : BOOLEAN]
  /\ object \in [proc : 0 .. MaxProcs, warmed : BOOLEAN, torn : BOOLEAN]
  /\ procs \in Seq(Process) /\ object.proc <= Len(procs)
  /\ queue \in Seq(ReplCommand \cup {EOF})
  /\ verdict \in {None} \cup WarmVerdict

Started == [alive |-> TRUE, inbox |-> <<[do |-> "import"]>>, out |-> <<>>, open |-> TRUE]

\* LeanSession::start has warmed the session, or has failed.
WarmInit ==
  /\ mode \in Mode
  /\ calls = 0
  /\ client \in [session : {"warm", "gone"}, asks : {None}]
  /\ serve = [at |-> "idle", ok |-> FALSE]
  /\ IF client.session = "warm"
       THEN /\ object = [proc |-> 1, warmed |-> TRUE, torn |-> FALSE]
            /\ procs = <<[Started EXCEPT !.inbox = <<>>]>>
       ELSE /\ object = [proc |-> 0, warmed |-> FALSE, torn |-> FALSE]
            /\ procs = <<>>
  /\ queue = <<>>
  /\ verdict = None

Alive == object.proc # 0 /\ procs[object.proc].alive
----------------------------------------------------------------------------
(* The REPL processes and their readers (external).                        *)

\* Lean takes the first command and prints its answer, also when lake, which
\* started it, is dead: then the pipe is open as long as Lean lives.
LeanAnswers(p) ==
  /\ procs[p].open /\ procs[p].inbox # <<>>
  /\ procs' = [procs EXCEPT ![p].inbox = Tail(@), ![p].out = Append(@, Head(procs[p].inbox))]
  /\ UNCHANGED <<mode, calls, client, serve, object, queue, verdict>>

LeanDies(p) ==
  /\ procs[p].alive
  /\ procs' = [procs EXCEPT ![p].alive = FALSE]
  /\ UNCHANGED <<mode, calls, client, serve, object, queue, verdict>>

\* _reader_loop, which puts what it reads on the queue the object has by then.
ReaderPuts(p) ==
  /\ procs[p].open
  /\ \/ /\ procs[p].out # <<>>
        /\ queue' = Append(queue, Head(procs[p].out))
        /\ procs' = [procs EXCEPT ![p].out = Tail(@)]
     \/ /\ procs[p].out = <<>> /\ ~ procs[p].alive
        /\ queue' = Append(queue, EOF)
        /\ procs' = [procs EXCEPT ![p].open = FALSE]
  /\ UNCHANGED <<mode, calls, client, serve, object, verdict>>
----------------------------------------------------------------------------
(* The server.                                                             *)

\* What an answer says to check: no error among its messages.
OkOf(a) == CASE a.do = "import" -> TRUE
             [] a.do = "check"  -> a.src \in Compiles
             [] a.do = "audit"  -> a.env = a.src /\ a.src \in Compiles
\* The environment an answer gives.
EnvOf(a) == CASE a.do = "import" -> Base
              [] a.do = "check"  -> a.src
              [] a.do = "audit"  -> a.env
\* Whether _parse_axiom_names may find a list with other axioms in an answer.
\* It does in the answer to an audit of a theorem that its environment has; an
\* error has no list.  A name that does not denote the theorem gives an error,
\* or the axioms of another declaration of that name; and what answers another
\* command may hold any text.
NamesOthers(a) ==
  IF a.do = "audit" /\ a.src \in Named
    THEN {a.env = a.src /\ a.src \in Compiles \ Allowed}
    ELSE BOOLEAN

\* One line back, and what the client makes of it.
Reply(ok, clean, audited) ==
  /\ verdict' = [src |-> client.asks.src, thm |-> client.asks.thm, ok |-> ok, clean |-> clean,
                 audited |-> audited, torn |-> object.torn]
  /\ client' = [client EXCEPT !.asks = None]
  /\ serve' = [at |-> "idle", ok |-> FALSE]

Fails == Reply(FALSE, FALSE, FALSE)

Send(p, c) == [procs EXCEPT ![p].inbox = Append(@, c)]

\* serve/ensure: a session whose process died is replaced by a new object,
\* with a queue of its own; the readers of the old one keep to the old queue.
Ensure ==
  /\ serve.at = "ensure"
  /\ IF mode = "lean" \/ Alive
       THEN /\ serve' = [serve EXCEPT !.at = "check"]
            /\ UNCHANGED <<object, procs, queue>>
       ELSE /\ procs' = <<Started>> /\ queue' = <<>>
            /\ object' = [proc |-> 1, warmed |-> FALSE, torn |-> FALSE]
            /\ serve' = [serve EXCEPT !.at = "warm"]
  /\ UNCHANGED <<mode, calls, client, verdict>>

\* check, before anything is sent.
CheckSends ==
  /\ serve.at = "check" /\ mode = "repl" /\ object.warmed /\ Alive
  /\ procs' = Send(object.proc, [do |-> "check", src |-> client.asks.src])
  /\ serve' = [serve EXCEPT !.at = "answer"]
  /\ UNCHANGED <<mode, calls, client, object, queue, verdict>>

\* check on a session that is not warm, or whose process died since ensure:
\* the same object starts another process (warm, _start).
CheckRestarts ==
  /\ serve.at = "check" /\ mode = "repl" /\ ~ (object.warmed /\ Alive)
  /\ Len(procs) < MaxProcs
  /\ procs' = Append(procs, Started)
  /\ queue' = <<>>
  /\ object' = [object EXCEPT !.proc = Len(procs) + 1, !.torn = TRUE]
  /\ serve' = [serve EXCEPT !.at = "rewarm"]
  /\ UNCHANGED <<mode, calls, client, verdict>>

\* check without a REPL: lake compiles the source with a Lean of its own, and
\* nothing audits.
CheckCompiles ==
  /\ serve.at = "check" /\ mode = "lean"
  /\ serve' = [serve EXCEPT !.at = "compile"]
  /\ UNCHANGED <<mode, calls, client, object, procs, queue, verdict>>

\* The compilation ends by itself in time.
CompileEnds ==
  /\ serve.at = "compile"
  /\ \E ok \in {client.asks.src \in Compiles, FALSE} : Reply(ok, ok, FALSE)
  /\ UNCHANGED <<mode, calls, object, procs, queue>>

\* It does not, and lake is stopped.  Either Lean goes too, or it lives on and
\* keeps the pipe open, which communicate reads to the end.
CompileExpires ==
  /\ serve.at = "compile"
  /\ \/ Fails
     \/ serve' = [serve EXCEPT !.at = "heir"] /\ UNCHANGED <<client, verdict>>
  /\ UNCHANGED <<mode, calls, object, procs, queue>>

\* The Lean that lives on ends after all (external).
HeirEnds ==
  /\ serve.at = "heir"
  /\ Fails
  /\ UNCHANGED <<mode, calls, object, procs, queue>>

\* warm has the answer to the imports.
Warmed ==
  /\ serve.at \in {"warm", "rewarm"} /\ queue # <<>> /\ Head(queue) # EOF
  /\ queue' = Tail(queue)
  /\ object' = [object EXCEPT !.warmed = TRUE]
  /\ IF ~ OkOf(Head(queue)) THEN Fails /\ UNCHANGED procs
     ELSE IF serve.at = "warm"
       THEN serve' = [serve EXCEPT !.at = "check"] /\ UNCHANGED <<client, procs, verdict>>
     ELSE /\ procs' = Send(object.proc, [do |-> "check", src |-> client.asks.src])
          /\ serve' = [serve EXCEPT !.at = "answer"]
          /\ UNCHANGED <<client, verdict>>
  /\ UNCHANGED <<mode, calls>>

\* check has its answer and asks for the axioms in the environment it gives,
\* also when the source did not compile.
CheckAnswered ==
  /\ serve.at = "answer" /\ queue # <<>> /\ Head(queue) # EOF
  /\ queue' = Tail(queue)
  /\ LET ok == OkOf(Head(queue))
     IN IF client.asks.thm
          THEN /\ procs' = Send(object.proc, [do |-> "audit", src |-> client.asks.src,
                                              env |-> EnvOf(Head(queue))])
               /\ serve' = [at |-> "audit", ok |-> ok]
               /\ UNCHANGED <<client, verdict>>
          ELSE Reply(ok, ok, FALSE) /\ UNCHANGED procs
  /\ UNCHANGED <<mode, calls, object>>

\* Mutant of CleanAfter: the answer is not looked at.
CleanAfterAny(others) == serve.ok
\* The verdict on the axioms: no list is as good as an allowed one.
CleanAfter(others) == serve.ok /\ ~ others

Audited ==
  /\ serve.at = "audit" /\ queue # <<>> /\ Head(queue) # EOF
  /\ queue' = Tail(queue)
  /\ \E others \in NamesOthers(Head(queue)) : Reply(serve.ok, CleanAfter(others), TRUE)
  /\ UNCHANGED <<mode, calls, object, procs>>

\* Mutant of NoAnswer: the request is given up without a line back.
NoAnswerSilent == serve' = [at |-> "idle", ok |-> FALSE] /\ UNCHANGED <<client, verdict>>
\* No audit, so no axioms, so none that is not allowed.
NoAnswer == IF serve.at = "audit" THEN Reply(serve.ok, serve.ok, FALSE) ELSE Fails

\* The process ended before it answered.
Broken ==
  /\ serve.at \in {"warm", "rewarm", "answer", "audit"} /\ queue # <<>> /\ Head(queue) = EOF
  /\ queue' = Tail(queue)
  /\ NoAnswer
  /\ UNCHANGED <<mode, calls, object, procs>>

\* _kill: the process is stopped and forgotten.
Killed ==
  /\ procs' = IF object.proc = 0 THEN procs ELSE [procs EXCEPT ![object.proc].alive = FALSE]
  /\ object' = [object EXCEPT !.proc = 0, !.warmed = FALSE]

\* _await waits a bounded time, while nothing arrives.
TimedOut ==
  /\ serve.at \in {"warm", "rewarm", "answer", "audit"} /\ queue = <<>>
  /\ Killed
  /\ NoAnswer
  /\ UNCHANGED <<mode, calls, queue>>

Serve == \/ Ensure \/ CheckSends \/ CheckRestarts \/ Warmed \/ CheckAnswered \/ Audited
         \/ Broken \/ TimedOut \/ CheckCompiles \/ CompileEnds \/ CompileExpires
----------------------------------------------------------------------------
(* The agent (verify_source).                                              *)

\* A request on the warm session.
Ask(r) ==
  /\ client.session = "warm" /\ client.asks = None /\ calls < MaxCalls
  /\ calls' = calls + 1
  /\ client' = [client EXCEPT !.asks = r]
  /\ serve' = [serve EXCEPT !.at = "ensure"]
  /\ verdict' = None
  /\ UNCHANGED <<mode, object, procs, queue>>

\* The server is gone: the session is dropped and the source checked cold, by
\* a compilation and an audit of its own; no theorem or no list, not clean.
ColdCheck(r) ==
  \E ok \in {r.src \in Compiles, FALSE},
     audit \in IF r.src \in Named THEN {r.src \in Allowed, FALSE} ELSE BOOLEAN :
    verdict' = [src |-> r.src, thm |-> r.thm, ok |-> ok, clean |-> ok /\ r.thm /\ audit,
                audited |-> ok /\ r.thm, torn |-> FALSE]

ServerDies ==
  /\ client.session = "warm" /\ client.asks # None
  /\ client' = [session |-> "gone", asks |-> None]
  /\ ColdCheck(client.asks)
  /\ serve' = [at |-> "idle", ok |-> FALSE]
  /\ UNCHANGED <<mode, calls, object, procs, queue>>

AskCold(r) ==
  /\ client.session = "gone" /\ calls < MaxCalls
  /\ calls' = calls + 1
  /\ ColdCheck(r)
  /\ UNCHANGED <<mode, client, serve, object, procs, queue>>

WarmNext ==
  \/ \E r \in Request : Ask(r) \/ AskCold(r)
  \/ ServerDies
  \/ Serve \/ HeirEnds
  \/ \E p \in DOMAIN procs : LeanAnswers(p) \/ LeanDies(p) \/ ReaderPuts(p)

\* The server goes on, and its deadlines pass; Lean and the readers may stop.
WarmFairness == WF_warmVars(Serve)

WarmSpec == WarmInit /\ [][WarmNext]_warmVars /\ WarmFairness
----------------------------------------------------------------------------
(* Properties.                                                             *)

\* However processes hang, die and are replaced, a verdict is Lean's on the
\* source that was sent; and clean after an audit is the allowed axioms only,
\* if the audited name denotes the theorem.  Excepted is a session object that
\* has restarted its process inside a request.  Clean without an audit (no
\* REPL, or no answer to the audit) says only that the source compiles.
VerdictsAreLeans ==
  verdict # None /\ ~ verdict.torn =>
    /\ verdict.ok => verdict.src \in Compiles
    /\ verdict.clean /\ verdict.audited /\ verdict.src \in Named => verdict.src \in Allowed

\* What LeanSession::check says of a theorem that is given: its closure "is
\* checked against the allowlist and reported as axioms_clean"
\* (lean_session.rs:205-207).  The code does not keep it: an audit answered by
\* an error is read as a list without axioms (lean_repl.py:502-503).
CleanAuditIsAllowed ==
  verdict # None /\ ~ verdict.torn /\ client.session = "warm" =>
    (verdict.clean /\ verdict.audited => verdict.src \in Allowed)

\* Every request is answered, however the REPL behaves; without a REPL, unless
\* a compilation runs out of time and a Lean that outlives lake holds the pipe
\* that the server reads without a deadline (lean_repl.py:382-383).
RequestsAnswered ==
  (client.asks # None) ~> (client.asks = None \/ serve.at = "heir")
=============================================================================
