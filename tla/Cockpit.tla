------------------------------- MODULE Cockpit -------------------------------
(***************************************************************************)
(* The terminal interface (app/tui/mod.rs) and its workers                 *)
(* (app/tui/event.rs).  The main loop empties its mailbox, then handles a  *)
(* key; a submitted line starts a worker thread that talks to it through   *)
(* the mailbox alone.  "busy" keeps a second line from starting a second   *)
(* worker; the flag "cancel" is shared by all workers there ever are.      *)
(*                                                                         *)
(* Texts are left out, and with them the status line and the progress      *)
(* messages that only set it.                                              *)
(***************************************************************************)
EXTENDS Naturals, Sequences, FiniteSets

CONSTANTS
  Turn,             \* the turns the user starts, in the order 1, 2, ... (a bound)
  MAX_ACTION_ROUNDS,
  MaxItems,         \* stream deltas, or actions, of one round (a bound)
  MaxKeys,          \* interrupts and refused lines (a bound)
  Faults            \* the sets of faults a run may meet

Fault == {"store", "panic"}

ASSUME CockpitAssumption ==
  /\ Turn \subseteq Nat \ {0}
  /\ MAX_ACTION_ROUNDS \in Nat \ {0} /\ MaxItems \in Nat \ {0} /\ MaxKeys \in Nat
  /\ Faults \subseteq SUBSET Fault

VARIABLES
  ui,         \* what the main loop does next: empty the mailbox or take a key
  busy,       \* a turn is in flight, as far as the main loop knows
  cancel,     \* the shared flag
  preview,    \* the turn whose streamed reply is on the screen, or 0
  mail,       \* the mailbox: what it says, and which turn's worker said it
  worker,     \* the worker of each turn
  asked,      \* turns during which the user pressed Esc
  ended,      \* turns whose end has reached the screen
  keys,       \* interrupts and refused lines so far
  faults      \* what may go wrong in this run

vars == <<ui, busy, cancel, preview, mail, worker, asked, ended, keys, faults>>

Word == {"delta", "cell", "done", "failed"}
Message == [says : Word, turn : Turn]

\* A chat turn alternates between the model and actions; a slash action or an
\* agent run is a single action.
Kind == {"chat", "action"}
At == {"none", "open", "sorry", "poll", "model", "replied", "act", "acted", "quit", "over"}
Worker == [kind : Kind, at : At, round : 0 .. MAX_ACTION_ROUNDS, items : 0 .. MaxItems]
NoWorker == [kind |-> "chat", at |-> "none", round |-> 0, items |-> 0]

InFlight == {t \in Turn : worker[t].at \notin {"none", "over"}}

CockpitTypeOK ==
  /\ ui \in {"mail", "key", "closed"}
  /\ busy \in BOOLEAN /\ cancel \in BOOLEAN
  /\ preview \in Turn \cup {0}
  /\ mail \in Seq(Message)
  /\ worker \in [Turn -> Worker]
  /\ asked \subseteq Turn
  /\ ended \subseteq Turn
  /\ keys \in 0 .. MaxKeys
  /\ faults \in Faults

Init ==
  /\ ui = "mail"
  /\ busy = FALSE /\ cancel = FALSE
  /\ preview = 0
  /\ mail = <<>>
  /\ worker = [t \in Turn |-> NoWorker]
  /\ asked = {}
  /\ ended = {}
  /\ keys = 0
  /\ faults \in Faults
----------------------------------------------------------------------------
(* The main loop.                                                          *)

\* TurnDone and Failed return to idle and lower the flag.
ToIdle == busy' = FALSE /\ cancel' = FALSE

\* A delta extends the preview; anything else that is said replaces it.
Preview(m) == IF m.says = "delta" THEN m.turn ELSE 0

\* drain_events, one message.
Drain ==
  /\ ui = "mail" /\ mail # <<>>
  /\ LET m == Head(mail) IN
     /\ preview' = Preview(m)
     /\ \/ m.says \in {"delta", "cell"} /\ UNCHANGED <<busy, cancel, ended>>
        \/ /\ m.says \in {"done", "failed"}
           /\ ToIdle
           /\ ended' = ended \cup {m.turn}
  /\ mail' = Tail(mail)
  /\ UNCHANGED <<ui, worker, asked, keys, faults>>

\* The mailbox is seen empty: the loop turns to the keyboard.
Drained ==
  /\ ui = "mail" /\ mail = <<>>
  /\ ui' = "key"
  /\ UNCHANGED <<busy, cancel, preview, mail, worker, asked, ended, keys, faults>>

\* The poll for a key times out, or a key only edits or scrolls.
OtherKey ==
  /\ ui = "key"
  /\ ui' = "mail"
  /\ UNCHANGED <<busy, cancel, preview, mail, worker, asked, ended, keys, faults>>

\* Mutant of Idle: the refusal is only a notice.
IdleNoted == TRUE
\* on_submit refuses a line while a turn is in flight.
Idle == ~ busy

\* The next turn gets its worker; worker_inputs lowers the flag first.
Submit(kind) ==
  /\ ui = "key" /\ Idle
  /\ \E t \in Turn :
       /\ worker[t].at = "none"
       /\ \A s \in Turn : s < t => worker[s].at # "none"
       /\ worker' = [worker EXCEPT ![t] = [NoWorker EXCEPT !.kind = kind, !.at = "open"]]
  /\ busy' = TRUE /\ cancel' = FALSE
  /\ ui' = "mail"
  /\ UNCHANGED <<preview, mail, asked, ended, keys, faults>>

\* Esc during a turn.
Interrupt ==
  /\ ui = "key" /\ busy /\ keys < MaxKeys
  /\ cancel' = TRUE
  /\ asked' = asked \cup InFlight
  /\ keys' = keys + 1
  /\ ui' = "mail"
  /\ UNCHANGED <<busy, preview, mail, worker, ended, faults>>

\* Ctrl-C at any time, Ctrl-D when idle: the process ends, and its threads.
Quit ==
  /\ ui = "key"
  /\ ui' = "closed"
  /\ UNCHANGED <<busy, cancel, preview, mail, worker, asked, ended, keys, faults>>
----------------------------------------------------------------------------
(* The workers.                                                            *)

Say(t, words) == mail' = mail \o [i \in DOMAIN words |-> [says |-> words[i], turn |-> t]]
Go(t, at) == worker' = [worker EXCEPT ![t].at = at]

\* Mutant of Open: the flag is lowered by the worker as it starts.
OpenLowering(t) ==
  /\ worker[t].at = "open"
  /\ Go(t, "poll")
  /\ cancel' = FALSE
  /\ UNCHANGED mail

\* The worker opens its own store.  If that fails it says so, and then, as a
\* message of its own, that the turn is done.
Open(t) ==
  /\ worker[t].at = "open"
  /\ \/ Go(t, "poll") /\ UNCHANGED mail
     \/ "store" \in faults /\ Say(t, <<"failed">>) /\ Go(t, "sorry")
  /\ UNCHANGED cancel

Sorry(t) ==
  /\ worker[t].at = "sorry"
  /\ Say(t, <<"done">>) /\ Go(t, "over")
  /\ UNCHANGED cancel

\* The flag is read before each round and before the single action.
Poll(t) ==
  /\ worker[t].at = "poll"
  /\ \/ cancel /\ Say(t, <<"done">>) /\ Go(t, "over")
     \/ /\ ~ cancel
        /\ worker' = [worker EXCEPT ![t].at = IF worker[t].kind = "chat" THEN "model" ELSE "act",
                                    ![t].items = 0]
        /\ UNCHANGED mail
  /\ UNCHANGED cancel

\* A delta is passed on unless the turn was interrupted.
Stream(t) ==
  /\ worker[t].at = "model" /\ worker[t].items < MaxItems /\ ~ cancel
  /\ Say(t, <<"delta">>)
  /\ worker' = [worker EXCEPT ![t].items = @ + 1]
  /\ UNCHANGED cancel

\* Mutant of Reply: an error ends the thread without a word.
ReplySilent(t) ==
  /\ worker[t].at = "model"
  /\ \/ Go(t, "over") /\ UNCHANGED mail
     \/ Say(t, <<"cell">>) /\ Go(t, "replied")
  /\ UNCHANGED cancel

\* The model's turn is an error, or a reply.
Reply(t) ==
  /\ worker[t].at = "model"
  /\ \/ Say(t, <<"failed">>) /\ Go(t, "over")
     \/ Say(t, <<"cell">>) /\ Go(t, "replied")
  /\ UNCHANGED cancel

\* A reply without actions ends the turn.
Choose(t) ==
  /\ worker[t].at = "replied"
  /\ \/ Say(t, <<"done">>) /\ Go(t, "over")
     \/ /\ worker' = [worker EXCEPT ![t].at = "act", ![t].items = 0]
        /\ UNCHANGED mail
  /\ UNCHANGED cancel

\* An action runs and its result is shown, be it an error.  The actions of one
\* reply follow each other whatever the flag says.
Act(t) ==
  /\ worker[t].at = "act"
  /\ Say(t, <<"cell">>)
  /\ \/ worker[t].kind = "action" /\ Go(t, "quit")
     \/ worker[t].kind = "chat" /\ Go(t, "acted")
     \/ /\ worker[t].kind = "chat" /\ worker[t].items + 1 < MaxItems
        /\ worker' = [worker EXCEPT ![t].items = @ + 1]
  /\ UNCHANGED cancel

CapReached(round) == round >= MAX_ACTION_ROUNDS

\* The cap, then the flag.
Acted(t) ==
  /\ worker[t].at = "acted"
  /\ LET round == worker[t].round + 1
         stop == CapReached(round) \/ cancel
     IN  worker' = [worker EXCEPT ![t].round = round, ![t].at = IF stop THEN "quit" ELSE "poll"]
  /\ UNCHANGED <<mail, cancel>>

QuitTurn(t) ==
  /\ worker[t].at = "quit"
  /\ Say(t, <<"done">>) /\ Go(t, "over")
  /\ UNCHANGED cancel

\* A panic ends the thread, which says nothing.
Panic(t) ==
  /\ "panic" \in faults /\ worker[t].at \in {"open", "model", "act"}
  /\ Go(t, "over")
  /\ UNCHANGED <<mail, cancel>>

WorkerStep(t) ==
  /\ ui # "closed"
  /\ \/ Open(t) \/ Sorry(t) \/ Poll(t) \/ Stream(t) \/ Reply(t) \/ Choose(t)
     \/ Act(t) \/ Acted(t) \/ QuitTurn(t)
  /\ UNCHANGED <<ui, busy, preview, asked, ended, keys, faults>>

WorkerPanic(t) ==
  /\ ui # "closed"
  /\ Panic(t)
  /\ UNCHANGED <<ui, busy, preview, asked, ended, keys, faults>>

Loop == Drain \/ Drained \/ OtherKey

Next ==
  \/ Loop
  \/ \E kind \in Kind : Submit(kind)
  \/ Interrupt
  \/ Quit
  \/ \E t \in Turn : WorkerStep(t) \/ WorkerPanic(t)

\* The main loop never blocks, and a worker's calls return.
Fairness == WF_vars(Loop) /\ \A t \in Turn : WF_vars(WorkerStep(t))

Spec == Init /\ [][Next]_vars /\ Fairness
----------------------------------------------------------------------------
(* Properties.                                                             *)

\* At most one worker is at work, and none behind a prompt that takes the
\* next line, so two connections never write at a time; except that a worker
\* that could not open its store ends its turn twice, and the second end may
\* be that of the next turn.
OneWorkerInFlight ==
  "store" \notin faults =>
    Cardinality(InFlight) <= 1 /\ (~ busy => InFlight = {})

\* A turn that was interrupted starts no further round, wherever its worker
\* was when Esc was pressed, with the same exception.
InterruptIsHonoured ==
  [][\A t \in asked :
       worker[t].at = "poll" /\ worker'[t].at # "poll" =>
         worker'[t].at = "over" \/ "store" \in faults]_vars

\* Every turn comes to its end on the screen and the prompt comes back, unless
\* a worker panics or the user leaves.
TurnsEnd ==
  \A t \in Turn :
    "panic" \notin faults /\ worker[t].at = "open"
      ~> ui = "closed" \/ (t \in ended /\ ~ busy)
=============================================================================
