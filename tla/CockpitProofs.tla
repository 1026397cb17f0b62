--------------------------- MODULE CockpitProofs ---------------------------
(***************************************************************************)
(* Proofs about Cockpit, for any number of turns, rounds, items and keys:  *)
(* one worker at a time, and an interrupt that reaches the turn it was     *)
(* meant for, when no worker fails to open its store.                      *)
(*                                                                         *)
(* The flag "busy" follows the workers through the mailbox only.  What     *)
(* links them is Handover: as long as a turn is in flight or the word that *)
(* ends it is in the mail, the prompt takes no line.                       *)
(***************************************************************************)
EXTENDS Cockpit, FiniteSetTheorems, TLAPS

Ends(m) == m.says \in {"done", "failed"}
EndsInMail == {i \in DOMAIN mail : Ends(mail[i])}

Handover ==
  /\ \A s, t \in InFlight : s = t
  /\ \A i, j \in EndsInMail : i = j
  /\ EndsInMail # {} => InFlight = {}
  /\ ~ busy => InFlight = {} /\ EndsInMail = {}

\* A turn that was interrupted and goes on finds the flag up.
FlagUp ==
  /\ \A t \in asked : worker[t].at # "none"
  /\ asked \cap InFlight # {} => cancel

RoundsLeft ==
  \A t \in Turn : worker[t].at \notin {"quit", "over"} => worker[t].round < MAX_ACTION_ROUNDS

StoresOpen == \A t \in Turn : worker[t].at # "sorry"

IInv ==
  /\ CockpitTypeOK /\ RoundsLeft
  /\ "store" \notin faults => Handover /\ FlagUp /\ StoresOpen
----------------------------------------------------------------------------
LEMMA NoWorkerIsOne == NoWorker \in Worker
<1>1. 0 \in 0 .. MAX_ACTION_ROUNDS /\ 0 \in 0 .. MaxItems
  BY CockpitAssumption
<1>. QED BY <1>1 DEF NoWorker, Worker, Kind, At

LEMMA InitHolds == Init => IInv
<1>. SUFFICES ASSUME Init PROVE IInv
  OBVIOUS
<1>1. CockpitTypeOK
  <2>1. worker \in [Turn -> Worker] /\ keys \in 0 .. MaxKeys
    BY NoWorkerIsOne, CockpitAssumption DEF Init
  <2>2. mail \in Seq(Message) /\ preview \in Turn \cup {0} /\ asked \subseteq Turn /\ ended \subseteq Turn
    BY DEF Init
  <2>. QED BY <2>1, <2>2 DEF Init, CockpitTypeOK
<1>2. \A t \in Turn : worker[t] = NoWorker
  BY DEF Init
<1>3. RoundsLeft /\ StoresOpen
  BY <1>2, CockpitAssumption DEF RoundsLeft, StoresOpen, NoWorker
<1>4. InFlight = {} /\ EndsInMail = {}
  BY <1>2 DEF InFlight, EndsInMail, NoWorker, Init
<1>5. Handover /\ FlagUp
  BY <1>4 DEF Handover, FlagUp, Init
<1>. QED BY <1>1, <1>3, <1>5 DEF IInv

\* A word is put behind what is in the mail.
LEMMA SayOne ==
  ASSUME NEW t \in Turn, NEW w \in Word, mail \in Seq(Message), Say(t, <<w>>)
  PROVE  mail' = Append(mail, [says |-> w, turn |-> t]) /\ mail' \in Seq(Message)
<1>1. [i \in DOMAIN <<w>> |-> [says |-> <<w>>[i], turn |-> t]] = <<[says |-> w, turn |-> t]>>
  OBVIOUS
<1>2. [says |-> w, turn |-> t] \in Message
  BY DEF Message
<1>. QED BY <1>1, <1>2 DEF Say

WorkerAct(t) ==
  \/ Open(t) \/ Sorry(t) \/ Poll(t) \/ Stream(t) \/ Reply(t) \/ Choose(t)
  \/ Act(t) \/ Acted(t) \/ QuitTurn(t) \/ Panic(t)

\* What a step of a worker may change: its own record, and the mailbox by one
\* word, which ends the turn only if the worker is over or about to be.
OneWord(t, at) ==
  \/ mail' = mail
  \/ \E w \in Word : /\ mail' = Append(mail, [says |-> w, turn |-> t])
                     /\ w \in {"done", "failed"} => at = "over"

LEMMA WorkerActs ==
  ASSUME IInv, NEW t \in Turn, WorkerAct(t)
  PROVE  /\ t \in InFlight /\ cancel' = cancel /\ mail' \in Seq(Message)
         /\ \E v \in Worker :
              /\ worker' = [worker EXCEPT ![t] = v]
              /\ v.at # "none"
              /\ v.at \notin {"quit", "over"} => v.round < MAX_ACTION_ROUNDS
              /\ worker[t].at = "poll" /\ v.at # "poll" /\ cancel => v.at = "over"
              /\ "store" \notin faults => OneWord(t, v.at) /\ v.at # "sorry"
<1>. DEFINE x == worker[t]
<1>. DEFINE OK(v) == /\ worker' = [worker EXCEPT ![t] = v]
                     /\ v.at # "none"
                     /\ v.at \notin {"quit", "over"} => v.round < MAX_ACTION_ROUNDS
                     /\ x.at = "poll" /\ v.at # "poll" /\ cancel => v.at = "over"
                     /\ "store" \notin faults => OneWord(t, v.at) /\ v.at # "sorry"
<1>1. /\ x = [kind |-> x.kind, at |-> x.at, round |-> x.round, items |-> x.items]
      /\ x.kind \in Kind /\ x.at \in At
      /\ x.round \in 0 .. MAX_ACTION_ROUNDS /\ x.items \in 0 .. MaxItems
      /\ x.at \notin {"quit", "over"} => x.round < MAX_ACTION_ROUNDS
      /\ "store" \notin faults => x.at # "sorry"
      /\ worker \in [Turn -> Worker] /\ mail \in Seq(Message)
  <2>1. worker \in [Turn -> Worker] /\ mail \in Seq(Message)
    BY DEF IInv, CockpitTypeOK
  <2>2. x \in Worker
    BY <2>1
  <2>. QED BY <2>1, <2>2 DEF Worker, IInv, RoundsLeft, StoresOpen
<1>2. MAX_ACTION_ROUNDS \in Nat \ {0} /\ MaxItems \in Nat \ {0}
  BY CockpitAssumption
<1>3. t \in InFlight /\ cancel' = cancel
  BY <1>1 DEF InFlight, WorkerAct, Open, Sorry, Poll, Stream, Reply, Choose, Act, Acted,
     QuitTurn, Panic
<1>4. mail' \in Seq(Message)
  <2>1. mail' = mail \/ \E w \in Word : Say(t, <<w>>)
    BY DEF WorkerAct, Open, Sorry, Poll, Stream, Reply, Choose, Act, Acted, QuitTurn, Panic, Word
  <2>. QED BY <1>1, <2>1, SayOne
<1>. DEFINE To(at) == [x EXCEPT !.at = at]
<1>5. ASSUME NEW at \in At, Go(t, at)
      PROVE  /\ To(at) \in Worker /\ worker' = [worker EXCEPT ![t] = To(at)]
             /\ To(at).at = at /\ To(at).round = x.round
  BY <1>1, <1>5 DEF Go, Worker
<1>6. ASSUME NEW at \in {"poll", "replied", "acted", "quit", "over"}, Go(t, at),
             x.at \notin {"none", "quit", "over"} \/ at = "over",
             x.at = "poll" => at = "over",
             OneWord(t, at)
      PROVE  \E v \in Worker : OK(v)
  <2>1. at \in At
    BY DEF At
  <2>2. To(at) \in Worker /\ OK(To(at))
    BY <1>1, <1>5, <1>6, <2>1
  <2>. QED BY <2>2
<1>7. ASSUME NEW v \in Worker, worker' = [worker EXCEPT ![t] = v],
             v.at \in {"model", "act", "poll"}, v.round < MAX_ACTION_ROUNDS,
             x.at = "poll" => ~ cancel,
             OneWord(t, v.at)
      PROVE  \E u \in Worker : OK(u)
  BY <1>7
<1>8. ASSUME NEW w \in Word, Say(t, <<w>>), NEW at, w \in {"done", "failed"} => at = "over"
      PROVE  OneWord(t, at)
  BY <1>1, <1>8, SayOne DEF OneWord
<1>9. ASSUME mail' = mail, NEW at PROVE OneWord(t, at)
  BY <1>9 DEF OneWord
<1>10. \E v \in Worker : OK(v)
  <2>1. CASE Open(t) /\ mail' = mail /\ Go(t, "poll")
    BY <1>6, <1>9, <2>1 DEF Open
  <2>2. CASE Open(t) /\ "store" \in faults /\ Go(t, "sorry")
    <3>1. "sorry" \in At /\ x.at = "open"
      BY <2>2 DEF At, Open
    <3>. QED BY <1>1, <1>5, <2>2, <3>1
  <2>3. CASE Sorry(t)
    BY <1>6, <1>8, <2>3 DEF Sorry, Word
  <2>4. CASE Poll(t) /\ cancel
    BY <1>6, <1>8, <2>4 DEF Poll, Word
  <2>5. CASE Poll(t) /\ ~ cancel
    <3>. DEFINE at == IF x.kind = "chat" THEN "model" ELSE "act"
                v == [x EXCEPT !.at = at, !.items = 0]
    <3>1. worker' = [worker EXCEPT ![t] = v] /\ mail' = mail /\ x.at = "poll"
      BY <1>1, <2>5 DEF Poll
    <3>1a. 0 \in 0 .. MaxItems /\ at \in At /\ at \in {"model", "act"}
      BY <1>2 DEF At
    <3>2. v \in Worker /\ v.at \in {"model", "act"} /\ v.round < MAX_ACTION_ROUNDS
      <4>. HIDE DEF at
      <4>. QED BY <1>1, <3>1, <3>1a DEF Worker
    <3>. HIDE DEF v
    <3>. QED BY <1>7, <1>9, <2>5, <3>1, <3>2
  <2>6. CASE Stream(t)
    <3>. DEFINE v == [x EXCEPT !.items = x.items + 1]
    <3>1. worker' = [worker EXCEPT ![t] = v] /\ Say(t, <<"delta">>) /\ x.at = "model" /\ x.items < MaxItems
      BY <1>1, <2>6 DEF Stream
    <3>1a. x.items + 1 \in 0 .. MaxItems /\ "model" \in At
      BY <1>1, <1>2, <3>1 DEF At
    <3>2. v \in Worker /\ v.at = "model" /\ v.round < MAX_ACTION_ROUNDS
      BY <1>1, <3>1, <3>1a DEF Worker
    <3>. HIDE DEF v
    <3>. QED BY <1>7, <1>8, <3>1, <3>2 DEF Word
  <2>7. CASE Reply(t)
    BY <1>6, <1>8, <2>7 DEF Reply, Word
  <2>8. CASE Choose(t) /\ Say(t, <<"done">>) /\ Go(t, "over")
    BY <1>6, <1>8, <2>8 DEF Choose, Word
  <2>9. CASE Choose(t) /\ worker' = [worker EXCEPT ![t].at = "act", ![t].items = 0] /\ mail' = mail
    <3>. DEFINE v == [x EXCEPT !.at = "act", !.items = 0]
    <3>1. worker' = [worker EXCEPT ![t] = v] /\ x.at = "replied"
      BY <1>1, <2>9 DEF Choose
    <3>1a. 0 \in 0 .. MaxItems /\ "act" \in At
      BY <1>2 DEF At
    <3>2. v \in Worker /\ v.at = "act" /\ v.round < MAX_ACTION_ROUNDS
      BY <1>1, <3>1, <3>1a DEF Worker
    <3>. HIDE DEF v
    <3>. QED BY <1>7, <1>9, <2>9, <3>1, <3>2
  <2>10. CASE Act(t) /\ (Go(t, "quit") \/ Go(t, "acted"))
    BY <1>6, <1>8, <2>10 DEF Act, Word
  <2>11. CASE Act(t) /\ x.items + 1 < MaxItems /\ worker' = [worker EXCEPT ![t].items = @ + 1]
    <3>. DEFINE v == [x EXCEPT !.items = x.items + 1]
    <3>1. worker' = [worker EXCEPT ![t] = v] /\ x.at = "act" /\ Say(t, <<"cell">>)
      BY <1>1, <2>11 DEF Act
    <3>1a. x.items + 1 \in 0 .. MaxItems /\ "act" \in At
      BY <1>1, <1>2, <2>11 DEF At
    <3>2. v \in Worker /\ v.at = "act" /\ v.round < MAX_ACTION_ROUNDS
      BY <1>1, <3>1, <3>1a DEF Worker
    <3>. HIDE DEF v
    <3>. QED BY <1>7, <1>8, <3>1, <3>2 DEF Word
  <2>12. CASE Acted(t)
    <3>. DEFINE round == x.round + 1
                stop == CapReached(round) \/ cancel
    <3>. DEFINE at == IF stop THEN "quit" ELSE "poll"
                v == [x EXCEPT !.round = round, !.at = at]
    <3>1. worker' = [worker EXCEPT ![t] = v] /\ x.at = "acted" /\ mail' = mail
      BY <1>1, <2>12 DEF Acted
    <3>2. round \in 0 .. MAX_ACTION_ROUNDS /\ (~ stop => round < MAX_ACTION_ROUNDS)
      BY <1>1, <1>2, <3>1 DEF CapReached
    <3>2a. at \in At /\ at \in {"quit", "poll"}
      BY DEF At
    <3>3. v \in Worker /\ v.round = round /\ v.at = at
      <4>. HIDE DEF at, round
      <4>. QED BY <1>1, <3>2, <3>2a DEF Worker
    <3>. HIDE DEF v, round, stop
    <3>4. OK(v)
      BY <1>9, <3>1, <3>2, <3>3
    <3>. QED BY <3>3, <3>4
  <2>13. CASE QuitTurn(t)
    BY <1>6, <1>8, <2>13 DEF QuitTurn, Word
  <2>14. CASE Panic(t)
    BY <1>6, <1>9, <2>14 DEF Panic
  <2>. QED BY <2>1, <2>2, <2>3, <2>4, <2>5, <2>6, <2>7, <2>8, <2>9, <2>10, <2>11, <2>12, <2>13,
              <2>14 DEF WorkerAct, Open, Choose, Act, Poll
<1>. QED BY <1>3, <1>4, <1>10

LEMMA WorkerHolds ==
  ASSUME IInv, NEW t \in Turn, WorkerStep(t) \/ WorkerPanic(t)
  PROVE  IInv'
<1>1. WorkerAct(t) /\ UNCHANGED <<ui, busy, preview, asked, ended, keys, faults>>
  BY DEF WorkerStep, WorkerPanic, WorkerAct
<1>2. t \in InFlight /\ cancel' = cancel /\ mail' \in Seq(Message)
  BY <1>1, WorkerActs
<1>3. PICK v \in Worker :
        /\ worker' = [worker EXCEPT ![t] = v]
        /\ v.at # "none"
        /\ v.at \notin {"quit", "over"} => v.round < MAX_ACTION_ROUNDS
        /\ "store" \notin faults => OneWord(t, v.at) /\ v.at # "sorry"
  BY <1>1, WorkerActs
<1>4. worker' \in [Turn -> Worker] /\ worker'[t] = v /\ \A s \in Turn \ {t} : worker'[s] = worker[s]
  BY <1>3 DEF IInv, CockpitTypeOK
<1>5. CockpitTypeOK'
  BY <1>1, <1>2, <1>4 DEF IInv, CockpitTypeOK
<1>6. RoundsLeft'
  BY <1>3, <1>4 DEF IInv, RoundsLeft
<1>7. ASSUME "store" \notin faults PROVE Handover' /\ FlagUp' /\ StoresOpen'
  <2>1. Handover /\ FlagUp /\ StoresOpen /\ OneWord(t, v.at) /\ mail \in Seq(Message)
    BY <1>3, <1>7 DEF IInv, CockpitTypeOK
  <2>2. EndsInMail = {} /\ busy /\ InFlight = {t}
    BY <1>2, <2>1 DEF Handover
  <2>3. InFlight' \subseteq {t} /\ (v.at = "over" => InFlight' = {})
    BY <1>4, <2>2 DEF InFlight
  <2>4. EndsInMail' \subseteq {Len(mail) + 1} /\ (EndsInMail' # {} => v.at = "over")
    <3>1. CASE mail' = mail
      BY <2>2, <3>1 DEF EndsInMail, Ends
    <3>2. CASE mail' # mail
      <4>1. PICK w \in Word : /\ mail' = Append(mail, [says |-> w, turn |-> t])
                              /\ w \in {"done", "failed"} => v.at = "over"
        BY <2>1, <3>2 DEF OneWord
      <4>2. /\ DOMAIN mail' = 1 .. Len(mail) + 1
            /\ \A i \in 1 .. Len(mail) : i \in DOMAIN mail /\ mail'[i] = mail[i]
            /\ mail'[Len(mail) + 1] = [says |-> w, turn |-> t]
        BY <2>1, <4>1
      <4>3. \A i \in 1 .. Len(mail) : i \notin EndsInMail'
        BY <2>2, <4>2 DEF EndsInMail, Ends
      <4>4. EndsInMail' \subseteq {Len(mail) + 1}
        <5>1. Len(mail) \in Nat
          BY <2>1
        <5>2. EndsInMail' \subseteq 1 .. Len(mail) + 1
          BY <4>2 DEF EndsInMail
        <5>. QED BY <4>3, <5>1, <5>2
      <4>5. Len(mail) + 1 \in EndsInMail' => w \in {"done", "failed"}
        BY <4>2 DEF EndsInMail, Ends
      <4>. QED BY <4>1, <4>4, <4>5
    <3>. QED BY <3>1, <3>2
  <2>5. Handover'
    BY <1>1, <2>2, <2>3, <2>4 DEF Handover
  <2>6. FlagUp'
    <3>1. \A s \in asked' : worker'[s].at # "none"
      BY <1>1, <1>3, <1>4, <2>1 DEF FlagUp, IInv, CockpitTypeOK
    <3>2. InFlight' \subseteq InFlight
      BY <2>2, <2>3
    <3>. QED BY <1>1, <1>2, <2>1, <3>1, <3>2 DEF FlagUp
  <2>7. StoresOpen'
    BY <1>3, <1>4, <1>7, <2>1 DEF StoresOpen
  <2>. QED BY <2>5, <2>6, <2>7
<1>. QED BY <1>1, <1>5, <1>6, <1>7 DEF IInv

LEMMA DrainHolds ==
  ASSUME IInv, Drain
  PROVE  IInv'
<1>. DEFINE m == Head(mail)
<1>1. /\ mail \in Seq(Message) /\ mail # <<>> /\ m \in Message /\ mail' = Tail(mail)
      /\ mail' \in Seq(Message) /\ m = mail[1] /\ 1 \in DOMAIN mail
      /\ \A i \in DOMAIN mail' : i + 1 \in DOMAIN mail /\ mail'[i] = mail[i + 1] /\ i + 1 # 1
      /\ \A i \in DOMAIN mail' : i \in Nat
  BY DEF Drain, IInv, CockpitTypeOK
<1>2. m.turn \in Turn /\ m.says \in Word
  BY <1>1 DEF Message
<1>3. /\ preview' = Preview(m)
      /\ UNCHANGED <<ui, worker, asked, keys, faults>>
      /\ \/ ~ Ends(m) /\ busy' = busy /\ cancel' = cancel /\ ended' = ended
         \/ Ends(m) /\ busy' = FALSE /\ cancel' = FALSE /\ ended' = ended \cup {m.turn}
  BY DEF Drain, Ends, ToIdle
<1>. HIDE DEF m
<1>4. CockpitTypeOK'
  <2>1. preview' \in Turn \cup {0} /\ ended' \subseteq Turn
    BY <1>2, <1>3 DEF Preview, IInv, CockpitTypeOK
  <2>2. busy' \in BOOLEAN /\ cancel' \in BOOLEAN
    BY <1>3, Zenon DEF IInv, CockpitTypeOK
  <2>. QED BY <1>1, <1>3, <2>1, <2>2 DEF IInv, CockpitTypeOK
<1>5. InFlight' = InFlight /\ RoundsLeft' /\ (StoresOpen => StoresOpen')
  BY <1>3 DEF InFlight, IInv, RoundsLeft, StoresOpen
<1>6. ASSUME "store" \notin faults PROVE Handover' /\ FlagUp'
  <2>1. Handover /\ FlagUp
    BY <1>6 DEF IInv
  <2>2. \A i \in EndsInMail' : i + 1 \in EndsInMail /\ i \in Nat /\ i + 1 # 1
    BY <1>1 DEF EndsInMail
  <2>3. CASE Ends(m)
    <3>1. 1 \in EndsInMail
      BY <1>1, <2>3 DEF EndsInMail
    <3>2. EndsInMail' = {} /\ InFlight' = {}
      BY <1>5, <2>1, <2>2, <3>1 DEF Handover
    <3>. QED BY <1>3, <2>1, <3>2 DEF Handover, FlagUp
  <2>4. CASE ~ Ends(m)
    <3>1. busy' = busy /\ cancel' = cancel
      BY <1>3, <2>4
    <3>2. \A i, j \in EndsInMail' : i = j
      BY <2>1, <2>2 DEF Handover
    <3>3. EndsInMail' # {} => EndsInMail # {}
      BY <2>2
    <3>. QED BY <1>3, <1>5, <2>1, <3>1, <3>2, <3>3 DEF Handover, FlagUp
  <2>. QED BY <2>3, <2>4
<1>. QED BY <1>3, <1>4, <1>5, <1>6 DEF IInv

LEMMA SubmitHolds ==
  ASSUME IInv, NEW kind \in Kind, Submit(kind)
  PROVE  IInv'
<1>1. PICK t \in Turn :
        /\ worker[t].at = "none"
        /\ worker' = [worker EXCEPT ![t] = [NoWorker EXCEPT !.kind = kind, !.at = "open"]]
  BY DEF Submit
<1>2. PICK v : v = [NoWorker EXCEPT !.kind = kind, !.at = "open"]
  OBVIOUS
<1>3. v \in Worker /\ v.at = "open" /\ v.round < MAX_ACTION_ROUNDS
  <2>1. 0 \in 0 .. MAX_ACTION_ROUNDS /\ 0 \in 0 .. MaxItems /\ 0 < MAX_ACTION_ROUNDS
    BY CockpitAssumption
  <2>. QED BY <1>2, <2>1 DEF NoWorker, Worker, At
<1>4. worker' \in [Turn -> Worker] /\ worker'[t] = v /\ \A s \in Turn \ {t} : worker'[s] = worker[s]
  BY <1>1, <1>2, <1>3 DEF IInv, CockpitTypeOK
<1>5. /\ ~ busy /\ busy' = TRUE /\ cancel' = FALSE /\ ui' = "mail"
      /\ UNCHANGED <<preview, mail, asked, ended, keys, faults>>
  BY DEF Submit, Idle
<1>6. CockpitTypeOK' /\ RoundsLeft'
  BY <1>3, <1>4, <1>5 DEF IInv, CockpitTypeOK, RoundsLeft
<1>7. ASSUME "store" \notin faults PROVE Handover' /\ FlagUp' /\ StoresOpen'
  <2>1. Handover /\ FlagUp /\ StoresOpen
    BY <1>7 DEF IInv
  <2>2. InFlight = {} /\ EndsInMail = {} /\ EndsInMail' = EndsInMail
    BY <1>5, <2>1 DEF Handover, EndsInMail
  <2>3. InFlight' = {t}
    BY <1>3, <1>4, <2>2 DEF InFlight
  <2>4. t \notin asked /\ \A s \in asked : worker'[s].at # "none"
    BY <1>1, <1>3, <1>4, <2>1 DEF FlagUp, IInv, CockpitTypeOK
  <2>5. StoresOpen'
    BY <1>3, <1>4, <2>1 DEF StoresOpen
  <2>. QED BY <1>5, <2>2, <2>3, <2>4, <2>5 DEF Handover, FlagUp
<1>. QED BY <1>5, <1>6, <1>7 DEF IInv

LEMMA InterruptHolds ==
  ASSUME IInv, Interrupt
  PROVE  IInv'
<1>1. /\ cancel' = TRUE /\ asked' = asked \cup InFlight /\ keys' = keys + 1 /\ keys < MaxKeys
      /\ ui' = "mail" /\ UNCHANGED <<busy, preview, mail, worker, ended, faults>>
  BY DEF Interrupt
<1>2. keys' \in 0 .. MaxKeys
  BY <1>1, CockpitAssumption DEF IInv, CockpitTypeOK
<1>3. InFlight \subseteq Turn
  BY DEF InFlight
<1>4. CockpitTypeOK' /\ RoundsLeft' /\ (StoresOpen => StoresOpen')
  BY <1>1, <1>2, <1>3 DEF IInv, CockpitTypeOK, RoundsLeft, StoresOpen
<1>5. ASSUME Handover, FlagUp PROVE Handover' /\ FlagUp'
  <2>1. Handover'
    BY <1>1, <1>5 DEF Handover, EndsInMail, InFlight
  <2>2. \A t \in InFlight : worker[t].at # "none"
    BY DEF InFlight
  <2>. QED BY <1>1, <1>5, <2>1, <2>2 DEF FlagUp
<1>. QED BY <1>1, <1>4, <1>5 DEF IInv

LEMMA LoopHolds ==
  ASSUME IInv, Drained \/ OtherKey \/ Quit \/ UNCHANGED vars
  PROVE  IInv'
<1>1. /\ UNCHANGED <<busy, cancel, preview, mail, worker, asked, ended, keys, faults>>
      /\ ui' \in {"mail", "key", "closed"}
  BY DEF Drained, OtherKey, Quit, vars, IInv, CockpitTypeOK
<1>2. CockpitTypeOK'
  BY <1>1 DEF IInv, CockpitTypeOK
<1>3. RoundsLeft' /\ (StoresOpen => StoresOpen') /\ (Handover => Handover') /\ (FlagUp => FlagUp')
  BY <1>1 DEF IInv, RoundsLeft, StoresOpen, Handover, FlagUp, InFlight, EndsInMail
<1>. QED BY <1>1, <1>2, <1>3 DEF IInv

LEMMA StepHolds == IInv /\ [Next]_vars => IInv'
BY WorkerHolds, DrainHolds, SubmitHolds, InterruptHolds, LoopHolds DEF Next, Loop

LEMMA Invariance == Spec => []IInv
BY InitHolds, StepHolds, PTL DEF Spec
----------------------------------------------------------------------------
\* The types, and with them the bound on the rounds of a turn.
THEOREM CockpitTypes == Spec => [](CockpitTypeOK /\ RoundsLeft)
<1>1. IInv => CockpitTypeOK /\ RoundsLeft
  BY DEF IInv
<1>. QED BY <1>1, Invariance, PTL

\* However the workers' words and the keys follow each other, no second worker
\* is at work, and none behind a prompt that takes the next line.
THEOREM OneWriter == Spec => []OneWorkerInFlight
<1>1. IInv => OneWorkerInFlight
  <2>1. SUFFICES ASSUME IInv, "store" \notin faults
                 PROVE  Cardinality(InFlight) <= 1 /\ (~ busy => InFlight = {})
    BY DEF OneWorkerInFlight
  <2>2. Handover
    BY <2>1 DEF IInv
  <2>3. CASE InFlight = {}
    BY <2>2, <2>3, FS_EmptySet DEF Handover
  <2>4. CASE InFlight # {}
    <3>1. PICK t : InFlight = {t}
      BY <2>2, <2>4 DEF Handover
    <3>2. Cardinality({t}) = 1
      BY FS_Singleton
    <3>3. busy
      BY <2>2, <2>4 DEF Handover
    <3>. QED BY <3>1, <3>2, <3>3
  <2>. QED BY <2>3, <2>4
<1>. QED BY <1>1, Invariance, PTL

\* The flag that Esc raises stays up until the turn it was meant for is over, so
\* that turn starts no further round.
THEOREM InterruptsReachTheirTurn == Spec => InterruptIsHonoured
<1>. DEFINE Honoured == \A t \in asked :
              worker[t].at = "poll" /\ worker'[t].at # "poll" =>
                worker'[t].at = "over" \/ "store" \in faults
<1>1. IInv /\ [Next]_vars => [Honoured]_vars
  <2>1. SUFFICES ASSUME IInv, Next, NEW t \in asked, worker[t].at = "poll",
                        worker'[t].at # "poll", "store" \notin faults
                 PROVE  worker'[t].at = "over"
    OBVIOUS
  <2>2. t \in Turn /\ t \in InFlight /\ worker \in [Turn -> Worker]
    BY <2>1 DEF IInv, CockpitTypeOK, InFlight
  <2>3. cancel
    BY <2>1, <2>2 DEF IInv, FlagUp
  <2>4. ASSUME NEW s \in Turn, WorkerStep(s) \/ WorkerPanic(s) PROVE worker'[t].at = "over"
    <3>1. PICK v \in Worker :
            /\ worker' = [worker EXCEPT ![s] = v]
            /\ worker[s].at = "poll" /\ v.at # "poll" /\ cancel => v.at = "over"
      BY <2>1, <2>4, WorkerActs DEF WorkerStep, WorkerPanic, WorkerAct
    <3>. QED BY <2>1, <2>2, <2>3, <3>1
  <2>5. ASSUME NEW kind \in Kind, Submit(kind) PROVE FALSE
    BY <2>1, <2>2, <2>5 DEF Submit, Idle, IInv, Handover
  <2>6. ASSUME Loop \/ Interrupt \/ Quit PROVE FALSE
    BY <2>1, <2>6 DEF Loop, Drain, Drained, OtherKey, Interrupt, Quit
  <2>. QED BY <2>1, <2>4, <2>5, <2>6 DEF Next
<1>2. Spec => [][Honoured]_vars
  BY <1>1, Invariance, PTL DEF Spec
<1>. QED BY <1>2 DEF InterruptIsHonoured
=============================================================================
