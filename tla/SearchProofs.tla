---------------------------- MODULE SearchProofs ----------------------------
(***************************************************************************)
(* Proofs about three searches that share only their module of runs.       *)
(*                                                                         *)
(* The graph search: its verdicts have a line of tactics behind them, for  *)
(* any states, worlds and limits.  The two sides share nodes, and a node   *)
(* changes sides when the disproof side finds it.  What stays true is      *)
(* Sides: a state not flagged can be reached from the root by tactics, a   *)
(* flagged one from the negation of such a state.                          *)
(*                                                                         *)
(* Forward saturation, for any sequents and rules and any bounds: what is  *)
(* stored is derivable, and a search that ran out of sequents with room    *)
(* left was complete.  The second is not inductive.  Its strengthening     *)
(* NothingLost says that an axiom, and what a rule emits that a given      *)
(* sequent triggers, is still to be looked at or subsumed by a stored one. *)
(*                                                                         *)
(* Best-first search, for any worlds, keys, gate and budget: what it emits *)
(* replays to a closed state, and a search that ran out of states missed   *)
(* none.  BestInv: a node of the arena is what a tactic makes of an older  *)
(* one, and a node off the frontier has its key seen and its children in   *)
(* the arena.  Recursion (a path, a replay) is unfolded by its least bad   *)
(* point, since a function defined by recursion must be shown to exist.    *)
(***************************************************************************)
EXTENDS SearchDriver, InverseMethod, BestFirst, FiniteSetTheorems, WellFoundedInduction, TLAPS

----------------------------------------------------------------------------
\* The graph search.

\* s is below the negation of a state that the tactics lead to from the root.
Denied(s) == \E r \in From(Root) : world.negation[r] # None /\ s \in From(world.negation[r])

Sides ==
  /\ \A s \in nodes \ disproof : s \in From(Root)
  /\ \A s \in disproof : Denied(s)

Undecided == at \in {"descend", "leaf", "rollout"} => ~ solved /\ ~ refuted

IInv == DriverTypeOK /\ Sides /\ Undecided /\ VerdictHasLine

\* A world is made of states.
LEMMA WorldParts ==
  ASSUME world \in World
  PROVE  /\ world.steps \in [State -> SUBSET State]
         /\ world.closed \in SUBSET State
         /\ world.negation \in [State -> State \cup {None}]
  BY DriverAssumption

\* A line may be empty, goes on by a step, and lines can be joined.
LEMMA FromSelf ==
  ASSUME NEW s \in State PROVE s \in From(s)
  BY DEF From

\* A tactic does not leave the states below s.
LEMMA FromStep ==
  ASSUME world \in World, NEW s \in State, NEW t \in From(s), NEW u \in world.steps[t]
  PROVE  u \in From(s)
<1>1. t \in State /\ u \in State
  BY WorldParts DEF From
<1>2. ASSUME NEW S \in SUBSET State, s \in S, LeadsInto(S) PROVE u \in S
  BY <1>1, <1>2 DEF From, LeadsInto
<1>. QED BY <1>1, <1>2 DEF From

\* What is below a state below s is below s.
LEMMA FromJoin ==
  ASSUME NEW s \in State, NEW t \in From(s), NEW u \in From(t)
  PROVE  u \in From(s)
  BY DEF From

\* A closed state at the end of a line makes its start provable.
LEMMA ProvableStart ==
  ASSUME NEW s \in State, NEW t \in From(s), Provable(t)
  PROVE  Provable(s)
  BY FromJoin DEF Provable

\* A child of a denied state is denied, and so is the negation of a state that
\* the root leads to.
LEMMA DeniedStep ==
  ASSUME world \in World, NEW s, Denied(s), NEW u \in world.steps[s]
  PROVE  Denied(u)
<1>1. PICK r \in From(Root) : world.negation[r] # None /\ s \in From(world.negation[r])
  BY DEF Denied
<1>2. r \in State /\ world.negation[r] \in State
  BY <1>1, WorldParts DEF From
<1>3. u \in From(world.negation[r])
  BY <1>1, <1>2, FromStep
<1>. QED BY <1>1, <1>3 DEF Denied

\* The negation of a state below the root is denied, by definition.
LEMMA DeniedNegation ==
  ASSUME world \in World, NEW s \in From(Root), world.negation[s] # None
  PROVE  Denied(world.negation[s])
<1>1. s \in State
  BY DEF From
<1>2. world.negation[s] \in State
  BY <1>1, WorldParts
<1>. QED BY <1>2, FromSelf DEF Denied

\* What is judged: a node that closes, by itself or by a rollout.
LEMMA JudgeSound ==
  ASSUME DriverTypeOK, Sides, Undecided, at \in {"leaf", "rollout"},
         Provable(Current), Judge, UNCHANGED world
  PROVE  VerdictHasLine' /\ solved' \in BOOLEAN /\ refuted' \in BOOLEAN
<1>1. Current \in nodes /\ Current \in State
  BY DEF DriverTypeOK, Current
<1>2. Root \in State
  BY DriverAssumption
<1>3. Undecided /\ ~ solved /\ ~ refuted
  BY DEF Undecided
<1>4. CASE Current \in disproof
  <2>1. PICK r \in From(Root) :
          world.negation[r] # None /\ Current \in From(world.negation[r])
    BY <1>4 DEF Sides, Denied
  <2>2. world.negation[r] \in State
    BY <2>1, WorldParts DEF From, DriverTypeOK
  <2>3. Provable(world.negation[r])
    BY <2>1, <2>2, ProvableStart
  <2>4. refuted' = TRUE /\ solved' = FALSE
    BY <1>3, <1>4 DEF Judge, DriverTypeOK
  <2>5. \E s \in From(Root) : world.negation[s] # None /\ Provable(world.negation[s])
    BY <2>1, <2>3
  <2>. QED BY <2>4, <2>5 DEF VerdictHasLine, From, LeadsInto, Provable
<1>5. CASE Current \notin disproof
  <2>1. Current \in From(Root)
    BY <1>1, <1>5 DEF Sides
  <2>2. Provable(Root)
    BY <1>2, <2>1, ProvableStart
  <2>3. solved' = TRUE /\ refuted' = FALSE
    BY <1>3, <1>5 DEF Judge, DriverTypeOK
  <2>. QED BY <2>2, <2>3 DEF VerdictHasLine, From, LeadsInto, Provable
<1>. QED BY <1>4, <1>5

\* The driver starts with the root alone, on the proof side.
LEMMA InitHolds == Init => IInv
<1>. SUFFICES ASSUME Init PROVE IInv
  OBVIOUS
<1>. USE DriverAssumption DEF Init
<1>1. DriverTypeOK
  <2>1. rounds \in Nat
    <3>1. limits.rounds \in Nat
      OBVIOUS
    <3>. QED BY <3>1
  <2>2. solved \in BOOLEAN /\ refuted \in BOOLEAN
    <3>1. CASE Closed(Root)
      <4>1. solved = TRUE
        BY <3>1
      <4>. QED BY <4>1
    <3>2. CASE ~ Closed(Root)
      <4>1. solved = FALSE
        BY <3>2
      <4>. QED BY <4>1
    <3>. QED BY <3>1, <3>2
  <2>3. path \in Seq(nodes) /\ path # <<>>
    OBVIOUS
  <2>4. edges \in [State -> SUBSET nodes]
    OBVIOUS
  <2>. QED BY <2>1, <2>2, <2>3, <2>4 DEF DriverTypeOK
<1>2. Root \in From(Root)
  BY FromSelf
<1>3. VerdictHasLine
  BY <1>2 DEF VerdictHasLine, Provable, Closed
<1>. QED BY <1>1, <1>2, <1>3 DEF IInv, Sides, Undecided

\* A step that only goes on along the edges.
LEMMA MoveHolds ==
  ASSUME IInv, Iterate \/ Descend \/ Arrive \/ LeafKnown
  PROVE  IInv'
<1>. USE DEF IInv
<1>1. DriverTypeOK'
  <2>1. CASE Iterate
    <3>1. CASE UNCHANGED <<path, rounds>>
      BY <2>1, <3>1 DEF Iterate, DriverTypeOK
    <3>2. CASE rounds # 0 /\ path' = <<Root>> /\ rounds' = rounds - 1
      <4>1. rounds' \in Nat
        BY <3>2 DEF DriverTypeOK
      <4>2. path' \in Seq(nodes) /\ path' # <<>>
        BY <3>2 DEF DriverTypeOK
      <4>. QED BY <2>1, <4>1, <4>2 DEF Iterate, DriverTypeOK
    <3>. QED BY <2>1, <3>1, <3>2 DEF Iterate
  <2>2. CASE Descend
    <3>1. Current \in nodes
      BY DEF DriverTypeOK, Current
    <3>2. edges[Current] \subseteq nodes
      BY <3>1 DEF DriverTypeOK
    <3>. QED BY <2>2, <3>2 DEF Descend, DriverTypeOK
  <2>3. CASE Arrive \/ LeafKnown
    BY <2>3 DEF Arrive, LeafKnown, DriverTypeOK
  <2>. QED BY <2>1, <2>2, <2>3
<1>2. /\ UNCHANGED <<world, nodes, disproof, solved, refuted>>
      /\ Undecided'
  BY DEF Iterate, Descend, Arrive, LeafKnown, Undecided, DriverTypeOK
<1>3. Sides' /\ VerdictHasLine'
  BY <1>2 DEF Sides, Denied, VerdictHasLine, Provable, From, LeadsInto
<1>. QED BY <1>1, <1>2, <1>3

\* A step that gives a verdict, or none.
LEMMA VerdictHolds ==
  ASSUME IInv, LeafClosed \/ Rollout
  PROVE  IInv'
<1>. USE DEF IInv
<1>1. UNCHANGED <<world, limits, nodes, disproof, edges, expanded, path, rounds>> /\ at' = "next"
  BY DEF LeafClosed, Rollout
<1>2. VerdictHasLine' /\ solved' \in BOOLEAN /\ refuted' \in BOOLEAN
  <2>1. CASE LeafClosed
    <3>1. Current \in State
      BY DEF DriverTypeOK, Current
    <3>2. Provable(Current)
      BY <2>1, <3>1, FromSelf DEF LeafClosed, Closed, Provable
    <3>. QED BY <1>1, <2>1, <3>2, JudgeSound DEF LeafClosed
  <2>2. CASE Rollout /\ Provable(Current) /\ Judge
    BY <1>1, <2>2, JudgeSound DEF Rollout
  <2>3. CASE Rollout /\ UNCHANGED <<solved, refuted>>
    BY <1>1, <2>3 DEF VerdictHasLine, Provable, From, LeadsInto, DriverTypeOK
  <2>. QED BY <2>1, <2>2, <2>3 DEF Rollout
<1>3. DriverTypeOK'
  BY <1>1, <1>2 DEF DriverTypeOK
<1>4. Sides' /\ Undecided'
  BY <1>1 DEF Sides, Denied, Undecided, From, LeadsInto
<1>. QED BY <1>2, <1>3, <1>4

\* An expansion keeps the sides.
LEMMA ExpandHolds ==
  ASSUME IInv, Expand
  PROVE  IInv'
<1>. USE DEF IInv
<1>. DEFINE s == Current
<1>1. s \in nodes /\ s \in State
  BY DEF DriverTypeOK, Current
<1>2. world \in World
  BY DEF DriverTypeOK
<1>3. PICK T \in Candidates(s) : \E M \in Mintable(T) :
        /\ nodes' = nodes \cup M \cup Negations(s, nodes \cup M)
        /\ disproof' = disproof \cup Below(s, T \cap (nodes \cup M))
                         \cup Negations(s, nodes \cup M)
        /\ edges' = [edges EXCEPT ![s] =
                       (T \cap (nodes \cup M)) \cup Negations(s, nodes \cup M)]
  BY DEF Expand
<1>3a. PICK M \in Mintable(T) :
        /\ nodes' = nodes \cup M \cup Negations(s, nodes \cup M)
        /\ disproof' = disproof \cup Below(s, T \cap (nodes \cup M))
                         \cup Negations(s, nodes \cup M)
        /\ edges' = [edges EXCEPT ![s] =
                       (T \cap (nodes \cup M)) \cup Negations(s, nodes \cup M)]
  BY <1>3
<1>. DEFINE known == nodes \cup M
            denials == Negations(s, known)
            found == T \cap known
<1>. HIDE DEF s, known, denials, found
<1>4. nodes' = known \cup denials /\ disproof' = disproof \cup Below(s, found) \cup denials
      /\ edges' = [edges EXCEPT ![s] = found \cup denials]
  BY <1>3a DEF known, denials, found
<1>5. T \subseteq world.steps[s] /\ M \subseteq T /\ world.steps[s] \subseteq State
  BY <1>1, <1>2, WorldParts DEF Candidates, Mintable
<1>6. /\ denials \subseteq {world.negation[s]} \ {None}
      /\ denials # {} => s \notin disproof
      /\ denials \subseteq State
  BY <1>1, <1>2, WorldParts DEF denials, Negations
<1>7. /\ expanded' = expanded \cup {s} /\ at' = "rollout"
      /\ UNCHANGED <<world, limits, path, rounds, solved, refuted>>
      /\ at = "leaf"
  BY DEF Expand, s
<1>8. Below(s, found) \subseteq found /\ (s \notin disproof => Below(s, found) = {})
      /\ (s \in disproof => Below(s, found) = found)
  BY DEF Below
<1>9. nodes \subseteq nodes' /\ found \subseteq nodes' /\ nodes' \subseteq State
  BY <1>4, <1>5, <1>6 DEF known, found, DriverTypeOK
<1>10. DriverTypeOK'
  <2>1. disproof' \subseteq nodes' /\ expanded' \subseteq nodes'
    BY <1>1, <1>4, <1>7, <1>8, <1>9 DEF DriverTypeOK
  <2>2. edges' \in [State -> SUBSET nodes']
    BY <1>1, <1>4, <1>9 DEF DriverTypeOK
  <2>3. path' \in Seq(nodes') /\ path' # <<>>
    BY <1>7, <1>9 DEF DriverTypeOK
  <2>. QED BY <1>7, <1>9, <2>1, <2>2, <2>3 DEF DriverTypeOK
<1>11. \A u \in nodes' \ disproof' : u \in From(Root)
  <2>. TAKE u \in nodes' \ disproof'
  <2>1. CASE u \in nodes
    BY <1>4, <2>1 DEF Sides
  <2>2. CASE u \notin nodes
    <3>1. u \in M /\ u \in found /\ u \in world.steps[s]
      BY <1>4, <1>5, <2>2 DEF known, found
    <3>2. s \notin disproof
      BY <1>4, <1>8, <3>1
    <3>3. s \in From(Root) /\ Root \in State
      BY <1>1, <3>2, DriverAssumption DEF Sides
    <3>. QED BY <1>2, <3>1, <3>3, FromStep
  <2>. QED BY <2>1, <2>2
<1>12. \A u \in disproof' : Denied(u)
  <2>. TAKE u \in disproof'
  <2>1. CASE u \in disproof
    BY <2>1 DEF Sides
  <2>2. CASE u \in Below(s, found)
    <3>1. s \in disproof /\ u \in world.steps[s]
      BY <1>5, <1>8, <2>2 DEF found
    <3>. QED BY <1>2, <3>1, DeniedStep DEF Sides
  <2>3. CASE u \in denials
    <3>1. u = world.negation[s] /\ u # None /\ s \in From(Root)
      BY <1>1, <1>6, <2>3 DEF Sides
    <3>. QED BY <1>2, <3>1, DeniedNegation
  <2>. QED BY <1>4, <2>1, <2>2, <2>3
<1>13. Sides'
  BY <1>7, <1>11, <1>12 DEF Sides, Denied, From, LeadsInto
<1>14. Undecided' /\ VerdictHasLine'
  BY <1>7 DEF Undecided, VerdictHasLine, Provable, From, LeadsInto
<1>. QED BY <1>10, <1>13, <1>14

\* Every round of the driver keeps the sides apart.
LEMMA StepHolds == IInv /\ [Next]_vars => IInv'
<1>. SUFFICES ASSUME IInv, [Next]_vars PROVE IInv'
  OBVIOUS
<1>1. CASE Next
  BY <1>1, MoveHolds, VerdictHolds, ExpandHolds DEF Next
<1>2. CASE UNCHANGED vars
  BY <1>2 DEF vars, IInv, DriverTypeOK, Sides, Denied, Undecided, VerdictHasLine, Provable,
              From, LeadsInto
<1>. QED BY <1>1, <1>2

\* However the two sides share nodes and whatever the limits cut off, a goal is
\* solved only by a line of tactics from it, and refuted only by one from the
\* negation of a state below it.
THEOREM VerdictsHaveLines == Spec => []VerdictHasLine
<1>1. IInv => VerdictHasLine
  BY DEF IInv
<1>. QED BY InitHolds, StepHolds, <1>1, PTL DEF Spec

----------------------------------------------------------------------------
\* Canonical forms of literals.

\* A set of naturals has a least element: there is a smallest among the sets
\* 0 .. n, since finite sets do not shrink for ever.
LEMMA LeastNatural ==
  ASSUME NEW S \in SUBSET Nat, S # {}
  PROVE  \E m \in S : \A n \in S : m <= n
<1>. DEFINE T == {0 .. n : n \in S}
<1>1. T \subseteq FiniteSubsetsOf(Nat)
  <2>1. ASSUME NEW n \in S PROVE 0 .. n \subseteq Nat /\ IsFiniteSet(0 .. n)
    BY FS_Interval
  <2>. QED BY <2>1 DEF FiniteSubsetsOf
<1>2. PICK I \in T : \A J \in T : ~ (<<J, I>> \in StrictSubsetOrdering(Nat))
  <2>1. T # {}
    OBVIOUS
  <2>2. IsWellFoundedOn(StrictSubsetOrdering(Nat), FiniteSubsetsOf(Nat))
    BY FS_StrictSubsetOrderingWellFounded
  <2>. HIDE DEF T
  <2>. QED BY <1>1, <2>1, <2>2, WFMin
<1>3. PICK m \in S : I = 0 .. m
  OBVIOUS
<1>4. ASSUME NEW n \in S, n < m PROVE FALSE
  <2>1. 0 .. n \subseteq 0 .. m /\ 0 .. n # 0 .. m
    <3>1. m \in 0 .. m /\ m \notin 0 .. n
      BY <1>4
    <3>. QED BY <1>4, <3>1
  <2>2. <<0 .. n, I>> \in (SUBSET Nat) \X (SUBSET Nat)
    BY <1>3
  <2>3. <<0 .. n, I>> \in StrictSubsetOrdering(Nat)
    BY <1>3, <2>1, <2>2 DEF StrictSubsetOrdering
  <2>. QED BY <1>2, <2>3
<1>. QED BY <1>4

\* What the provers need of a sequence.
LEMMA SeqParts ==
  ASSUME NEW S, NEW s \in Seq(S)
  PROVE  /\ DOMAIN s = 1 .. Len(s) /\ Len(s) \in Nat /\ s = [i \in 1 .. Len(s) |-> s[i]]
         /\ \A i \in DOMAIN s : s[i] \in S
OBVIOUS

\* The parts of a literal.
LEMMA LiteralParts ==
  ASSUME NEW l \in Literal
  PROVE  /\ DOMAIN l = 1 .. Len(l) /\ Len(l) \in Nat
         /\ \A i \in DOMAIN l :
              /\ l[i] = [pred |-> l[i].pred, binds |-> l[i].binds, uses |-> l[i].uses]
              /\ l[i].binds \in Seq(Name) /\ l[i].uses \in Seq(Name)
<1>. DEFINE Part == [pred : Predicate, binds : Seq(Name), uses : Seq(Name)]
<1>1. \A p \in Part : /\ p = [pred |-> p.pred, binds |-> p.binds, uses |-> p.uses]
                      /\ p.binds \in Seq(Name) /\ p.uses \in Seq(Name)
  OBVIOUS
<1>2. l \in Seq(Part)
  BY DEF Literal
<1>. HIDE DEF Part
<1>. QED BY <1>1, <1>2, SeqParts

\* A spot is a position in a part, and a bound name has one.
LEMMA SpotsOf ==
  ASSUME NEW l \in Literal, NEW w
  PROVE  /\ \A p \in Spots(l, w) : /\ p = <<p[1], p[2]>> /\ p[1] \in Nat /\ p[2] \in Nat
                                   /\ p[1] \in DOMAIN l /\ p[2] \in DOMAIN l[p[1]].binds
                                   /\ l[p[1]].binds[p[2]] = w
         /\ w \in Bound(l) => Spots(l, w) # {}
<1>1. ASSUME NEW p \in Spots(l, w)
      PROVE  \E i \in DOMAIN l : \E j \in DOMAIN l[i].binds : p = <<i, j>> /\ l[i].binds[j] = w
  BY <1>1 DEF Spots
<1>2. ASSUME w \in Bound(l) PROVE Spots(l, w) # {}
  <2>1. PICK i \in DOMAIN l : w \in ToSet(l[i].binds)
    BY <1>2 DEF Bound
  <2>2. PICK j \in DOMAIN l[i].binds : l[i].binds[j] = w
    BY <2>1 DEF ToSet
  <2>3. <<i, j>> \in Spots(l, w)
    BY <2>2 DEF Spots
  <2>. QED BY <2>3
<1>3. ASSUME NEW p \in Spots(l, w)
      PROVE  /\ p = <<p[1], p[2]>> /\ p[1] \in Nat /\ p[2] \in Nat
             /\ p[1] \in DOMAIN l /\ p[2] \in DOMAIN l[p[1]].binds
             /\ l[p[1]].binds[p[2]] = w
  <2>1. PICK i \in DOMAIN l : \E j \in DOMAIN l[i].binds : p = <<i, j>> /\ l[i].binds[j] = w
    BY <1>1
  <2>2. PICK j \in DOMAIN l[i].binds : p = <<i, j>> /\ l[i].binds[j] = w
    BY <2>1
  <2>3. i \in Nat /\ j \in Nat
    BY LiteralParts, SeqParts
  <2>. QED BY <2>2, <2>3
<1>. QED BY <1>2, <1>3

\* A bound name has a first spot.
LEMMA FirstSpot ==
  ASSUME NEW l \in Literal, NEW w \in Bound(l)
  PROVE  \E p \in Spots(l, w) : \A q \in Spots(l, w) : p = q \/ Before(p, q)
<1>. DEFINE S == Spots(l, w)
            I == {p[1] : p \in S}
<1>1. \A p \in S : p = <<p[1], p[2]>> /\ p[1] \in Nat /\ p[2] \in Nat
  BY SpotsOf
<1>2. S # {}
  BY SpotsOf
<1>. HIDE DEF S
<1>3. PICK i \in I : \A k \in I : i <= k
  <2>1. I \subseteq Nat /\ I # {}
    BY <1>1, <1>2
  <2>. HIDE DEF I
  <2>. QED BY <2>1, LeastNatural
<1>. DEFINE J == {p[2] : p \in {q \in S : q[1] = i}}
<1>4. PICK j \in J : \A k \in J : j <= k
  <2>1. J \subseteq Nat /\ J # {}
    BY <1>1, <1>3
  <2>. HIDE DEF J
  <2>. QED BY <2>1, LeastNatural
<1>5. PICK p \in S : p[1] = i /\ p[2] = j
  BY <1>4
<1>6. ASSUME NEW q \in S PROVE p = q \/ Before(p, q)
  <2>1. i <= q[1] /\ i \in Nat /\ q[1] \in Nat /\ j \in Nat /\ q[2] \in Nat
    BY <1>1, <1>3, <1>5
  <2>2. q[1] = i => j <= q[2]
    BY <1>4
  <2>3. q = <<q[1], q[2]>> /\ p = <<i, j>>
    BY <1>1, <1>5
  <2>4. CASE q[1] = i /\ q[2] = j
    BY <2>3, <2>4
  <2>5. CASE ~ (q[1] = i /\ q[2] = j)
    BY <1>5, <2>1, <2>2, <2>5 DEF Before
  <2>. QED BY <2>4, <2>5
<1>. QED BY <1>5, <1>6 DEF S
\* The names come in the order of their first spots.
LEMMA NamesInOrder ==
  ASSUME NEW l \in Literal, NEW v \in Bound(l), NEW w \in Bound(l)
  PROVE  /\ NoLater(l, v, v)
         /\ NoLater(l, v, w) \/ NoLater(l, w, v)
         /\ NoLater(l, v, w) /\ NoLater(l, w, v) => v = w
         /\ \A u : NoLater(l, u, v) /\ NoLater(l, v, w) => NoLater(l, u, w)
<1>1. PICK p \in Spots(l, v) : \A q \in Spots(l, v) : p = q \/ Before(p, q)
  BY FirstSpot
<1>2. PICK q \in Spots(l, w) : \A r \in Spots(l, w) : q = r \/ Before(q, r)
  BY FirstSpot
<1>3. ASSUME NEW x, NEW r \in Spots(l, x)
      PROVE  r = <<r[1], r[2]>> /\ r[1] \in Nat /\ r[2] \in Nat /\ l[r[1]].binds[r[2]] = x
  BY SpotsOf
<1>4. ASSUME NEW x, NEW y, NEW z, NEW i \in Spots(l, x), NEW j \in Spots(l, y), NEW k \in Spots(l, z)
      PROVE  /\ Before(i, j) /\ Before(j, k) => Before(i, k)
             /\ i = j \/ Before(i, j) \/ Before(j, i)
             /\ ~ (Before(i, j) /\ Before(j, i))
  BY <1>3 DEF Before
<1>5. NoLater(l, v, v)
  BY DEF NoLater
<1>6. NoLater(l, v, w) \/ NoLater(l, w, v)
  <2>1. CASE p = q \/ Before(p, q)
    BY <1>2, <1>4, <2>1 DEF NoLater
  <2>2. CASE Before(q, p)
    BY <1>1, <1>4, <2>2 DEF NoLater
  <2>. QED BY <1>4, <2>1, <2>2
<1>7. ASSUME NoLater(l, v, w), NoLater(l, w, v) PROVE v = w
  <2>1. PICK i \in Spots(l, v) : i = q \/ Before(i, q)
    BY <1>7 DEF NoLater
  <2>2. PICK j \in Spots(l, w) : j = p \/ Before(j, p)
    BY <1>7 DEF NoLater
  <2>3. (p = i \/ Before(p, i)) /\ (q = j \/ Before(q, j))
    BY <1>1, <1>2
  <2>4. p = q
    BY <1>4, <2>1, <2>2, <2>3
  <2>. QED BY <1>3, <2>4
<1>8. ASSUME NEW u, NoLater(l, u, v), NoLater(l, v, w) PROVE NoLater(l, u, w)
  <2>1. SUFFICES ASSUME NEW k \in Spots(l, w) PROVE \E i \in Spots(l, u) : i = k \/ Before(i, k)
    BY DEF NoLater
  <2>2. PICK j \in Spots(l, v) : j = k \/ Before(j, k)
    BY <1>8 DEF NoLater
  <2>3. PICK i \in Spots(l, u) : i = j \/ Before(i, j)
    BY <1>8 DEF NoLater
  <2>. QED BY <1>4, <2>2, <2>3
<1>. QED BY <1>5, <1>6, <1>7, <1>8

\* A literal binds finitely many names.
LEMMA BoundIsFinite ==
  ASSUME NEW l \in Literal
  PROVE  IsFiniteSet(Bound(l))
<1>1. ASSUME NEW s, NEW n \in Nat, DOMAIN s = 1 .. n, s = [i \in 1 .. n |-> s[i]]
      PROVE  IsFiniteSet(ToSet(s))
  <2>1. s \in Surjection(1 .. n, ToSet(s))
    BY <1>1 DEF Surjection, ToSet
  <2>2. IsFiniteSet(1 .. n)
    BY FS_Interval
  <2>. QED BY <2>1, <2>2, FS_Surjection
<1>2. ASSUME NEW i \in DOMAIN l PROVE IsFiniteSet(ToSet(l[i].binds))
  <2>. DEFINE s == l[i].binds
  <2>1. s \in Seq(Name)
    BY LiteralParts
  <2>. HIDE DEF s
  <2>2. DOMAIN s = 1 .. Len(s) /\ Len(s) \in Nat /\ s = [j \in 1 .. Len(s) |-> s[j]]
    BY <2>1, SeqParts
  <2>3. IsFiniteSet(ToSet(s))
    BY <1>1, <2>2
  <2>. QED BY <2>3 DEF s
<1>. DEFINE groups == [i \in 1 .. Len(l) |-> ToSet(l[i].binds)]
<1>3. Len(l) \in Nat /\ DOMAIN l = 1 .. Len(l)
  BY LiteralParts
<1>3a. IsFiniteSet(ToSet(groups))
  BY <1>1, <1>3
<1>4. ToSet(groups) = {ToSet(l[i].binds) : i \in DOMAIN l}
  BY <1>3, Zenon DEF ToSet
<1>5. \A T \in ToSet(groups) : IsFiniteSet(T)
  BY <1>2, <1>4
<1>6. Bound(l) = UNION ToSet(groups)
  BY <1>4 DEF Bound
<1>. HIDE DEF groups
<1>. QED BY <1>3a, <1>5, <1>6, FS_UNION

\* Names have places of their own, and no place is past the last.
LEMMA PlacesDiffer ==
  ASSUME NEW l \in Literal, NEW v \in Bound(l), NEW w \in Bound(l), Place(l, v) = Place(l, w)
  PROVE  v = w
<1>. DEFINE D(x) == {u \in Bound(l) : NoLater(l, u, x)}
<1>1. IsFiniteSet(D(v)) /\ IsFiniteSet(D(w))
  BY BoundIsFinite, FS_Subset
<1>2. D(v) \subseteq D(w) \/ D(w) \subseteq D(v)
  BY NamesInOrder
<1>3. Cardinality(D(v)) = Cardinality(D(w))
  BY DEF Place
<1>4. D(v) = D(w)
  BY <1>1, <1>2, <1>3, FS_Subset
<1>5. v \in D(v) /\ w \in D(w)
  BY NamesInOrder
<1>. QED BY <1>4, <1>5, NamesInOrder

\* Places fit the canonical names at hand.
LEMMA PlaceInRange ==
  ASSUME NEW l \in Literal, NEW w \in Bound(l)
  PROVE  Place(l, w) \in 1 .. Cardinality(Bound(l))
<1>. DEFINE D == {u \in Bound(l) : NoLater(l, u, w)}
<1>1. IsFiniteSet(Bound(l)) /\ D \in SUBSET Bound(l)
  BY BoundIsFinite
<1>2. w \in D
  BY NamesInOrder
<1>. HIDE DEF D
<1>3. IsFiniteSet(D) /\ Cardinality(D) <= Cardinality(Bound(l)) /\ D # {}
  BY <1>1, <1>2, FS_Subset
<1>4. Cardinality(D) \in Nat /\ Cardinality(Bound(l)) \in Nat /\ Cardinality(D) # 0
  BY <1>1, <1>3, FS_CardinalityType, FS_EmptySet
<1>5. Place(l, w) = Cardinality(D)
  BY DEF Place, D
<1>. QED BY <1>3, <1>4, <1>5

\* The binder of a name of a part is the last one of that name.
LEMMA BinderFound ==
  ASSUME NEW part, part.binds \in Seq(Name), NEW w
  PROVE  LET j == BinderOf(part, w)
         IN  /\ j \in 0 .. Len(part.binds)
             /\ j = 0 => w \notin ToSet(part.binds)
             /\ j > 0 => part.binds[j] = w
             /\ \A k \in j + 1 .. Len(part.binds) : part.binds[k] # w
<1>. DEFINE s == part.binds
            Is(j) == /\ j = 0 => w \notin ToSet(s)
                     /\ j > 0 => s[j] = w
                     /\ \A k \in j + 1 .. Len(s) : s[k] # w
<1>1. DOMAIN s = 1 .. Len(s) /\ Len(s) \in Nat
  BY SeqParts
<1>2. \E j \in 0 .. Len(s) : Is(j)
  <2>. HIDE DEF s
  <2>1. CASE w \notin ToSet(s)
    <3>1. \A k \in 1 .. Len(s) : s[k] # w
      BY <1>1, <2>1 DEF ToSet
    <3>. QED BY <1>1, <2>1, <3>1
  <2>2. CASE w \in ToSet(s)
    <3>. DEFINE S == {n \in 0 .. Len(s) - 1 : s[Len(s) - n] = w}
    <3>1. PICK k \in 1 .. Len(s) : s[k] = w
      BY <1>1, <2>2 DEF ToSet
    <3>2. Len(s) - k \in S /\ S \subseteq Nat
      BY <1>1, <3>1
    <3>3. PICK m \in S : \A n \in S : m <= n
      <4>. HIDE DEF S
      <4>. QED BY <3>2, LeastNatural
    <3>4. ASSUME NEW i \in (Len(s) - m) + 1 .. Len(s), s[i] = w PROVE FALSE
      <4>. DEFINE n == Len(s) - i
      <4>1. m \in Nat /\ n \in Nat /\ n < m /\ n <= Len(s) - 1 /\ i = Len(s) - n
        BY <1>1, <3>3, <3>4
      <4>2. n \in S
        BY <1>1, <3>4, <4>1
      <4>3. m <= n
        BY <3>3, <4>2
      <4>. HIDE DEF n
      <4>. QED BY <4>1, <4>3
    <3>5. Len(s) - m \in 0 .. Len(s) /\ Len(s) - m > 0 /\ s[Len(s) - m] = w
      BY <1>1, <3>3
    <3>. DEFINE j == Len(s) - m
    <3>6. Is(j)
      BY <3>4, <3>5
    <3>7. j \in 0 .. Len(s)
      BY <3>5
    <3>. HIDE DEF j, Is
    <3>. QED BY <3>6, <3>7
  <2>. QED BY <2>1, <2>2
<1>3. BinderOf(part, w) = CHOOSE j \in 0 .. Len(s) : Is(j)
  BY DEF BinderOf
<1>4. BinderOf(part, w) \in 0 .. Len(s) /\ Is(BinderOf(part, w))
  <2>. HIDE DEF Is, s
  <2>. QED BY <1>2, <1>3
<1>. QED BY <1>4

\* There is only one.
LEMMA BinderUnique ==
  ASSUME NEW part, part.binds \in Seq(Name), NEW w,
         NEW j \in 1 .. Len(part.binds), part.binds[j] = w,
         \A k \in j + 1 .. Len(part.binds) : part.binds[k] # w
  PROVE  BinderOf(part, w) = j
<1>. DEFINE s == part.binds
            b == BinderOf(part, w)
<1>1. DOMAIN s = 1 .. Len(s) /\ Len(s) \in Nat
  BY SeqParts
<1>2. /\ b \in 0 .. Len(s) /\ (b = 0 => w \notin ToSet(s)) /\ (b > 0 => s[b] = w)
      /\ \A k \in b + 1 .. Len(s) : s[k] # w
  BY BinderFound
<1>3. w \in ToSet(s)
  BY <1>1 DEF ToSet
<1>. HIDE DEF s, b
<1>4. b > 0
  BY <1>2, <1>3
<1>5. s[j] = w /\ \A k \in j + 1 .. Len(s) : s[k] # w
  BY DEF s
<1>6. j \in 1 .. Len(s)
  BY DEF s
<1>7. b = j
  BY <1>1, <1>2, <1>4, <1>5, <1>6
<1>. QED BY <1>7 DEF b

\* Canonical names are told apart as the names are: a bound name from any other,
\* and from a free one unless that looks like a canonical name.
LEMMA CanonicalNames ==
  ASSUME CalculusAssumption, NEW l \in Atom, NEW w \in Bound(l)
  PROVE  /\ Renamed(l, w) \in ToSet(Fresh)
         /\ \A v \in Bound(l) : Renamed(l, v) = Renamed(l, w) => v = w
<1>1. l \in Literal /\ Cardinality(Bound(l)) <= Len(Fresh)
  BY DEF CalculusAssumption
<1>2. DOMAIN Fresh = 1 .. Len(Fresh) /\ Len(Fresh) \in Nat
  BY SeqParts DEF CalculusAssumption
<1>3. Cardinality(Bound(l)) \in Nat
  BY <1>1, BoundIsFinite, FS_CardinalityType
<1>4. ASSUME NEW v \in Bound(l) PROVE Place(l, v) \in DOMAIN Fresh
  <2>1. Place(l, v) \in 1 .. Cardinality(Bound(l))
    BY <1>1, PlaceInRange
  <2>. QED BY <1>1, <1>2, <1>3, <2>1
<1>5. \A v \in Bound(l) : Renamed(l, v) = Fresh[Place(l, v)]
  BY DEF Renamed
<1>6. \A j, k \in DOMAIN Fresh : Fresh[j] = Fresh[k] => j = k
  BY DEF CalculusAssumption
<1>. QED BY <1>1, <1>4, <1>5, <1>6, PlacesDiffer DEF ToSet

\* A canonical form renames part by part.
LEMMA CanonicalParts ==
  ASSUME NEW l \in Literal
  PROVE  /\ DOMAIN Canonical(l) = DOMAIN l
         /\ \A i \in DOMAIN l :
              /\ Canonical(l)[i].pred = l[i].pred
              /\ Canonical(l)[i].binds = [j \in DOMAIN l[i].binds |-> Renamed(l, l[i].binds[j])]
              /\ Canonical(l)[i].uses = [j \in DOMAIN l[i].uses |-> Renamed(l, l[i].uses[j])]
<1>1. ASSUME NEW i \in DOMAIN l
      PROVE  Canonical(l)[i] = [l[i] EXCEPT
               !.binds = [j \in DOMAIN l[i].binds |-> Renamed(l, l[i].binds[j])],
               !.uses = [j \in DOMAIN l[i].uses |-> Renamed(l, l[i].uses[j])]]
  BY DEF Canonical
<1>2. ASSUME NEW i \in DOMAIN l
      PROVE  l[i] = [pred |-> l[i].pred, binds |-> l[i].binds, uses |-> l[i].uses]
  BY LiteralParts
<1>3. DOMAIN Canonical(l) = DOMAIN l
  BY DEF Canonical
<1>. QED BY <1>1, <1>2, <1>3

\* Equal domains mean equal lengths.
LEMMA SameLength ==
  ASSUME NEW n \in Nat, NEW k \in Nat, 1 .. n = 1 .. k
  PROVE  n = k
<1>1. CASE n < k
  <2>1. k \in 1 .. k /\ k \notin 1 .. n
    BY <1>1
  <2>. QED BY <2>1
<1>2. CASE k < n
  <2>1. n \in 1 .. n /\ n \notin 1 .. k
    BY <1>2
  <2>. QED BY <2>1
<1>. QED BY <1>1, <1>2

\* Literals of the same canonical form are the same up to bound names.
THEOREM CanonicalFormsAreFaithful ==
  ASSUME CalculusAssumption, NEW l \in Atom, NEW m \in Atom,
         WellNamed(l), WellNamed(m), Canonical(l) = Canonical(m)
  PROVE  AlphaEquivalent(l, m)
<1>1. l \in Literal /\ m \in Literal
  BY DEF CalculusAssumption
<1>2. DOMAIN l = DOMAIN m /\ Len(l) = Len(m)
  <2>1. DOMAIN l = DOMAIN m
    BY <1>1, CanonicalParts
  <2>2. DOMAIN l = 1 .. Len(l) /\ DOMAIN m = 1 .. Len(m) /\ Len(l) \in Nat /\ Len(m) \in Nat
    BY <1>1, LiteralParts
  <2>. QED BY <2>1, <2>2, SameLength
<1>3. ASSUME NEW i \in DOMAIN l PROVE SamePart(l[i], m[i])
  <2>. DEFINE a == l[i]
              b == m[i]
  <2>1. /\ a.binds \in Seq(Name) /\ a.uses \in Seq(Name)
        /\ b.binds \in Seq(Name) /\ b.uses \in Seq(Name)
    BY <1>1, <1>2, LiteralParts
  <2>2. /\ a.pred = b.pred
        /\ [j \in DOMAIN a.binds |-> Renamed(l, a.binds[j])]
             = [j \in DOMAIN b.binds |-> Renamed(m, b.binds[j])]
        /\ [j \in DOMAIN a.uses |-> Renamed(l, a.uses[j])]
             = [j \in DOMAIN b.uses |-> Renamed(m, b.uses[j])]
    <3>1. i \in DOMAIN m /\ Canonical(l)[i] = Canonical(m)[i]
      BY <1>2
    <3>2. /\ Canonical(l)[i].pred = a.pred
          /\ Canonical(l)[i].binds = [j \in DOMAIN a.binds |-> Renamed(l, a.binds[j])]
          /\ Canonical(l)[i].uses = [j \in DOMAIN a.uses |-> Renamed(l, a.uses[j])]
      BY <1>1, CanonicalParts
    <3>3. /\ Canonical(m)[i].pred = b.pred
          /\ Canonical(m)[i].binds = [j \in DOMAIN b.binds |-> Renamed(m, b.binds[j])]
          /\ Canonical(m)[i].uses = [j \in DOMAIN b.uses |-> Renamed(m, b.uses[j])]
      BY <1>1, <3>1, CanonicalParts
    <3>. HIDE DEF a, b
    <3>. QED BY <3>1, <3>2, <3>3
  <2>3. /\ \A w \in ToSet(a.binds) : w \in Bound(l)
        /\ \A w \in ToSet(b.binds) : w \in Bound(m)
    BY <1>2 DEF Bound
  <2>4. /\ \A w \in ToSet(a.uses) : BinderOf(a, w) = 0 => w \notin Bound(l) /\ w \notin ToSet(Fresh)
        /\ \A w \in ToSet(b.uses) : BinderOf(b, w) = 0 => w \notin Bound(m) /\ w \notin ToSet(Fresh)
    BY <1>2 DEF WellNamed
  <2>. HIDE DEF a, b
  <2>5. /\ DOMAIN a.binds = DOMAIN b.binds
        /\ \A j \in DOMAIN a.binds : Renamed(l, a.binds[j]) = Renamed(m, b.binds[j])
    BY <2>2
  <2>6. /\ DOMAIN a.uses = DOMAIN b.uses
        /\ \A j \in DOMAIN a.uses : Renamed(l, a.uses[j]) = Renamed(m, b.uses[j])
    BY <2>2
  <2>7. /\ DOMAIN a.binds = 1 .. Len(a.binds) /\ Len(a.binds) \in Nat
        /\ DOMAIN b.binds = 1 .. Len(b.binds) /\ Len(b.binds) \in Nat
        /\ DOMAIN a.uses = 1 .. Len(a.uses) /\ Len(a.uses) \in Nat
        /\ DOMAIN b.uses = 1 .. Len(b.uses) /\ Len(b.uses) \in Nat
    BY <2>1, SeqParts
  <2>8. Len(a.binds) = Len(b.binds) /\ Len(a.uses) = Len(b.uses)
    BY <2>5, <2>6, <2>7, SameLength
  <2>9. ASSUME NEW k \in DOMAIN a.uses
        PROVE  /\ BinderOf(a, a.uses[k]) = BinderOf(b, b.uses[k])
               /\ BinderOf(a, a.uses[k]) = 0 => a.uses[k] = b.uses[k]
    <3>. DEFINE u == a.uses[k]
                v == b.uses[k]
                j == BinderOf(a, u)
    <3>1. Renamed(l, u) = Renamed(m, v) /\ u \in ToSet(a.uses) /\ v \in ToSet(b.uses)
      BY <2>6 DEF ToSet
    <3>. HIDE DEF u, v
    <3>2. /\ j \in 0 .. Len(a.binds)
          /\ j > 0 => a.binds[j] = u
          /\ \A n \in j + 1 .. Len(a.binds) : a.binds[n] # u
      BY <2>1, BinderFound
    <3>. HIDE DEF j
    <3>3. CASE j = 0
      <4>1. u \notin Bound(l) /\ u \notin ToSet(Fresh) /\ Renamed(l, u) = u
        BY <2>4, <3>1, <3>3 DEF Renamed, j
      <4>2. v \notin Bound(m)
        BY <3>1, <4>1, CanonicalNames
      <4>3. u = v
        BY <3>1, <4>1, <4>2 DEF Renamed
      <4>4. /\ BinderOf(b, v) \in 0 .. Len(b.binds)
            /\ BinderOf(b, v) > 0 => b.binds[BinderOf(b, v)] = v
        BY <2>1, BinderFound
      <4>5. BinderOf(b, v) = 0
        BY <2>3, <2>7, <4>2, <4>4 DEF ToSet
      <4>. QED BY <3>3, <4>3, <4>5 DEF u, v, j
    <3>4. CASE j > 0
      <4>1. j \in DOMAIN a.binds /\ j \in DOMAIN b.binds /\ a.binds[j] = u
        BY <2>5, <2>7, <3>2, <3>4
      <4>2. u \in Bound(l)
        BY <2>3, <4>1 DEF ToSet
      <4>3. Renamed(l, u) \in ToSet(Fresh)
        BY <4>2, CanonicalNames
      <4>4. v \in Bound(m)
        <5>1. CASE v \notin Bound(m)
          <6>1. v \in ToSet(Fresh)
            BY <3>1, <4>3, <5>1 DEF Renamed
          <6>2. /\ BinderOf(b, v) \in 0 .. Len(b.binds)
                /\ BinderOf(b, v) > 0 => b.binds[BinderOf(b, v)] = v
            BY <2>1, BinderFound
          <6>3. BinderOf(b, v) = 0
            BY <2>3, <2>7, <5>1, <6>2 DEF ToSet
          <6>. QED BY <2>4, <3>1, <6>1, <6>3
        <5>. QED BY <5>1
      <4>5. b.binds[j] = v
        <5>1. b.binds[j] \in Bound(m)
          BY <2>3, <4>1 DEF ToSet
        <5>2. Renamed(m, b.binds[j]) = Renamed(m, v)
          BY <2>5, <3>1, <4>1
        <5>. QED BY <4>4, <5>1, <5>2, CanonicalNames
      <4>6. ASSUME NEW n \in j + 1 .. Len(b.binds) PROVE b.binds[n] # v
        <5>1. n \in j + 1 .. Len(a.binds) /\ n \in DOMAIN a.binds
          BY <2>7, <2>8, <3>2, <3>4
        <5>2. a.binds[n] # u /\ a.binds[n] \in Bound(l)
          BY <2>3, <3>2, <5>1 DEF ToSet
        <5>3. Renamed(l, a.binds[n]) # Renamed(l, u)
          BY <4>2, <5>2, CanonicalNames
        <5>. QED BY <2>5, <3>1, <5>1, <5>3
      <4>7. BinderOf(b, v) = j
        BY <2>1, <2>7, <4>1, <4>5, <4>6, BinderUnique
      <4>. QED BY <3>4, <4>7 DEF u, v, j
    <3>. QED BY <2>7, <3>2, <3>3, <3>4
  <2>10. SamePart(a, b)
    BY <2>2, <2>8, <2>9 DEF SamePart
  <2>. QED BY <2>10 DEF a, b
<1>. QED BY <1>2, <1>3 DEF AlphaEquivalent

----------------------------------------------------------------------------
\* Forward saturation.

\* c is not lost: it is waiting, or something at least as strong is stored.
Covered(c) == c \in todo \/ \E d \in live : Subsumes(d, c)

\* The rule's turn comes later in this macro-step.
Postponed(r) == stage = "focus" /\ ~ r.invertible

NothingLost ==
  ~ full /\ stage # "goal_derived" =>
    /\ \A c \in problem.axioms : Covered(c)
    /\ \A r \in problem.rules :
         (\E p \in active : Form[p.concl] = r.trigger) /\ ~ Postponed(r)
           => \A c \in r.emit : Covered(c)

AllDerivable == live \subseteq Derivable /\ todo \subseteq Derivable /\ extra \subseteq Derivable

EndIsEarned ==
  /\ stage = "goal_derived" => Proved
  /\ stage = "saturated" => ~ Proved /\ live = active /\ todo = {}

SaturationInv == SaturationTypeOK /\ AllDerivable /\ NothingLost /\ EndIsEarned
----------------------------------------------------------------------------
\* Rules emit sequents.
LEMMA EmittedAreSequents ==
  ASSUME problem \in Problem, NEW P, NEW i
  PROVE  Emitted(P, i) \subseteq Sequent
BY CalculusAssumption DEF Emitted, Rule

\* What rules emit on derivable premises is derivable.
LEMMA EmittedAreDerivable ==
  ASSUME problem \in Problem, NEW P, P \subseteq Derivable, NEW i
  PROVE  Emitted(P, i) \subseteq Derivable
<1>1. SUFFICES ASSUME NEW c \in Emitted(P, i), NEW S \in SUBSET Sequent, ClosedUnderRules(S)
               PROVE  c \in S
  BY EmittedAreSequents DEF Derivable
<1>2. PICK r \in problem.rules : c \in r.emit /\ \E p \in P : Form[p.concl] = r.trigger
  BY DEF Emitted
<1>3. \A p \in P : p \in S
  BY <1>1 DEF Derivable
<1>4. QED
  BY <1>1, <1>2, <1>3 DEF ClosedUnderRules

\* A stored sequent that subsumes an evicted one takes its place.
LEMMA SubsumesTransitive ==
  ASSUME NEW c, NEW d, NEW e, Subsumes(c, d), Subsumes(d, e)
  PROVE  Subsumes(c, e)
BY DEF Subsumes

\* saturate starts with nothing stored and every axiom still to be looked at.
LEMMA InitSaturation == SaturationInit => SaturationInv
<1>1. SUFFICES ASSUME SaturationInit PROVE SaturationInv
  OBVIOUS
<1>2. problem.axioms \subseteq Sequent
  BY <1>1, CalculusAssumption DEF SaturationInit
<1>3. SaturationTypeOK
  <2>1. grew \in BOOLEAN /\ full \in BOOLEAN
    BY <1>1, Zenon DEF SaturationInit
  <2>2. QED
    BY <1>1, <1>2, <2>1 DEF SaturationInit, SaturationTypeOK, Running, Ended
<1>4. AllDerivable
  BY <1>1, <1>2 DEF SaturationInit, AllDerivable, Derivable, ClosedUnderRules
<1>5. NothingLost /\ EndIsEarned
  BY <1>1 DEF SaturationInit, NothingLost, Covered, EndIsEarned
<1>6. QED
  BY <1>3, <1>4, <1>5 DEF SaturationInv

\* What a problem derives does not change.
LEMMA DerivableStays ==
  ASSUME problem' = problem
  PROVE  Derivable' = Derivable
BY DEF Derivable, ClosedUnderRules

\* Storing and evicting.
LEMMA AddKeeps ==
  ASSUME SaturationInv, NEW c \in Sequent, Add(c)
  PROVE  SaturationInv'
<1>1. /\ c \in todo /\ todo' = todo \ {c} /\ stage' = stage /\ stage \in Running /\ ~ Proved
      /\ problem' = problem /\ config' = config /\ steps' = steps /\ focus' = focus
  BY DEF Add
<1>2. /\ live' \subseteq live \cup {c}
      /\ active' \subseteq active /\ active' \subseteq live'
      /\ extra' \subseteq extra \cup {c}
      /\ stored' \in Nat
  BY DEF Add, SaturationInv, SaturationTypeOK, Unsubsumed, ActiveWith
<1>10. grew' \in BOOLEAN /\ full' \in BOOLEAN
  BY Zenon DEF Add, SaturationInv, SaturationTypeOK
<1>3. full => full'
  BY DEF Add
<1>4. ~ full' => \A e : Covered(e) => Covered(e)'
  <2>1. SUFFICES ASSUME ~ full', NEW e, Covered(e) PROVE Covered(e)'
    OBVIOUS
  <2>2. CASE \E d \in live : Subsumes(d, c)
    <3>1. live' = live
      BY <2>2 DEF Add
    <3>2. QED
      BY <1>1, <2>1, <2>2, <3>1 DEF Covered
  <2>3. CASE \A d \in live : ~ Subsumes(d, c)
    <3>1. live' = Unsubsumed(live, c) \cup {c}
      BY <2>1, <2>3 DEF Add
    <3>2. Subsumes(c, c)
      BY DEF Subsumes
    <3>3. \A d \in live : d \in live' \/ Subsumes(c, d)
      BY <3>1 DEF Unsubsumed
    <3>4. QED
      BY <1>1, <2>1, <3>1, <3>2, <3>3, SubsumesTransitive DEF Covered
  <2>4. QED
    BY <2>2, <2>3
<1>5. SaturationTypeOK'
  BY <1>1, <1>2, <1>10 DEF SaturationInv, SaturationTypeOK
<1>6. AllDerivable'
  BY <1>1, <1>2, DerivableStays DEF SaturationInv, AllDerivable
<1>7. NothingLost'
  <2>1. SUFFICES ASSUME ~ full', stage' # "goal_derived"
                 PROVE  /\ \A e \in problem.axioms : Covered(e)'
                        /\ \A r \in problem.rules :
                             (\E p \in active' : Form[p.concl] = r.trigger) /\ ~ Postponed(r)'
                               => \A e \in r.emit : Covered(e)'
    BY <1>1 DEF NothingLost
  <2>2. \A r : Postponed(r)' = Postponed(r)
    BY <1>1 DEF Postponed
  <2>3. QED
    BY <1>1, <1>2, <1>3, <1>4, <2>1, <2>2 DEF SaturationInv, NothingLost
<1>8. EndIsEarned'
  BY <1>1 DEF EndIsEarned, Running
<1>9. QED
  BY <1>5, <1>6, <1>7, <1>8 DEF SaturationInv

\* A given sequent may trigger rules: those that are not postponed emit at once.
LEMMA GiveKeeps ==
  ASSUME SaturationInv, NEW c \in Sequent, Give(c)
  PROVE  SaturationInv'
<1>1. /\ todo = {} /\ stage = "select" /\ stage' = "focus" /\ ~ Proved
      /\ c \in live /\ active' = active \cup {c} /\ live' = live
      /\ todo' = Emitted(active', TRUE) /\ extra' = {} /\ grew' = FALSE
      /\ steps' = steps + 1 /\ focus' = config.focus_cap - 1
      /\ problem' = problem /\ config' = config /\ stored' = stored /\ full' = full
  BY DEF Give, Goon, MayBeGiven
<1>2. SaturationTypeOK'
  <2>1. config.focus_cap \in Int
    BY CalculusAssumption DEF SaturationInv, SaturationTypeOK
  <2>2. todo' \subseteq Sequent
    BY <1>1, EmittedAreSequents DEF SaturationInv, SaturationTypeOK
  <2>3. grew' \in BOOLEAN /\ full' \in BOOLEAN
    BY <1>1, Zenon DEF SaturationInv, SaturationTypeOK
  <2>4. focus' \in Int /\ steps' \in Nat /\ stored' \in Nat
    BY <1>1, <2>1 DEF SaturationInv, SaturationTypeOK
  <2>5. active' \subseteq live' /\ extra' \subseteq Sequent /\ stage' \in Running
    BY <1>1 DEF SaturationInv, SaturationTypeOK, Running
  <2>6. QED
    BY <1>1, <2>2, <2>3, <2>4, <2>5, Zenon DEF SaturationInv, SaturationTypeOK
<1>3. AllDerivable'
  <2>1. active' \subseteq Derivable
    BY <1>1 DEF SaturationInv, SaturationTypeOK, AllDerivable
  <2>2. todo' \subseteq Derivable
    BY <1>1, <2>1, EmittedAreDerivable DEF SaturationInv, SaturationTypeOK
  <2>3. QED
    BY <1>1, <2>2, DerivableStays DEF SaturationInv, AllDerivable
<1>4. NothingLost'
  <2>1. \A e : Covered(e) => Covered(e)'
    BY <1>1 DEF Covered
  <2>2. \A r \in problem.rules :
          (\E p \in active' : Form[p.concl] = r.trigger) /\ r.invertible = TRUE => r.emit \subseteq todo'
    BY <1>1 DEF Emitted
  <2>3. \A r \in problem.rules : r.invertible \in BOOLEAN
    BY CalculusAssumption DEF SaturationInv, SaturationTypeOK, Rule
  <2>4. QED
    BY <1>1, <2>1, <2>2, <2>3 DEF SaturationInv, NothingLost, Postponed, Covered
<1>5. QED
  BY <1>1, <1>2, <1>3, <1>4 DEF SaturationInv, EndIsEarned

\* A further round of the macro-step emits more and gives nothing.
LEMMA FocusAgainKeeps ==
  ASSUME SaturationInv, FocusAgain
  PROVE  SaturationInv'
<1>1. /\ todo = {} /\ stage = "focus" /\ stage' = "focus" /\ focus' = focus - 1
      /\ todo' = Emitted(active \cup extra, TRUE) /\ grew' = FALSE
      /\ problem' = problem /\ config' = config /\ live' = live /\ active' = active
      /\ stored' = stored /\ extra' = extra /\ steps' = steps /\ full' = full
  BY DEF FocusAgain, Goon
<1>2. SaturationTypeOK'
  <2>1. todo' \subseteq Sequent
    BY <1>1, EmittedAreSequents DEF SaturationInv, SaturationTypeOK
  <2>2. grew' \in BOOLEAN /\ full' \in BOOLEAN
    BY <1>1, Zenon DEF SaturationInv, SaturationTypeOK
  <2>3. focus' \in Int
    BY <1>1 DEF SaturationInv, SaturationTypeOK
  <2>4. QED
    BY <1>1, <2>1, <2>2, <2>3, Zenon DEF SaturationInv, SaturationTypeOK
<1>3. AllDerivable'
  <2>1. active \cup extra \subseteq Derivable
    BY DEF SaturationInv, SaturationTypeOK, AllDerivable
  <2>2. todo' \subseteq Derivable
    BY <1>1, <2>1, EmittedAreDerivable DEF SaturationInv, SaturationTypeOK
  <2>3. QED
    BY <1>1, <2>2, DerivableStays DEF SaturationInv, AllDerivable
<1>4. NothingLost'
  <2>1. \A e : Covered(e) => Covered(e)'
    BY <1>1 DEF Covered
  <2>2. QED
    BY <1>1, <2>1 DEF SaturationInv, NothingLost, Postponed
<1>5. QED
  BY <1>1, <1>2, <1>3, <1>4 DEF SaturationInv, EndIsEarned

\* The postponed rules emit.
LEMMA SynchronousKeeps ==
  ASSUME SaturationInv, Synchronous
  PROVE  SaturationInv'
<1>1. /\ todo = {} /\ stage = "focus" /\ stage' = "sync"
      /\ todo' = Emitted(active, FALSE)
      /\ problem' = problem /\ config' = config /\ live' = live /\ active' = active
      /\ stored' = stored /\ extra' = extra /\ steps' = steps /\ full' = full
      /\ grew' = grew /\ focus' = focus
  BY DEF Synchronous, Goon
<1>2. SaturationTypeOK'
  <2>1. todo' \subseteq Sequent
    BY <1>1, EmittedAreSequents DEF SaturationInv, SaturationTypeOK
  <2>2. QED
    BY <1>1, <2>1 DEF SaturationInv, SaturationTypeOK, Running
<1>3. AllDerivable'
  <2>1. active \subseteq Derivable
    BY DEF SaturationInv, SaturationTypeOK, AllDerivable
  <2>2. todo' \subseteq Derivable
    BY <1>1, <2>1, EmittedAreDerivable DEF SaturationInv, SaturationTypeOK
  <2>3. QED
    BY <1>1, <2>2, DerivableStays DEF SaturationInv, AllDerivable
<1>4. NothingLost'
  <2>1. \A e : Covered(e) => Covered(e)'
    BY <1>1 DEF Covered
  <2>2. \A r \in problem.rules :
          (\E p \in active : Form[p.concl] = r.trigger) /\ r.invertible = FALSE => r.emit \subseteq todo'
    BY <1>1 DEF Emitted
  <2>3. \A r \in problem.rules : r.invertible \in BOOLEAN
    BY CalculusAssumption DEF SaturationInv, SaturationTypeOK, Rule
  <2>4. QED
    BY <1>1, <2>1, <2>2, <2>3 DEF SaturationInv, NothingLost, Postponed, Covered
<1>5. QED
  BY <1>1, <1>2, <1>3, <1>4 DEF SaturationInv, EndIsEarned

\* Between the parts of the loop, and at its end, nothing is stored.
LEMMA BetweenKeeps ==
  ASSUME SaturationInv, Seeded \/ NextGiven \/ End
  PROVE  SaturationInv'
<1>1. /\ live' = live /\ active' = active /\ todo' = todo /\ extra' = extra
      /\ problem' = problem /\ config' = config /\ stored' = stored
      /\ grew' = grew /\ focus' = focus /\ steps' = steps /\ full' = full
  BY DEF Seeded, NextGiven, End
<1>2. /\ stage' \in {"select"} \cup Ended
      /\ stage' # "goal_derived" => stage # "focus" /\ stage # "goal_derived"
      /\ stage' = "goal_derived" => Proved
      /\ stage' = "saturated" => ~ Proved /\ live = active /\ todo = {}
  BY DEF Seeded, NextGiven, End, Goon, Ended, Running
<1>3. SaturationTypeOK'
  BY <1>1, <1>2 DEF SaturationInv, SaturationTypeOK, Running
<1>4. AllDerivable'
  BY <1>1, DerivableStays DEF SaturationInv, AllDerivable
<1>5. NothingLost'
  <2>1. \A e : Covered(e)' = Covered(e)
    BY <1>1 DEF Covered
  <2>2. QED
    BY <1>1, <1>2, <2>1 DEF SaturationInv, NothingLost, Postponed
<1>6. EndIsEarned'
  BY <1>1, <1>2 DEF EndIsEarned, Proved
<1>7. QED
  BY <1>3, <1>4, <1>5, <1>6 DEF SaturationInv

\* The invariant: the types, and that no sequent is lost before it was used.
THEOREM SaturationInvariant == SaturationSpec => []SaturationInv
<1>1. SaturationInv /\ [SaturationNext]_saturationVars => SaturationInv'
  <2>1. SUFFICES ASSUME SaturationInv, [SaturationNext]_saturationVars PROVE SaturationInv'
    OBVIOUS
  <2>2. CASE UNCHANGED saturationVars
    BY <2>1, <2>2 DEF saturationVars, SaturationInv, SaturationTypeOK, AllDerivable, NothingLost,
       EndIsEarned, Covered, Postponed, Proved, Derivable, ClosedUnderRules
  <2>3. CASE SaturationNext
    BY <2>1, <2>3, AddKeeps, GiveKeeps, FocusAgainKeeps, SynchronousKeeps, BetweenKeeps
    DEF SaturationNext
  <2>4. QED
    BY <2>1, <2>2, <2>3
<1>2. QED
  BY <1>1, InitSaturation, PTL DEF SaturationSpec

\* A hit is genuine: only what the rules derive is stored, through any
\* macro-steps and evictions, and a goal called derived is subsumed by it.
THEOREM HitsAreDerivable == SaturationSpec => []HitIsDerivable
<1>1. SaturationInv => HitIsDerivable
  BY DEF SaturationInv, AllDerivable, EndIsEarned, Proved, HitIsDerivable
<1>2. QED
  BY <1>1, SaturationInvariant, PTL

\* As long as the names are used with care, what is derived proves the goal
\* itself and not only something of the same canonical form.
THEOREM HitsAreGenuine == SaturationSpec => []WellNamedHitIsGenuine
<1>1. SaturationInv => WellNamedHitIsGenuine
  <2>1. SUFFICES ASSUME SaturationInv, \A l \in Atom : WellNamed(l), stage = "goal_derived"
                 PROVE  \E c \in Derivable : MakesRedundant(c, problem.goal)
    BY DEF WellNamedHitIsGenuine, HitIsGenuine
  <2>2. PICK c \in live : Subsumes(c, problem.goal)
    BY <2>1 DEF SaturationInv, EndIsEarned, Proved
  <2>3. c \in Derivable /\ c \in Sequent /\ problem.goal \in Sequent
    BY <2>1, CalculusAssumption DEF SaturationInv, AllDerivable, Derivable, SaturationTypeOK
  <2>4. ASSUME NEW d \in Sequent
        PROVE  d.concl \in Atom /\ d.hyps \subseteq Atom
    BY CalculusAssumption DEF CalculusAssumption
  <2>5. ASSUME NEW l \in Atom, NEW m \in Atom, Form[l] = Form[m]
        PROVE  AlphaEquivalent(l, m)
    BY <2>1, <2>5, CalculusAssumption, CanonicalFormsAreFaithful DEF Form
  <2>6. MakesRedundant(c, problem.goal)
    <3>1. AlphaEquivalent(c.concl, problem.goal.concl)
      BY <2>2, <2>3, <2>4, <2>5 DEF Subsumes
    <3>2. ASSUME NEW h \in c.hyps PROVE \E k \in problem.goal.hyps : AlphaEquivalent(h, k)
      <4>1. PICK k \in problem.goal.hyps : Form[h] = Form[k]
        BY <2>2 DEF Subsumes
      <4>. QED BY <2>3, <2>4, <2>5, <4>1
    <3>. QED BY <3>1, <3>2 DEF MakesRedundant
  <2>. QED BY <2>3, <2>6
<1>2. QED
  BY <1>1, SaturationInvariant, PTL

\* A search that ran out of sequents with room left is complete: what the
\* stored sequents subsume holds the axioms and is closed under the rules.
THEOREM SaturationIsRight == SaturationSpec => []SaturatedIsRight
<1>1. SaturationInv => SaturatedIsRight
  <2>1. SUFFICES ASSUME SaturationInv, stage = "saturated", ~ full,
                        NEW c \in Derivable, Subsumes(c, problem.goal)
                 PROVE  FALSE
    BY DEF SaturatedIsRight
  <2> DEFINE S == {e \in Sequent : \E d \in live : Subsumes(d, e)}
  <2>2. live = active /\ todo = {} /\ ~ Proved
    BY <2>1 DEF SaturationInv, EndIsEarned
  <2>3. /\ problem.axioms \subseteq Sequent
        /\ \A r \in problem.rules : r.emit \subseteq Sequent
    BY <2>1, CalculusAssumption DEF SaturationInv, SaturationTypeOK, Rule
  <2>4. problem.axioms \subseteq S
    BY <2>1, <2>2, <2>3 DEF SaturationInv, NothingLost, Covered
  <2>5. ASSUME NEW r \in problem.rules, NEW p \in S, Form[p.concl] = r.trigger
        PROVE  r.emit \subseteq S
    <3>1. \E d \in active : Form[d.concl] = r.trigger
      BY <2>2, <2>5 DEF Subsumes
    <3>2. \A e \in r.emit : Covered(e)
      BY <2>1, <3>1 DEF SaturationInv, NothingLost, Postponed
    <3>3. QED
      BY <2>2, <2>3, <3>2 DEF Covered
  <2>6. ClosedUnderRules(S)
    BY <2>4, <2>5 DEF ClosedUnderRules
  <2>7. c \in S
    BY <2>6 DEF Derivable
  <2>8. QED
    BY <2>1, <2>2, <2>7, SubsumesTransitive DEF Proved
<1>2. QED
  BY <1>1, SaturationInvariant, PTL


----------------------------------------------------------------------------
\* Best-first search and the shrinking of what it finds.

\* A node of the arena is the root, or what a tactic makes of an older one.
Placed(j) ==
  \/ j = 1 /\ arena[j].parent = 0 /\ arena[j].state = Target
  \/ /\ arena[j].parent \in 1 .. j - 1 /\ arena[j].tactic \in Tactic
     /\ arena[j].state = tree.step[<<arena[arena[j].parent].state, arena[j].tactic>>]

\* A node that is off the frontier has been expanded, under its key.
Followed(i) ==
  /\ arena[i].state \notin tree.closed
  /\ \A t \in Live(arena[i].state) :
       \E j \in DOMAIN arena : arena[j].state = tree.step[<<arena[i].state, t>>]
OffFrontier ==
  /\ phase \in {"search", "exhausted"} => \A i \in DOMAIN arena \ heap : Known(i)
  /\ phase = "exhausted" => heap = {}
  /\ \A k \in visited : \E i \in DOMAIN arena : KeyAt(i) = k /\ Followed(i)

BestInv ==
  /\ SearchTypeOK
  /\ arena # <<>> /\ \A j \in DOMAIN arena : Placed(j)
  /\ OffFrontier
  /\ phase = "solved" => solved_node \in DOMAIN arena /\ arena[solved_node].state \in tree.closed
  /\ KeptIsAProof

\* What a world is made of.
LEMMA TreeParts ==
  ASSUME tree \in Tree
  PROVE  /\ tree.step \in [GoalState \X Tactic -> GoalState \cup {Failed}]
         /\ tree.closed \subseteq GoalState /\ tree.key \in [GoalState -> Key]
BY BestFirstAssumption

\* SetToSeq lists every element of a finite set.
LEMMA Listing ==
  ASSUME NEW S, IsFiniteSet(S)
  PROVE  /\ SetToSeq(S) \in Seq(S)
         /\ \A x \in S : \E n \in DOMAIN SetToSeq(S) : SetToSeq(S)[n] = x
<1>. DEFINE N == Cardinality(S)
<1>1. N \in Nat /\ ExistsBijection(1 .. N, S)
  BY FS_CardinalityType
<1>2. \E f \in [1 .. N -> S] : IsInjective(f)
  BY <1>1 DEF ExistsBijection, Bijection, Injection
<1>3. SetToSeq(S) \in [1 .. N -> S] /\ IsInjective(SetToSeq(S))
  BY <1>2 DEF SetToSeq
<1>4. IsFiniteSet(1 .. N) /\ Cardinality(1 .. N) = N
  BY <1>1, FS_Interval
<1>5. SetToSeq(S) \in Surjection(1 .. N, S)
  <2>1. SetToSeq(S) \in Injection(1 .. N, S)
    BY <1>3 DEF Injection
  <2>. HIDE DEF N
  <2>2. Cardinality(1 .. N) = Cardinality(S) <=> SetToSeq(S) \in Surjection(1 .. N, S)
    BY <2>1, FS_Injection
  <2>. QED BY <1>4, <2>2 DEF N
<1>6. DOMAIN SetToSeq(S) = 1 .. N
  BY <1>3
<1>. HIDE DEF N
<1>7. SetToSeq(S) \in Seq(S)
  BY <1>1, <1>3
<1>. QED BY <1>5, <1>6, <1>7 DEF Surjection

\* The children of a node: one for each tactic that the prover accepts.
LEMMA ChildrenAre ==
  ASSUME tree \in Tree, arena \in Seq(Found), NEW i \in DOMAIN arena
  PROVE  /\ ChildrenOf(i) \in Seq(Found)
         /\ \A n \in DOMAIN ChildrenOf(i) :
              /\ ChildrenOf(i)[n].parent = i /\ ChildrenOf(i)[n].tactic \in Tactic
              /\ ChildrenOf(i)[n].state = tree.step[<<arena[i].state, ChildrenOf(i)[n].tactic>>]
         /\ \A t \in Live(arena[i].state) : \E n \in DOMAIN ChildrenOf(i) :
              ChildrenOf(i)[n].state = tree.step[<<arena[i].state, t>>]
<1>. DEFINE s == arena[i].state
            list == SetToSeq(Live(s))
<1>1. s \in GoalState /\ i \in Nat
  <2>1. arena[i] \in Found /\ i \in Nat
    OBVIOUS
  <2>. QED BY <2>1 DEF Found
<1>2. IsFiniteSet(Live(s)) /\ Live(s) \subseteq Tactic
  BY BestFirstAssumption, FS_Subset DEF Live
<1>3. list \in Seq(Live(s)) /\ \A t \in Live(s) : \E n \in DOMAIN list : list[n] = t
  BY <1>2, Listing
<1>4. DOMAIN list = 1 .. Len(list) /\ Len(list) \in Nat /\ \A n \in DOMAIN list : list[n] \in Live(s)
  BY <1>3
<1>. HIDE DEF list
<1>5. ChildrenOf(i) = [n \in DOMAIN list |-> [state |-> tree.step[<<s, list[n]>>],
                                              parent |-> i, tactic |-> list[n]]]
  BY DEF ChildrenOf, list
<1>6. \A t \in Live(s) : tree.step[<<s, t>>] \in GoalState
  BY <1>1, TreeParts DEF Live
<1>. HIDE DEF s
<1>7. \A n \in DOMAIN list : ChildrenOf(i)[n] \in Found
  BY <1>1, <1>2, <1>4, <1>5, <1>6 DEF Found
<1>8. ChildrenOf(i) \in Seq(Found)
  BY <1>4, <1>5, <1>7
<1>9. \A n \in DOMAIN ChildrenOf(i) :
        /\ ChildrenOf(i)[n].parent = i /\ ChildrenOf(i)[n].tactic \in Tactic
        /\ ChildrenOf(i)[n].state = tree.step[<<s, ChildrenOf(i)[n].tactic>>]
  BY <1>2, <1>4, <1>5
<1>10. ASSUME NEW t \in Live(s)
       PROVE  \E n \in DOMAIN ChildrenOf(i) : ChildrenOf(i)[n].state = tree.step[<<s, t>>]
  <2>1. PICK n \in DOMAIN list : list[n] = t
    BY <1>3
  <2>2. n \in DOMAIN ChildrenOf(i)
    BY <1>5
  <2>3. ChildrenOf(i)[n].state = tree.step[<<s, t>>]
    BY <1>5, <2>1
  <2>. QED BY <2>2, <2>3
<1>. QED BY <1>8, <1>9, <1>10 DEF s

\* The search starts with the root on the frontier and nothing seen.
LEMMA BestInitHolds == BestInit => BestInv
<1>. SUFFICES ASSUME BestInit PROVE BestInv
  OBVIOUS
<1>. DEFINE first == [state |-> Target, parent |-> 0, tactic |-> Failed]
<1>1. arena = <<first>> /\ DOMAIN arena = {1} /\ arena[1] = first /\ first \in Found
  BY BestFirstAssumption DEF BestInit, Found
<1>2. arena \in Seq(Found)
  BY <1>1
<1>3. max_steps \in Nat /\ scored \in 0 .. max_steps
  BY BestFirstAssumption DEF BestInit
<1>4. order \in Seq(Key) /\ kept \in Seq(Tactic) /\ visited \subseteq Key
  BY DEF BestInit
<1>5. SearchTypeOK
  BY <1>1, <1>2, <1>3, <1>4 DEF BestInit, SearchTypeOK, Phase
<1>6. arena # <<>> /\ \A j \in DOMAIN arena : Placed(j)
  BY <1>1 DEF Placed
<1>7. OffFrontier
  BY <1>1 DEF BestInit, OffFrontier
<1>. QED BY <1>5, <1>6, <1>7 DEF BestInv, BestInit, KeptIsAProof

\* The steps that find no new node.
LEMMA PopHolds ==
  ASSUME BestInv, phase = "search", NEW i \in heap,
         PopKnown(i) \/ Solve(i) \/ GiveUp(i), UNCHANGED <<tree, max_steps, kept>>
  PROVE  BestInv'
<1>1. arena' = arena /\ visited' = visited /\ scored' = scored /\ tree' = tree
      /\ max_steps' = max_steps /\ kept' = kept /\ heap' = heap \ {i}
  BY DEF PopKnown, Solve, GiveUp
<1>2. /\ tree \in Tree /\ arena \in Seq(Found) /\ heap \subseteq DOMAIN arena /\ order \in Seq(Key)
      /\ solved_node \in Nat
  BY DEF BestInv, SearchTypeOK
<1>3. i \in Nat /\ i \in DOMAIN arena /\ KeyAt(i) \in Key
  <2>1. arena[i] \in Found /\ i \in Nat
    BY <1>2
  <2>. QED BY <1>2, <2>1, TreeParts DEF KeyAt, Found
<1>4. order' \in Seq(Key) /\ solved_node' \in Nat /\ phase' \in Phase
  <2>1. Append(order, KeyAt(i)) \in Seq(Key)
    BY <1>2, <1>3
  <2>. QED BY <1>2, <1>3, <2>1 DEF PopKnown, Solve, GiveUp, Phase
<1>5. SearchTypeOK'
  BY <1>1, <1>2, <1>4 DEF BestInv, SearchTypeOK
<1>6. \A j \in DOMAIN arena : Placed(j)'
  BY <1>1 DEF BestInv, Placed
<1>7. OffFrontier'
  <2>1. \A k \in visited : \E j \in DOMAIN arena : KeyAt(j)' = k /\ Followed(j)'
    BY <1>1 DEF BestInv, OffFrontier, KeyAt, Followed, Live
  <2>2. ASSUME phase' \in {"search", "exhausted"}, NEW j \in DOMAIN arena \ heap'
        PROVE  Known(j)'
    <3>1. phase' = "search" /\ Known(i)
      BY <2>2 DEF PopKnown, Solve, GiveUp
    <3>2. Known(j)
      BY <1>1, <2>2, <3>1 DEF BestInv, OffFrontier
    <3>. QED BY <1>1, <3>2 DEF Known, KeyAt
  <2>3. phase' # "exhausted"
    BY DEF PopKnown, Solve, GiveUp
  <2>. QED BY <1>1, <2>1, <2>2, <2>3 DEF OffFrontier
<1>8. phase' = "solved" => solved_node' \in DOMAIN arena' /\ arena'[solved_node'].state \in tree'.closed
  BY <1>1, <1>3 DEF PopKnown, Solve, GiveUp
<1>9. phase' # "shrunk"
  BY DEF PopKnown, Solve, GiveUp
<1>. QED BY <1>1, <1>5, <1>6, <1>7, <1>8, <1>9 DEF BestInv, KeptIsAProof

\* An empty frontier is where the search may stop for want of states.
LEMMA ExhaustHolds ==
  ASSUME BestInv, phase = "search", Exhaust, UNCHANGED <<tree, max_steps, kept>>
  PROVE  BestInv'
<1>1. arena' = arena /\ visited' = visited /\ scored' = scored /\ tree' = tree
      /\ max_steps' = max_steps /\ kept' = kept /\ heap' = heap /\ order' = order
      /\ solved_node' = solved_node /\ phase' = "exhausted" /\ heap = {}
  BY DEF Exhaust
<1>2. SearchTypeOK'
  BY <1>1 DEF BestInv, SearchTypeOK, Phase
<1>3. \A j \in DOMAIN arena : Placed(j)'
  BY <1>1 DEF BestInv, Placed
<1>4. OffFrontier'
  <2>1. \A k \in visited : \E j \in DOMAIN arena : KeyAt(j)' = k /\ Followed(j)'
    BY <1>1 DEF BestInv, OffFrontier, KeyAt, Followed, Live
  <2>2. \A j \in DOMAIN arena \ heap : Known(j)'
    BY <1>1 DEF BestInv, OffFrontier, Known, KeyAt
  <2>. QED BY <1>1, <2>1, <2>2 DEF OffFrontier
<1>. QED BY <1>1, <1>2, <1>3, <1>4 DEF BestInv, KeptIsAProof

\* An expansion puts the children on the frontier in place of their parent.
LEMMA ExpandNodeHolds ==
  ASSUME BestInv, phase = "search", NEW i \in heap, ExpandNode(i),
         UNCHANGED <<tree, max_steps, kept>>
  PROVE  BestInv'
<1>. DEFINE kids == ChildrenOf(i)
<1>1. /\ arena' = arena \o kids /\ visited' = visited \cup {KeyAt(i)} /\ scored' = scored + 1
      /\ tree' = tree /\ max_steps' = max_steps /\ kept' = kept /\ phase' = "search"
      /\ heap' = (heap \ {i}) \cup (Len(arena) + 1 .. Len(arena')) /\ scored < max_steps
      /\ order' = Append(order, KeyAt(i)) /\ solved_node' = solved_node
      /\ arena[i].state \notin tree.closed
  <2>1. scored \in Nat /\ max_steps \in Nat
    BY BestFirstAssumption DEF BestInv, SearchTypeOK
  <2>. QED BY <2>1 DEF ExpandNode, Visits, Spent
<1>2. /\ tree \in Tree /\ arena \in Seq(Found) /\ heap \subseteq DOMAIN arena /\ order \in Seq(Key)
      /\ i \in DOMAIN arena /\ i \in Nat /\ scored \in 0 .. max_steps /\ max_steps \in Nat
      /\ visited \subseteq Key
  BY BestFirstAssumption DEF BestInv, SearchTypeOK
<1>3. /\ kids \in Seq(Found)
      /\ \A n \in DOMAIN kids :
              /\ kids[n].parent = i /\ kids[n].tactic \in Tactic
              /\ kids[n].state = tree.step[<<arena[i].state, kids[n].tactic>>]
      /\ \A t \in Live(arena[i].state) : \E n \in DOMAIN kids :
              kids[n].state = tree.step[<<arena[i].state, t>>]
  BY <1>2, ChildrenAre
<1>. HIDE DEF kids
<1>4. KeyAt(i) \in Key
  <2>1. arena[i] \in Found
    BY <1>2
  <2>. QED BY <1>2, <2>1, TreeParts DEF KeyAt, Found
<1>5. /\ arena' \in Seq(Found) /\ DOMAIN arena' = 1 .. Len(arena) + Len(kids)
      /\ Len(arena') = Len(arena) + Len(kids)
      /\ Len(arena) \in Nat /\ Len(kids) \in Nat /\ DOMAIN arena = 1 .. Len(arena)
      /\ DOMAIN kids = 1 .. Len(kids)
      /\ \A j \in DOMAIN arena : arena'[j] = arena[j]
      /\ \A j \in DOMAIN arena' \ DOMAIN arena :
           j - Len(arena) \in DOMAIN kids /\ arena'[j] = kids[j - Len(arena)]
      /\ \A n \in DOMAIN kids : Len(arena) + n \in DOMAIN arena' /\ arena'[Len(arena) + n] = kids[n]
  BY <1>1, <1>2, <1>3
<1>6. SearchTypeOK'
  <2>1. heap' \subseteq DOMAIN arena'
    BY <1>1, <1>2, <1>5
  <2>2. Append(order, KeyAt(i)) \in Seq(Key) /\ scored + 1 \in 0 .. max_steps
    BY <1>1, <1>2, <1>4
  <2>. QED BY <1>1, <1>2, <1>4, <1>5, <2>1, <2>2 DEF BestInv, SearchTypeOK, Phase
<1>7. ASSUME NEW j \in DOMAIN arena' PROVE Placed(j)'
  <2>1. CASE j \in DOMAIN arena
    <3>1. Placed(j)
      BY <2>1 DEF BestInv
    <3>2. j # 1 => arena[j].parent \in DOMAIN arena
      BY <1>5, <2>1, <3>1 DEF Placed
    <3>3. arena'[j] = arena[j] /\ (j # 1 => arena'[arena[j].parent] = arena[arena[j].parent])
      BY <1>5, <2>1, <3>2
    <3>4. CASE j = 1
      <4>1. arena[j].parent = 0 /\ arena[j].state = Target
        BY <1>5, <3>1, <3>4 DEF Placed
      <4>. QED BY <3>3, <3>4, <4>1 DEF Placed
    <3>5. CASE j # 1
      BY <1>1, <3>1, <3>3, <3>5 DEF Placed
    <3>. QED BY <3>4, <3>5
  <2>2. CASE j \notin DOMAIN arena
    <3>. DEFINE n == j - Len(arena)
    <3>1. n \in DOMAIN kids /\ arena'[j] = kids[n] /\ arena'[i] = arena[i]
      BY <1>2, <1>5, <2>2
    <3>2. i \in 1 .. j - 1
      BY <1>2, <1>5, <2>2
    <3>. HIDE DEF n
    <3>3. /\ arena'[j].parent = i /\ arena'[j].tactic \in Tactic
          /\ arena'[j].state = tree'.step[<<arena'[i].state, arena'[j].tactic>>]
      BY <1>1, <1>3, <3>1
    <3>. QED BY <3>2, <3>3 DEF Placed
  <2>. QED BY <2>1, <2>2
<1>8. ASSUME NEW j \in DOMAIN arena
      PROVE  KeyAt(j)' = KeyAt(j) /\ j \in DOMAIN arena' /\ (Followed(j) => Followed(j)')
  <2>1. arena'[j] = arena[j] /\ \A x \in DOMAIN arena : x \in DOMAIN arena'
    BY <1>5
  <2>. QED BY <1>1, <1>5, <2>1 DEF KeyAt, Followed, Live
<1>9. Followed(i)'
  <2>1. ASSUME NEW t \in Live(arena[i].state)
        PROVE  \E j \in DOMAIN arena' : arena'[j].state = tree.step[<<arena[i].state, t>>]
    <3>1. PICK n \in DOMAIN kids : kids[n].state = tree.step[<<arena[i].state, t>>]
      BY <1>3
    <3>. QED BY <1>5, <3>1
  <2>2. arena'[i] = arena[i]
    BY <1>2, <1>5
  <2>. QED BY <1>1, <2>1, <2>2 DEF Followed, Live
<1>10. OffFrontier'
  <2>1. ASSUME NEW j \in DOMAIN arena' \ heap' PROVE Known(j)'
    <3>1. j \in DOMAIN arena /\ (j \notin heap \/ j = i)
      BY <1>1, <1>5
    <3>2. KeyAt(j) \in visited'
      BY <1>1, <3>1 DEF BestInv, OffFrontier, Known
    <3>. QED BY <1>8, <3>1, <3>2 DEF Known
  <2>2. ASSUME NEW k \in visited'
        PROVE  \E j \in DOMAIN arena' : KeyAt(j)' = k /\ Followed(j)'
    <3>1. CASE k \in visited
      <4>1. PICK j \in DOMAIN arena : KeyAt(j) = k /\ Followed(j)
        BY <3>1 DEF BestInv, OffFrontier
      <4>. QED BY <1>8, <4>1
    <3>2. CASE k = KeyAt(i)
      BY <1>2, <1>8, <1>9, <3>2
    <3>. QED BY <1>1, <3>1, <3>2
  <2>. QED BY <1>1, <2>1, <2>2 DEF OffFrontier
<1>11. arena' # <<>>
  BY <1>2, <1>5
<1>. QED BY <1>1, <1>6, <1>7, <1>10, <1>11 DEF BestInv, KeptIsAProof

----------------------------------------------------------------------------
\* The line of parents of a node, and the lines of tactics.

\* f starts with v, and its n-th value is what G[n] makes of the one before.
Stepping(N, V, v, G) == N \in Nat /\ v \in V /\ G \in [1 .. N -> [V -> V]]
Iterates(f, m, V, v, G) ==
  /\ f \in [0 .. m -> V] /\ f[0] = v
  /\ \A n \in 1 .. m : f[n] = G[n][f[n - 1]]

\* There is such a function.
LEMMA Stepwise ==
  ASSUME NEW N, NEW V, NEW v, NEW G, Stepping(N, V, v, G)
  PROVE  \E f : Iterates(f, N, V, v, G)
<1>. USE DEF Stepping, Iterates
<1>. DEFINE Upto(m, f) == Iterates(f, m, V, v, G)
            Bad == {m \in 0 .. N : ~ \E f : Upto(m, f)}
<1>1. Bad = {}
  <2>1. SUFFICES ASSUME Bad # {} PROVE FALSE
    OBVIOUS
  <2>2. PICK m \in Bad : \A n \in Bad : m <= n
    <3>1. Bad \in SUBSET Nat
      OBVIOUS
    <3>. HIDE DEF Bad
    <3>. QED BY <2>1, <3>1, LeastNatural
  <2>3. CASE m = 0
    <3>1. Upto(0, [n \in 0 .. 0 |-> v])
      OBVIOUS
    <3>. QED BY <2>3, <3>1
  <2>4. CASE m # 0
    <3>1. m - 1 \in 0 .. N /\ m - 1 \notin Bad /\ m \in 1 .. N
      <4>1. m \in 0 .. N
        BY <2>2
      <4>2. m - 1 \in 0 .. N /\ m \in 1 .. N /\ ~ (m <= m - 1)
        BY <2>4, <4>1
      <4>. HIDE DEF Bad
      <4>. QED BY <2>2, <4>2
    <3>2. PICK f : Upto(m - 1, f)
      BY <3>1
    <3>. DEFINE g == [n \in 0 .. m |-> IF n = m THEN G[m][f[m - 1]] ELSE f[n]]
    <3>3. f[m - 1] \in V /\ \A n \in 0 .. m - 1 : g[n] = f[n]
      BY <3>1, <3>2
    <3>4. g \in [0 .. m -> V]
      BY <3>1, <3>2, <3>3
    <3>5. ASSUME NEW n \in 1 .. m PROVE g[n] = G[n][g[n - 1]]
      <4>1. CASE n = m
        <5>1. g[m] = G[m][f[m - 1]]
          BY <3>1
        <5>2. g[m - 1] = f[m - 1]
          BY <3>1, <3>3
        <5>. HIDE DEF g
        <5>. QED BY <4>1, <5>1, <5>2
      <4>2. CASE n # m
        BY <3>1, <3>2, <3>3, <4>2
      <4>. QED BY <4>1, <4>2
    <3>6. g[0] = v
      BY <3>1, <3>2, <3>3
    <3>. HIDE DEF g
    <3>7. Upto(m, g)
      BY <3>4, <3>5, <3>6
    <3>. QED BY <3>7
  <2>. QED BY <2>3, <2>4
<1>2. N \in 0 .. N
  OBVIOUS
<1>3. \E f : Upto(N, f)
  <2>1. N \notin Bad
    <3>. HIDE DEF Bad
    <3>. QED BY <1>1
  <2>. QED BY <1>2, <2>1
<1>. QED BY <1>3

\* path_nodes follows the parents: its recursion is well founded.
LEMMA PathUnfolds ==
  ASSUME arena \in Seq(Found), \A j \in DOMAIN arena : Placed(j)
  PROVE  PathTo = [i \in 0 .. Len(arena) |->
                     IF i = 0 THEN <<>> ELSE Append(PathTo[arena[i].parent], i)]
<1>. DEFINE N == Len(arena)
            Line(m, f) == f = [i \in 0 .. m |-> IF i = 0 THEN <<>> ELSE Append(f[arena[i].parent], i)]
            Bad == {m \in 0 .. N : ~ \E f : Line(m, f)}
<1>1. N \in Nat /\ \A i \in 1 .. N : arena[i].parent \in 0 .. i - 1
  <2>1. ASSUME NEW i \in 1 .. N PROVE arena[i].parent \in 0 .. i - 1
    <3>1. i \in DOMAIN arena /\ i \in Nat /\ i >= 1
      OBVIOUS
    <3>2. CASE arena[i].parent = 0
      BY <3>1, <3>2
    <3>3. CASE arena[i].parent \in 1 .. i - 1
      BY <3>1, <3>3
    <3>. QED BY <3>1, <3>2, <3>3 DEF Placed
  <2>. QED BY <2>1
<1>. HIDE DEF N
<1>2. Bad = {}
  <2>1. SUFFICES ASSUME Bad # {} PROVE FALSE
    OBVIOUS
  <2>2. PICK m \in Bad : \A n \in Bad : m <= n
    <3>1. Bad \in SUBSET Nat
      BY <1>1
    <3>. HIDE DEF Bad
    <3>. QED BY <2>1, <3>1, LeastNatural
  <2>3. CASE m = 0
    <3>1. Line(0, [i \in 0 .. 0 |-> <<>>])
      OBVIOUS
    <3>. QED BY <2>3, <3>1
  <2>4. CASE m # 0
    <3>1. m - 1 \in 0 .. N /\ m - 1 \notin Bad /\ m \in 1 .. N
      <4>1. m \in 0 .. N
        BY <2>2
      <4>2. m - 1 \in 0 .. N /\ m \in 1 .. N /\ ~ (m <= m - 1)
        BY <1>1, <2>4, <4>1
      <4>. HIDE DEF Bad
      <4>. QED BY <2>2, <4>2
    <3>2. PICK f : Line(m - 1, f)
      BY <3>1
    <3>. DEFINE g == [i \in 0 .. m |-> IF i = m THEN Append(f[arena[m].parent], m) ELSE f[i]]
    <3>3. \A i \in 0 .. m - 1 : g[i] = f[i]
      BY <3>1
    <3>4. \A i \in 1 .. m : g[arena[i].parent] = f[arena[i].parent]
      BY <1>1, <3>1, <3>3
    <3>5. ASSUME NEW i \in 0 .. m
          PROVE  g[i] = IF i = 0 THEN <<>> ELSE Append(g[arena[i].parent], i)
      <4>1. CASE i = m
        <5>1. g[m] = Append(f[arena[m].parent], m) /\ m # 0
          BY <2>4, <3>1
        <5>2. g[arena[m].parent] = f[arena[m].parent]
          <6>1. m \in 1 .. m
            BY <3>1
          <6>. HIDE DEF g
          <6>. QED BY <3>4, <6>1
        <5>. HIDE DEF g
        <5>. QED BY <4>1, <5>1, <5>2
      <4>2. CASE i # m
        <5>1. i \in 0 .. m - 1
          BY <3>1, <4>2
        <5>2. f[i] = IF i = 0 THEN <<>> ELSE Append(f[arena[i].parent], i)
          BY <3>2, <5>1
        <5>3. g[i] = f[i]
          BY <3>3, <5>1
        <5>4. i # 0 => g[arena[i].parent] = f[arena[i].parent]
          <6>1. i # 0 => i \in 1 .. m
            BY <5>1
          <6>. HIDE DEF g
          <6>. QED BY <3>4, <6>1
        <5>. HIDE DEF g
        <5>. QED BY <5>2, <5>3, <5>4
      <4>. QED BY <4>1, <4>2
    <3>6. g = [i \in 0 .. m |-> g[i]]
      OBVIOUS
    <3>. HIDE DEF g
    <3>7. Line(m, g)
      BY <3>5, <3>6
    <3>. QED BY <3>7
  <2>. QED BY <2>3, <2>4
<1>3. \E f : Line(N, f)
  <2>1. N \in 0 .. N
    BY <1>1
  <2>2. N \notin Bad
    <3>. HIDE DEF Bad
    <3>. QED BY <1>2
  <2>. QED BY <2>1, <2>2
<1>. QED BY <1>3 DEF PathTo, N

\* A line p of nodes from the root: each is the parent of the next.
IsLine(p) ==
  /\ p \in Seq(DOMAIN arena) /\ p # <<>> /\ p[1] = 1
  /\ \A n \in 1 .. Len(p) - 1 : arena[p[n + 1]].parent = p[n] /\ p[n + 1] # 1

\* The parents of a node lead back to the root.
LEMMA PathIsLine ==
  ASSUME arena \in Seq(Found), \A j \in DOMAIN arena : Placed(j), NEW i \in DOMAIN arena
  PROVE  IsLine(PathTo[i]) /\ PathTo[i][Len(PathTo[i])] = i
<1>. DEFINE Good(j) == IsLine(PathTo[j]) /\ PathTo[j][Len(PathTo[j])] = j
            Bad == {j \in DOMAIN arena : ~ Good(j)}
<1>1. DOMAIN arena = 1 .. Len(arena) /\ Len(arena) \in Nat
  OBVIOUS
<1>2. /\ PathTo[0] = <<>>
      /\ \A j \in 1 .. Len(arena) : PathTo[j] = Append(PathTo[arena[j].parent], j)
  <2>1. \A j \in 0 .. Len(arena) :
          PathTo[j] = IF j = 0 THEN <<>> ELSE Append(PathTo[arena[j].parent], j)
    BY PathUnfolds
  <2>2. 0 \in 0 .. Len(arena) /\ \A j \in 1 .. Len(arena) : j \in 0 .. Len(arena) /\ j # 0
    BY <1>1
  <2>. HIDE DEF Bad, Good
  <2>. QED BY <2>1, <2>2
<1>3. SUFFICES ASSUME Bad # {} PROVE FALSE
  OBVIOUS
<1>4. PICK j \in Bad : \A k \in Bad : j <= k
  <2>1. Bad \in SUBSET Nat
    BY <1>1
  <2>. HIDE DEF Bad
  <2>. QED BY <1>3, <2>1, LeastNatural
<1>5. j \in DOMAIN arena /\ ~ Good(j) /\ Placed(j)
  BY <1>4
<1>6. \A k \in DOMAIN arena : k < j => Good(k)
  BY <1>1, <1>4
<1>. HIDE DEF Bad, Good
<1>7. CASE arena[j].parent = 0
  <2>1. j = 1
    BY <1>5, <1>7 DEF Placed
  <2>2. PathTo[0] = <<>> /\ PathTo[j] = Append(PathTo[0], j)
    BY <1>1, <1>2, <1>5, <1>7
  <2>3. PathTo[j] = <<1>>
    BY <2>1, <2>2
  <2>4. <<1>> \in Seq(DOMAIN arena) /\ Len(<<1>>) = 1 /\ <<1>>[1] = 1
    BY <1>5, <2>1
  <2>. QED BY <1>5, <2>1, <2>3, <2>4 DEF Good, IsLine
<1>8. CASE arena[j].parent # 0
  <2>. DEFINE k == arena[j].parent
              p == PathTo[k]
              q == Append(p, j)
  <2>1. k \in 1 .. j - 1 /\ j \in 1 .. Len(arena)
    BY <1>1, <1>5, <1>8 DEF Placed
  <2>2. k \in DOMAIN arena /\ k < j /\ j # 1 /\ j # 0
    BY <1>1, <2>1
  <2>3. PathTo[j] = q
    BY <1>1, <1>2, <2>1, <2>2
  <2>4. IsLine(p) /\ p[Len(p)] = k
    BY <1>6, <2>2 DEF Good
  <2>. HIDE DEF p
  <2>5. /\ p \in Seq(DOMAIN arena) /\ Len(p) \in Nat /\ Len(p) > 0 /\ p[1] = 1
        /\ \A n \in 1 .. Len(p) - 1 : arena[p[n + 1]].parent = p[n] /\ p[n + 1] # 1
    BY <2>4 DEF IsLine
  <2>6. /\ q \in Seq(DOMAIN arena) /\ Len(q) = Len(p) + 1 /\ q[Len(q)] = j
        /\ \A n \in 1 .. Len(p) : q[n] = p[n]
    BY <1>5, <2>5
  <2>7. ASSUME NEW n \in 1 .. Len(q) - 1 PROVE arena[q[n + 1]].parent = q[n] /\ q[n + 1] # 1
    <3>1. CASE n = Len(p)
      <4>1. q[n + 1] = j /\ q[n] = k
        BY <2>4, <2>5, <2>6, <3>1
      <4>. QED BY <2>2, <4>1
    <3>2. CASE n # Len(p)
      <4>1. n \in 1 .. Len(p) - 1 /\ q[n + 1] = p[n + 1] /\ q[n] = p[n]
        BY <2>5, <2>6, <3>2
      <4>. QED BY <2>5, <4>1
    <3>. QED BY <3>1, <3>2
  <2>8. q # <<>> /\ q[1] = 1
    BY <2>5, <2>6
  <2>. HIDE DEF q
  <2>9. Good(j)
    BY <2>3, <2>6, <2>7, <2>8 DEF Good, IsLine
  <2>. QED BY <1>5, <2>9
<1>. QED BY <1>7, <1>8

\* A line of tactics that leads through these states leads to the last of them.
LEMMA StateAfterIs ==
  ASSUME NEW line \in Seq(Tactic), NEW run \in [0 .. Len(line) -> GoalState], run[0] = Target,
         \A n \in 1 .. Len(line) : run[n] = tree.step[<<run[n - 1], line[n]>>]
  PROVE  StateAfter(line) = run[Len(line)]
<1>. DEFINE N == Len(line)
            Says(f, n) == IF n = 0 THEN Target
                          ELSE IF f[n - 1] = Failed THEN Failed
                          ELSE tree.step[<<f[n - 1], line[n]>>]
            After(f) == f = [n \in 0 .. N |-> Says(f, n)]
<1>1. N \in Nat /\ Failed \notin GoalState
  BY BestFirstAssumption
<1>2. After(run)
  <2>1. ASSUME NEW n \in 0 .. N PROVE run[n] = Says(run, n)
    <3>1. CASE n = 0
      BY <3>1
    <3>2. CASE n # 0
      <4>1. n \in 1 .. N /\ n - 1 \in 0 .. N
        BY <1>1, <3>2
      <4>2. run[n - 1] # Failed /\ run[n] = tree.step[<<run[n - 1], line[n]>>]
        BY <1>1, <4>1
      <4>. QED BY <3>2, <4>2
    <3>. QED BY <3>1, <3>2
  <2>2. run = [n \in 0 .. N |-> run[n]]
    OBVIOUS
  <2>. HIDE DEF Says
  <2>. QED BY <2>1, <2>2
<1>3. PICK f : After(f) /\ StateAfter(line) = f[N]
  <2>. DEFINE h == CHOOSE f : After(f)
  <2>1. After(h)
    <3>. HIDE DEF After
    <3>. QED BY <1>2
  <2>2. StateAfter(line) = h[N]
    BY DEF StateAfter
  <2>. HIDE DEF h, After
  <2>. QED BY <2>1, <2>2
<1>. DEFINE Bad == {n \in 0 .. N : f[n] # run[n]}
<1>4. SUFFICES ASSUME Bad # {} PROVE FALSE
  <2>1. N \in 0 .. N
    BY <1>1
  <2>. HIDE DEF N
  <2>. QED BY <1>3, <2>1 DEF N
<1>5. PICK n \in Bad : \A k \in Bad : n <= k
  <2>1. Bad \in SUBSET Nat
    BY <1>1
  <2>. HIDE DEF Bad
  <2>. QED BY <1>4, <2>1, LeastNatural
<1>6. n \in 0 .. N /\ f[n] = Says(f, n) /\ run[n] = Says(run, n) /\ f[n] # run[n]
  BY <1>2, <1>3
<1>7. n # 0
  BY <1>6
<1>8. n - 1 \in 0 .. N /\ n - 1 \notin Bad
  BY <1>1, <1>5, <1>6, <1>7
<1>9. f[n - 1] = run[n - 1]
  BY <1>8
<1>. QED BY <1>6, <1>9

\* A line of tactics between nodes of the arena can be read from the merged graph.
LEMMA KeysAfterHas ==
  ASSUME NEW line \in Seq(Tactic), NEW keys \in [0 .. Len(line) -> Key],
         Merged \subseteq Key \X (Tactic \cup {Failed}) \X Key, KeyAt(1) = keys[0],
         \A n \in 1 .. Len(line) : <<keys[n - 1], line[n], keys[n]>> \in Merged
  PROVE  keys[Len(line)] \in KeysAfter(line)
<1>. DEFINE N == Len(line)
            Onto(K, n) == {e[3] : e \in {m \in Merged : m[1] \in K /\ m[2] = line[n]}}
            After(f) == f = [n \in 0 .. N |-> IF n = 0 THEN {KeyAt(1)} ELSE Onto(f[n - 1], n)]
            G == [n \in 1 .. N |-> [K \in SUBSET Key |-> Onto(K, n)]]
<1>1. N \in Nat /\ keys[0] \in Key
  OBVIOUS
<1>2. G \in [1 .. N -> [SUBSET Key -> SUBSET Key]]
  OBVIOUS
<1>3. \E f : After(f)
  <2>1. {KeyAt(1)} \in SUBSET Key
    BY <1>1
  <2>. HIDE DEF G
  <2>2. PICK f \in [0 .. N -> SUBSET Key] :
               f[0] = {KeyAt(1)} /\ \A n \in 1 .. N : f[n] = G[n][f[n - 1]]
    <3>1. Stepping(N, SUBSET Key, {KeyAt(1)}, G)
      BY <1>1, <1>2, <2>1 DEF Stepping
    <3>2. \E f : Iterates(f, N, SUBSET Key, {KeyAt(1)}, G)
      BY <3>1, Stepwise
    <3>. QED BY <3>2 DEF Iterates
  <2>3. ASSUME NEW n \in 0 .. N PROVE f[n] = IF n = 0 THEN {KeyAt(1)} ELSE Onto(f[n - 1], n)
    <3>1. CASE n = 0
      BY <2>2, <3>1
    <3>2. CASE n # 0
      <4>1. n \in 1 .. N /\ n - 1 \in 0 .. N
        BY <1>1, <3>2
      <4>2. f[n - 1] \in SUBSET Key /\ f[n] = G[n][f[n - 1]]
        BY <2>2, <4>1
      <4>3. G[n][f[n - 1]] = Onto(f[n - 1], n)
        BY <4>1, <4>2 DEF G
      <4>. HIDE DEF Onto
      <4>. QED BY <3>2, <4>2, <4>3
    <3>. HIDE DEF Onto
    <3>. QED BY <3>1, <3>2
  <2>4. f = [n \in 0 .. N |-> f[n]]
    OBVIOUS
  <2>. HIDE DEF Onto
  <2>5. After(f)
    BY <2>3, <2>4
  <2>. QED BY <2>5
<1>4. PICK f : After(f) /\ KeysAfter(line) = f[N]
  <2>. DEFINE h == CHOOSE f : After(f)
  <2>1. After(h)
    <3>. HIDE DEF After
    <3>. QED BY <1>3
  <2>2. KeysAfter(line) = h[N]
    BY DEF KeysAfter
  <2>. HIDE DEF h, After
  <2>. QED BY <2>1, <2>2
<1>. DEFINE Bad == {n \in 0 .. N : keys[n] \notin f[n]}
<1>5. SUFFICES ASSUME Bad # {} PROVE FALSE
  <2>1. N \in 0 .. N
    BY <1>1
  <2>2. ASSUME Bad = {} PROVE keys[N] \in f[N]
    <3>. HIDE DEF N
    <3>. QED BY <2>1, <2>2
  <2>. HIDE DEF N, Bad
  <2>. QED BY <1>4, <2>2 DEF N
<1>6. PICK n \in Bad : \A k \in Bad : n <= k
  <2>1. Bad \in SUBSET Nat
    BY <1>1
  <2>. HIDE DEF Bad
  <2>. QED BY <1>5, <2>1, LeastNatural
<1>7. n \in 0 .. N /\ keys[n] \notin f[n]
  BY <1>6
<1>8. f[n] = IF n = 0 THEN {KeyAt(1)} ELSE Onto(f[n - 1], n)
  <2>. HIDE DEF Onto
  <2>. QED BY <1>4, <1>7
<1>9. n # 0
  BY <1>7, <1>8
<1>10. n - 1 \in 0 .. N /\ n - 1 \notin Bad /\ n \in 1 .. N
  BY <1>1, <1>6, <1>7, <1>9
<1>11. keys[n - 1] \in f[n - 1]
  BY <1>10
<1>12. <<keys[n - 1], line[n], keys[n]>> \in Merged
  BY <1>10
<1>13. keys[n] \in Onto(f[n - 1], n)
  BY <1>11, <1>12
<1>. QED BY <1>7, <1>8, <1>9, <1>13

\* The proof that the search found replays, and can be read from the merged graph.
LEMMA FoundIsAProof ==
  ASSUME BestInv, phase = "solved"
  PROVE  /\ ProofTactics \in Seq(Tactic)
         /\ Replays(ProofTactics) /\ Closes(ProofTactics)
<1>. DEFINE p == PathTo[solved_node]
            L == Len(p) - 1
            line == [n \in 1 .. L |-> arena[p[n + 1]].tactic]
            run == [n \in 0 .. L |-> arena[p[n + 1]].state]
            keys == [n \in 0 .. L |-> KeyAt(p[n + 1])]
<1>1. /\ tree \in Tree /\ arena \in Seq(Found) /\ \A j \in DOMAIN arena : Placed(j)
      /\ solved_node \in DOMAIN arena /\ arena[solved_node].state \in tree.closed
      /\ arena # <<>>
  BY DEF BestInv, SearchTypeOK
<1>2. IsLine(p) /\ p[Len(p)] = solved_node
  BY <1>1, PathIsLine
<1>3. ProofTactics = line
  BY DEF ProofTactics
<1>. HIDE DEF p
<1>4. /\ p \in Seq(DOMAIN arena) /\ Len(p) \in Nat /\ Len(p) >= 1 /\ p[1] = 1 /\ L \in Nat
      /\ p[L + 1] = solved_node
  BY <1>2 DEF IsLine
<1>. HIDE DEF L
<1>5. /\ \A n \in 0 .. L : p[n + 1] \in DOMAIN arena
      /\ \A n \in 1 .. L : /\ arena[p[n + 1]].parent = p[n] /\ p[n + 1] # 1
                           /\ n - 1 \in 0 .. L /\ n \in 0 .. L /\ (n - 1) + 1 = n
  BY <1>2, <1>4 DEF IsLine, L
<1>6. \A j \in DOMAIN arena : arena[j].state \in GoalState /\ arena[j].tactic \in Tactic \cup {Failed}
  <2>1. \A j \in DOMAIN arena : arena[j] \in Found
    BY <1>1
  <2>. QED BY <2>1 DEF Found
<1>7. ASSUME NEW n \in 1 .. L
      PROVE  /\ arena[p[n + 1]].tactic \in Tactic
             /\ arena[p[n + 1]].state = tree.step[<<arena[p[n]].state, arena[p[n + 1]].tactic>>]
  <2>1. Placed(p[n + 1]) /\ p[n + 1] # 1 /\ arena[p[n + 1]].parent = p[n]
    BY <1>1, <1>5
  <2>. QED BY <2>1 DEF Placed
<1>8. arena[1].state = Target /\ 1 \in DOMAIN arena
  <2>1. 1 \in DOMAIN arena
    BY <1>1
  <2>2. Placed(1)
    BY <1>1, <2>1
  <2>3. arena[1].parent \notin 1 .. 1 - 1
    OBVIOUS
  <2>. QED BY <2>1, <2>2, <2>3 DEF Placed
<1>9. line \in Seq(Tactic) /\ Len(line) = L
  <2>1. line \in [1 .. L -> Tactic]
    BY <1>7
  <2>. HIDE DEF line
  <2>. QED BY <1>4, <2>1
<1>10. Replays(line)
  <2>1. run \in [0 .. L -> GoalState]
    BY <1>5, <1>6
  <2>2. run[0] = Target /\ run[L] = arena[solved_node].state
    BY <1>4, <1>8
  <2>3. ASSUME NEW n \in 1 .. L PROVE run[n] = tree.step[<<run[n - 1], line[n]>>]
    <3>1. run[n] = arena[p[n + 1]].state /\ run[n - 1] = arena[p[n]].state
      BY <1>5
    <3>2. line[n] = arena[p[n + 1]].tactic
      OBVIOUS
    <3>. HIDE DEF run, line
    <3>. QED BY <1>7, <3>1, <3>2
  <2>. HIDE DEF run, line
  <2>4. StateAfter(line) = run[Len(line)]
    BY <1>9, <2>1, <2>2, <2>3, StateAfterIs
  <2>. QED BY <1>1, <1>9, <2>2, <2>4 DEF Replays
<1>11. Closes(line)
  <2>1. \A j \in DOMAIN arena : KeyAt(j) \in Key
    BY <1>1, <1>6, TreeParts DEF KeyAt
  <2>2. keys \in [0 .. L -> Key] /\ keys[0] = KeyAt(1) /\ keys[L] = KeyAt(solved_node)
    BY <1>4, <1>5, <2>1
  <2>3. Merged \subseteq Key \X (Tactic \cup {Failed}) \X Key
    <3>1. ASSUME NEW i \in DOMAIN arena, arena[i].parent # 0 PROVE arena[i].parent \in DOMAIN arena
      <4>1. Placed(i) /\ i \in 1 .. Len(arena) /\ Len(arena) \in Nat
        BY <1>1
      <4>. QED BY <3>1, <4>1, <1>1 DEF Placed
    <3>. QED BY <1>6, <2>1, <3>1 DEF Merged
  <2>4. ASSUME NEW n \in 1 .. L PROVE <<keys[n - 1], line[n], keys[n]>> \in Merged
    <3>1. p[n + 1] \in DOMAIN arena /\ arena[p[n + 1]].parent = p[n] /\ p[n] # 0
      <4>1. p[n] \in DOMAIN arena
        BY <1>5
      <4>2. p[n] # 0
        BY <1>1, <4>1
      <4>. QED BY <1>5, <4>2
    <3>2. keys[n - 1] = KeyAt(p[n]) /\ keys[n] = KeyAt(p[n + 1])
      BY <1>5
    <3>3. line[n] = arena[p[n + 1]].tactic
      OBVIOUS
    <3>. HIDE DEF keys, line
    <3>. QED BY <3>1, <3>2, <3>3 DEF Merged
  <2>5. KeyAt(solved_node) \in MergedClosed
    BY <1>1 DEF MergedClosed
  <2>. HIDE DEF keys, line
  <2>6. keys[Len(line)] \in KeysAfter(line)
    BY <1>9, <2>2, <2>3, <2>4, KeysAfterHas
  <2>. QED BY <1>9, <2>2, <2>5, <2>6 DEF Closes
<1>. QED BY <1>3, <1>9, <1>10, <1>11

\* The gate is asked about lines that are no longer than what the search found.
LEMMA ShortestAreShort ==
  ASSUME BestInv, phase = "solved", NEW line \in Shortest
  PROVE  line \in Seq(Tactic) /\ Len(line) <= Len(ProofTactics)
<1>. DEFINE N == Len(ProofTactics)
            Closing(n) == \E x \in Lines(n) : Closes(x)
            Least(n) == Closing(n) /\ \A m \in 0 .. n - 1 : \A x \in Lines(m) : ~ Closes(x)
            S == {n \in 0 .. N : Closing(n)}
<1>1. N \in Nat /\ ProofTactics \in Lines(N) /\ Closes(ProofTactics)
  BY FoundIsAProof DEF Lines
<1>. HIDE DEF N
<1>2. N \in S /\ S \in SUBSET Nat
  BY <1>1
<1>3. PICK n \in S : \A m \in S : n <= m
  <2>. HIDE DEF S
  <2>. QED BY <1>2, LeastNatural
<1>4. n \in 0 .. N /\ Closing(n)
  BY <1>3
<1>5. ASSUME NEW m \in 0 .. n - 1, NEW x \in Lines(m), Closes(x) PROVE FALSE
  <2>1. m \in 0 .. N /\ m < n
    BY <1>1, <1>4
  <2>2. m \in S
    BY <1>5, <2>1
  <2>. QED BY <1>3, <1>4, <2>1, <2>2
<1>6. Least(n)
  BY <1>4, <1>5
<1>7. PICK k \in 0 .. N : line \in Lines(k)
  <2>. DEFINE h == CHOOSE k \in 0 .. N : Least(k)
  <2>1. h \in 0 .. N
    <3>. HIDE DEF Least
    <3>. QED BY <1>4, <1>6
  <2>2. line \in Lines(h)
    BY DEF Shortest, N
  <2>. HIDE DEF h
  <2>. QED BY <2>1, <2>2
<1>8. line \in Seq(Tactic) /\ Len(line) = k
  BY <1>1, <1>7 DEF Lines
<1>. QED BY <1>1, <1>7, <1>8 DEF N

\* Shrinking ends with a line that replays, whatever the gate answers.
LEMMA ShrinkHolds ==
  ASSUME BestInv, Shrink
  PROVE  BestInv'
<1>1. /\ phase = "solved" /\ phase' = "shrunk" /\ tree' = tree /\ max_steps' = max_steps
      /\ arena' = arena /\ heap' = heap /\ visited' = visited /\ scored' = scored
      /\ order' = order /\ solved_node' = solved_node
  BY DEF Shrink
<1>2. kept' \in Seq(Tactic) /\ Replays(kept') /\ Len(kept') <= Len(ProofTactics)
  <2>0. PICK line \in Shortest :
               \E yes \in GateSays(line) : kept' = IF yes THEN line ELSE ProofTactics
    BY DEF Shrink
  <2>1. PICK yes \in GateSays(line) : kept' = IF yes THEN line ELSE ProofTactics
    BY <2>0
  <2>2. ProofTactics \in Seq(Tactic) /\ Replays(ProofTactics)
    BY <1>1, FoundIsAProof
  <2>3. line \in Seq(Tactic) /\ Len(line) <= Len(ProofTactics)
    BY <1>1, ShortestAreShort
  <2>4. yes => Replays(line)
    BY DEF GateSays
  <2>5. CASE yes
    BY <2>1, <2>3, <2>4, <2>5
  <2>6. CASE ~ yes
    <3>1. kept' = ProofTactics
      BY <2>1, <2>6
    <3>. QED BY <2>2, <3>1
  <2>. QED BY <2>5, <2>6
<1>3. SearchTypeOK'
  BY <1>1, <1>2 DEF BestInv, SearchTypeOK, Phase
<1>4. \A j \in DOMAIN arena : Placed(j)'
  BY <1>1 DEF BestInv, Placed
<1>5. OffFrontier'
  BY <1>1 DEF BestInv, OffFrontier, KeyAt, Followed, Live
<1>6. KeptIsAProof'
  <2>1. Replays(kept)'
    BY <1>1, <1>2 DEF Replays, StateAfter
  <2>2. ProofTactics' = ProofTactics
    BY <1>1 DEF ProofTactics, PathTo
  <2>. QED BY <1>1, <1>2, <2>1, <2>2 DEF KeptIsAProof
<1>. QED BY <1>1, <1>3, <1>4, <1>5, <1>6 DEF BestInv

\* Every step of the search and the shrinking keep the invariant.
LEMMA BestNextHolds == BestInv /\ [BestNext]_bestVars => BestInv'
<1>1. ASSUME BestInv, Search PROVE BestInv'
  BY <1>1, PopHolds, ExpandNodeHolds, ExhaustHolds DEF Search
<1>2. ASSUME BestInv, UNCHANGED bestVars PROVE BestInv'
  <2>1. SearchTypeOK' /\ OffFrontier'
    BY <1>2 DEF BestInv, bestVars, SearchTypeOK, OffFrontier, Known, KeyAt, Followed, Live
  <2>2. \A j \in DOMAIN arena : Placed(j)'
    BY <1>2 DEF BestInv, bestVars, Placed
  <2>3. KeptIsAProof'
    <3>1. Replays(kept)' = Replays(kept)
      BY <1>2 DEF bestVars, Replays, StateAfter
    <3>2. ProofTactics' = ProofTactics
      BY <1>2 DEF bestVars, ProofTactics, PathTo
    <3>. QED BY <1>2, <3>1, <3>2 DEF BestInv, bestVars, KeptIsAProof
  <2>. QED BY <1>2, <2>1, <2>2, <2>3 DEF BestInv, bestVars
<1>. QED BY <1>1, <1>2, ShrinkHolds DEF BestNext

\* So it holds throughout.
LEMMA BestInvAlways == BestSpec => []BestInv
BY BestInitHolds, BestNextHolds, PTL DEF BestSpec

\* Whatever keys merge and whatever the gate answers, what is emitted proves the
\* goal and is no longer than what the search found.
THEOREM EmittedIsAProof == BestSpec => []KeptIsAProof
<1>1. BestInv => KeptIsAProof
  BY DEF BestInv
<1>. QED BY <1>1, BestInvAlways, PTL

\* A search that ran out of states with keys that tell them apart missed nothing.
THEOREM ExhaustionIsRight == BestSpec => []ExhaustedIsRight
<1>1. BestInv => ExhaustedIsRight
  <2>1. SUFFICES ASSUME BestInv, phase = "exhausted", IsInjective(tree.key)
                 PROVE  \E S \in SUBSET GoalState : Within(S) /\ S \cap tree.closed = {}
    BY DEF ExhaustedIsRight
  <2>. DEFINE S == {arena[i].state : i \in DOMAIN arena}
  <2>2. /\ tree \in Tree /\ arena \in Seq(Found) /\ arena # <<>> /\ Placed(1)
        /\ heap = {} /\ \A i \in DOMAIN arena : Known(i)
    <3>1. tree \in Tree /\ arena \in Seq(Found) /\ arena # <<>> /\ heap = {}
      BY <2>1 DEF BestInv, SearchTypeOK, OffFrontier
    <3>2. 1 \in DOMAIN arena
      BY <3>1
    <3>. QED BY <2>1, <3>1, <3>2 DEF BestInv, OffFrontier
  <2>3. \A i \in DOMAIN arena : arena[i].state \in GoalState
    <3>1. \A i \in DOMAIN arena : arena[i] \in Found
      BY <2>2
    <3>. QED BY <3>1 DEF Found
  <2>4. Target \in S
    <3>1. 1 \in DOMAIN arena /\ arena[1].parent \notin 1 .. 1 - 1
      BY <2>2
    <3>. QED BY <2>2, <3>1 DEF Placed
  <2>5. ASSUME NEW i \in DOMAIN arena PROVE Followed(i)
    <3>1. PICK j \in DOMAIN arena : KeyAt(j) = KeyAt(i) /\ Followed(j)
      BY <2>1, <2>2 DEF BestInv, OffFrontier, Known
    <3>2. arena[i].state = arena[j].state
      <4>1. DOMAIN tree.key = GoalState
        BY <2>2, TreeParts
      <4>. QED BY <2>1, <2>3, <3>1, <4>1 DEF KeyAt, IsInjective
    <3>. QED BY <3>1, <3>2 DEF Followed
  <2>6. Within(S)
    BY <2>4, <2>5 DEF Within, Followed
  <2>7. S \cap tree.closed = {}
    BY <2>5 DEF Followed
  <2>. QED BY <2>3, <2>6, <2>7
<1>. QED BY <1>1, BestInvAlways, PTL
=============================================================================
