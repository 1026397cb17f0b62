---------------------------- MODULE Subsumption ----------------------------
(***************************************************************************)
(* Goals that are the same up to names (reason/search/subsumption.rs).     *)
(* canonical_literal renames the names that a literal binds to v0, v1, ... *)
(* in the order in which they are first bound, wherever they stand, and    *)
(* goals are compared by what comes out.                                   *)
(*                                                                         *)
(* A literal is here a sequence of parts, each a predicate in brackets     *)
(* with the names it binds and the names it is about, (Q b .. , P u ..).   *)
(* Brackets in brackets and white space are left out.                      *)
(***************************************************************************)
EXTENDS Integers, FiniteSets, SequencesExt

CONSTANTS
  Name, Predicate,
  Fresh           \* v0, v1, ...: as many as a literal binds names

Literal == Seq([pred : Predicate, binds : Seq(Name), uses : Seq(Name)])

\* The names bound in a literal, and where one is bound: the parts and the
\* places in their binder groups.
Bound(l) == UNION {ToSet(l[i].binds) : i \in DOMAIN l}
Spots(l, w) ==
  UNION {{<<i, j>> : j \in {k \in DOMAIN l[i].binds : l[i].binds[k] = w}} : i \in DOMAIN l}

\* One spot is before another in the text, and a name is bound before another is
\* for the first time, or is that name.
Before(p, q) == p[1] < q[1] \/ (p[1] = q[1] /\ p[2] < q[2])
NoLater(l, v, w) == \A q \in Spots(l, w) : \E p \in Spots(l, v) : p = q \/ Before(p, q)

\* The place of a bound name among them: how many names come no later.
Place(l, w) == Cardinality({v \in Bound(l) : NoLater(l, v, w)})

Renamed(l, w) == IF w \in Bound(l) THEN Fresh[Place(l, w)] ELSE w

\* Mutant of Canonical: the free names are not told apart.
CanonicalForgetsFree(l) ==
  [i \in DOMAIN l |->
     [l[i] EXCEPT !.binds = [j \in DOMAIN @ |-> Renamed(l, @[j])],
                  !.uses = [j \in DOMAIN @ |-> Fresh[1]]]]
\* canonical_literal.
Canonical(l) ==
  [i \in DOMAIN l |->
     [l[i] EXCEPT !.binds = [j \in DOMAIN @ |-> Renamed(l, @[j])],
                  !.uses = [j \in DOMAIN @ |-> Renamed(l, @[j])]]]

----------------------------------------------------------------------------
(* What it stands for.                                                     *)

\* The binder a name of a part belongs to, the last one of that name; 0 if free.
BinderOf(part, w) == CHOOSE j \in 0 .. Len(part.binds) :
  /\ j = 0 => w \notin ToSet(part.binds)
  /\ j > 0 => part.binds[j] = w
  /\ \A k \in j + 1 .. Len(part.binds) : part.binds[k] # w

\* Two parts that differ in the names of what they bind only.
SamePart(a, b) ==
  /\ a.pred = b.pred
  /\ Len(a.binds) = Len(b.binds) /\ Len(a.uses) = Len(b.uses)
  /\ \A k \in DOMAIN a.uses :
       /\ BinderOf(a, a.uses[k]) = BinderOf(b, b.uses[k])
       /\ BinderOf(a, a.uses[k]) = 0 => a.uses[k] = b.uses[k]

AlphaEquivalent(l, m) == Len(l) = Len(m) /\ \A i \in DOMAIN l : SamePart(l[i], m[i])

\* The general sequent proves the specific one.
MakesRedundant(general, specific) ==
  /\ AlphaEquivalent(general.concl, specific.concl)
  /\ \A h \in general.hyps : \E k \in specific.hyps : AlphaEquivalent(h, k)

\* Within a literal no name is both bound and free, and none that is free looks
\* like a canonical one.
WellNamed(l) ==
  \A i \in DOMAIN l : \A w \in ToSet(l[i].uses) :
    BinderOf(l[i], w) = 0 => w \notin Bound(l) /\ w \notin ToSet(Fresh)
=============================================================================
