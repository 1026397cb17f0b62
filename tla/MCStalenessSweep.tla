-------------------------- MODULE MCStalenessSweep --------------------------
EXTENDS StalenessSweep

CONSTANTS g1, g2, c1, c2, e1, e2, f1, f2, f3

\* A proof of g1 that one update breaks and another that it makes work; a
\* statement g2 that every library proves one way.
MCGate ==
  [k \in Key |->
     IF k = <<g1, c1, e1>> \/ k = <<g1, c2, e2>> \/ k \in {<<g2, c1, e1>>, <<g2, c1, e2>>}
       THEN "clean"
     ELSE IF k = <<g1, c2, e1>> THEN "weak"
     ELSE "red"]

\* The update changes what g1 means; g2 means the same, and the checker
\* publishes its form in one library only.
MCPin ==
  [k \in Goal \X Env |->
     CASE k = <<g1, e1>> -> f1
       [] k = <<g1, e2>> -> f2
       [] k = <<g2, e1>> -> f3
       [] OTHER -> None]
MCElab ==
  [k \in Form \X Env |->
     CASE k = <<f1, e2>> -> f2
       [] k = <<f2, e1>> -> "rejected"
       [] OTHER -> k[1]]

OnFile(g, c, e) ==
  [goal |-> g, against |-> e, verdict |-> Gate[<<g, c, e>>], code |-> c, earned |-> e]
MockOnFile(g) ==
  [goal |-> g, against |-> MockLib, verdict |-> "weak", code |-> c1, earned |-> MockLib]

\* Two greens to choose between; a green and a later red of the same
\* statement; a mock's green and a green of an unresolved library.
MCHistories ==
  {<<OnFile(g1, c1, e1), OnFile(g2, c1, e1)>>,
   <<OnFile(g2, c1, e1), OnFile(g1, c1, e1), OnFile(g1, c1, e2)>>,
   <<MockOnFile(g2), [OnFile(g1, c2, e2) EXCEPT !.against = Unresolved]>>}

\* Calls alone, sweeps alone, and both.
CallsOnly == [calls |-> 2, updates |-> 2]
SweepsOnly == [calls |-> 0, updates |-> 3]
Both == [calls |-> 1, updates |-> 1]
MCWorkload == {CallsOnly, SweepsOnly, Both}
MCProjects ==
  [w \in MCWorkload |->
     CASE w = CallsOnly -> {[filed |-> <<>>, sweeps |-> 0]}
       [] w = SweepsOnly -> {[filed |-> h, sweeps |-> 2] : h \in MCHistories}
       [] w = Both -> {[filed |-> <<>>, sweeps |-> 1]}]
=============================================================================
