---------------------------- MODULE MCAgentLoop ----------------------------
EXTENDS AgentLoop, TLC

CONSTANTS c, o, l, s1, s2

MCNode == {c, o, l}
MCAgent == {s1, s2}
MCTitle == {"one", "two", "three"}
MCKindOf == (c :> "conjecture") @@ (o :> "obligation") @@ (l :> "lemma")

OwnTitle == (c :> "one") @@ (o :> "two") @@ (l :> "three")
OneTitle == [n \in MCNode |-> "one"]
On(n, m) == [source |-> n, target |-> m, kind |-> "depends_on"]

\* A conjecture that is decomposed into an obligation, beside a lemma.
Decomposed ==
  [nodes |-> {c, l}, edges |-> {On(c, l)}, title |-> OwnTitle, untrusted |-> {},
   tools |-> {"python", "model", "verifier"}, agents |-> {s1}, faults |-> {"stop"}]

\* A lemma that rests on an obligation, with an external prover.
Searched ==
  [nodes |-> {o, l}, edges |-> {On(l, o)}, title |-> OwnTitle, untrusted |-> {},
   tools |-> {"python", "search", "verifier", "prover"}, agents |-> {s1}, faults |-> {}]

\* The same with other sessions at work, and without a search tool: the lemma is
\* proved in the pass in which the obligation is refuted.
Disturbed ==
  [Searched EXCEPT !.tools = @ \ {"search"}, !.faults = {"session"}]

\* No tool can act on the conjecture; the lemma's text is not to be trusted.
Stuck ==
  [nodes |-> {c, o, l}, edges |-> {}, title |-> OneTitle, untrusted |-> {l},
   tools |-> {"search"}, agents |-> {s1}, faults |-> {}]

\* Two sessions run an agent on one obligation, which costs each three attempts.
Shared ==
  [nodes |-> {o}, edges |-> {}, title |-> OwnTitle, untrusted |-> {},
   tools |-> {"python", "verifier", "prover"}, agents |-> {s1, s2}, faults |-> {}]

MCSettings == {Decomposed, Searched, Disturbed, Stuck, Shared}
============================================================================
