--------------------------- MODULE MCFirstSuccess ---------------------------
EXTENDS FirstSuccess

\* Every schedule of the workers is explored for every combination of task
\* outcomes: the outcomes are part of the initial state.
AnyOutcome == Behaviour
============================================================================
