------------------------------ MODULE MCCockpit ------------------------------
EXTENDS Cockpit

Turns == 1 .. 2
AnyFaults == SUBSET Fault
============================================================================
