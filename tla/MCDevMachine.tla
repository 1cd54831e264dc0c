---------------------------- MODULE MCDevMachine ----------------------------
EXTENDS DevMachine, TLC

\* Managers and slots are interchangeable; the runs with liveness do not use this.
Symmetry == Permutations(Managers) \cup Permutations(Slots)
=============================================================================
