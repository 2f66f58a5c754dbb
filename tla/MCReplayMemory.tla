--------------------------- MODULE MCReplayMemory ---------------------------
\* Model values for tenants and request ids; the ids are interchangeable.
EXTENDS ReplayMemory, TLC
CONSTANTS a, b, x1, x2, x3, x4, x5
Symmetry == Permutations({x1, x2, x3, x4, x5})
=============================================================================
