-------------------------- MODULE MCGenerationStore -------------------------
\* Two assets, the second derived from the first.
EXTENDS GenerationStore
CONSTANTS x, y
MCBelow == [a \in {x, y} |-> IF a = x THEN {y} ELSE {}]
=============================================================================
