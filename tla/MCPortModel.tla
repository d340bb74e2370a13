----------------------------- MODULE MCPortModel -----------------------------
EXTENDS PortModel

CONSTANTS d1, d2

\* Two of the layers of one image have an os-release file, the other has none.
TwoOrNone == [d \in Digest |-> IF d = d1 THEN {1, 2} ELSE {}]
=============================================================================
