------------------------------ MODULE MCIndices ------------------------------
EXTENDS Indices

CONSTANTS a, b, f, g

Separate == {<<f>>, <<g>>}
One == {<<f>>}
Nested == {<<f>>, <<f, g>>}

Symmetric == Permutations({a, b}) \cup Permutations({f, g})
=============================================================================
