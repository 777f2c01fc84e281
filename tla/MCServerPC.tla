------------------------------ MODULE MCServerPC ------------------------------
EXTENDS ServerPC, TLC

\* Sessions do the same things in the same way.
Symmetry == Permutations(Sessions)
=============================================================================
