---------------------------- MODULE MCMappedFile ----------------------------
EXTENDS MappedFile, TLC

Symmetry == Permutations(Object) \cup Permutations(Errno)
=============================================================================
