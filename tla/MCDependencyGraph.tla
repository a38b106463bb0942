-------------------------- MODULE MCDependencyGraph --------------------------
EXTENDS DependencyGraph, TLC

\* Two symbols, so that an edge has two ends, and rows in every table.
SomeMaxId == [modules |-> 1, symbols |-> 2, calls |-> 1, inheritance |-> 1,
              includes |-> 1]

Symmetry == Permutations(Files) \cup Permutations(ModuleNames)
=============================================================================
