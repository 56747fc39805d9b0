---------------------------- MODULE MCReadBatch ----------------------------
EXTENDS ReadBatch

Input(name, address, size, writeOnly) ==
  [name |-> name, type |-> "input", address |-> address, size |-> size, writeOnly |-> writeOnly]

\* Two adjacent registers, one that overlaps the second, one that is write-only.
Map == {Input("x", 1, 1, FALSE), Input("y", 2, 2, FALSE), Input("z", 3, 1, FALSE), Input("w", 4, 1, TRUE)}
=============================================================================
