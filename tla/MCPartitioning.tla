--------------------------- MODULE MCPartitioning ---------------------------
(***************************************************************************)
(* Model checking of Partitioning on small disks.                          *)
(***************************************************************************)
EXTENDS Partitioning

Old(first, last) == [first |-> first, last |-> last, by |-> 0, fs |-> "old"]

\* A disk with a hole in its numbering whose partitions have the sizes
\* Omarchy's may get, and a disk with one partition in the middle.
Tables == {
  [s \in Slots |-> CASE s = 1 -> Old(1, 1) [] s = 3 -> Old(5, 6) [] OTHER -> NoPart],
  [s \in Slots |-> IF s = 2 THEN Old(4, 4) ELSE NoPart]}

\* No rarer failure, or any of them; the one that leaves an orphan.
NoneOrAll == {{}, AllFaults}
CommitOnly == {{"commit"}}
=============================================================================
