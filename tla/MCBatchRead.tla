------------------------------ MODULE MCBatchRead ------------------------------
(* BatchRead on a 4-bit address space: requests of at most 4 registers, gaps of  *)
(* at most 1.                                                                    *)
EXTENDS BatchRead

Layout(k, a, c) == [kind |-> k, addr |-> a, count |-> c]

\* Every way to merge, and legal metrics at the very end of the address space.
SomeLayouts ==
  {Layout("holding", a, c) : a \in {0, 1, 2, 4, 5}, c \in {1, 2}}
    \cup {Layout("holding", 1, 4), Layout("input", 2, 2), Layout("bit", 1, 1),
          Layout("unaddressed", 0, 1)}
    \cup {Layout("holding", 13, 1), Layout("holding", 15, 1), Layout("holding", 14, 2)}

SomeBad == {{}, {1}, {0, 3, 5}}
===============================================================================
