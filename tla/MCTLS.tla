-------------------------------- MODULE MCTLS --------------------------------
(***************************************************************************)
(* Small instances of thread-local storage for TLC.                        *)
(***************************************************************************)
EXTENDS TLSProperties, TLC

CONSTANTS p1, p2, p3, p4, p5, t1, t2, t3

Symmetry == Permutations(Threads) \cup Permutations(Pages)

R(o, l) == [offset |-> o, length |-> l]

(* Pages of two bytes, storage of three.  A range inside a page, one over  *)
(* the border of two, and two behind the end of the storage, one of which *)
(* is empty.                                                               *)
SmallRanges == {R(0, 1), R(1, 2), R(3, 1), R(4, 0)}

(* Ranges whose end wraps round at 2^3.                                    *)
WrapRanges == {R(0, 1), R(1, 7), R(7, 2)}

=============================================================================
