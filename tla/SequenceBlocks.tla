--------------------------- MODULE SequenceBlocks ---------------------------
(***************************************************************************)
(* The arithmetic of src/godox_mesh_bt/sequence.py: a SequenceReserver is  *)
(* the pair of the number it would hand out next and the high-water mark   *)
(* it has handed to its persist callback.  Every number below the mark     *)
(* counts as spent, and marks sit on block boundaries.                     *)
(***************************************************************************)
EXTENDS Integers

CONSTANT BlockSize   \* SEQUENCE_BLOCK_SIZE, 256 in the integration

\* __init__ raises ValueError for a block size that is not positive.
ASSUME BlockSizeAssumption == BlockSize \in Nat \ {0}

Larger(a, b) == IF a >= b THEN a ELSE b

Reserver == [next : Nat, mark : Nat]

NewReserver(start) == [next |-> start, mark |-> start]

\* _reserve(floor): the first block boundary strictly above floor.
BlockEnd(floor) == (floor \div BlockSize + 1) * BlockSize

\* take(): hand out r.next, claiming its block first when it is not reserved.
Taken(r) == [next |-> r.next + 1,
             mark |-> IF r.next >= r.mark THEN BlockEnd(r.next) ELSE r.mark]

\* Mutant: a block is claimed one number too late.
ObservedLate(r, used) ==
  [next |-> Larger(r.next, used + 1),
   mark |-> IF used > r.mark THEN BlockEnd(used) ELSE r.mark]

\* observe(used): a counter owned elsewhere has consumed the number used.
Observed(r, used) == [next |-> Larger(r.next, used + 1),
                      mark |-> IF used >= r.mark THEN BlockEnd(used) ELSE r.mark]
=============================================================================
