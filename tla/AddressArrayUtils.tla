-------------------------- MODULE AddressArrayUtils --------------------------
(***************************************************************************)
(* The address-array operations of contracts/lib/AddressArrayUtils.sol.    *)
(* An array is a sequence; the operations that revert on a missing element *)
(* are only used under a guard that it is present.                         *)
(***************************************************************************)
EXTENDS Naturals, Sequences

Elements(A) == {A[i] : i \in DOMAIN A}

Contains(A, a) == \E i \in DOMAIN A : A[i] = a

HasDuplicate(A) == \E i, j \in DOMAIN A : i < j /\ A[i] = A[j]

IndexOf(A, a) ==
  CHOOSE i \in DOMAIN A : A[i] = a /\ \A j \in 1 .. i - 1 : A[j] # a

\* Pops the last slot without saving its element in the freed one.
RemoveLastSlot(A, a) == SubSeq(A, 1, Len(A) - 1)

\* Order-preserving, on a copy in memory.
Remove(A, a) ==
  [i \in 1 .. Len(A) - 1 |-> IF i < IndexOf(A, a) THEN A[i] ELSE A[i + 1]]

\* In storage: the last element takes the freed slot.
RemoveStorage(A, a) ==
  [i \in 1 .. Len(A) - 1 |-> IF i = IndexOf(A, a) THEN A[Len(A)] ELSE A[i]]
==============================================================================
