------------------------------ MODULE Geometry ------------------------------
(***************************************************************************)
(* The sizes of a segment: how many bytes create() asks for, and how       *)
(* validate() works out what the slots take.  Both are unsigned arithmetic *)
(* that wraps at SizeMax + 1.                                              *)
(***************************************************************************)
EXTENDS Integers

CONSTANTS SizeMax,    \* the largest std::size_t
          CtrlBytes,  \* sizeof(ControlBlock)
          Page        \* the kernel may round a size up to a multiple of this

ASSUME GeometryConstants ==
  /\ SizeMax \in Nat /\ CtrlBytes \in Nat /\ CtrlBytes <= SizeMax
  /\ Page \in Nat \ {0}

Wrap(x) == x % (SizeMax + 1)

\* create() never asks for less than one message.
Capacity(requested) == IF requested < 1 THEN 1 ELSE requested
Slots(requested) == Wrap(Capacity(requested) + 1)

\* Whether bytesNeeded() throws, and what it returns when it does not.
Overflows_NeverTested(capacity, size) == FALSE
Overflows(capacity, size) ==
  capacity = SizeMax \/ capacity + 1 > (SizeMax - CtrlBytes) \div size
bytesNeeded(capacity, size) == Wrap(CtrlBytes + (capacity + 1) * size)

\* What validate() says the slots of a segment need.
needed(slots, size) == Wrap(CtrlBytes + slots * size)

\* The size fstat() gives a process that opens an object made with `bytes`.
StatSize(bytes) == ((bytes + Page - 1) \div Page) * Page

=============================================================================
