----------------------------- MODULE DataBuffer -----------------------------
(***************************************************************************)
(* class DataBuffer: an allocation, and in it the window of the bytes not  *)
(* yet consumed.  mem is the memory from _pstart to _pend (empty when      *)
(* _pstart is NULL); data and free are the offsets of _pdata and _pfree.   *)
(***************************************************************************)
EXTENDS Integers, Sequences

CONSTANTS
  FirstSize,     \* the first allocation: 256
  MaxBufferSize  \* MAX_BUFFER_SIZE, what shrink goes back to: 2048

ASSUME SizesAssumption == /\ FirstSize \in Nat \ {0}
                          /\ MaxBufferSize \in Nat \ {0}

Junk == 0  \* a byte of memory that nothing was written to

Empty == [mem |-> <<>>, data |-> 0, free |-> 0]

DataLen(b) == b.free - b.data
FreeLen(b) == Len(b.mem) - b.free
Data(b)    == SubSeq(b.mem, b.data + 1, b.free)

\* A new allocation of n bytes that begins with d.
Fresh(d, n) ==
  [mem |-> d \o [i \in 1 .. n - Len(d) |-> Junk], data |-> 0, free |-> Len(d)]

\* n, doubled until it is at least need.
Doubled(n, need) ==
  LET D[k \in 0 .. need] == IF k = 0 THEN n
                            ELSE LET m == D[k - 1]
                                 IN  IF m < need THEN 2 * m ELSE m
  IN  D[need]

\* The data moves to the beginning of the allocation.
Moved(b) ==
  [mem  |-> Data(b) \o SubSeq(b.mem, DataLen(b) + 1, Len(b.mem)),
   data |-> 0, free |-> DataLen(b)]

\* Mutant: expand copies from the beginning of the old allocation.
CopyStart(b, need) ==
  IF FreeLen(b) >= need /\ b # Empty THEN b
  ELSE Fresh(SubSeq(b.mem, 1, DataLen(b)),
             Doubled(FirstSize, need + Len(b.mem)))

\* expand, and ensureFree: room for need bytes behind the data.
Expand(b, need) ==
  LET room == FreeLen(b) + b.data
  IN  CASE b.mem = <<>> -> Fresh(<<>>, Doubled(FirstSize, need))
        [] b.mem # <<>> /\ FreeLen(b) >= need -> b
        [] b.mem # <<>> /\ FreeLen(b) < need
             /\ (room < need \/ room * 4 < DataLen(b)) ->
           Fresh(Data(b), Doubled(2 * Len(b.mem), need + DataLen(b)))
        [] OTHER -> Moved(b)

\* Bytes read into the free part, and pourData.
Pour(b, bytes) ==
  [b EXCEPT !.mem  = SubSeq(@, 1, b.free) \o bytes
                       \o SubSeq(@, b.free + Len(bytes) + 1, Len(@)),
            !.free = @ + Len(bytes)]

DrainFew(b, n) == [b EXCEPT !.data = @ + (IF n = 0 THEN 0 ELSE n - 1)]  \* mutant: off by one

\* drainData: a window that is used up goes back to the beginning.
Drain(b, n) == IF b.data + n >= b.free
               THEN [b EXCEPT !.data = 0, !.free = 0]
               ELSE [b EXCEPT !.data = @ + n]

\* Mutants: the copy begins at the start of the allocation; an empty buffer is
\* left as it is.
ShrinkStart(b) == IF Len(b.mem) <= MaxBufferSize \/ DataLen(b) > MaxBufferSize
                  THEN b
                  ELSE Fresh(SubSeq(b.mem, 1, DataLen(b)), MaxBufferSize)
ShrinkFilled(b) == IF Len(b.mem) <= MaxBufferSize \/ DataLen(b) = 0 THEN b
                   ELSE Fresh(Data(b), MaxBufferSize)

\* shrink: a large allocation with little in it is given back.
Shrink(b) == IF Len(b.mem) <= MaxBufferSize \/ DataLen(b) > MaxBufferSize
             THEN b
             ELSE Fresh(Data(b), MaxBufferSize)

=============================================================================
