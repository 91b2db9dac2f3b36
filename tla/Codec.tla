------------------------------- MODULE Codec -------------------------------
(***************************************************************************)
(* The typed reads and writes of class DataBuffer, and ReadInt.. and       *)
(* WriteInt.. of tools.cpp.  An integer is w bytes, the most significant   *)
(* first; a byte is a digit of base Radix.  The code's widths are 1, 2, 4  *)
(* and 8 bytes, and lengths are written as 4.                              *)
(***************************************************************************)
EXTENDS DataBuffer

CONSTANTS
  Radix,      \* 256
  LenWidth,   \* bytes of a length: 4
  Messages    \* values to write together: [int, width, str, vec]

Byte == 0 .. Radix - 1

ASSUME RadixAssumption == Radix \in Nat \ {0, 1} /\ LenWidth \in Nat \ {0}

\* How many values w bytes have.
Power[w \in Nat] == IF w = 0 THEN 1 ELSE Radix * Power[w - 1]

NUL == 0

\* A string goes with its length and a NUL at its end, the empty one with
\* length 0 alone.
Terminated(s) == IF s = <<>> THEN <<>> ELSE Append(s, NUL)

\* The bytes of a message: three lengths, the integer, the string, the list.
Size(m) ==
  3 * LenWidth + m.width + Len(Terminated(m.str)) + Len(m.vec) * m.width

\* A length is an int (getDataLen), so that a message is shorter than 2 GB.
ASSUME MessagesAssumption ==
  \A m \in Messages :
    /\ m.width \in Nat \ {0} /\ m.int \in 0 .. Power[m.width] - 1
    /\ m.str \in Seq(Byte) /\ m.vec \in Seq(0 .. Power[m.width] - 1)
    /\ Size(m) < Power[LenWidth] \div 2

\* fillInt.., WriteInt..: the w low bytes of n, negative or not.
Digits(n, w) == [i \in 1 .. w |-> (n \div Power[w - i]) % Radix]

\* readInt.., ReadUint..: the bytes as an unsigned integer; ReadInt..: signed.
Unsigned(s) ==
  LET N[i \in 0 .. Len(s)] == IF i = 0 THEN 0 ELSE N[i - 1] * Radix + s[i]
  IN  N[Len(s)]
Signed(s) == IF Unsigned(s) < Power[Len(s)] \div 2 THEN Unsigned(s)
             ELSE Unsigned(s) - Power[Len(s)]

\* writeBytes, writeInt8 .. writeInt64, write_fill.
WriteBytes(b, s)  == Pour(Expand(b, Len(s)), s)
WriteInt(b, n, w) == WriteBytes(b, Digits(n, w))

\* fillInt.. and fill_int..: bytes that are there are written over, at an
\* offset into the allocation.
Fill(b, s, off) ==
  [b EXCEPT !.mem = [i \in DOMAIN @ |-> IF i \in off + 1 .. off + Len(s)
                                        THEN s[i - off] ELSE @[i]]]

\* writeString.
WriteString(b, s) ==
  LET t == Terminated(s)
  IN  Pour(WriteInt(Expand(b, Len(t) + LenWidth), Len(t), LenWidth), t)

\* writeVector.
WriteVector(b, v, w) ==
  LET Items[i \in 0 .. Len(v)] == IF i = 0 THEN WriteInt(b, Len(v), LenWidth)
                                  ELSE WriteInt(Items[i - 1], v[i], w)
  IN  Items[Len(v)]

\* The n bytes from the beginning of the window, past its end too.
Bytes(b, n) == SubSeq(b.mem, b.data + 1, b.data + n)

Skip(b, n) == [b EXCEPT !.data = @ + n]

\* stripData; findBytes for a string that is not empty.
Strip(b, n) == [b EXCEPT !.free = @ - n]
FindBytes(b, s) ==
  LET At(i)  == Bytes(Skip(b, i), Len(s)) = s
      places == {i \in 0 .. DataLen(b) - Len(s) : At(i)}
  IN  IF places = {} THEN -1 ELSE CHOOSE i \in places : \A j \in places : i <= j

----------------------------------------------------------------------------
(* A read returns what it read, the window behind it, and whether there    *)
(* was enough.                                                             *)

EnoughFew(b, n) == DataLen(b) + 1 >= n  \* mutant: off by one
Enough(b, n)    == DataLen(b) >= n

\* readInt..(n) and readBytes: nothing is consumed when there is not enough.
ReadBytes(b, n) ==
  IF Enough(b, n)
  THEN [ok |-> TRUE, val |-> Bytes(b, n), rest |-> Skip(b, n)]
  ELSE [ok |-> FALSE, val |-> <<>>, rest |-> b]

ReadInt(b, w) ==
  LET r == ReadBytes(b, w) IN [r EXCEPT !.val = Unsigned(@)]

\* readString into a buffer of n bytes, or (n = 0) into one it allocates: as
\* much as fits, its last byte overwritten by a NUL; all of it is consumed.
ReadString(b, n) ==
  IF ~Enough(b, LenWidth) THEN [ok |-> FALSE, val |-> <<>>, rest |-> b]
  ELSE LET declared == Signed(Bytes(b, LenWidth))
           body     == Skip(b, LenWidth)
           slen     == IF DataLen(body) < declared THEN DataLen(body) ELSE declared
           len      == IF n = 0 \/ n > slen THEN slen ELSE n
       IN  [ok   |-> TRUE,
            val  |-> IF len <= 0 THEN <<>>
                     ELSE Append(Bytes(body, len - 1), NUL),
            rest |-> Skip(body, slen)]

\* readVector: as many as the length says.
ReadVector(b, w) ==
  LET n    == Unsigned(Bytes(b, LenWidth))
      body == Skip(b, LenWidth)
  IN  [ok   |-> TRUE,
       val  |-> [i \in 1 .. n |-> Unsigned(Bytes(Skip(body, (i - 1) * w), w))],
       rest |-> Skip(body, n * w)]

----------------------------------------------------------------------------

\* A message behind the data of b: a length that is filled in at the end, an
\* integer, a string and a list.
Encode(b, m) ==
  LET b1 == WriteInt(WriteInt(b, 0, LenWidth), m.int, m.width)
      b2 == WriteVector(WriteString(b1, m.str), m.vec, m.width)
  IN  Fill(b2, Digits(DataLen(b2) - DataLen(b), LenWidth), b2.data + DataLen(b))

\* It is read back from what follows the data of b.
Decode(b, w) ==
  LET r1 == ReadInt(b, LenWidth)
      r2 == ReadInt(r1.rest, w)
      r3 == ReadString(r2.rest, 0)
      r4 == ReadVector(r3.rest, w)
  IN  [len |-> r1.val, int |-> r2.val, str |-> r3.val, vec |-> r4.val,
       rest |-> r4.rest]

\* In whatever state b is, the typed writes leave its data alone, the typed
\* reads give back what was written, and a read of a bit less than an integer
\* fails and consumes nothing.
RoundTrip(b, m) ==
  LET e == Encode(b, m)
      d == Decode(Skip(e, DataLen(b)), m.width)
      cut == [e EXCEPT !.free = @ - DataLen(e) + m.width - 1]
      str == Terminated(m.str)
  IN  /\ Data(Strip(e, d.len)) = Data(b)
      /\ str # <<>> =>
           FindBytes(Skip(e, DataLen(b)), str) \in 0 .. 2 * LenWidth + m.width
      /\ d.len = DataLen(e) - DataLen(b)
      /\ d.int = m.int /\ d.str = str /\ d.vec = m.vec
      /\ DataLen(d.rest) = 0
      /\ ReadInt(cut, m.width) = [ok |-> FALSE, val |-> 0, rest |-> cut]

=============================================================================
