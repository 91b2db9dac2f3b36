------------------------------ MODULE Framing ------------------------------
(***************************************************************************)
(* The receiving side of a TcpConnection: read_data takes what the socket  *)
(* has into the buffer _input and cuts it into PDUs for onRead.  The bytes *)
(* of the stream are its positions 1, 2, ...; a PDU is the length its      *)
(* header declares, and takes that many bytes.                             *)
(***************************************************************************)
EXTENDS DataBuffer

CONSTANTS
  Streams,        \* the sequences of PDU lengths the peer may send
  HeaderLen,      \* MIN_PDU_LEN, and the bytes of a header: 4
  BreakLen,       \* the longest PDU read_data accepts: 8 MB
  ReadWriteSize,  \* READ_WRITE_SIZE: 8 KB
  MaxReads        \* read_cnt ends the loop: 10

ASSUME LimitsAssumption ==
  /\ Streams \subseteq Seq(Nat)
  /\ HeaderLen \in Nat \ {0} /\ ReadWriteSize \in Nat \ {0}
  /\ BreakLen \in Nat /\ MaxReads \in Nat

VARIABLES
  sent,     \* kernel: what the peer sends, PDU by PDU
  arrived,  \* kernel: bytes of the stream that have reached the socket
  taken,    \* kernel: bytes of the stream that were read from it
  net,      \* kernel: "up", "closed" by the peer, "reset"
  input,    \* _input
  pc,       \* where read_data is; "wait": in event_loop
  pduLen,   \* pdu_len
  reads,    \* read_cnt
  error,    \* _last_error, once the connection is broken
  given     \* history: the bytes of each call of onRead

netVars == <<sent, arrived, net>>
vars == <<netVars, taken, input, pc, pduLen, reads, error, given>>

Wire(d) == IF d < HeaderLen THEN HeaderLen ELSE d

\* The last byte of each PDU of the stream.
Ends[i \in 0 .. Len(sent)] == IF i = 0 THEN 0 ELSE Ends[i - 1] + Wire(sent[i])

\* ReadUint32 at byte p: the length a PDU declares; elsewhere, garbage.
Header(p) ==
  IF \E i \in 1 .. Len(sent) : p = Ends[i - 1] + 1
  THEN sent[CHOOSE i \in 1 .. Len(sent) : p = Ends[i - 1] + 1]
  ELSE BreakLen + 1

Init ==
  /\ sent \in Streams
  /\ arrived = 0 /\ taken = 0 /\ net = "up"
  /\ input = Empty
  /\ pc = "wait" /\ pduLen = 0 /\ reads = 0 /\ error = "none"
  /\ given = <<>>

----------------------------------------------------------------------------
(* The peer and the network.                                               *)

Arrive ==
  /\ net = "up" /\ error = "none"
  /\ \E n \in arrived + 1 .. Ends[Len(sent)] : arrived' = n
  /\ UNCHANGED <<sent, taken, net, input, pc, pduLen, reads, error, given>>

Hangup ==
  /\ net = "up" /\ error = "none"
  /\ net' \in {"closed", "reset"}
  /\ UNCHANGED <<sent, arrived, taken, input, pc, pduLen, reads, error, given>>

----------------------------------------------------------------------------
(* read_data.                                                              *)

NoRoom(b) == b  \* mutant: ensureFree is not called
Room(b)   == Expand(b, ReadWriteSize)

\* The loop calls it on a read event.
ReadEvent ==
  /\ pc = "wait" /\ error = "none"
  /\ taken < arrived \/ net # "up"
  /\ input'  = Room(input)
  /\ pduLen' = 0 /\ reads' = 0
  /\ pc'     = "read"
  /\ UNCHANGED <<netVars, taken, error, given>>

\* It returns, with the buffer given back; a connection that is broken is
\* closed by on_read_event.
Return(reason) ==
  /\ input' = Shrink(input)
  /\ error' = reason
  /\ pc'    = "wait"

\* _sock.read returns bytes.
Read ==
  /\ pc = "read" /\ net # "reset"
  /\ \E n \in 1 .. FreeLen(input) :
       /\ taken + n <= arrived
       /\ input' = Pour(input, [i \in 1 .. n |-> taken + i])
       /\ taken' = taken + n
  /\ pc' = "parse"
  /\ UNCHANGED <<netVars, pduLen, reads, error, given>>

\* _sock.read returns 0: end of file, or no room to read into.
ReadEnd ==
  /\ pc = "read" /\ net # "reset"
  /\ FreeLen(input) = 0 \/ (taken = arrived /\ net = "closed")
  /\ Return("REMOTE_CLOSE")
  /\ UNCHANGED <<netVars, taken, pduLen, reads, given>>

\* _sock.read fails.  get_soerror does not return the EAGAIN of a read that
\* would block, so that it counts as broken too.
ReadFail ==
  /\ pc = "read"
  /\ net = "reset" \/ (net = "up" /\ taken = arrived /\ FreeLen(input) > 0)
  /\ Return("CLOSE")
  /\ UNCHANGED <<netVars, taken, pduLen, reads, given>>

\* IsPduAvailable reads the length as soon as the header is there.
Declared == IF DataLen(input) < HeaderLen THEN pduLen ELSE Header(Data(input)[1])

Available == /\ DataLen(input) >= HeaderLen
             /\ Declared <= DataLen(input) /\ Declared >= HeaderLen

LastOnly == "check"  \* mutant: one PDU is cut out of what was read
ParseMore == "parse"

Deliver ==
  /\ pc = "parse" /\ Available
  /\ pduLen' = Declared
  /\ given'  = Append(given, SubSeq(Data(input), 1, Declared))
  /\ input'  = Drain(input, Declared)
  /\ pc'     = ParseMore
  /\ UNCHANGED <<netVars, taken, reads, error>>

ParseEnd ==
  /\ pc = "parse" /\ ~Available
  /\ pduLen' = Declared
  /\ pc'     = "check"
  /\ UNCHANGED <<netVars, taken, input, reads, error, given>>

Unlimited(d) == d <= HeaderLen  \* mutant: no PDU is too long
Malformed(d) == d > BreakLen \/ d <= HeaderLen

ParseBroken ==
  /\ pc = "check" /\ Malformed(pduLen)
  /\ Return("PARSE_PDU")
  /\ UNCHANGED <<netVars, taken, pduLen, reads, given>>

DoneLate == FreeLen(input) > 0 \/ reads > MaxReads  \* mutant: off by one
Done     == FreeLen(input) > 0 \/ reads >= MaxReads

ParseDone ==
  /\ pc = "check" /\ ~Malformed(pduLen) /\ Done
  /\ Return("none")
  /\ UNCHANGED <<netVars, taken, pduLen, reads, given>>

CountNone == reads  \* mutant: read_cnt is not counted up
CountRead == reads + 1

\* The buffer was filled: there may be more.
ReadAgain ==
  /\ pc = "check" /\ ~Malformed(pduLen) /\ ~Done
  /\ input' = IF pduLen > DataLen(input) THEN Room(input) ELSE input
  /\ reads' = CountRead
  /\ pc'    = "read"
  /\ UNCHANGED <<netVars, taken, pduLen, error, given>>

ReadData == \/ ReadEvent \/ Read \/ ReadEnd \/ ReadFail \/ Deliver \/ ParseEnd
            \/ ParseBroken \/ ParseDone \/ ReadAgain

Next == Arrive \/ Hangup \/ ReadData

Spec == Init /\ [][Next]_vars

----------------------------------------------------------------------------

\* Every variable has its type.
TypeOK ==
  /\ sent \in Streams
  /\ arrived \in 0 .. Ends[Len(sent)] /\ taken \in 0 .. arrived
  /\ net \in {"up", "closed", "reset"}
  /\ input.mem \in Seq(0 .. arrived)
  /\ 0 <= input.data /\ input.data <= input.free /\ input.free <= Len(input.mem)
  /\ pc \in {"wait", "read", "parse", "check"}
  /\ pduLen \in Nat /\ reads \in 0 .. MaxReads
  /\ error \in {"none", "REMOTE_CLOSE", "CLOSE", "PARSE_PDU"}
  /\ given \in Seq(Seq(1 .. arrived))

\* However expand, drainData and shrink move them, the bytes in the buffer are
\* the last that were taken from the socket, in order.
InOrder ==
  \A i \in 1 .. DataLen(input) : Data(input)[i] = taken - DataLen(input) + i

\* onRead gets the PDUs of the stream, whole and in order (interface.h: "what
\* is delivered is a complete PDU").
Whole ==
  /\ Len(given) <= Len(sent)
  /\ \A i \in 1 .. Len(given) :
       given[i] = [j \in 1 .. sent[i] |-> Ends[i - 1] + j]

\* A PDU has come whole, and onRead did not get it.
Behind == \E i \in 1 .. Len(sent) : arrived >= Ends[i] /\ Len(given) < i

\* A connection reported as closed by the peer was (a read of 0 bytes into a
\* full buffer never happens), and onRead had all it sent before: the break is
\* handled last in read_data, after the packets.
RemoteCloseTrue == error = "REMOTE_CLOSE" => net = "closed" /\ ~Behind

\* A connection is broken for a PDU that cannot be parsed only if the peer
\* sent one (tcpconnection.cpp: "there may be half a packet left unread").
ParseErrorTrue ==
  error = "PARSE_PDU" => \E i \in 1 .. Len(sent) : Malformed(sent[i])

\* However PDUs are cut by the reads, expand never allocates more than about
\* twice what the longest PDU and a read need.
Bounded ==
  Len(input.mem) <= 2 * (BreakLen + ReadWriteSize + BreakLen \div 4)

\* onRead keeps up with the PDUs that have come, unless the connection breaks.
CaughtUp == []<>(~Behind \/ error # "none")

=============================================================================
