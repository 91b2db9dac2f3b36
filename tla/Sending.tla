------------------------------ MODULE Sending ------------------------------
(***************************************************************************)
(* A TcpConnection on the bytes, in both directions: beside read_data      *)
(* (Framing), deliver_data puts what the application sends into _output,   *)
(* and write_data writes it to the socket when epoll reports it writable.  *)
(* As in Framing a byte is its position in the stream.  deliver_data and   *)
(* write_data hold _mutex, so that each is a step; NetWork has the threads *)
(* that compete for it.                                                    *)
(***************************************************************************)
EXTENDS Framing, Codec

CONSTANTS
  Exchanges,   \* pairs of what the peer sends and how much the application
  SendSizes,   \* the lengths of one send
  SendBuffer   \* bytes the kernel keeps until the peer has taken them

ASSUME ExchangesAssumption ==
  /\ Exchanges \subseteq Streams \X Nat
  /\ SendSizes \subseteq Nat /\ SendBuffer \in Nat \ {0}

VARIABLES
  quota,    \* the application: the bytes it has left to send
  posted,   \* history: the bytes that send has accepted
  output,   \* _output
  armed,    \* kernel: the write interest of the descriptor
  wire,     \* kernel: what was written to the socket
  unacked   \* kernel: how much of it the peer has not taken

recvVars == <<taken, input, pc, pduLen, reads, given>>
sendVars == <<quota, posted, output, armed, wire, unacked>>
streamVars == <<vars, sendVars>>

StreamInit ==
  /\ Init
  /\ \E e \in Exchanges : sent = e[1] /\ quota = e[2]
  /\ posted = 0 /\ output = Empty /\ armed = FALSE
  /\ wire = <<>> /\ unacked = 0

\* deliver_data on a connection that is up; the loop reads or waits.
Post ==
  /\ error = "none"
  /\ \E n \in SendSizes \cap 0 .. quota :
       /\ output' = Pour(Expand(output, n), [i \in 1 .. n |-> posted + i])
       /\ posted' = posted + n
       /\ quota'  = quota - n
  /\ armed' = TRUE
  /\ UNCHANGED <<vars, wire, unacked>>

\* Mutant: the interest is dropped after any write.
ArmedAfterAny(b) == FALSE
ArmedAfter(b)    == armed /\ DataLen(b) > 0

\* write_data after a write of n bytes: a single write, since the loop tests
\* a ret that hides the one it sets.
Written(n) ==
  LET left == Shrink(Drain(output, n))
  IN  /\ output' = left
      /\ armed'  = ArmedAfter(left)

Writable == pc = "wait" /\ error = "none" /\ armed

\* There is nothing to write: the interest goes.
WriteNone ==
  /\ Writable /\ DataLen(output) = 0
  /\ Written(0)
  /\ UNCHANGED <<vars, quota, posted, wire, unacked>>

\* _sock.write takes some of it.
Write ==
  /\ Writable /\ net # "reset"
  /\ \E n \in 1 .. DataLen(output) :
       /\ unacked + n <= SendBuffer
       /\ wire'    = wire \o SubSeq(Data(output), 1, n)
       /\ unacked' = unacked + n
       /\ Written(n)
  /\ UNCHANGED <<vars, quota, posted>>

\* _sock.write fails on a connection that was reset: nobody looks at the
\* result, and the next read event finds out.
WriteFail ==
  /\ Writable /\ net = "reset" /\ DataLen(output) > 0
  /\ output' = Shrink(output)
  /\ UNCHANGED <<vars, quota, posted, armed, wire, unacked>>

\* The peer takes what the kernel kept.
Ack ==
  /\ unacked > 0 /\ net = "up"
  /\ \E n \in 0 .. unacked - 1 : unacked' = n
  /\ UNCHANGED <<vars, quota, posted, output, armed, wire>>

WriteData == WriteNone \/ Write \/ WriteFail

StreamNext == (Next /\ UNCHANGED sendVars) \/ Post \/ WriteData \/ Ack

StreamFairness == WF_streamVars(ReadData /\ UNCHANGED sendVars)
                    /\ WF_streamVars(WriteData)
StreamSpec == StreamInit /\ [][StreamNext]_streamVars /\ StreamFairness

----------------------------------------------------------------------------

\* Every byte a send accepted is, once and in its place, on the wire or still
\* in _output, whatever expand and shrink do between a write that takes part
\* of it and the next send.
OutputWhole ==
  wire \o Data(output) = [i \in 1 .. posted |-> i]

\* The typed writes and reads agree on every buffer the class can be in.
TypedRoundTrip ==
  \A m \in Messages : RoundTrip(input, m) /\ RoundTrip(output, m)

\* The memory a large send took is given back once all of it has gone out.
GivenBack == ~armed => Len(output.mem) <= MaxBufferSize

\* What was accepted goes out: again and again nothing waits, unless the peer
\* takes no more or the connection ends.
Flushed ==
  []<>(\/ DataLen(output) = 0 \/ unacked = SendBuffer
       \/ net # "up" \/ error # "none")

\* A connection that is broken although the peer and the network are up is
\* broken on a read after the first, one that would block behind a read that
\* filled the buffer exactly.
BrokenWhileUp == error = "CLOSE" /\ net = "up" => reads > 0

=============================================================================
