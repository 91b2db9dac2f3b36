-------------------------------- MODULE Ping --------------------------------
(***************************************************************************)
(* Ping::ping: an ICMP echo request to a host, and the wait for the reply  *)
(* on a raw socket, which sees every ICMP packet that reaches the machine. *)
(* The callers make a Ping for each ping, so that every request has the    *)
(* same sequence number, and a reply to an earlier ping can come late.     *)
(***************************************************************************)
EXTENDS Clock, Sequences

CONSTANTS
  MaxPackets,  \* _max_packet_size: 1
  ReplyWait,   \* the timeval of recv_packet: 4 s
  MaxStray,    \* bound: packets in a ping that are not replies to these pings
  MaxQueue,    \* the socket's receive buffer, in packets
  MaxFaults    \* bound: failing system calls

ASSUME PingAssumption ==
  {MaxPackets, ReplyWait, MaxStray, MaxQueue, MaxFaults} \subseteq Nat

VARIABLES
  ppc,      \* where ping is
  raw,      \* _sockfd is open
  cnt,      \* recv_cnt
  reply,    \* the result: [answered, rtt, error, nsend, nreceived]
  flight,   \* the network: requests that may still be answered, by send time
  queue,    \* kernel: the packets that wait on the socket
  strays,   \* stray packets of this ping
  faults,   \* failed system calls so far
  leaked,   \* kernel: sockets that ping left open
  pinged,   \* history: when recv_packet began
  looks,    \* history: packets it looked at
  failed,   \* history: a system call of this ping failed
  unknown,  \* history: pings of unknown hosts
  took      \* history: the reply that was accepted, and when

pingKept == <<flight, strays, leaked, unknown>>
pingCall == <<raw, cnt, reply, faults, pinged, looks, failed, took>>
pingVars == <<ppc, pingCall, queue, pingKept>>

\* A packet comes from the host that is pinged or not, is an echo reply (of
\* eight bytes at least) or not, and carries the time a request was sent.
Packet == [from : BOOLEAN, echo : BOOLEAN, sent : Nat]
Stray(p) == [from |-> p[1], echo |-> p[2], sent |-> p[3]]

NoReply == [answered |-> FALSE, rtt |-> 0, error |-> "none",
            nsend |-> 0, nreceived |-> 0]
NotTaken == [sent |-> 0, at |-> 0]

PingInit ==
  /\ ppc = "idle" /\ raw = FALSE /\ cnt = 0 /\ reply = NoReply /\ queue = <<>>
  /\ faults = 0 /\ pinged = 0 /\ looks = 0 /\ failed = FALSE /\ took = NotTaken
  /\ flight = {} /\ strays = 0 /\ leaked = 0 /\ unknown = 0

----------------------------------------------------------------------------
(* Packets reach the raw socket while it is open and has room.             *)

Receive(p) == IF raw /\ Len(queue) < MaxQueue THEN Append(queue, p) ELSE queue

\* A reply to a request of this process, in time or late.
EchoArrives ==
  /\ \E t \in flight :
       /\ flight' = flight \ {t}
       /\ queue' = Receive([from |-> TRUE, echo |-> TRUE, sent |-> t])
  /\ UNCHANGED <<ppc, pingCall, strays, leaked, unknown, clockVars>>

\* From another host; from the host, but no reply (this request, if the host
\* is the machine itself); or a reply to the ping of another process.
StrayArrives ==
  /\ raw /\ strays < MaxStray
  /\ strays' = strays + 1
  /\ \E p \in {<<FALSE, TRUE, now>>, <<TRUE, FALSE, now>>}
                \cup {<<TRUE, TRUE, t>> : t \in 0 .. now} :
       queue' = Receive(Stray(p))
  /\ UNCHANGED <<ppc, pingCall, flight, leaked, unknown, clockVars>>

----------------------------------------------------------------------------

Fault == /\ faults < MaxFaults
         /\ faults' = faults + 1
         /\ failed' = TRUE

Finish(error) == reply' = [reply EXCEPT !.error = error] /\ ppc' = "done"

CallPing ==
  /\ ppc = "idle" /\ ppc' = "socket"
  /\ UNCHANGED <<pingCall, queue, pingKept, clockVars>>

\* getprotobyname and socket may fail: it takes root to make a raw socket.
SocketFails ==
  /\ ppc = "socket" /\ Fault
  /\ \E error \in {"none", "socket"} : Finish(error)
  /\ UNCHANGED <<raw, cnt, queue, pingKept, pinged, looks, took, clockVars>>

OpenRaw ==
  /\ ppc = "socket" /\ ppc' = "address"
  /\ raw' = TRUE
  /\ UNCHANGED <<cnt, reply, faults, pinged, looks, failed, took, queue, pingKept,
                 clockVars>>

\* An unknown host ends the ping, with the socket open.
HostUnknown ==
  /\ ppc = "address"
  /\ Finish("unknown host")
  /\ unknown' = unknown + 1
  /\ UNCHANGED <<raw, cnt, faults, pinged, looks, failed, took, queue, flight,
                 strays, leaked, clockVars>>

\* send_packet, whose failures go unnoticed, and the entry of recv_packet.
SendPacket ==
  /\ ppc = "address" /\ ppc' = "select"
  /\ flight' \in {flight, flight \cup {now}}
  /\ reply' = [reply EXCEPT !.nsend = MaxPackets]
  /\ left' = ReplyWait /\ UNCHANGED <<now, until, updates>>
  /\ pinged' = now
  /\ UNCHANGED <<raw, cnt, faults, looks, failed, took, queue, strays, leaked,
                 unknown>>

\* The loop of recv_packet.
Select ==
  /\ ppc = "select" /\ cnt < MaxPackets /\ ppc' = "wait"
  /\ EnterSelect(left)
  /\ UNCHANGED <<pingCall, queue, pingKept>>

CountSame == cnt  \* mutant: neither a timeout nor an answer counts
CountOne  == cnt + 1
Uncounted == cnt  \* recv_cnt--, and recv_cnt++ of the loop

\* select or recvfrom fails: that counts as a packet.
PingFault ==
  /\ \/ ppc = "wait" /\ LeaveSelect /\ UNCHANGED queue
     \/ ppc = "receive" /\ queue' = Tail(queue) /\ UNCHANGED clockVars
  /\ Fault
  /\ cnt' = CountOne /\ ppc' = "select"
  /\ UNCHANGED <<raw, reply, pinged, looks, took, pingKept>>

SelectTimeout ==
  /\ ppc = "wait" /\ queue = <<>> /\ now = until
  /\ reply' = [reply EXCEPT !.error = "request timeout"]
  /\ cnt' = CountOne /\ ppc' = "select"
  /\ LeaveSelect
  /\ UNCHANGED <<raw, faults, pinged, looks, failed, took, queue, pingKept>>

SelectReady ==
  /\ ppc = "wait" /\ queue # <<>> /\ ppc' = "receive"
  /\ LeaveSelect
  /\ UNCHANGED <<pingCall, queue, pingKept>>

Accepted(p) == p.from /\ p.echo

\* recvfrom and unpack_icmp, which does not look at the id of the reply.
ReceiveReply ==
  /\ ppc = "receive" /\ Accepted(Head(queue))
  /\ reply' = [reply EXCEPT !.answered = TRUE, !.nreceived = @ + 1,
                            !.rtt = Rtt(now, Head(queue).sent)]
  /\ took' = [sent |-> Head(queue).sent, at |-> now]
  /\ cnt' = CountOne /\ ppc' = "select"
  /\ looks' = looks + 1
  /\ queue' = Tail(queue)
  /\ UNCHANGED <<raw, faults, pinged, failed, pingKept, clockVars>>

\* Anything else is discarded, and does not count.
Discard ==
  /\ ppc = "receive" /\ ~Accepted(Head(queue))
  /\ cnt' = Uncounted /\ ppc' = "select"
  /\ looks' = looks + 1
  /\ queue' = Tail(queue)
  /\ UNCHANGED <<raw, reply, faults, pinged, failed, took, pingKept, clockVars>>

PingClose ==
  /\ ppc = "select" /\ cnt >= MaxPackets /\ ppc' = "done"
  /\ raw' = FALSE
  /\ UNCHANGED <<cnt, reply, faults, pinged, looks, failed, took, queue, pingKept,
                 clockVars>>

\* The result goes to the caller; nobody can close the socket any more.
PingReturn ==
  /\ ppc = "done"
  /\ ppc' = "idle" /\ raw' = FALSE /\ cnt' = 0 /\ reply' = NoReply /\ queue' = <<>>
  /\ faults' = 0 /\ pinged' = 0 /\ looks' = 0 /\ failed' = FALSE
  /\ took' = NotTaken
  /\ leaked' = leaked + IF raw THEN 1 ELSE 0
  /\ strays' = 0 /\ left' = 0
  /\ UNCHANGED <<now, until, updates, flight, unknown>>

PingStep ==
  \/ SocketFails \/ OpenRaw \/ HostUnknown \/ SendPacket \/ Select \/ PingFault
  \/ SelectTimeout \/ SelectReady \/ ReceiveReply \/ Discard \/ PingClose
  \/ PingReturn

=============================================================================
