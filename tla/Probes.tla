------------------------------- MODULE Probes -------------------------------
(***************************************************************************)
(* What an application measures the network with: a thread that runs       *)
(* checks (NetCheck) and pings (Ping) one after the other, on one clock    *)
(* and one table of descriptors.  A reply to a ping may come when a later  *)
(* call is in progress.                                                    *)
(***************************************************************************)
EXTENDS NetCheck, Ping

CONSTANT MaxCalls  \* bound: calls the application makes

ASSUME CallsAssumption == MaxCalls \in Nat

VARIABLE calls  \* calls so far

probeVars == <<clockVars, checkVars, pingVars, calls>>

Init == ClockInit /\ CheckInit /\ PingInit /\ calls = 0

Idle == cpc = "idle" /\ ppc = "idle"

Call ==
  /\ Idle /\ calls < MaxCalls
  /\ calls' = calls + 1
  /\ \/ Excute /\ UNCHANGED pingVars
     \/ CallPing /\ UNCHANGED checkVars

\* A select waits.
Blocked == \/ Waiting /\ ~Ready
           \/ ppc = "wait" /\ queue = <<>>

Tick == Blocked /\ Advance /\ UNCHANGED <<checkVars, pingVars, calls>>

Probe == \/ CheckStep /\ UNCHANGED <<pingVars, calls>>
         \/ PingStep /\ UNCHANGED <<checkVars, calls>>

World == \/ ServerStep /\ UNCHANGED <<pingVars, calls>>
         \/ (EchoArrives \/ StrayArrives) /\ UNCHANGED <<checkVars, calls>>

Next == Call \/ Tick \/ Probe \/ World

\* The thread goes on, and time passes.
Spec == Init /\ [][Next]_probeVars /\ WF_probeVars(Probe) /\ WF_probeVars(Tick)

----------------------------------------------------------------------------

\* Every variable has its type.
ProbesTypeOK ==
  /\ now \in Nat /\ left \in Nat /\ until \in Nat /\ updates \in BOOLEAN
  /\ cpc \in {"idle", "dns", "socket", "conn_wait", "send_begin", "send",
              "send_wait", "recv_wait", "recv", "close", "done"}
  /\ sock \in BOOLEAN /\ len \in Requests \cup {NoBuffer} /\ offset \in Nat
  /\ got \in 0 .. RecvBuffer /\ room \in 0 .. SocketRoom /\ inq \in 0 .. AnswerMax
  /\ result \in [dns : Codes, conn : Codes, send : Codes, recv : Codes,
                 bytes : Nat, time : Nat]
  /\ peer \in {"syn", "up", "refused", "reset", "eof"}
  /\ ppc \in {"idle", "socket", "address", "select", "wait", "receive", "done"}
  /\ raw \in BOOLEAN /\ cnt \in 0 .. MaxPackets
  /\ queue \in Seq(Packet) /\ Len(queue) <= MaxQueue
  /\ reply.answered \in BOOLEAN /\ reply.nreceived \in 0 .. reply.nsend

\* A stage of a check is reached only by way of the stages before it, and the
\* one that stopped the check is the last with a result (netcheck.h: NORUN,
\* "this step was not reached").
StageOrder ==
  cpc = "done" =>
    /\ result.conn # "NORUN" => result.dns # "PARSE_DNS_FAIL"
    /\ result.send # "NORUN" => result.conn = "OK"
    /\ result.recv # "NORUN" => result.send = "OK"

\* What a check reports is what happened: the server accepted; the kernel has
\* every byte of the request; bytes came; and a timeout is told only after
\* the whole limit, with nothing received, or when a signal cut it short.
\* A send that timed out is reported as if it had not been run.
ResultTrue ==
  cpc = "done" =>
    /\ result.conn = "OK" => peer \in {"up", "eof", "reset"}
    /\ result.conn = "CONN_TIMEOUT" => now - began = Limit \/ broken
    /\ result.send = "OK" <=> result.conn = "OK" /\ len # NoBuffer /\ offset = len
    /\ result.send = "NORUN" /\ result.conn = "OK" =>
         now - began >= Limit /\ offset < len
    /\ result.recv = "OK" => result.bytes > 0
    /\ result.bytes = got
    /\ result.recv = "RECV_TIMEOUT" => now - began = Limit /\ got = 0

\* A check waits for at most its three limits.  Where select does not write
\* the timeval, each select of the send may take a limit of its own.  A ping
\* waits for at most its one; there, for each packet it had to look at.
WaitBounded ==
  /\ cpc # "idle" /\ sock =>
       now - first <= Limit * (2 + IF updates \/ rounds = 0 THEN 1 ELSE rounds)
  /\ reply.nsend > 0 =>
       now - pinged <= ReplyWait * (1 + IF updates THEN 0 ELSE looks)

\* The times reported are right to the millisecond: that of a check within
\* one, that of a ping rounded down (for the request that was answered, which
\* may be one of an earlier ping).
TimeTrue ==
  /\ cpc = "done" /\ result.recv = "OK" =>
       LET d == result.time * Milli - (now - sentAt)
       IN  -Milli < d /\ d < Milli
  /\ reply.answered => reply.rtt = (took.at - took.sent) \div Milli

\* Every descriptor is closed when its call returns (netcheck.cpp: "at the end
\* of the check the socket must be closed"), on every way out, except that of a
\* ping of an unknown host.
DescriptorsClosed ==
  /\ cpc = "done" => ~sock
  /\ ppc = "idle" => leaked = unknown

\* A ping without an answer says why, unless a system call failed; a timeout
\* is told after the whole wait, when no reply from the host was there.
PingExplained ==
  ppc = "done" =>
    /\ \/ reply.answered \/ reply.error # "none" \/ failed
    /\ reply.error = "request timeout" =>
         now - pinged >= ReplyWait /\ ~reply.answered

\* Every call returns, whatever the server and the network do.
CallsReturn == ~Idle ~> Idle

=============================================================================
