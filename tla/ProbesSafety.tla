---------------------------- MODULE ProbesSafety ----------------------------
(***************************************************************************)
(* The inductive invariant behind the properties of Probes, and their      *)
(* proofs, for any limits, sizes and clock.                                *)
(*                                                                         *)
(* How long a probe has waited is known at each of its labels: where       *)
(* select writes back what remains, the clock and the timeval add up to    *)
(* the end of the limit; where it does not, each select adds a limit.      *)
(* What a result says is known when the check gives up, and nothing of the *)
(* server changes it until the caller has it.                              *)
(***************************************************************************)
EXTENDS Probes, TLAPS

USE DEF clockVars, kernelVars, stageVars, seenVars, checkVars, pingKept, pingCall,
        pingVars, probeVars

\* Ping::Ping sets _max_packet_size to 1.
OnePacket == MaxPackets = 1

----------------------------------------------------------------------------
(* The invariant.                                                          *)

ResultType == [dns : Codes, conn : Codes, send : Codes, recv : Codes,
               bytes : Nat, time : Nat]
ReplyType  == [answered : BOOLEAN, rtt : Int,
               error : {"none", "socket", "unknown host", "request timeout"},
               nsend : Nat, nreceived : Nat]
TookType   == [sent : Nat, at : Nat]
CpcType == {"idle", "dns", "socket", "conn_wait", "send_begin", "send", "send_wait",
            "recv_wait", "recv", "close", "done"}
PpcType == {"idle", "socket", "address", "select", "wait", "receive", "done"}

TypeInv ==
  /\ now \in Nat /\ left \in Nat /\ until \in Nat /\ updates \in BOOLEAN
  /\ cpc \in CpcType /\ sock \in BOOLEAN /\ len \in Requests \cup {NoBuffer}
  /\ offset \in Nat /\ got \in Nat /\ result \in ResultType /\ sentAt \in 0 .. now
  /\ peer \in {"syn", "up", "refused", "reset", "eof"}
  /\ room \in Nat /\ inq \in Nat /\ answer \in Nat
  /\ began \in Nat /\ first \in Nat /\ rounds \in Nat /\ broken \in BOOLEAN
  /\ ppc \in PpcType /\ raw \in BOOLEAN /\ cnt \in Nat /\ reply \in ReplyType
  /\ flight \subseteq Nat /\ queue \in Seq(Packet)
  /\ leaked \in Nat /\ unknown \in Nat /\ pinged \in Nat /\ looks \in Nat
  /\ failed \in BOOLEAN /\ took \in TookType

\* The application's thread is in one call at a time.
OneCall == cpc = "idle" \/ ppc = "idle"

\* The labels of excute: before connect, in send_tmout, and after the check.
Early   == {"idle", "dns", "socket"}
Sending == {"send_begin", "send", "send_wait"}
Over    == {"close", "done"}

\* A NetCheck is new; the server is there once it has accepted; what it sends
\* is what it has.
Server ==
  /\ cpc \in Early =>
       ~sock /\ offset = 0 /\ got = 0 /\ rounds = 0 /\ ~broken /\ peer = "syn"
  /\ cpc \in Sending \cup {"recv_wait", "recv"} => peer \in {"up", "eof", "reset"}
  /\ peer = "syn" => inq = 0
  /\ inq + answer <= AnswerMax /\ room <= SocketRoom /\ got <= RecvBuffer

\* The result, label by label.
Results ==
  /\ result.bytes = got
  /\ cpc \notin Over => result.dns # "PARSE_DNS_FAIL"
  /\ cpc \in Early \cup {"conn_wait"} =>
       result.conn = "NORUN" /\ result.send = "NORUN" /\ result.recv = "NORUN"
  /\ cpc \in Sending =>
       /\ result.conn = "OK" /\ result.send \in {"NORUN", "SYS_ERROR"}
       /\ result.recv = "NORUN"
  /\ cpc \in {"recv_wait", "recv"} => result.conn = "OK" /\ result.send = "OK"
  /\ cpc \notin {"recv"} \cup Over => got = 0
  /\ cpc = "recv_wait" => result.recv = "NORUN"
  /\ cpc = "recv" => IF got = 0 THEN inq > 0 \/ peer \in {"reset", "eof"}
                                ELSE result.recv = "OK"

\* How much of the request the kernel has.
Request ==
  /\ cpc \in {"send", "send_wait", "recv_wait", "recv"} =>
       len \in Nat /\ offset <= len
  /\ cpc \in {"send_begin", "conn_wait"} => offset = 0
  /\ cpc = "send_wait" => offset < len
  /\ cpc \in {"recv_wait", "recv"} => offset = len

\* The limits that the selects of send_tmout can add up to.
Rounds == IF updates \/ rounds = 0 THEN 1 ELSE rounds

\* How long the check has waited, in this stage and since connect.
CheckWaits ==
  /\ cpc \notin Early /\ sock => first <= now
  /\ cpc = "conn_wait" => /\ began = first /\ until = began + Limit
                          /\ now <= until /\ rounds = 0 /\ left = Limit
  /\ cpc = "send_begin" => now - first <= Limit /\ rounds = 0
  /\ cpc \in {"send", "send_wait"} => began - first <= Limit /\ began <= now
  /\ cpc = "send" => IF updates THEN now + left = began + Limit
                                ELSE left = Limit /\ now - began <= Limit * rounds
  /\ cpc = "send_wait" =>
       /\ rounds > 0 /\ now <= until /\ began + Limit <= until
       /\ IF updates THEN until = began + Limit
                     ELSE left = Limit /\ until - began <= Limit * rounds
  /\ cpc = "recv_wait" => /\ until = began + Limit /\ now <= until
                          /\ began - first <= Limit * (1 + Rounds)
  /\ cpc = "recv" \/ (cpc = "close" /\ sock) => now - first <= Limit * (2 + Rounds)

\* StageOrder and ResultTrue, from the moment excute gives up.
Reported ==
  cpc \in Over =>
    /\ result.conn # "NORUN" => result.dns # "PARSE_DNS_FAIL"
    /\ result.send # "NORUN" => result.conn = "OK"
    /\ result.recv # "NORUN" => result.send = "OK"
    /\ result.conn = "OK" => peer \in {"up", "eof", "reset"}
    /\ result.conn = "CONN_TIMEOUT" => now - began = Limit \/ broken
    /\ result.send = "OK" <=> result.conn = "OK" /\ len # NoBuffer /\ offset = len
    /\ result.send = "NORUN" /\ result.conn = "OK" =>
         now - began >= Limit /\ offset < len
    /\ result.recv = "OK" => result.bytes > 0
    /\ result.recv = "RECV_TIMEOUT" => now - began = Limit /\ got = 0
    /\ result.recv = "OK" => result.time = UseTime(sentAt, now)
    /\ cpc = "done" => ~sock

\* A Ping is new; its packets are counted; the socket is open until it is
\* closed or forgotten; a select is over when its time is.
PingCounts ==
  /\ ppc \in {"idle", "socket", "address"} =>
       reply = NoReply /\ cnt = 0 /\ looks = 0 /\ ~failed
  /\ ppc \in {"idle", "socket"} => ~raw
  /\ ppc \in {"address", "select", "wait", "receive"} => raw
  /\ unknown = leaked + IF ppc = "done" /\ raw THEN 1 ELSE 0
  /\ cnt <= MaxPackets /\ Len(queue) <= MaxQueue
  /\ ppc \in {"select", "wait", "receive"} =>
       reply.nsend = MaxPackets /\ reply.nreceived <= cnt
  /\ reply.nreceived <= reply.nsend
  /\ ppc \in {"wait", "receive"} => cnt < MaxPackets
  /\ ppc = "receive" => queue # <<>>
  /\ ppc = "wait" => now <= until

\* The time of a reply is that of the request it answers.
PingTime == reply.answered => reply.rtt = (took.at - took.sent) \div Milli

\* How long the ping has waited for its one reply, where each select waits for
\* the whole limit again.
Spell == ReplyWait * looks
PingWaits ==
  /\ reply.nsend > 0 => pinged <= now
  /\ ppc = "receive" \/ (ppc = "select" /\ cnt = 0) =>
       IF updates THEN now + left = pinged + ReplyWait
                  ELSE left = ReplyWait /\ (ppc = "select" => now - pinged <= Spell)
  /\ ppc = "wait" =>
       /\ now <= until /\ pinged + ReplyWait <= until
       /\ IF updates THEN until = pinged + ReplyWait
                     ELSE left = ReplyWait /\ until - pinged <= Spell + ReplyWait
  /\ reply.nsend > 0 => now - pinged <= ReplyWait + IF updates THEN 0 ELSE Spell

\* PingExplained, from the moment the packet was counted.
PingAnswers ==
  /\ ppc \in {"select", "wait", "receive"} /\ cnt = 0 =>
       ~reply.answered /\ reply.error = "none"
  /\ ppc = "done" \/ (ppc = "select" /\ cnt > 0) =>
       /\ reply.answered \/ reply.error # "none" \/ failed
       /\ reply.error = "request timeout" =>
            now - pinged >= ReplyWait /\ ~reply.answered

\* The inductive invariant.
ProbesInv ==
  /\ TypeInv /\ OneCall
  /\ Server /\ Results /\ Request /\ CheckWaits /\ Reported
  /\ PingCounts /\ PingTime /\ (OnePacket => PingWaits /\ PingAnswers)

----------------------------------------------------------------------------
(* The arithmetic of the clock.                                            *)

\* What the constants are.
LEMMA Numbers ==
  /\ Second \in Nat \ {0} /\ Milli \in Nat \ {0} /\ Epoch \in Nat /\ Epoch >= Second
  /\ Limit \in Nat /\ SocketRoom \in Nat /\ AnswerMax \in Nat
  /\ RecvBuffer \in Nat \ {0, 1}
  /\ MaxPackets \in Nat /\ ReplyWait \in Nat /\ MaxQueue \in Nat
  /\ Requests \subseteq Nat \cup {NoBuffer} /\ NoBuffer \notin Nat
BY ClockAssumption, CheckAssumption, PingAssumption

USE Numbers

\* Quotient and remainder.
LEMMA Division ==
  ASSUME NEW n \in Nat, NEW m \in Nat \ {0}
  PROVE  /\ n \div m \in Nat /\ n % m \in Nat /\ n % m < m
         /\ n = m * (n \div m) + (n % m)
<1>1. n = m * (n \div m) + (n % m)
  OBVIOUS
<1>2. 0 <= n % m /\ n % m < m
  OBVIOUS
<1>3. n \div m \in Int /\ n % m \in Int
  OBVIOUS
<1>4. n \div m >= 0
  <2> DEFINE q == n \div m
             r == n % m
  <2>1. q \in Int /\ r \in Int /\ r < m /\ n = m * q + r
    BY <1>1, <1>2, <1>3
  <2> HIDE DEF q, r
  <2>2. q >= 0
    BY <2>1
  <2>3. QED
    BY <2>2 DEF q
<1>5. n \div m \in Nat
  BY <1>3, <1>4
<1>6. n % m \in Nat
  BY <1>2, <1>3
<1>7. QED
  BY <1>1, <1>2, <1>5, <1>6, Zenon

\* Division in C is off by less than one.
LEMMA QuotientNear ==
  ASSUME NEW d \in Int
  PROVE  /\ Quotient(d, Milli) \in Int
         /\ -Milli < Quotient(d, Milli) * Milli - d
         /\ Quotient(d, Milli) * Milli - d < Milli
<1>1. \A n \in Nat : /\ n \div Milli \in Nat /\ n % Milli \in Nat /\ n % Milli < Milli
                     /\ n = Milli * (n \div Milli) + (n % Milli)
  BY Division
<1>2. CASE d >= 0
  BY <1>1, <1>2 DEF Quotient
<1>3. CASE d < 0
  <2> DEFINE n == -d
  <2>1. n \in Nat /\ Quotient(d, Milli) = -(n \div Milli)
    BY <1>3 DEF Quotient
  <2>2. n \div Milli \in Nat /\ n = Milli * (n \div Milli) + (n % Milli)
    BY <1>1, <2>1
  <2>3. QED
    BY <1>1, <2>1, <2>2
<1>4. QED
  BY <1>2, <1>3

\* A second is so many milliseconds.
LEMMA WholeSecond == Second \div Milli \in Nat /\ Second = Milli * (Second \div Milli)
<1>1. Second % Milli = 0
  BY ClockAssumption
<1>2. QED
  BY <1>1, Division

\* A time is its seconds and the rest.
LEMMA SecUsec ==
  ASSUME NEW t \in Nat
  PROVE  /\ Sec(t) \in Nat /\ Usec(t) \in Nat /\ Usec(t) < Second /\ Sec(t) >= Epoch
         /\ t = Second * (Sec(t) - Epoch) + Usec(t)
<1>1. /\ t \div Second \in Nat /\ t % Second \in Nat /\ t % Second < Second
      /\ t = Second * (t \div Second) + (t % Second)
  BY Division
<1>2. QED
  BY <1>1 DEF Sec, Usec

\* The time a check took is right to the millisecond.
LEMMA UseTimeRight ==
  ASSUME NEW b \in Nat, NEW e \in Nat
  PROVE  LET d == UseTime(b, e) * Milli - (e - b)
         IN  -Milli < d /\ d < Milli /\ UseTime(b, e) \in Int
<1> DEFINE s == Sec(e) - Sec(b)
           u == Usec(e) - Usec(b)
           k == Second \div Milli
           q == Quotient(u, Milli)
<1>1. s \in Int /\ u \in Int /\ k \in Nat /\ Second = Milli * k /\ q \in Int
  <2>1. s \in Int /\ u \in Int
    BY SecUsec
  <2> HIDE DEF u
  <2>2. q \in Int
    BY <2>1, QuotientNear
  <2>3. QED
    BY <2>1, <2>2, WholeSecond
<1>2. e - b = Second * s + u
  <2>1. /\ e = Second * (Sec(e) - Epoch) + Usec(e)
        /\ b = Second * (Sec(b) - Epoch) + Usec(b)
    BY SecUsec
  <2>2. Sec(e) \in Nat /\ Sec(b) \in Nat /\ Usec(e) \in Nat /\ Usec(b) \in Nat
    BY SecUsec
  <2>3. QED
    BY <2>1, <2>2
<1>3. UseTime(b, e) = s * k + q
  BY DEF UseTime
<1>4. -Milli < q * Milli - u /\ q * Milli - u < Milli
  BY <1>1, QuotientNear
<1> HIDE DEF s, u, k, q
<1>5. (s * k + q) * Milli = Second * s + q * Milli
  BY <1>1
<1>6. QED
  BY <1>1, <1>2, <1>3, <1>4, <1>5

\* tv_sub always borrows, and gives the difference nevertheless.
LEMMA RttRight ==
  ASSUME NEW r \in Nat, NEW s \in Nat
  PROVE  Rtt(r, s) \in Int /\ Rtt(r, s) = (r - s) \div Milli
<1> DEFINE a == Sec(r) - Sec(s) - 1
           u == Usec(r) + Second - Usec(s)
           k == Second \div Milli
<1>1. Usec(r) < Sec(s)
  BY SecUsec
<1>2. a \in Int /\ u \in Nat /\ k \in Nat /\ Second = Milli * k
  BY SecUsec, WholeSecond
<1>3. Rtt(r, s) = a * k + u \div Milli
  BY <1>1, <1>2 DEF Rtt, TvSub, Quotient
<1>4. r - s = Second * a + u
  <2>1. /\ r = Second * (Sec(r) - Epoch) + Usec(r)
        /\ s = Second * (Sec(s) - Epoch) + Usec(s)
    BY SecUsec
  <2>2. Sec(r) \in Nat /\ Sec(s) \in Nat /\ Usec(r) \in Nat /\ Usec(s) \in Nat
    BY SecUsec
  <2>3. QED
    BY <2>1, <2>2
<1> HIDE DEF a, u, k
<1>5. Second * a = (a * k) * Milli
  BY <1>2
<1>6. \A x \in Int, n \in Nat : (x * Milli + n) \div Milli = x + n \div Milli
  OBVIOUS
<1>7. a * k \in Int /\ u \div Milli \in Int
  BY <1>2, Division
<1>8. r - s = (a * k) * Milli + u
  BY <1>4, <1>5
<1>9. ((a * k) * Milli + u) \div Milli = a * k + u \div Milli
  <2> DEFINE x == a * k
  <2>1. x \in Int
    BY <1>7
  <2> HIDE DEF x
  <2>2. (x * Milli + u) \div Milli = x + u \div Milli
    BY <1>2, <1>6, <2>1
  <2>3. QED
    BY <2>2 DEF x
<1>10. (r - s) \div Milli = a * k + u \div Milli
  BY <1>8, <1>9, Zenon
<1>11. a * k + u \div Milli \in Int
  BY <1>7
<1>12. QED
  BY <1>3, <1>10, <1>11, Zenon

----------------------------------------------------------------------------
(* What a step is.                                                         *)

CheckActs == \/ Excute \/ SetAddress \/ SocketFail \/ Connect \/ ConnectReady
             \/ ConnectTimeout \/ SendBegin \/ SendWrite \/ SendBlocked \/ SendError
             \/ SendReady \/ SendTimeout \/ SendDone \/ RecvReady \/ RecvNone
             \/ RecvSome \/ RecvLast \/ Disconnection \/ CheckReturn \/ ServerStep
PingActs  == \/ CallPing \/ SocketFails \/ OpenRaw \/ HostUnknown \/ SendPacket
             \/ Select \/ PingFault \/ SelectTimeout \/ SelectReady \/ ReceiveReply
             \/ Discard \/ PingClose \/ PingReturn

\* A step of the check, while there is no ping; of the ping, while there is no
\* check; of the network; or of time, when a select waits.
LEMMA Steps ==
  ASSUME OneCall, [Next]_probeVars
  PROVE  \/ CheckActs /\ ppc = "idle" /\ UNCHANGED pingVars
         \/ PingActs /\ cpc = "idle" /\ UNCHANGED checkVars
         \/ (EchoArrives \/ StrayArrives) /\ UNCHANGED <<checkVars, clockVars>>
         \/ /\ Advance /\ UNCHANGED <<checkVars, pingVars>>
            /\ cpc \in {"conn_wait", "send_wait", "recv_wait"} \/ ppc = "wait"
         \/ UNCHANGED <<clockVars, checkVars, pingVars>>
<1>1. CASE Call
  BY <1>1 DEF Call, Idle, CheckActs, PingActs
<1>2. CASE Tick
  BY <1>2 DEF Tick, Blocked, Waiting
<1>3. CASE CheckStep /\ UNCHANGED <<pingVars, calls>>
  <2>1. cpc # "idle"
    BY <1>3
      DEF CheckStep, SetAddress, SocketFail, Connect, ConnectReady, ConnectTimeout,
          SendBegin, SendWrite, SendBlocked, SendError, SendReady, SendTimeout,
          SendDone, RecvReady, RecvNone, RecvSome, RecvLast, Disconnection, CheckReturn
  <2>2. CheckActs
    BY <1>3 DEF CheckStep, CheckActs
  <2>3. QED
    BY <1>3, <2>1, <2>2 DEF OneCall
<1>4. CASE PingStep /\ UNCHANGED <<checkVars, calls>>
  <2>1. ppc # "idle"
    BY <1>4
      DEF PingStep, SocketFails, OpenRaw, HostUnknown, SendPacket, Select, PingFault,
          SelectTimeout, SelectReady, ReceiveReply, Discard, PingClose, PingReturn
  <2>2. PingActs
    BY <1>4 DEF PingStep, PingActs
  <2>3. QED
    BY <1>4, <2>1, <2>2 DEF OneCall
<1>5. CASE World
  <2>1. CASE ServerStep /\ UNCHANGED <<pingVars, calls>>
    BY <2>1 DEF ServerStep, OneCall, CheckActs
  <2>2. CASE (EchoArrives \/ StrayArrives) /\ UNCHANGED <<checkVars, calls>>
    BY <2>2 DEF EchoArrives, StrayArrives
  <2>3. QED
    BY <1>5, <2>1, <2>2 DEF World
<1>6. QED
  BY <1>1, <1>2, <1>3, <1>4, <1>5 DEF Next, Probe

\* One call at a time.
LEMMA OneCallStep ==
  ASSUME OneCall, [Next]_probeVars
  PROVE  OneCall'
<1>1. EchoArrives \/ StrayArrives => UNCHANGED ppc
  BY DEF EchoArrives, StrayArrives
<1>2. QED
  BY <1>1, Steps DEF OneCall

----------------------------------------------------------------------------
(* The check.                                                              *)

\* What the server and the kernel hold.
LEMMA ServerStays ==
  ASSUME ProbesInv, [Next]_probeVars
  PROVE  Server'
<1> USE DEF ProbesInv, TypeInv, Server, Early, Sending
<1>0. AnswerMax \in Nat /\ SocketRoom \in Nat
  BY Numbers
<1>1. CASE Excute
  BY <1>1 DEF Excute
<1>2. CASE SetAddress
  BY <1>2 DEF SetAddress, Set, Fail
<1>3. CASE SocketFail
  BY <1>3 DEF SocketFail, Set, Fail
<1>4. CASE Connect
  <2>1. inq = 0 /\ inq' = inq /\ ~(cpc' \in Early) /\ UNCHANGED got
        /\ cpc' \in {"send_begin", "conn_wait", "close"}
    BY <1>4 DEF Connect, Fail
  <2>2. CASE peer' = "up" /\ room' = SocketRoom /\ answer' = AnswerMax
    BY <1>0, <2>1, <2>2
  <2>3. CASE UNCHANGED <<peer, room, answer>> /\ cpc' \in {"conn_wait", "close"}
    BY <2>1, <2>3
  <2>4. QED
    BY <1>4, <2>2, <2>3 DEF Connect, Fail
<1>5. CASE ConnectReady
  BY <1>5 DEF ConnectReady, Ready, Established, LeaveSelect, LeaveLeft, Set, Fail
<1>6. CASE ConnectTimeout
  BY <1>6 DEF ConnectTimeout, TimedOut, Interrupted, Set, Fail, LeaveSelect,
     LeaveLeft
<1>7. CASE SendBegin
  BY <1>7 DEF SendBegin, Set, Fail
<1>8. CASE SendWrite
  BY <1>8 DEF SendWrite
<1>9. CASE SendBlocked
  BY <1>9 DEF SendBlocked, EnterSelect
<1>10. CASE SendError
  BY <1>10 DEF SendError, Set, Fail
<1>11. CASE SendReady
  BY <1>11 DEF SendReady, Ready, Interrupted, Set, LeaveSelect, LeaveLeft
<1>12. CASE SendTimeout
  BY <1>12 DEF SendTimeout, TimedOut, SendGivesUp, LeaveSelect, LeaveLeft
<1>13. CASE SendDone
  BY <1>13 DEF SendDone, AllSent, Set, EnterSelect
<1>14. CASE RecvReady
  BY <1>14 DEF RecvReady, Ready, LeaveSelect, LeaveLeft
<1>15. CASE RecvNone
  BY <1>15 DEF RecvNone, TimedOut, Interrupted, Set, Fail, LeaveSelect, LeaveLeft
<1>16. CASE RecvSome
  BY <1>16 DEF RecvSome, MoreRoom
<1>17. CASE RecvLast
  BY <1>17 DEF RecvLast, MoreRoom, RecvEnd
<1>18. CASE Disconnection
  BY <1>18 DEF Disconnection, Closed
<1>19. CASE CheckReturn
  BY <1>19 DEF CheckReturn, NoResult
<1>20. CASE ServerStep
  <2>1. CASE /\ peer = "syn" /\ peer' \in {"up", "refused"}
             /\ room' = SocketRoom /\ answer' = AnswerMax /\ UNCHANGED inq
    BY <1>0, <1>20, <2>1 DEF ServerStep
  <2>2. CASE /\ peer = "up" /\ peer' \in {"eof", "reset"}
             /\ UNCHANGED <<room, inq, answer>>
    BY <1>0, <1>20, <2>2 DEF ServerStep
  <2>3. CASE room' = SocketRoom /\ UNCHANGED <<peer, inq, answer>>
    BY <1>0, <1>20, <2>3 DEF ServerStep
  <2>4. CASE /\ peer = "up" /\ UNCHANGED <<peer, room>>
             /\ \E n \in 1 .. answer : inq' = inq + n /\ answer' = answer - n
    BY <1>0, <1>20, <2>4 DEF ServerStep
  <2>5. QED
    BY <1>20, <2>1, <2>2, <2>3, <2>4 DEF ServerStep
<1>21. CheckActs => Server'
  BY <1>1, <1>2, <1>3, <1>4, <1>5, <1>6, <1>7, <1>8, <1>9, <1>10, <1>11, <1>12,
     <1>13, <1>14, <1>15, <1>16, <1>17, <1>18, <1>19, <1>20 DEF CheckActs
<1>22. CASE UNCHANGED checkVars
  BY <1>22
<1>23. QED
  BY <1>21, <1>22, Steps

\* The stages fill the result in their order.
LEMMA ResultsStep ==
  ASSUME ProbesInv, [Next]_probeVars
  PROVE  Results'
<1> USE DEF ProbesInv, TypeInv, ResultType, Server, Results, Early, Sending, Over
<1>1. CASE Excute
  BY <1>1 DEF Excute
<1>2. CASE SetAddress
  BY <1>2 DEF SetAddress, Set, Fail
<1>3. CASE SocketFail
  BY <1>3 DEF SocketFail, Set, Fail
<1>4. CASE Connect
  BY <1>4 DEF Connect, Set, Fail, EnterSelect
<1>5. CASE ConnectReady
  BY <1>5 DEF ConnectReady, Ready, Established, LeaveSelect, LeaveLeft, Set, Fail
<1>6. CASE ConnectTimeout
  BY <1>6 DEF ConnectTimeout, TimedOut, Interrupted, Set, Fail, LeaveSelect,
     LeaveLeft
<1>7. CASE SendBegin
  BY <1>7 DEF SendBegin, Set, Fail
<1>8. CASE SendWrite
  BY <1>8 DEF SendWrite
<1>9. CASE SendBlocked
  BY <1>9 DEF SendBlocked, EnterSelect
<1>10. CASE SendError
  BY <1>10 DEF SendError, Set, Fail
<1>11. CASE SendReady
  BY <1>11 DEF SendReady, Ready, Interrupted, Set, LeaveSelect, LeaveLeft
<1>12. CASE SendTimeout
  BY <1>12 DEF SendTimeout, TimedOut, SendGivesUp, LeaveSelect, LeaveLeft
<1>13. CASE SendDone
  BY <1>13 DEF SendDone, AllSent, Set, EnterSelect
<1>14. CASE RecvReady
  BY <1>14 DEF RecvReady, Ready, LeaveSelect, LeaveLeft
<1>15. CASE RecvNone
  BY <1>15 DEF RecvNone, TimedOut, Interrupted, Set, Fail, LeaveSelect, LeaveLeft
<1>16. CASE RecvSome
  <2>1. PICK n \in 1 .. inq : /\ got' = got + n /\ inq' = inq - n
                             /\ result' = [result EXCEPT !["recv"] = "OK", !["bytes"] = @ + n]
    BY <1>16 DEF RecvSome
  <2>2. /\ result'.recv = "OK" /\ result'.bytes = result.bytes + n
        /\ result'.conn = result.conn /\ result'.send = result.send
        /\ result'.dns = result.dns
    BY <2>1
  <2>3. got' > 0 /\ cpc = "recv" /\ UNCHANGED cpc
    BY <1>16, <2>1 DEF RecvSome
  <2>4. QED
    BY <2>1, <2>2, <2>3
<1>17. CASE RecvLast
  BY <1>17 DEF RecvLast, MoreRoom, RecvEnd
<1>18. CASE Disconnection
  BY <1>18 DEF Disconnection, Closed
<1>19. CASE CheckReturn
  BY <1>19 DEF CheckReturn, NoResult
<1>20. CASE ServerStep
  <2>1. CASE /\ peer = "syn" /\ peer' \in {"up", "refused"}
             /\ room' = SocketRoom /\ answer' = AnswerMax /\ UNCHANGED inq
    BY <1>20, <2>1 DEF ServerStep
  <2>2. CASE /\ peer = "up" /\ peer' \in {"eof", "reset"}
             /\ UNCHANGED <<room, inq, answer>>
    BY <1>20, <2>2 DEF ServerStep
  <2>3. CASE room' = SocketRoom /\ UNCHANGED <<peer, inq, answer>>
    BY <1>20, <2>3 DEF ServerStep
  <2>4. CASE /\ peer = "up" /\ UNCHANGED <<peer, room>>
             /\ \E n \in 1 .. answer : inq' = inq + n /\ answer' = answer - n
    BY <1>20, <2>4 DEF ServerStep
  <2>5. QED
    BY <1>20, <2>1, <2>2, <2>3, <2>4 DEF ServerStep
<1>21. CheckActs => Results'
  BY <1>1, <1>2, <1>3, <1>4, <1>5, <1>6, <1>7, <1>8, <1>9, <1>10, <1>11, <1>12,
     <1>13, <1>14, <1>15, <1>16, <1>17, <1>18, <1>19, <1>20 DEF CheckActs
<1>22. CASE UNCHANGED checkVars
  BY <1>22
<1>23. QED
  BY <1>21, <1>22, Steps

\* The request is written to its end, and not beyond.
LEMMA RequestStep ==
  ASSUME ProbesInv, [Next]_probeVars
  PROVE  Request'
<1> USE DEF ProbesInv, TypeInv, Server, Request, Early
<1>1. CASE Excute
  BY <1>1 DEF Excute
<1>2. CASE SetAddress
  BY <1>2 DEF SetAddress, Set, Fail
<1>3. CASE SocketFail
  BY <1>3 DEF SocketFail, Set, Fail
<1>4. CASE Connect
  BY <1>4 DEF Connect, Set, Fail, EnterSelect
<1>5. CASE ConnectReady
  BY <1>5 DEF ConnectReady, Ready, Established, LeaveSelect, LeaveLeft, Set, Fail
<1>6. CASE ConnectTimeout
  BY <1>6 DEF ConnectTimeout, TimedOut, Interrupted, Set, Fail, LeaveSelect,
     LeaveLeft
<1>7. CASE SendBegin
  BY <1>7 DEF SendBegin, Set, Fail
<1>8. CASE SendWrite
  BY <1>8 DEF SendWrite
<1>9. CASE SendBlocked
  BY <1>9 DEF SendBlocked, EnterSelect
<1>10. CASE SendError
  BY <1>10 DEF SendError, Set, Fail
<1>11. CASE SendReady
  BY <1>11 DEF SendReady, Ready, Interrupted, Set, LeaveSelect, LeaveLeft
<1>12. CASE SendTimeout
  BY <1>12 DEF SendTimeout, TimedOut, SendGivesUp, LeaveSelect, LeaveLeft
<1>13. CASE SendDone
  BY <1>13 DEF SendDone, AllSent, Set, EnterSelect
<1>14. CASE RecvReady
  BY <1>14 DEF RecvReady, Ready, LeaveSelect, LeaveLeft
<1>15. CASE RecvNone
  BY <1>15 DEF RecvNone, TimedOut, Interrupted, Set, Fail, LeaveSelect, LeaveLeft
<1>16. CASE RecvSome
  BY <1>16 DEF RecvSome, MoreRoom
<1>17. CASE RecvLast
  BY <1>17 DEF RecvLast, MoreRoom, RecvEnd
<1>18. CASE Disconnection
  BY <1>18 DEF Disconnection, Closed
<1>19. CASE CheckReturn
  BY <1>19 DEF CheckReturn, NoResult
<1>20. CASE ServerStep
  BY <1>20 DEF ServerStep, Established
<1>21. CheckActs => Request'
  BY <1>1, <1>2, <1>3, <1>4, <1>5, <1>6, <1>7, <1>8, <1>9, <1>10, <1>11, <1>12,
     <1>13, <1>14, <1>15, <1>16, <1>17, <1>18, <1>19, <1>20 DEF CheckActs
<1>22. CASE UNCHANGED checkVars
  BY <1>22
<1>23. QED
  BY <1>21, <1>22, Steps
\* A select of the check adds at most what the timeval has left.
LEMMA CheckWaitsStep ==
  ASSUME ProbesInv, [Next]_probeVars
  PROVE  CheckWaits'
<1> USE DEF ProbesInv, TypeInv, OneCall, Server, CheckWaits, Rounds, Early, Sending,
            Over
<1>0. /\ Limit \in Nat /\ Rounds \in Nat \ {0} /\ (rounds = 0 => Rounds = 1)
      /\ \A n \in Nat : Limit * (2 + n) = Limit * (1 + n) + Limit
      /\ \A n \in Nat : Limit * n >= 0
  BY Numbers
<1>1. CASE Excute
  BY <1>0, <1>1 DEF Excute
<1>2. CASE SetAddress
  BY <1>0, <1>2 DEF SetAddress, Set, Fail
<1>3. CASE SocketFail
  BY <1>0, <1>3 DEF SocketFail, Set, Fail
<1>4. CASE Connect
  <2>1. /\ first' = now /\ began' = now /\ sock' = TRUE /\ rounds' = 0 /\ now' = now
        /\ cpc' \in {"send_begin", "conn_wait", "close"} /\ now \in Nat
        /\ cpc' = "conn_wait" => left' = Limit /\ until' = now + Limit
    BY <1>4 DEF Connect, Fail, EnterSelect
  <2>2. Rounds' = 1
    BY <2>1
  <2>3. QED
    BY <1>0, <2>1, <2>2
<1>5. CASE ConnectReady
  <2>1. /\ cpc = "conn_wait" /\ cpc' \in {"send_begin", "close"}
        /\ UNCHANGED <<now, updates, first, began, rounds, sock>>
    BY <1>5 DEF ConnectReady, Fail, LeaveSelect
  <2>2. /\ now - first <= Limit /\ rounds = 0 /\ (sock => first <= now)
        /\ now \in Nat /\ first \in Nat
    BY <2>1
  <2>3. Rounds' = 1 /\ Limit * (2 + 1) >= Limit
    BY <1>0, <2>1, <2>2
  <2>4. QED
    BY <1>0, <2>1, <2>2, <2>3
<1>6. CASE ConnectTimeout
  BY <1>0, <1>6 DEF ConnectTimeout, TimedOut, Interrupted, Set, Fail, LeaveSelect,
     LeaveLeft
<1>7. CASE SendBegin
  BY <1>0, <1>7 DEF SendBegin, Set, Fail
<1>8. CASE SendWrite
  BY <1>0, <1>8 DEF SendWrite
<1>9. CASE SendBlocked
  BY <1>0, <1>9 DEF SendBlocked, EnterSelect
<1>10. CASE SendError
  BY <1>0, <1>10 DEF SendError, Set, Fail
<1>11. CASE SendReady
  <2>1. /\ cpc = "send_wait" /\ cpc' = "send"
        /\ UNCHANGED <<now, updates, first, began, rounds, sock>>
        /\ left' = IF updates THEN until - now ELSE left
    BY <1>11 DEF SendReady, LeaveSelect, LeaveLeft
  <2>2. CASE updates
    BY <1>0, <2>1, <2>2
  <2>3. CASE ~updates
    <3>1. left = Limit /\ now <= until /\ until - began <= Limit * rounds
      BY <2>1, <2>3
    <3>2. now - began <= Limit * rounds
      BY <1>0, <3>1
    <3>3. QED
      BY <2>1, <2>3, <3>1, <3>2
  <2>4. QED
    BY <2>2, <2>3
<1>12. CASE SendTimeout
  BY <1>0, <1>12 DEF SendTimeout, TimedOut, SendGivesUp, LeaveSelect, LeaveLeft
<1>13. CASE SendDone
  BY <1>0, <1>13 DEF SendDone, AllSent, Set, EnterSelect
<1>14. CASE RecvReady
  <2>1. /\ cpc = "recv_wait" /\ cpc' = "recv"
        /\ UNCHANGED <<now, updates, first, began, rounds, sock>>
    BY <1>14 DEF RecvReady, LeaveSelect
  <2>2. /\ now <= began + Limit /\ began - first <= Limit * (1 + Rounds)
        /\ sock => first <= now
    BY <2>1
  <2>3. now - first <= Limit * (2 + Rounds) /\ Rounds' = Rounds
    <3>1. Limit * (2 + Rounds) = Limit * (1 + Rounds) + Limit
      BY <1>0
    <3>2. Limit * (1 + Rounds) \in Int
      BY <1>0
    <3>3. Rounds' = Rounds
      BY <2>1
    <3> HIDE DEF Rounds
    <3>4. QED
      BY <1>0, <2>2, <3>1, <3>2, <3>3
  <2>4. QED
    BY <2>1, <2>2, <2>3
<1>15. CASE RecvNone
  BY <1>0, <1>15 DEF RecvNone, TimedOut, Interrupted, Set, Fail, LeaveSelect,
     LeaveLeft
<1>16. CASE RecvSome
  BY <1>0, <1>16 DEF RecvSome, MoreRoom
<1>17. CASE RecvLast
  BY <1>0, <1>17 DEF RecvLast, MoreRoom, RecvEnd
<1>18. CASE Disconnection
  BY <1>0, <1>18 DEF Disconnection, Closed
<1>19. CASE CheckReturn
  BY <1>0, <1>19 DEF CheckReturn, NoResult
<1>20. CASE ServerStep
  BY <1>0, <1>20 DEF ServerStep, Established
<1>21. CheckActs => CheckWaits'
  BY <1>1, <1>2, <1>3, <1>4, <1>5, <1>6, <1>7, <1>8, <1>9, <1>10, <1>11, <1>12,
     <1>13, <1>14, <1>15, <1>16, <1>17, <1>18, <1>19, <1>20 DEF CheckActs
<1>22. CASE PingActs /\ cpc = "idle" /\ UNCHANGED checkVars
  BY <1>22
<1>23. CASE /\ Advance /\ UNCHANGED checkVars
            /\ cpc \in {"conn_wait", "send_wait", "recv_wait"} \/ ppc = "wait"
  <2>1. now \in Nat /\ now' = now + 1 /\ now < until /\ UNCHANGED <<left, until, updates>>
    BY <1>23 DEF Advance
  <2>2. Rounds' = Rounds
    BY <1>23, <2>1
  <2>3. CASE cpc = "conn_wait"
    BY <1>0, <1>23, <2>1, <2>3
  <2>4. CASE cpc = "send_wait"
    BY <1>0, <1>23, <2>1, <2>4
  <2>5. CASE cpc = "recv_wait"
    <3>1. Limit * (1 + Rounds) \in Int
      BY <1>0
    <3> HIDE DEF Rounds
    <3>2. QED
      BY <1>23, <2>1, <2>2, <2>5, <3>1
  <2>6. CASE ppc = "wait"
    BY <1>23, <2>6
  <2>7. QED
    BY <1>23, <2>3, <2>4, <2>5, <2>6
<1>24. CASE UNCHANGED <<clockVars, checkVars>>
  BY <1>24
<1>25. QED
  BY <1>21, <1>22, <1>23, <1>24, Steps

\* What the check reports stays true until the caller has it.
LEMMA ReportedStep ==
  ASSUME ProbesInv, [Next]_probeVars
  PROVE  Reported'
<1> USE DEF ProbesInv, TypeInv, ResultType, OneCall, Server, Results, Request,
            CheckWaits, Reported, Early, Sending, Over
<1>0. Limit \in Nat
  BY Numbers
<1>1. CASE Excute
  BY <1>0, <1>1 DEF Excute
<1>2. CASE SetAddress
  BY <1>0, <1>2 DEF SetAddress, Set, Fail
<1>3. CASE SocketFail
  BY <1>0, <1>3 DEF SocketFail, Set, Fail
<1>4. CASE Connect
  BY <1>0, <1>4 DEF Connect, Set, Fail, EnterSelect
<1>5. CASE ConnectReady
  BY <1>0, <1>5 DEF ConnectReady, Ready, Established, LeaveSelect, LeaveLeft, Set,
     Fail
<1>6. CASE ConnectTimeout
  BY <1>0, <1>6 DEF ConnectTimeout, TimedOut, Interrupted, Set, Fail, LeaveSelect,
     LeaveLeft
<1>7. CASE SendBegin
  BY <1>0, <1>7 DEF SendBegin, Set, Fail
<1>8. CASE SendWrite
  BY <1>0, <1>8 DEF SendWrite
<1>9. CASE SendBlocked
  BY <1>0, <1>9 DEF SendBlocked, EnterSelect
<1>10. CASE SendError
  BY <1>0, <1>10 DEF SendError, Set, Fail
<1>11. CASE SendReady
  BY <1>0, <1>11 DEF SendReady, Ready, Interrupted, Set, LeaveSelect, LeaveLeft
<1>12. CASE SendTimeout
  BY <1>0, <1>12 DEF SendTimeout, TimedOut, SendGivesUp, LeaveSelect, LeaveLeft
<1>13. CASE SendDone
  BY <1>0, <1>13 DEF SendDone, AllSent, Set, EnterSelect
<1>14. CASE RecvReady
  BY <1>0, <1>14 DEF RecvReady, Ready, LeaveSelect, LeaveLeft
<1>15. CASE RecvNone
  BY <1>0, <1>15 DEF RecvNone, TimedOut, Interrupted, Set, Fail, LeaveSelect,
     LeaveLeft
<1>16. CASE RecvSome
  BY <1>0, <1>16 DEF RecvSome, MoreRoom
<1>17. CASE RecvLast
  <2>1. PICK code \in {"CONN_ERROR", "SYS_ERROR", "OK"} :
          /\ RecvEnd(code) /\ (code = "OK" => got > 0)
    BY <1>17 DEF RecvLast, MoreRoom
  <2>2. /\ cpc = "recv" /\ cpc' = "close"
        /\ UNCHANGED <<now, peer, began, broken, len, offset, sentAt, got>>
    BY <1>17 DEF RecvLast, RecvEnd
  <2>3. /\ result'.recv = code
        /\ result'.time = IF code = "OK" THEN UseTime(sentAt, now) ELSE result.time
        /\ result'.conn = "OK" /\ result'.send = "OK" /\ result'.dns = result.dns
        /\ result'.bytes = result.bytes
    <3>1. result.conn = "OK" /\ result.send = "OK" /\ result \in ResultType
      BY <2>2
    <3>2. CASE code = "OK"
      <4>1. result' = [result EXCEPT !["recv"] = "OK", !["time"] = UseTime(sentAt, now)]
        BY <2>1, <3>2 DEF RecvEnd
      <4>2. QED
        BY <3>1, <3>2, <4>1
    <3>3. CASE code # "OK"
      BY <2>1, <3>1, <3>3 DEF RecvEnd
    <3>4. QED
      BY <3>2, <3>3
  <2>4. UseTime(sentAt, now)' = UseTime(sentAt, now)
    BY <2>2 DEF UseTime, Sec, Usec
  <2>5. QED
    <3>1. cpc = "recv" /\ result.bytes = got /\ result.dns # "PARSE_DNS_FAIL"
          /\ len \in Nat /\ offset = len /\ peer \in {"up", "eof", "reset"}
      BY <2>2
    <3>2. /\ cpc' = "close" /\ len' # NoBuffer /\ offset' = len'
          /\ peer' \in {"up", "eof", "reset"}
      BY <2>2, <3>1
    <3> HIDE DEF TypeInv, Server, Results, Request, CheckWaits, ResultType
    <3>3. UNCHANGED <<got, began, broken>> /\ (code = "OK" => got > 0)
      BY <2>1, <2>2
    <3>4. QED
      BY <2>1, <2>2, <2>3, <2>4, <3>1, <3>2, <3>3
<1>18. CASE Disconnection
  BY <1>0, <1>18 DEF Disconnection, Closed
<1>19. CASE CheckReturn
  BY <1>0, <1>19 DEF CheckReturn, NoResult
<1>20. CASE ServerStep
  BY <1>0, <1>20 DEF ServerStep, Established
<1>21. CheckActs => Reported'
  BY <1>1, <1>2, <1>3, <1>4, <1>5, <1>6, <1>7, <1>8, <1>9, <1>10, <1>11, <1>12,
     <1>13, <1>14, <1>15, <1>16, <1>17, <1>18, <1>19, <1>20 DEF CheckActs
<1>22. CASE PingActs /\ cpc = "idle" /\ UNCHANGED checkVars
  BY <1>22
<1>23. CASE /\ Advance /\ UNCHANGED checkVars
            /\ cpc \in {"conn_wait", "send_wait", "recv_wait"} \/ ppc = "wait"
  BY <1>23 DEF Advance
<1>24. CASE UNCHANGED <<clockVars, checkVars>>
  BY <1>24
<1>25. QED
  BY <1>21, <1>22, <1>23, <1>24, Steps

----------------------------------------------------------------------------
(* The ping.                                                               *)

\* What waits on the raw socket is packets, as many as it has room for.
LEMMA Received ==
  ASSUME TypeInv, EchoArrives \/ StrayArrives
  PROVE  /\ queue' \in Seq(Packet) /\ (queue # <<>> => queue' # <<>>)
         /\ Len(queue) <= MaxQueue => Len(queue') <= MaxQueue
<1>0. MaxQueue \in Nat /\ queue \in Seq(Packet) /\ now \in Nat /\ flight \subseteq Nat
  BY Numbers DEF TypeInv
<1>1. PICK p \in Packet : queue' = Receive(p)
  <2>1. CASE EchoArrives
    <3>1. PICK t \in flight : queue' = Receive([from |-> TRUE, echo |-> TRUE, sent |-> t])
      BY <2>1 DEF EchoArrives
    <3>2. [from |-> TRUE, echo |-> TRUE, sent |-> t] \in Packet
      BY <1>0 DEF Packet
    <3>3. QED
      BY <3>1, <3>2
  <2>2. CASE StrayArrives
    <3> DEFINE P == {<<FALSE, TRUE, now>>, <<TRUE, FALSE, now>>}
                      \cup {<<TRUE, TRUE, t>> : t \in 0 .. now}
    <3>1. /\ Stray(<<FALSE, TRUE, now>>) \in Packet
          /\ Stray(<<TRUE, FALSE, now>>) \in Packet
      BY <1>0 DEF Stray, Packet
    <3>2. ASSUME NEW t \in 0 .. now
          PROVE  Stray(<<TRUE, TRUE, t>>) \in Packet
      BY <1>0 DEF Stray, Packet
    <3>3. \A p \in P : Stray(p) \in Packet
      BY <3>1, <3>2
    <3>4. \E p \in P : queue' = Receive(Stray(p))
      BY <2>2 DEF StrayArrives
    <3> HIDE DEF P
    <3>5. QED
      BY <3>3, <3>4
  <2>3. QED
    BY <2>1, <2>2
<1>2. Append(queue, p) \in Seq(Packet) /\ Len(Append(queue, p)) = Len(queue) + 1
  BY <1>0, <1>1
<1>3. Append(queue, p) # <<>>
  BY <1>0, <1>2
<1>4. Len(queue) \in Nat
  BY <1>0
<1>5. QED
  BY <1>0, <1>1, <1>2, <1>3, <1>4 DEF Receive

\* recvfrom takes the first.
LEMMA Looked ==
  ASSUME TypeInv, queue # <<>>
  PROVE  /\ Head(queue) \in Packet /\ Tail(queue) \in Seq(Packet)
         /\ \A n \in Nat : Len(queue) <= n => Len(Tail(queue)) <= n
<1>1. queue \in Seq(Packet)
  BY DEF TypeInv
<1>2. Head(queue) \in Packet /\ Tail(queue) \in Seq(Packet) /\ Len(queue) \in Nat
      /\ Len(Tail(queue)) = Len(queue) - 1
  BY <1>1
<1>3. QED
  BY <1>2

\* A ping counts its packets, and its socket is closed or leaked.
LEMMA PingCountsStep ==
  ASSUME ProbesInv, [Next]_probeVars
  PROVE  PingCounts'
<1> USE DEF ProbesInv, PingCounts
<1>0. ReplyWait \in Nat /\ MaxPackets \in Nat /\ MaxQueue \in Nat
      /\ cnt \in Nat /\ now \in Nat /\ left \in Nat /\ until \in Nat
      /\ leaked \in Nat /\ unknown \in Nat /\ raw \in BOOLEAN
      /\ reply.nsend \in Nat /\ reply.nreceived \in Nat /\ Len(queue) \in Nat
  <2>1. reply.nsend \in Nat /\ reply.nreceived \in Nat
    BY DEF TypeInv, ReplyType
  <2>2. queue \in Seq(Packet) => Len(queue) \in Nat
    OBVIOUS
  <2>3. QED
    BY <2>1, <2>2 DEF TypeInv
<1>t. TypeInv /\ reply \in ReplyType
  BY DEF TypeInv
<1>1. CASE CallPing
  BY <1>0, <1>1 DEF CallPing
<1>2. CASE SocketFails
  BY <1>0, <1>2 DEF SocketFails, Fault, Finish
<1>3. CASE OpenRaw
  BY <1>0, <1>3 DEF OpenRaw
<1>4. CASE HostUnknown
  <2>1. /\ ppc = "address" /\ ppc' = "done" /\ unknown' = unknown + 1
        /\ UNCHANGED <<raw, cnt, queue, leaked>>
    BY <1>4 DEF HostUnknown, Finish
  <2>2. reply'.nsend = 0 /\ reply'.nreceived = 0
    <3>1. reply = NoReply /\ reply' = [reply EXCEPT !.error = "unknown host"]
      BY <1>4 DEF HostUnknown, Finish
    <3>2. QED
      BY <3>1 DEF NoReply
  <2>3. QED
    BY <1>0, <2>1, <2>2
<1>5. CASE SendPacket
  <2>1. /\ ppc = "address" /\ ppc' = "select" /\ cnt = 0
        /\ UNCHANGED <<raw, cnt, queue, leaked, unknown>>
    BY <1>5 DEF SendPacket
  <2>2. reply'.nsend = MaxPackets /\ reply'.nreceived = 0
    <3>1. reply = NoReply /\ reply' = [reply EXCEPT !.nsend = MaxPackets]
      BY <1>5 DEF SendPacket
    <3>2. QED
      BY <3>1 DEF NoReply
  <2>3. QED
    BY <1>0, <2>1, <2>2
<1>6. CASE Select
  BY <1>0, <1>6 DEF Select, EnterSelect
<1>7. CASE PingFault
  <2>1. /\ ppc \in {"wait", "receive"} /\ ppc' = "select" /\ cnt' = cnt + 1
        /\ UNCHANGED <<raw, reply, took, leaked, unknown>>
    BY <1>7 DEF PingFault, CountOne
  <2>2. Len(queue') <= MaxQueue
    <3>1. UNCHANGED queue \/ (queue' = Tail(queue) /\ queue # <<>>)
      BY <1>7 DEF PingFault
    <3>2. QED
      BY <1>0, <1>t, <3>1, Looked
  <2>3. QED
    BY <1>0, <2>1, <2>2
<1>8. CASE SelectTimeout
  <2>1. /\ ppc = "wait" /\ ppc' = "select" /\ cnt' = cnt + 1
        /\ UNCHANGED <<raw, queue, took, leaked, unknown>>
    BY <1>8 DEF SelectTimeout, CountOne
  <2>2. reply'.nsend = reply.nsend /\ reply'.nreceived = reply.nreceived
    BY <1>t, <1>8 DEF SelectTimeout, ReplyType
  <2>3. QED
    BY <1>0, <2>1, <2>2
<1>9. CASE SelectReady
  BY <1>0, <1>9 DEF SelectReady, LeaveSelect, LeaveLeft
<1>10. CASE ReceiveReply
  <2>1. /\ ppc = "receive" /\ ppc' = "select" /\ cnt' = cnt + 1
        /\ UNCHANGED <<raw, leaked, unknown>>
    BY <1>10 DEF ReceiveReply, CountOne
  <2>2. Len(queue') <= MaxQueue
    BY <1>0, <1>t, <1>10, Looked DEF ReceiveReply
  <2>4. /\ reply'.nsend = reply.nsend /\ reply'.nreceived = reply.nreceived + 1
    <3> DEFINE r == Rtt(now, Head(queue).sent)
    <3> HIDE DEF r
    <3>1. reply' = [reply EXCEPT !.answered = TRUE, !.nreceived = @ + 1, !.rtt = r]
      BY <1>10 DEF ReceiveReply, r
    <3>2. QED
      BY <1>t, <3>1 DEF ReplyType
  <2>5. QED
    BY <1>0, <2>1, <2>2, <2>4
<1>11. CASE Discard
  <2>1. /\ ppc = "receive" /\ ppc' = "select"
        /\ UNCHANGED <<raw, cnt, reply, took, leaked, unknown>>
    BY <1>11 DEF Discard, Uncounted
  <2>2. Len(queue') <= MaxQueue
    BY <1>0, <1>t, <1>11, Looked DEF Discard
  <2>3. QED
    BY <1>0, <2>1, <2>2
<1>12. CASE PingClose
  BY <1>0, <1>12 DEF PingClose
<1>13. CASE PingReturn
  <2>1. /\ ppc = "done" /\ ppc' = "idle" /\ ~raw' /\ cnt' = 0 /\ reply' = NoReply
        /\ looks' = 0 /\ ~failed' /\ unknown' = unknown
        /\ leaked' = leaked + IF raw THEN 1 ELSE 0
    BY <1>13 DEF PingReturn
  <2>2. reply'.nsend = 0 /\ reply'.nreceived = 0 /\ Len(queue') = 0
    BY <1>13 DEF PingReturn, NoReply
  <2>3. QED
    BY <1>0, <2>1, <2>2
<1>14. CASE EchoArrives \/ StrayArrives
  <2>1. UNCHANGED <<ppc, pingCall, leaked, unknown, now, until>>
    BY <1>14 DEF EchoArrives, StrayArrives
  <2>2. Len(queue') <= MaxQueue /\ (queue # <<>> => queue' # <<>>)
    BY <1>0, <1>t, <1>14, Received
  <2>3. QED
    BY <2>1, <2>2
<1>15. CASE Advance /\ UNCHANGED pingVars /\ (Waiting \/ ppc = "wait")
  BY <1>0, <1>15 DEF Advance, Waiting
<1>16. CASE UNCHANGED pingVars /\ (ppc = "idle" \/ UNCHANGED clockVars)
  BY <1>16
<1>17. QED
  BY <1>1, <1>2, <1>3, <1>4, <1>5, <1>6, <1>7, <1>8, <1>9, <1>10, <1>11, <1>12,
     <1>13, <1>14, <1>15, <1>16, Steps DEF PingActs, Waiting

\* What the time of a ping depends on.
Sent     == reply.nsend > 0
Counting == ppc = "receive" \/ (ppc = "select" /\ cnt = 0)

\* A step of a ping that has one packet, as far as its waiting goes.
LEMMA PingMoves ==
  ASSUME ProbesInv, OnePacket, [Next]_probeVars
  PROVE  \/ ~Sent' /\ ~Counting' /\ ppc' # "wait"
         \/ /\ ppc' = "select" /\ cnt' = 0 /\ left' = ReplyWait /\ pinged' = now
            /\ now' = now /\ Spell' = 0 /\ UNCHANGED updates
         \/ /\ ppc = "select" /\ cnt = 0 /\ ppc' = "wait" /\ EnterSelect(left)
            /\ UNCHANGED <<pinged, looks, reply>>
         \/ /\ ppc = "wait" /\ ppc' = "receive" /\ LeaveSelect
            /\ UNCHANGED <<pinged, looks, reply>>
         \/ /\ ppc \in {"wait", "receive"} /\ ppc' = "select" /\ cnt' = 1 /\ now' = now
            /\ looks' \in {looks, looks + 1}
            /\ reply.nsend = 1 /\ UNCHANGED <<pinged, updates>>
         \/ /\ ppc = "receive" /\ ppc' = "select" /\ looks' = looks + 1
            /\ reply.nsend = 1 /\ UNCHANGED <<clockVars, pinged, reply, cnt>>
         \/ /\ ppc = "select" /\ cnt = 1 /\ ppc' = "done"
            /\ UNCHANGED <<clockVars, pinged, looks, reply>>
         \/ /\ ppc = "wait" /\ Advance /\ UNCHANGED <<ppc, pinged, looks, reply, cnt>>
         \/ UNCHANGED <<clockVars, ppc, pinged, looks, reply, cnt>>
<1>0. /\ PingCounts /\ TypeInv /\ OneCall /\ MaxPackets = 1 /\ cnt \in Nat
  BY DEF ProbesInv, TypeInv, OnePacket
<1>n. NoReply.nsend = 0
  BY DEF NoReply
<1>c. /\ ppc \in {"idle", "socket", "address"} => reply.nsend = 0 /\ cnt = 0 /\ looks = 0
      /\ ppc \in {"select", "wait", "receive"} => reply.nsend = 1
      /\ ppc \in {"wait", "receive"} => cnt = 0
      /\ cnt \in {0, 1}
  BY <1>0, <1>n DEF PingCounts
<1>1. CASE CallPing \/ OpenRaw
  BY <1>c, <1>1 DEF CallPing, OpenRaw, Sent, Counting
<1>2. CASE SocketFails \/ HostUnknown
  <2>1. \E error : reply' = [reply EXCEPT !.error = error]
    BY <1>2 DEF SocketFails, HostUnknown, Finish
  <2>2. reply'.nsend = reply.nsend
    BY <1>0, <2>1 DEF TypeInv, ReplyType
  <2>3. ppc' = "done" /\ ppc \in {"socket", "address"}
    BY <1>2 DEF SocketFails, HostUnknown, Finish
  <2>4. QED
    BY <1>c, <2>2, <2>3 DEF Sent, Counting
<1>3. CASE SendPacket
  <2>1. /\ ppc = "address" /\ ppc' = "select" /\ left' = ReplyWait /\ pinged' = now
        /\ now' = now /\ UNCHANGED <<cnt, looks, updates>>
    BY <1>3 DEF SendPacket
  <2>2. Spell' = 0
    BY <1>c, <2>1 DEF Spell
  <2>3. QED
    BY <1>c, <2>1, <2>2
<1>4. CASE Select
  BY <1>0, <1>c, <1>4 DEF Select
<1>5. CASE PingFault
  BY <1>c, <1>5 DEF PingFault, CountOne, LeaveSelect
<1>6. CASE SelectTimeout
  <2>1. /\ ppc = "wait" /\ ppc' = "select" /\ cnt' = cnt + 1
        /\ UNCHANGED <<now, updates, pinged, looks>>
    BY <1>6 DEF SelectTimeout, CountOne, LeaveSelect
  <2>2. QED
    BY <1>c, <2>1
<1>7. CASE SelectReady
  BY <1>7 DEF SelectReady
<1>8. CASE ReceiveReply
  BY <1>c, <1>8 DEF ReceiveReply, CountOne
<1>9. CASE Discard
  BY <1>c, <1>9 DEF Discard, Uncounted
<1>10. CASE PingClose
  BY <1>0, <1>c, <1>10 DEF PingClose
<1>11. CASE PingReturn
  BY <1>n, <1>11 DEF PingReturn, Sent, Counting
<1>12. CASE EchoArrives \/ StrayArrives
  BY <1>12 DEF EchoArrives, StrayArrives
<1>13. CASE ppc = "idle" /\ UNCHANGED pingVars
  BY <1>c, <1>13 DEF Sent, Counting
<1>14. CASE /\ Advance /\ UNCHANGED <<checkVars, pingVars>>
            /\ cpc \in {"conn_wait", "send_wait", "recv_wait"} \/ ppc = "wait"
  BY <1>0, <1>13, <1>14 DEF OneCall
<1>15. QED
  BY <1>0, <1>1, <1>2, <1>3, <1>4, <1>5, <1>6, <1>7, <1>8, <1>9, <1>10, <1>11,
     <1>12,
     <1>13, <1>14, Steps DEF PingActs

\* A select of the ping adds at most what the timeval has left.
LEMMA PingWaitsStep ==
  ASSUME ProbesInv, OnePacket, [Next]_probeVars
  PROVE  PingWaits'
<1>0. /\ now \in Nat /\ left \in Nat /\ until \in Nat /\ updates \in BOOLEAN
      /\ pinged \in Nat /\ looks \in Nat /\ PingWaits /\ PingCounts
  BY DEF ProbesInv, TypeInv
<1>s. /\ Spell \in Nat
      /\ looks' = looks => Spell' = Spell
      /\ looks' = looks + 1 => Spell' = Spell + ReplyWait
  BY <1>0 DEF Spell
<1>c. ppc \in {"select", "wait", "receive"} => reply.nsend = 1
  BY <1>0 DEF PingCounts, OnePacket
<1> HIDE DEF Spell
<1> USE DEF PingWaits
<1>1. CASE ~Sent' /\ ~Counting' /\ ppc' # "wait"
  BY <1>1 DEF Sent, Counting
<1>2. CASE /\ ppc' = "select" /\ cnt' = 0 /\ left' = ReplyWait /\ pinged' = now
           /\ now' = now /\ Spell' = 0 /\ UNCHANGED updates
  BY <1>0, <1>2
<1>3. CASE /\ ppc = "select" /\ cnt = 0 /\ ppc' = "wait" /\ EnterSelect(left)
           /\ UNCHANGED <<pinged, looks, reply>>
  BY <1>0, <1>s, <1>c, <1>3 DEF EnterSelect
<1>4. CASE /\ ppc = "wait" /\ ppc' = "receive" /\ LeaveSelect
           /\ UNCHANGED <<pinged, looks, reply>>
  BY <1>0, <1>s, <1>c, <1>4 DEF LeaveSelect, LeaveLeft
<1>5. CASE /\ ppc \in {"wait", "receive"} /\ ppc' = "select" /\ cnt' = 1 /\ now' = now
           /\ looks' \in {looks, looks + 1}
           /\ reply.nsend = 1 /\ UNCHANGED <<pinged, updates>>
  BY <1>0, <1>s, <1>c, <1>5
<1>6. CASE /\ ppc = "receive" /\ ppc' = "select" /\ looks' = looks + 1
           /\ reply.nsend = 1 /\ UNCHANGED <<clockVars, pinged, reply, cnt>>
  BY <1>0, <1>s, <1>c, <1>6
<1>7. CASE /\ ppc = "select" /\ cnt = 1 /\ ppc' = "done"
           /\ UNCHANGED <<clockVars, pinged, looks, reply>>
  BY <1>0, <1>s, <1>c, <1>7
<1>8. CASE /\ ppc = "wait" /\ Advance /\ UNCHANGED <<ppc, pinged, looks, reply, cnt>>
  BY <1>0, <1>s, <1>c, <1>8 DEF Advance
<1>9. CASE UNCHANGED <<clockVars, ppc, pinged, looks, reply, cnt>>
  BY <1>0, <1>s, <1>9
<1>10. QED
  BY <1>1, <1>2, <1>3, <1>4, <1>5, <1>6, <1>7, <1>8, <1>9, PingMoves

\* The time of a reply is computed when it is accepted.
LEMMA PingTimeStep ==
  ASSUME ProbesInv, [Next]_probeVars
  PROVE  PingTime'
<1>0. TypeInv /\ PingTime /\ reply \in ReplyType /\ PingCounts
  BY DEF ProbesInv, TypeInv
<1>1. CASE ReceiveReply
  <2>1. Head(queue) \in Packet
    BY <1>0, <1>1, Looked DEF ReceiveReply, PingCounts
  <2>2. Rtt(now, Head(queue).sent) = (now - Head(queue).sent) \div Milli
    BY <1>0, <2>1, RttRight DEF Packet, TypeInv
  <2>3. reply'.rtt = Rtt(now, Head(queue).sent)
    BY <1>0, <1>1 DEF ReceiveReply, ReplyType
  <2>4. took'.at = now /\ took'.sent = Head(queue).sent
    BY <1>1 DEF ReceiveReply
  <2>5. QED
    BY <2>2, <2>3, <2>4, Zenon DEF PingTime
<1>2. CASE UNCHANGED took /\ (reply'.answered => reply.answered /\ reply'.rtt = reply.rtt)
  BY <1>0, <1>2 DEF PingTime
<1>3. CASE UNCHANGED <<took, reply>>
  BY <1>2, <1>3
<1>4. CASE SocketFails \/ HostUnknown \/ SendPacket \/ SelectTimeout
  <2>1. \/ \E error : reply' = [reply EXCEPT !.error = error]
        \/ reply' = [reply EXCEPT !.nsend = MaxPackets]
    BY <1>4 DEF SocketFails, HostUnknown, SendPacket, SelectTimeout, Finish
  <2>2. reply'.rtt = reply.rtt /\ reply'.answered = reply.answered
    BY <1>0, <2>1 DEF ReplyType
  <2>3. UNCHANGED took
    BY <1>4 DEF SocketFails, HostUnknown, SendPacket, SelectTimeout
  <2>4. QED
    BY <1>2, <2>2, <2>3
<1>5. CASE PingReturn
  <2>1. reply' = NoReply
    BY <1>5 DEF PingReturn
  <2>2. QED
    BY <2>1 DEF NoReply, PingTime
<1>6. CASE \/ CallPing \/ OpenRaw \/ Select \/ PingFault \/ SelectReady \/ Discard
           \/ PingClose \/ EchoArrives \/ StrayArrives
  BY <1>3, <1>6 DEF CallPing, OpenRaw, Select, PingFault, SelectReady, Discard,
                    PingClose, EchoArrives, StrayArrives
<1>7. OneCall
  BY DEF ProbesInv
<1>8. QED
  BY <1>1, <1>3, <1>4, <1>5, <1>6, <1>7, Steps DEF PingActs

\* A ping that has looked at its packet has an answer or a reason.
LEMMA PingAnswersStep ==
  ASSUME ProbesInv, OnePacket, [Next]_probeVars
  PROVE  PingAnswers'
<1>0. /\ PingAnswers /\ PingCounts /\ OneCall /\ TypeInv
      /\ cnt \in Nat /\ now \in Nat /\ pinged \in Nat /\ ReplyWait \in Nat /\ MaxPackets = 1
      /\ reply \in ReplyType /\ until \in Nat
      /\ ppc = "wait" => pinged + ReplyWait <= until
  BY Numbers DEF ProbesInv, TypeInv, PingWaits, OnePacket
<1>c. /\ ppc \in {"idle", "socket", "address"} => reply = NoReply /\ cnt = 0
      /\ ppc \in {"wait", "receive"} => cnt = 0
  BY <1>0 DEF PingCounts
<1>n. ~NoReply.answered /\ NoReply.error = "none"
  BY DEF NoReply
<1>t. cnt \in Nat /\ now \in Nat /\ pinged \in Nat /\ ReplyWait \in Nat
  BY <1>0
<1> DEFINE Unexplained == ~reply.answered /\ reply.error = "none"
           Explained   == /\ reply.answered \/ reply.error # "none" \/ failed
                          /\ reply.error = "request timeout" =>
                               now - pinged >= ReplyWait /\ ~reply.answered
<1>a. /\ (ppc \in {"select", "wait", "receive"} /\ cnt = 0) => Unexplained
      /\ (ppc = "done" \/ (ppc = "select" /\ cnt > 0)) => Explained
  BY <1>0 DEF PingAnswers
<1>b. (/\ (ppc' \in {"select", "wait", "receive"} /\ cnt' = 0) => Unexplained'
       /\ (ppc' = "done" \/ (ppc' = "select" /\ cnt' > 0)) => Explained') => PingAnswers'
  BY DEF PingAnswers
<1>1. CASE CallPing \/ OpenRaw
  BY <1>b, <1>1 DEF CallPing, OpenRaw
<1>2. CASE SocketFails
  <2>1. /\ ppc = "socket" /\ ppc' = "done" /\ failed' = TRUE
        /\ \E error \in {"none", "socket"} : reply' = [reply EXCEPT !.error = error]
    BY <1>2 DEF SocketFails, Fault, Finish
  <2>2. reply'.error \in {"none", "socket"}
    BY <1>0, <2>1 DEF ReplyType
  <2>3. QED
    BY <1>b, <2>1, <2>2
<1>3. CASE HostUnknown
  <2>1. ppc = "address" /\ ppc' = "done" /\ reply' = [reply EXCEPT !.error = "unknown host"]
    BY <1>3 DEF HostUnknown, Finish
  <2>2. reply'.error = "unknown host"
    BY <1>0, <2>1 DEF ReplyType
  <2>3. QED
    BY <1>b, <2>1, <2>2
<1>4. CASE SendPacket
  <2>1. /\ ppc = "address" /\ ppc' = "select" /\ cnt' = cnt
        /\ reply' = [reply EXCEPT !.nsend = MaxPackets]
    BY <1>4 DEF SendPacket
  <2>2. ~reply'.answered /\ reply'.error = "none"
    <3>1. reply'.answered = reply.answered /\ reply'.error = reply.error
      BY <1>0, <2>1 DEF ReplyType
    <3>2. QED
      BY <1>c, <1>n, <2>1, <3>1
  <2>3. QED
    BY <1>b, <1>c, <2>1, <2>2
<1>5. CASE Select \/ SelectReady
  <2>1. /\ ppc \in {"select", "wait"} /\ ppc' \in {"wait", "receive"} /\ cnt = 0
        /\ UNCHANGED <<cnt, reply>>
    BY <1>0, <1>c, <1>5 DEF Select, SelectReady
  <2>2. QED
    BY <1>a, <1>b, <2>1
<1>6. CASE PingFault
  <2>1. /\ ppc \in {"wait", "receive"} /\ ppc' = "select" /\ cnt' = cnt + 1
        /\ UNCHANGED reply /\ failed' = TRUE
    BY <1>6 DEF PingFault, Fault, CountOne
  <2>2. QED
    BY <1>a, <1>b, <1>c, <2>1
<1>7. CASE SelectTimeout
  <2>1. /\ ppc = "wait" /\ ppc' = "select" /\ cnt' = cnt + 1 /\ now = until
        /\ UNCHANGED <<now, pinged>>
    BY <1>7 DEF SelectTimeout, CountOne, LeaveSelect
  <2>2. reply'.error = "request timeout" /\ reply'.answered = reply.answered
    BY <1>0, <1>7 DEF SelectTimeout, ReplyType
  <2>3. now' - pinged' >= ReplyWait
    <3>1. pinged + ReplyWait <= now
      BY <1>0, <2>1
    <3>2. now - pinged >= ReplyWait
      BY <1>t, <3>1
    <3>3. QED
      BY <2>1, <3>2
  <2>4. ~reply.answered
    BY <1>a, <1>c, <2>1
  <2>5. Explained'
    BY <2>2, <2>3, <2>4
  <2>6. cnt' = 1 /\ ppc' = "select"
    BY <1>c, <2>1
  <2> HIDE DEF Explained, Unexplained
  <2>7. QED
    BY <1>b, <2>5, <2>6
<1>8. CASE ReceiveReply
  <2>1. ppc = "receive" /\ ppc' = "select" /\ cnt' = cnt + 1
    BY <1>8 DEF ReceiveReply, CountOne
  <2>2. reply'.answered /\ reply'.error = reply.error
    <3> DEFINE r == Rtt(now, Head(queue).sent)
    <3> HIDE DEF r
    <3>1. reply' = [reply EXCEPT !.answered = TRUE, !.nreceived = @ + 1, !.rtt = r]
      BY <1>8 DEF ReceiveReply, r
    <3>2. QED
      BY <1>0, <3>1 DEF ReplyType
  <2>3. reply.error = "none" /\ cnt = 0
    BY <1>a, <1>c, <2>1
  <2>4. QED
    BY <1>b, <2>1, <2>2, <2>3
<1>9. CASE Discard
  <2>1. ppc = "receive" /\ ppc' = "select" /\ UNCHANGED <<cnt, reply>>
    BY <1>9 DEF Discard, Uncounted
  <2>2. QED
    BY <1>a, <1>b, <1>c, <2>1
<1>10. CASE PingClose
  <2>1. /\ ppc = "select" /\ cnt > 0 /\ ppc' = "done"
        /\ UNCHANGED <<cnt, reply, failed, pinged, now>>
    BY <1>0, <1>10 DEF PingClose
  <2>2. QED
    BY <1>a, <1>b, <2>1
<1>11. CASE PingReturn
  BY <1>b, <1>11 DEF PingReturn
<1>12. CASE UNCHANGED <<ppc, pingCall, now>>
  BY <1>a, <1>b, <1>12
<1>13. CASE Advance /\ UNCHANGED pingVars /\ (ppc = "idle" \/ ppc = "wait")
  <2>1. UNCHANGED <<ppc, cnt, reply>>
    BY <1>13
  <2>2. QED
    BY <1>a, <1>b, <1>13, <2>1
<1>14. CASE EchoArrives \/ StrayArrives
  BY <1>12, <1>14 DEF EchoArrives, StrayArrives
<1>15. CASE ppc = "idle" /\ UNCHANGED pingVars
  BY <1>b, <1>15
<1>16. QED
  BY <1>0, <1>1, <1>2, <1>3, <1>4, <1>5, <1>6, <1>7, <1>8, <1>9, <1>10, <1>11,
     <1>12,
     <1>13, <1>14, <1>15, Steps DEF PingActs, OneCall

----------------------------------------------------------------------------
(* Types.                                                                  *)

\* A code of excute, set in the result of one stage.
LEMMA SetType ==
  ASSUME NEW stage \in {"dns", "conn", "send", "recv"}, NEW code \in Codes,
         result \in ResultType, Set(stage, code)
  PROVE  result' \in ResultType
<1>1. result' = [result EXCEPT ![stage] = code]
  BY DEF Set
<1>2. CASE stage = "dns"
  BY <1>1, <1>2 DEF ResultType
<1>3. CASE stage = "conn"
  BY <1>1, <1>3 DEF ResultType
<1>4. CASE stage = "send"
  BY <1>1, <1>4 DEF ResultType
<1>5. CASE stage = "recv"
  BY <1>1, <1>5 DEF ResultType
<1>6. QED
  BY <1>2, <1>3, <1>4, <1>5

\* The result of a check keeps its type.
LEMMA ResultTypeStep ==
  ASSUME TypeInv, CheckActs
  PROVE  result' \in ResultType
<1>0. result \in ResultType /\ now \in Nat /\ sentAt \in 0 .. now
  BY DEF TypeInv
<1>c. /\ {"NORUN", "OK", "PARSE_DNS_FAIL", "SOCK_ERROR", "CONN_TIMEOUT"} \subseteq Codes
      /\ {"CONN_FAIL", "PARAM_ERROR", "SYS_ERROR"} \subseteq Codes
      /\ {"RECV_TIMEOUT", "CONN_ERROR"} \subseteq Codes
  BY DEF Codes
<1>1. CASE \E stage \in {"dns", "conn", "send", "recv"}, code \in Codes : Set(stage, code)
  BY <1>0, <1>1, SetType
<1>2. CASE UNCHANGED result
  BY <1>0, <1>2
<1>3. CASE RecvSome
  <2>1. PICK n \in 1 .. inq : result' = [result EXCEPT !["recv"] = "OK", !["bytes"] = @ + n]
    BY <1>3 DEF RecvSome
  <2>2. n \in Nat
    BY DEF TypeInv
  <2>3. "OK" \in Codes
    BY <1>c
  <2>4. QED
    BY <1>0, <2>1, <2>2, <2>3 DEF ResultType
<1>4. CASE RecvLast
  <2>1. PICK code \in Codes : RecvEnd(code)
    BY <1>c, <1>4 DEF RecvLast
  <2> DEFINE u == UseTime(sentAt, now)
  <2>2. u \in Nat
    <3> DEFINE d == u * Milli - (now - sentAt)
    <3>1. -Milli < d /\ u \in Int
      BY <1>0, UseTimeRight
    <3> HIDE DEF u
    <3>2. u * Milli > -Milli
      BY <1>0, <3>1
    <3>3. QED
      BY <3>1, <3>2
  <2> HIDE DEF u
  <2>3. result' = [result EXCEPT !["recv"] = code,
                                 !["time"] = IF code = "OK" THEN u ELSE @]
    BY <2>1 DEF RecvEnd, u
  <2>4. QED
    BY <1>0, <2>1, <2>2, <2>3 DEF ResultType
<1>5. CASE CheckReturn
  BY <1>c, <1>5 DEF CheckReturn, NoResult, ResultType
<1>6. CASE Excute \/ SendWrite \/ SendBlocked \/ SendTimeout \/ RecvReady \/ Disconnection
           \/ ServerStep
  BY <1>2, <1>6 DEF Excute, SendWrite, SendBlocked, SendTimeout, RecvReady,
     Disconnection,
                    ServerStep
<1>7. CASE SetAddress \/ SocketFail \/ ConnectReady \/ ConnectTimeout \/ SendError
           \/ SendDone \/ RecvNone
  BY <1>1, <1>c, <1>7 DEF SetAddress, SocketFail, ConnectReady, ConnectTimeout,
     SendError,
                          SendDone, RecvNone, Fail
<1>8. CASE Connect \/ SendBegin \/ SendReady
  BY <1>1, <1>2, <1>c, <1>8 DEF Connect, SendBegin, SendReady, Fail
<1>9. QED
  BY <1>3, <1>4, <1>5, <1>6, <1>7, <1>8 DEF CheckActs

\* The clock goes on, and what is left of a timeval is not negative.
LEMMA ClockStep ==
  ASSUME ProbesInv, [Next]_probeVars
  PROVE  /\ now' \in Nat /\ now <= now' /\ until' \in Nat /\ updates' \in BOOLEAN
         /\ left' \in Nat
<1>0. /\ TypeInv /\ OneCall /\ now \in Nat /\ until \in Nat /\ left \in Nat
      /\ updates \in BOOLEAN /\ Limit \in Nat /\ ReplyWait \in Nat
  BY Numbers DEF ProbesInv, TypeInv
<1>u. cpc \in {"conn_wait", "send_wait", "recv_wait"} => now <= until
  BY DEF ProbesInv, CheckWaits
<1>v. ppc = "wait" => now <= until
  BY DEF ProbesInv, PingCounts
<1>1. CASE UNCHANGED clockVars
  BY <1>0, <1>1
<1>2. CASE \E t \in Nat : EnterSelect(t)
  BY <1>0, <1>2 DEF EnterSelect
<1>3. CASE LeaveSelect /\ now <= until
  BY <1>0, <1>3 DEF LeaveSelect, LeaveLeft
<1>4. CASE Advance
  BY <1>0, <1>4 DEF Advance
<1>5. CASE left' \in Nat /\ UNCHANGED <<now, until, updates>>
  BY <1>0, <1>5
<1>6. CheckActs => \/ UNCHANGED clockVars
                   \/ \E t \in Nat : EnterSelect(t)
                   \/ LeaveSelect /\ now <= until
                   \/ left' \in Nat /\ UNCHANGED <<now, until, updates>>
  BY <1>0, <1>u
    DEF CheckActs, Excute, SetAddress, SocketFail, Connect, ConnectReady, ConnectTimeout,
        SendBegin, SendWrite, SendBlocked, SendError, SendReady, SendTimeout, SendDone,
        RecvReady, RecvNone, RecvSome, RecvLast, Disconnection, CheckReturn, ServerStep
<1>7. CASE PingActs
  <2>1. CASE \/ CallPing \/ SocketFails \/ OpenRaw \/ HostUnknown \/ ReceiveReply
             \/ Discard \/ PingClose
    BY <1>1, <2>1 DEF CallPing, SocketFails, OpenRaw, HostUnknown, ReceiveReply,
       Discard,
                      PingClose
  <2>2. CASE SendPacket \/ PingReturn
    BY <1>0, <1>5, <2>2 DEF SendPacket, PingReturn
  <2>3. CASE Select
    BY <1>0, <1>2, <2>3 DEF Select
  <2>4. CASE SelectTimeout \/ SelectReady
    BY <1>3, <1>v, <2>4 DEF SelectTimeout, SelectReady
  <2>5. CASE PingFault
    BY <1>1, <1>3, <1>v, <2>5 DEF PingFault
  <2>6. QED
    BY <1>7, <2>1, <2>2, <2>3, <2>4, <2>5 DEF PingActs
<1>8. QED
  BY <1>0, <1>1, <1>2, <1>3, <1>4, <1>5, <1>6, <1>7, Steps

\* A flag is set or not.
LEMMA FlagsStep ==
  ASSUME ProbesInv, [Next]_probeVars
  PROVE  /\ sock' \in BOOLEAN /\ broken' \in BOOLEAN
         /\ raw' \in BOOLEAN /\ failed' \in BOOLEAN
<1>0. /\ OneCall /\ sock \in BOOLEAN /\ broken \in BOOLEAN
      /\ raw \in BOOLEAN /\ failed \in BOOLEAN
  BY DEF ProbesInv, TypeInv
<1>1. CheckActs => sock' \in {sock, TRUE, FALSE} /\ broken' \in {broken, TRUE, FALSE}
  BY DEF CheckActs, Excute, SetAddress, SocketFail, Connect, ConnectReady,
     ConnectTimeout,
         SendBegin, SendWrite, SendBlocked, SendError, SendReady, SendTimeout, SendDone,
         RecvReady, RecvNone, RecvSome, RecvLast, Disconnection, CheckReturn, ServerStep,
         Interrupted, Closed
<1>2. PingActs => raw' \in {raw, TRUE, FALSE} /\ failed' \in {failed, TRUE, FALSE}
  BY DEF PingActs, CallPing, SocketFails, OpenRaw, HostUnknown, SendPacket, Select,
         PingFault, SelectTimeout, SelectReady, ReceiveReply, Discard, PingClose,
         PingReturn, Fault
<1>3. EchoArrives \/ StrayArrives => UNCHANGED <<raw, failed>>
  BY DEF EchoArrives, StrayArrives
<1>4. \A b \in BOOLEAN : {b, TRUE, FALSE} \subseteq BOOLEAN
  OBVIOUS
<1>5. CASE CheckActs /\ UNCHANGED pingVars
  BY <1>0, <1>1, <1>4, <1>5
<1>6. CASE PingActs /\ UNCHANGED checkVars
  BY <1>0, <1>2, <1>4, <1>6
<1>7. QED
  BY <1>0, <1>3, <1>5, <1>6, Steps

\* What the check keeps.
LEMMA CheckTypeStep ==
  ASSUME ProbesInv, [Next]_probeVars
  PROVE  /\ cpc' \in CpcType /\ len' \in Requests \cup {NoBuffer}
         /\ offset' \in Nat /\ got' \in Nat /\ sentAt' \in 0 .. now'
         /\ peer' \in {"syn", "up", "refused", "reset", "eof"}
         /\ room' \in Nat /\ inq' \in Nat /\ answer' \in Nat
         /\ began' \in Nat /\ first' \in Nat /\ rounds' \in Nat
<1>0. /\ now \in Nat /\ now' \in Nat /\ now <= now'
      /\ cpc \in CpcType /\ len \in Requests \cup {NoBuffer}
      /\ offset \in Nat /\ got \in Nat /\ sentAt \in 0 .. now
      /\ peer \in {"syn", "up", "refused", "reset", "eof"}
      /\ room \in Nat /\ inq \in Nat /\ answer \in Nat
      /\ began \in Nat /\ first \in Nat /\ rounds \in Nat
      /\ SocketRoom \in Nat /\ AnswerMax \in Nat
  BY Numbers, ClockStep DEF ProbesInv, TypeInv
<1> USE DEF CpcType
<1>1. CASE Excute
  BY <1>0, <1>1 DEF Excute
<1>2. CASE SetAddress
  BY <1>0, <1>2 DEF SetAddress, Fail
<1>3. CASE SocketFail
  BY <1>0, <1>3 DEF SocketFail, Fail
<1>4. CASE ConnectReady
  BY <1>0, <1>4 DEF ConnectReady, Fail
<1>5. CASE ConnectTimeout
  BY <1>0, <1>5 DEF ConnectTimeout, Fail, Interrupted
<1>6. CASE Connect
  BY <1>0, <1>6 DEF Connect, Fail
<1>7. CASE SendBegin
  BY <1>0, <1>7 DEF SendBegin, Fail
<1>8. CASE SendWrite
  BY <1>0, <1>8 DEF SendWrite
<1>9. CASE SendBlocked
  BY <1>0, <1>9 DEF SendBlocked
<1>10. CASE SendError
  BY <1>0, <1>10 DEF SendError, Fail
<1>11. CASE SendReady
  BY <1>0, <1>11 DEF SendReady, Interrupted
<1>12. CASE SendTimeout
  BY <1>0, <1>12 DEF SendTimeout, SendGivesUp
<1>13. CASE SendDone
  BY <1>0, <1>13 DEF SendDone
<1>14. CASE RecvReady
  BY <1>0, <1>14 DEF RecvReady
<1>15. CASE RecvNone
  BY <1>0, <1>15 DEF RecvNone, Fail, Interrupted
<1>16. CASE RecvSome
  BY <1>0, <1>16 DEF RecvSome
<1>17. CASE RecvLast
  BY <1>0, <1>17 DEF RecvLast, RecvEnd
<1>18. CASE Disconnection
  BY <1>0, <1>18 DEF Disconnection, Closed
<1>19. CASE CheckReturn
  BY <1>0, <1>19 DEF CheckReturn
<1>20. CASE ServerStep
  BY <1>0, <1>20 DEF ServerStep
<1>21. CASE UNCHANGED checkVars
  BY <1>0, <1>21
<1>22. QED
  BY <1>1, <1>2, <1>3, <1>4, <1>5, <1>6, <1>7, <1>8, <1>9, <1>10, <1>11, <1>12,
     <1>13, <1>14, <1>15, <1>16, <1>17, <1>18, <1>19, <1>20, <1>21, Steps
     DEF CheckActs, ProbesInv

\* What the ping keeps of its reply.
LEMMA ReplyTypeStep ==
  ASSUME TypeInv, PingCounts, PingActs
  PROVE  reply' \in ReplyType /\ took' \in TookType
<1>0. reply \in ReplyType /\ took \in TookType /\ now \in Nat /\ MaxPackets \in Nat
  BY Numbers DEF TypeInv
<1>1. CASE UNCHANGED <<reply, took>>
  BY <1>0, <1>1
<1>2. CASE SocketFails \/ HostUnknown \/ SelectTimeout
  <2>1. UNCHANGED took /\ \E error \in {"none", "socket", "unknown host", "request timeout"} :
                             reply' = [reply EXCEPT !.error = error]
    BY <1>2 DEF SocketFails, HostUnknown, SelectTimeout, Finish
  <2>2. QED
    BY <1>0, <2>1 DEF ReplyType
<1>3. CASE SendPacket
  <2>1. UNCHANGED took /\ reply' = [reply EXCEPT !.nsend = MaxPackets]
    BY <1>3 DEF SendPacket
  <2>2. QED
    BY <1>0, <2>1 DEF ReplyType
<1>4. CASE ReceiveReply
  <2> DEFINE p == Head(queue)
             r == Rtt(now, p.sent)
  <2>1. p.sent \in Nat /\ queue # <<>>
    BY <1>4, Looked DEF ReceiveReply, PingCounts, Packet
  <2>2. r \in Int
    BY <1>0, <2>1, RttRight
  <2>3. reply' = [reply EXCEPT !.answered = TRUE, !.nreceived = @ + 1, !.rtt = r]
    BY <1>4 DEF ReceiveReply
  <2>4. took' = [sent |-> p.sent, at |-> now]
    BY <1>4 DEF ReceiveReply
  <2> HIDE DEF r, p
  <2>5. reply' \in ReplyType
    <3>0. reply.nreceived \in Nat
      BY <1>0 DEF ReplyType
    <3> DEFINE n == reply.nreceived + 1
    <3>1. n \in Nat
      BY <3>0
    <3>2. reply' = [[[reply EXCEPT !.answered = TRUE] EXCEPT !.nreceived = n] EXCEPT !.rtt = r]
      BY <2>3
    <3> HIDE DEF n
    <3>3. [reply EXCEPT !.answered = TRUE] \in ReplyType
      BY <1>0 DEF ReplyType
    <3>4. [[reply EXCEPT !.answered = TRUE] EXCEPT !.nreceived = n] \in ReplyType
      BY <3>1, <3>3 DEF ReplyType
    <3>5. QED
      BY <2>2, <3>2, <3>4 DEF ReplyType
  <2>7. took' \in TookType
    BY <1>0, <2>1, <2>4 DEF TookType
  <2>6. QED
    BY <2>5, <2>7
<1>5. CASE PingReturn
  BY <1>5 DEF PingReturn, NoReply, NotTaken, ReplyType, TookType
<1>6. CASE CallPing \/ OpenRaw \/ Select \/ PingFault \/ SelectReady \/ Discard \/ PingClose
  BY <1>1, <1>6 DEF CallPing, OpenRaw, Select, PingFault, SelectReady, Discard,
     PingClose
<1>7. QED
  BY <1>2, <1>3, <1>4, <1>5, <1>6 DEF PingActs

\* What else the ping keeps.
LEMMA PingTypeStep ==
  ASSUME ProbesInv, [Next]_probeVars
  PROVE  /\ ppc' \in PpcType /\ cnt' \in Nat /\ flight' \subseteq Nat
         /\ queue' \in Seq(Packet) /\ leaked' \in Nat /\ unknown' \in Nat
         /\ pinged' \in Nat /\ looks' \in Nat
<1>0. /\ TypeInv /\ now \in Nat /\ OneCall
      /\ ppc \in PpcType /\ cnt \in Nat /\ flight \subseteq Nat
      /\ leaked \in Nat /\ unknown \in Nat
      /\ pinged \in Nat /\ looks \in Nat
  BY DEF ProbesInv, TypeInv
<1>q. /\ queue \in Seq(Packet) /\ PingCounts
      /\ queue # <<>> => Tail(queue) \in Seq(Packet)
  BY <1>0, Looked DEF ProbesInv, TypeInv
<1> USE DEF PpcType
<1>1. CASE CallPing
  BY <1>0, <1>q, <1>1 DEF CallPing
<1>2. CASE SocketFails
  BY <1>0, <1>q, <1>2 DEF SocketFails, Fault, Finish
<1>3. CASE OpenRaw
  BY <1>0, <1>q, <1>3 DEF OpenRaw
<1>4. CASE HostUnknown
  <2>1. /\ ppc' = "done" /\ unknown' = unknown + 1
        /\ UNCHANGED <<cnt, flight, queue, leaked, pinged, looks>>
    BY <1>4 DEF HostUnknown, Finish
  <2>2. QED
    BY <1>0, <1>q, <2>1
<1>5. CASE SendPacket
  BY <1>0, <1>q, <1>5 DEF SendPacket
<1>6. CASE Select
  BY <1>0, <1>q, <1>6 DEF Select
<1>7. CASE PingFault
  <2>1. /\ ppc' = "select" /\ cnt' = cnt + 1
        /\ UNCHANGED <<flight, leaked, unknown, pinged, looks>>
    BY <1>7 DEF PingFault, CountOne
  <2>2. queue' = queue \/ (queue' = Tail(queue) /\ ppc = "receive")
    BY <1>7 DEF PingFault
  <2>3. QED
    BY <1>0, <1>q, <2>1, <2>2 DEF PingCounts
<1>8. CASE SelectTimeout
  <2>1. /\ ppc' = "select" /\ cnt' = cnt + 1
        /\ UNCHANGED <<flight, queue, leaked, unknown, pinged, looks>>
    BY <1>8 DEF SelectTimeout, CountOne
  <2>2. QED
    BY <1>0, <1>q, <2>1
<1>9. CASE SelectReady
  BY <1>0, <1>q, <1>9 DEF SelectReady
<1>10. CASE ReceiveReply
  <2>1. /\ ppc = "receive" /\ ppc' = "select" /\ cnt' = cnt + 1 /\ looks' = looks + 1
        /\ queue' = Tail(queue) /\ UNCHANGED <<flight, leaked, unknown, pinged>>
    BY <1>10 DEF ReceiveReply, CountOne, PingCounts
  <2>2. QED
    BY <1>0, <1>q, <2>1 DEF PingCounts
<1>11. CASE Discard
  BY <1>0, <1>q, <1>11 DEF Discard, Uncounted, PingCounts
<1>12. CASE PingClose
  BY <1>0, <1>q, <1>12 DEF PingClose
<1>13. CASE PingReturn
  <2>1. queue' = <<>> /\ <<>> \in Seq(Packet)
    BY <1>13 DEF PingReturn
  <2>2. QED
    BY <1>0, <1>13, <2>1 DEF PingReturn
<1>14. CASE EchoArrives \/ StrayArrives
  <2>1. queue' \in Seq(Packet)
    BY <1>0, <1>14, Received
  <2>2. flight' \subseteq flight /\ UNCHANGED <<ppc, pingCall, leaked, unknown>>
    BY <1>14 DEF EchoArrives, StrayArrives
  <2>3. QED
    BY <1>0, <2>1, <2>2
<1>15. CASE UNCHANGED pingVars
  BY <1>0, <1>q, <1>15
<1>16. QED
  BY <1>0, <1>1, <1>2, <1>3, <1>4, <1>5, <1>6, <1>7, <1>8, <1>9, <1>10, <1>11,
     <1>12,
     <1>13, <1>14, <1>15, Steps DEF PingActs

\* Every variable keeps its type.
LEMMA TypeStep ==
  ASSUME ProbesInv, [Next]_probeVars
  PROVE  TypeInv'
<1>0. TypeInv /\ OneCall /\ PingCounts
  BY DEF ProbesInv
<1>1. result' \in ResultType
  <2>1. CASE UNCHANGED result
    BY <1>0, <2>1 DEF TypeInv
  <2>2. QED
    BY <1>0, <2>1, Steps, ResultTypeStep
<1>2. reply' \in ReplyType /\ took' \in TookType
  <2>1. CASE UNCHANGED <<reply, took>>
    BY <1>0, <2>1 DEF TypeInv
  <2>2. CASE EchoArrives \/ StrayArrives
    BY <2>1, <2>2 DEF EchoArrives, StrayArrives
  <2>3. QED
    BY <1>0, <2>1, <2>2, Steps, ReplyTypeStep
<1>3. QED
  BY <1>1, <1>2, ClockStep, FlagsStep, CheckTypeStep, PingTypeStep DEF TypeInv

----------------------------------------------------------------------------
(* The invariant.                                                          *)

\* It holds before the first call.
LEMMA ProbesStart == Init => ProbesInv
<1> SUFFICES ASSUME Init PROVE ProbesInv
  OBVIOUS
<1> USE DEF Init, ClockInit, CheckInit, PingInit
<1>1. NoResult \in ResultType /\ NoReply \in ReplyType /\ NotTaken \in TookType
  BY DEF NoResult, ResultType, Codes, NoReply, ReplyType, NotTaken, TookType
<1>2. <<>> \in Seq(Packet) /\ Len(<<>>) = 0
  OBVIOUS
<1>3. TypeInv /\ OneCall
  <2>1. updates \in BOOLEAN /\ ~sock /\ ~broken /\ ~raw /\ ~failed
    OBVIOUS
  <2>2. /\ sock \in BOOLEAN /\ broken \in BOOLEAN /\ raw \in BOOLEAN /\ failed \in BOOLEAN
    OBVIOUS
  <2>3. /\ now \in Nat /\ left \in Nat /\ until \in Nat /\ cpc \in CpcType
        /\ len \in Requests \cup {NoBuffer} /\ offset \in Nat /\ got \in Nat
        /\ sentAt \in 0 .. now /\ peer \in {"syn", "up", "refused", "reset", "eof"}
        /\ room \in Nat /\ inq \in Nat /\ answer \in Nat
        /\ began \in Nat /\ first \in Nat /\ rounds \in Nat
        /\ ppc \in PpcType /\ cnt \in Nat /\ flight \subseteq Nat
        /\ leaked \in Nat /\ unknown \in Nat /\ pinged \in Nat /\ looks \in Nat
    BY DEF CpcType, PpcType
  <2>4. result \in ResultType /\ reply \in ReplyType /\ took \in TookType
        /\ queue \in Seq(Packet)
    BY <1>1, <1>2
  <2>5. QED
    BY <2>1, <2>2, <2>3, <2>4, Zenon DEF TypeInv, OneCall
<1>4. /\ NoResult.dns = "NORUN" /\ NoResult.conn = "NORUN" /\ NoResult.send = "NORUN"
      /\ NoResult.recv = "NORUN" /\ NoResult.bytes = 0
      /\ ~NoReply.answered /\ NoReply.nsend = 0 /\ NoReply.nreceived = 0
  BY DEF NoResult, NoReply
<1>5. Server
  BY Numbers DEF Server, Early, Sending
<1>6. Results /\ Request /\ Reported
  BY <1>4 DEF Results, Request, Reported, Early, Sending, Over
<1>7. CheckWaits
  BY DEF CheckWaits, Early
<1>8. PingCounts /\ PingTime
  BY <1>2, <1>4, Numbers DEF PingCounts, PingTime
<1>9. PingWaits /\ PingAnswers
  BY <1>4 DEF PingWaits, PingAnswers
<1>10. QED
  BY <1>3, <1>5, <1>6, <1>7, <1>8, <1>9 DEF ProbesInv

\* It is inductive.
LEMMA ProbesInvStep ==
  ASSUME ProbesInv, [Next]_probeVars
  PROVE  ProbesInv'
<1>1. OneCall
  BY DEF ProbesInv
<1>2. OnePacket' = OnePacket
  BY DEF OnePacket
<1>3. ASSUME OnePacket PROVE PingWaits' /\ PingAnswers'
  BY <1>3, PingWaitsStep, PingAnswersStep
<1>4. QED
  BY <1>1, <1>2, <1>3, TypeStep, OneCallStep, ServerStays, ResultsStep, RequestStep,
     CheckWaitsStep, ReportedStep, PingCountsStep, PingTimeStep DEF ProbesInv

\* What is known of the check and of the ping at each label.
THEOREM ProbesInvariant == Spec => []ProbesInv
<1>1. ProbesInv /\ [Next]_probeVars => ProbesInv'
  BY ProbesInvStep
<1>2. QED
  BY <1>1, ProbesStart, PTL DEF Spec

----------------------------------------------------------------------------
(* The properties of Probes.                                               *)

\* Every variable has its type, in whatever order calls, packets and time come.
THEOREM ProbesTyped == Spec => []ProbesTypeOK
<1>1. ProbesInv => ProbesTypeOK
  <2> SUFFICES ASSUME ProbesInv PROVE ProbesTypeOK
    OBVIOUS
  <2>1. TypeInv /\ Server /\ PingCounts
    BY DEF ProbesInv
  <2>2. reply.answered \in BOOLEAN /\ reply.nreceived \in Nat /\ reply.nsend \in Nat
    BY <2>1 DEF TypeInv, ReplyType
  <2>3. /\ got \in 0 .. RecvBuffer /\ room \in 0 .. SocketRoom /\ inq \in 0 .. AnswerMax
        /\ cnt \in 0 .. MaxPackets /\ reply.nreceived \in 0 .. reply.nsend
    BY <2>1, <2>2, Numbers DEF TypeInv, Server, PingCounts
  <2>4. QED
    BY <2>1, <2>2, <2>3 DEF ProbesTypeOK, TypeInv, CpcType, PpcType, ResultType,
       PingCounts
<1>2. QED
  BY <1>1, ProbesInvariant, PTL

\* No stage of a check has a result unless those before it succeeded.
THEOREM StagesInOrder == Spec => []StageOrder
<1>1. ProbesInv => StageOrder
  BY DEF ProbesInv, Reported, Over, StageOrder
<1>2. QED
  BY <1>1, ProbesInvariant, PTL

\* What a check reports happened, for any limit, request and answer.
THEOREM ResultsAreTrue == Spec => []ResultTrue
<1>1. ProbesInv => ResultTrue
  BY DEF ProbesInv, Reported, Results, Over, ResultTrue
<1>2. QED
  BY <1>1, ProbesInvariant, PTL

\* No way out of a check or a ping leaves a descriptor open, except that of a
\* ping of an unknown host.
THEOREM NothingLeaks == Spec => []DescriptorsClosed
<1>1. ProbesInv => DescriptorsClosed
  BY DEF ProbesInv, TypeInv, Reported, Over, PingCounts, DescriptorsClosed
<1>2. QED
  BY <1>1, ProbesInvariant, PTL

\* The times reported are right to the millisecond, whatever the units and
\* wherever in a second the two ends fall.
THEOREM TimesAreTrue == Spec => []TimeTrue
<1>1. ProbesInv => TimeTrue
  <2> SUFFICES ASSUME ProbesInv PROVE TimeTrue
    OBVIOUS
  <2>1. now \in Nat /\ sentAt \in Nat /\ Reported /\ PingTime
    BY DEF ProbesInv, TypeInv
  <2>2. ASSUME cpc = "done", result.recv = "OK"
        PROVE  LET d == result.time * Milli - (now - sentAt) IN -Milli < d /\ d < Milli
    <3>1. result.time = UseTime(sentAt, now)
      BY <2>1, <2>2 DEF Reported, Over
    <3>2. QED
      BY <2>1, <3>1, UseTimeRight
  <2>3. QED
    BY <2>1, <2>2, Zenon DEF TimeTrue, PingTime
<1>2. QED
  BY <1>1, ProbesInvariant, PTL

\* A check waits for at most three limits and a ping for one; where select
\* does not say what remains, each select of a send, and each packet that a
\* ping looks at, may add one.
THEOREM WaitsAreBounded ==
  ASSUME OnePacket
  PROVE  Spec => []WaitBounded
<1>1. ProbesInv => WaitBounded
  <2> SUFFICES ASSUME ProbesInv PROVE WaitBounded
    OBVIOUS
  <2>1. /\ now \in Nat /\ first \in Nat /\ began \in Nat /\ rounds \in Nat /\ looks \in Nat
        /\ pinged \in Nat /\ until \in Nat /\ left \in Nat /\ Limit \in Nat /\ ReplyWait \in Nat
        /\ cpc \in CpcType /\ updates \in BOOLEAN /\ CheckWaits /\ PingWaits
    BY Numbers DEF ProbesInv, TypeInv
  <2>2. cpc # "idle" /\ sock => now - first <= Limit * (2 + Rounds)
    <3> SUFFICES ASSUME cpc # "idle", sock PROVE now - first <= Limit * (2 + Rounds)
      OBVIOUS
    <3>1. /\ Rounds \in Nat \ {0} /\ (rounds = 0 => Rounds = 1) /\ (updates => Rounds = 1)
          /\ (~updates /\ rounds # 0 => Rounds = rounds)
      BY <2>1 DEF Rounds
    <3> DEFINE most == Limit * Rounds
    <3>2. /\ most \in Nat /\ most >= Limit /\ Limit * (1 + Rounds) = Limit + most
          /\ Limit * (2 + Rounds) = Limit + Limit + most
      BY <2>1, <3>1
    <3>3. ~updates => Limit * rounds <= most /\ Limit * rounds \in Nat
      BY <2>1, <3>1
    <3> HIDE DEF most, Rounds
    <3>4. CASE cpc = "conn_wait" \/ cpc = "send_begin"
      BY <2>1, <3>2, <3>4 DEF CheckWaits
    <3>5. CASE cpc = "send" \/ cpc = "send_wait"
      <4>1. began - first <= Limit
        BY <2>1, <3>5 DEF CheckWaits, Sending
      <4>2. now - began <= most
        <5>1. CASE updates
          BY <2>1, <3>2, <3>5, <5>1 DEF CheckWaits
        <5>2. CASE ~updates
          <6>1. now - began <= Limit * rounds
            BY <2>1, <3>3, <3>5, <5>2 DEF CheckWaits
          <6>2. QED
            BY <2>1, <3>2, <3>3, <5>2, <6>1
        <5>3. QED
          BY <5>1, <5>2
      <4>3. QED
        BY <2>1, <3>2, <4>1, <4>2
    <3>6. CASE cpc = "recv_wait"
      <4>1. now <= began + Limit /\ began - first <= Limit + most
        BY <2>1, <3>2, <3>6 DEF CheckWaits
      <4>2. QED
        BY <2>1, <3>2, <4>1
    <3>7. CASE cpc = "recv" \/ cpc = "close"
      BY <2>1, <3>7 DEF CheckWaits
    <3>8. cpc \notin Early /\ cpc # "done"
      BY DEF ProbesInv, Server, Reported, Over
    <3>9. QED
      BY <2>1, <3>4, <3>5, <3>6, <3>7, <3>8 DEF CpcType, Early
  <2>3. reply.nsend > 0 => now - pinged <= ReplyWait * (1 + IF updates THEN 0 ELSE looks)
    BY <2>1 DEF PingWaits, Spell
  <2>4. QED
    BY <2>2, <2>3 DEF WaitBounded, Rounds
<1>2. QED
  BY <1>1, ProbesInvariant, PTL

\* A ping without an answer says why, and a timeout is told after the whole
\* wait.
THEOREM PingsAreExplained ==
  ASSUME OnePacket
  PROVE  Spec => []PingExplained
<1>1. ProbesInv => PingExplained
  BY DEF ProbesInv, PingAnswers, PingExplained
<1>2. QED
  BY <1>1, ProbesInvariant, PTL

=============================================================================
