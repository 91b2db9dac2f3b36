------------------------------ MODULE NetCheck ------------------------------
(***************************************************************************)
(* NetCheck::excute: one connection to a server, one request, one answer,  *)
(* each stage with a time limit, and the result of each stage.  The        *)
(* callers make a NetCheck for each check.  A step ends at a system call;  *)
(* what the kernel and the server did is kept beside the result.           *)
(***************************************************************************)
EXTENDS Clock

CONSTANTS
  Requests,    \* lengths of the request; NoBuffer: a null buffer
  NoBuffer,
  Limit,       \* the time limit of a stage: 3 s
  SocketRoom,  \* bytes the kernel takes before the server reads
  AnswerMax,   \* bytes the server sends
  RecvBuffer,  \* the buffer of excute: 10 KB
  MaxSignals   \* bound: selects interrupted by a signal

ASSUME CheckAssumption ==
  /\ Requests \subseteq Nat \cup {NoBuffer} /\ NoBuffer \notin Nat
  /\ {Limit, SocketRoom, AnswerMax, MaxSignals} \subseteq Nat
  /\ RecvBuffer \in Nat \ {0, 1}

VARIABLES
  cpc,     \* where excute is
  sock,    \* _sock_fd is open
  len,     \* the request
  offset,  \* send_tmout: bytes written
  got,     \* recv_tmout: bytes received
  result,  \* _result
  sentAt,  \* send_success_time
  peer,    \* kernel: "syn", "up", "refused", "reset", "eof"
  room,    \* kernel: bytes it takes now
  inq,     \* kernel: bytes not yet received
  answer,  \* the server: bytes it still may send
  signals, \* signals so far
  began,   \* history: when the stage began
  first,   \* history: when connect was called
  rounds,  \* history: selects of send_tmout
  broken   \* history: a system call of this stage failed

kernelVars == <<peer, room, inq, answer>>
stageVars  == <<sock, len, offset, got, result, sentAt>>
seenVars   == <<began, first, rounds, broken>>
checkVars  == <<cpc, stageVars, kernelVars, signals, seenVars>>

Codes == {"NORUN", "OK", "PARSE_DNS_FAIL", "SOCK_ERROR", "CONN_TIMEOUT",
          "CONN_FAIL", "PARAM_ERROR", "SYS_ERROR", "RECV_TIMEOUT", "CONN_ERROR"}
NoResult == [dns |-> "NORUN", conn |-> "NORUN", send |-> "NORUN",
             recv |-> "NORUN", bytes |-> 0, time |-> 0]

\* A label where the check waits for the kernel, and not for itself.
Ready == CASE cpc = "conn_wait" -> peer # "syn"
           [] cpc = "send_wait" -> room > 0 \/ peer = "reset"
           [] cpc = "recv_wait" -> inq > 0 \/ peer \in {"reset", "eof"}
           [] OTHER -> TRUE
Waiting == cpc \in {"conn_wait", "send_wait", "recv_wait"}

CheckInit ==
  /\ cpc = "idle" /\ sock = FALSE /\ len = NoBuffer /\ offset = 0 /\ got = 0
  /\ result = NoResult /\ sentAt = 0
  /\ peer = "syn" /\ room = 0 /\ inq = 0 /\ answer = 0
  /\ signals = 0 /\ began = 0 /\ first = 0 /\ rounds = 0 /\ broken = FALSE

----------------------------------------------------------------------------
(* The server and the network.                                             *)

Established == peer \in {"up", "eof"}

ServerStep ==
  /\ cpc # "idle" /\ sock
  /\ \/ /\ peer = "syn" /\ peer' \in {"up", "refused"}
        /\ room' = SocketRoom /\ answer' = AnswerMax
        /\ UNCHANGED inq
     \/ /\ peer = "up" /\ peer' \in {"eof", "reset"}
        /\ UNCHANGED <<room, inq, answer>>
     \/ /\ Established /\ room < SocketRoom /\ room' = SocketRoom
        /\ UNCHANGED <<peer, inq, answer>>
     \/ /\ peer = "up" /\ answer > 0
        /\ \E n \in 1 .. answer : inq' = inq + n /\ answer' = answer - n
        /\ UNCHANGED <<peer, room>>
  /\ UNCHANGED <<cpc, stageVars, signals, seenVars, clockVars>>

----------------------------------------------------------------------------

Set(stage, code) == result' = [result EXCEPT ![stage] = code]
Fail(stage, code) == Set(stage, code) /\ cpc' = "close"

\* excute, up to gethostbyname for a name, or socket for an address.
Excute ==
  /\ cpc = "idle"
  /\ len' \in Requests
  /\ cpc' \in {"dns", "socket"}
  /\ UNCHANGED <<sock, offset, got, result, sentAt, kernelVars, signals, seenVars,
                 clockVars>>

\* set_address: the name is resolved, or not.
SetAddress ==
  /\ cpc = "dns"
  /\ \/ Set("dns", "OK") /\ cpc' = "socket"
     \/ Fail("dns", "PARSE_DNS_FAIL")
  /\ UNCHANGED <<sock, len, offset, got, sentAt, kernelVars, signals, seenVars,
                 clockVars>>

SocketFail ==
  /\ cpc = "socket"
  /\ Fail("conn", "SOCK_ERROR")
  /\ UNCHANGED <<sock, len, offset, got, sentAt, kernelVars, signals, seenVars,
                 clockVars>>

\* socket and connect: at once, in progress, or not.
Connect ==
  /\ cpc = "socket"
  /\ sock' = TRUE /\ first' = now /\ began' = now
  /\ \/ /\ peer' = "up" /\ room' = SocketRoom /\ answer' = AnswerMax
        /\ Set("conn", "OK") /\ cpc' = "send_begin"
        /\ UNCHANGED clockVars
     \/ /\ cpc' = "conn_wait"
        /\ EnterSelect(Limit)
        /\ UNCHANGED <<result, peer, room, answer>>
     \/ /\ Fail("conn", "CONN_FAIL")
        /\ UNCHANGED <<peer, room, answer, clockVars>>
  /\ UNCHANGED <<len, offset, got, sentAt, inq, signals, rounds, broken>>

\* The socket is writable: SO_ERROR has the outcome.
ConnectReady ==
  /\ cpc = "conn_wait" /\ Ready
  /\ \/ Established /\ Set("conn", "OK") /\ cpc' = "send_begin"
     \/ ~Established /\ Fail("conn", "CONN_FAIL")
  /\ LeaveSelect
  /\ UNCHANGED <<sock, len, offset, got, sentAt, kernelVars, signals, seenVars>>

TimedOut  == ~Ready /\ now = until
Interrupted == /\ Waiting /\ signals < MaxSignals
               /\ signals' = signals + 1
               /\ broken' = TRUE

\* select returns 0, or -1 for a signal.
ConnectTimeout ==
  /\ cpc = "conn_wait"
  /\ \/ TimedOut /\ UNCHANGED <<signals, broken>>
     \/ Interrupted
  /\ Fail("conn", "CONN_TIMEOUT")
  /\ LeaveSelect
  /\ UNCHANGED <<sock, len, offset, got, sentAt, kernelVars, began, first, rounds>>

\* send_tmout is called.
SendBegin ==
  /\ cpc = "send_begin"
  /\ \/ len = NoBuffer /\ Fail("send", "PARAM_ERROR")
     \/ len # NoBuffer /\ cpc' = "send" /\ UNCHANGED result
  /\ began' = now /\ broken' = FALSE
  /\ left' = Limit
  /\ UNCHANGED <<sock, len, offset, got, sentAt, kernelVars, signals, first, rounds,
                 now, until, updates>>

\* write takes some of what is left.
SendWrite ==
  /\ cpc = "send" /\ offset < len /\ peer # "reset"
  /\ \E n \in 1 .. room :
       /\ offset + n <= len
       /\ offset' = offset + n /\ room' = room - n
  /\ UNCHANGED <<cpc, sock, len, got, result, sentAt, peer, inq, answer, signals,
                 seenVars, clockVars>>

\* write would block: select, with what remains in tval.
SendBlocked ==
  /\ cpc = "send" /\ offset < len /\ room = 0 /\ peer # "reset"
  /\ cpc' = "send_wait"
  /\ rounds' = rounds + 1
  /\ EnterSelect(left)
  /\ UNCHANGED <<stageVars, kernelVars, signals, began, first, broken>>

SendError ==
  /\ cpc = "send" /\ offset < len /\ peer = "reset"
  /\ Fail("send", "SYS_ERROR")
  /\ UNCHANGED <<sock, len, offset, got, sentAt, kernelVars, signals, seenVars,
                 clockVars>>

\* A select that was interrupted sets the result and goes on.
SendReady ==
  /\ cpc = "send_wait"
  /\ \/ Ready /\ UNCHANGED <<result, signals, broken>>
     \/ Interrupted /\ Set("send", "SYS_ERROR")
  /\ cpc' = "send"
  /\ LeaveSelect
  /\ UNCHANGED <<sock, len, offset, got, sentAt, kernelVars, began, first, rounds>>

SendOnwards == "recv"  \* mutant: excute goes on
SendGivesUp == "close"

\* A timeout ends the loop, and leaves the result as it is.
SendTimeout ==
  /\ cpc = "send_wait" /\ TimedOut
  /\ cpc' = SendGivesUp
  /\ LeaveSelect
  /\ UNCHANGED <<stageVars, kernelVars, signals, seenVars>>

AllButOne == len # NoBuffer /\ offset + 1 >= len  \* mutant: off by one
AllSent   == offset = len

SendDone ==
  /\ cpc = "send" /\ AllSent
  /\ Set("send", "OK")
  /\ sentAt' = now /\ began' = now /\ broken' = FALSE
  /\ cpc' = "recv_wait"
  /\ EnterSelect(Limit)
  /\ UNCHANGED <<sock, len, offset, got, kernelVars, signals, first, rounds>>

RecvReady ==
  /\ cpc = "recv_wait" /\ Ready
  /\ cpc' = "recv"
  /\ LeaveSelect
  /\ UNCHANGED <<stageVars, kernelVars, signals, seenVars>>

RecvNone ==
  /\ cpc = "recv_wait"
  /\ \/ TimedOut /\ Fail("recv", "RECV_TIMEOUT") /\ UNCHANGED <<signals, broken>>
     \/ Interrupted /\ Fail("recv", "SYS_ERROR")
  /\ LeaveSelect
  /\ UNCHANGED <<sock, len, offset, got, sentAt, kernelVars, began, first, rounds>>

MoreRoom == got < RecvBuffer - 1

\* recv returns bytes.
RecvSome ==
  /\ cpc = "recv" /\ MoreRoom /\ peer # "reset"
  /\ \E n \in 1 .. inq :
       /\ n <= RecvBuffer - got
       /\ got' = got + n /\ inq' = inq - n
       /\ result' = [result EXCEPT !["recv"] = "OK", !["bytes"] = @ + n]
  /\ UNCHANGED <<cpc, sock, len, offset, sentAt, peer, room, answer, signals,
                 seenVars, clockVars>>

\* What recv_tmout leaves: the result, with the time of an answer.
RecvEnd(code) ==
  /\ result' = [result EXCEPT !["recv"] = code,
                              !["time"] = IF code = "OK" THEN UseTime(sentAt, now)
                                          ELSE @]
  /\ cpc' = "close"

\* recv returns 0; -1; there is nothing more, or no more room.
RecvLast ==
  /\ cpc = "recv"
  /\ \/ MoreRoom /\ inq = 0 /\ peer = "eof" /\ RecvEnd("CONN_ERROR")
     \/ MoreRoom /\ peer = "reset" /\ RecvEnd("SYS_ERROR")
     \/ MoreRoom /\ inq = 0 /\ peer = "up" /\ RecvEnd("OK")
     \/ ~MoreRoom /\ RecvEnd("OK")
  /\ UNCHANGED <<sock, len, offset, got, sentAt, kernelVars, signals, seenVars,
                 clockVars>>

OpenIfFailed == sock /\ result.conn # "OK"  \* mutant: closed if connected only
Closed == FALSE

\* excute ends with disconnection and the result.
Disconnection ==
  /\ cpc = "close"
  /\ sock' = Closed
  /\ cpc' = "done"
  /\ UNCHANGED <<len, offset, got, result, sentAt, kernelVars, signals, seenVars,
                 clockVars>>

\* The caller's NetCheck goes, and the connection with it.
CheckReturn ==
  /\ cpc = "done"
  /\ cpc' = "idle" /\ sock' = FALSE /\ len' = NoBuffer /\ offset' = 0
  /\ got' = 0 /\ result' = NoResult /\ sentAt' = 0
  /\ peer' = "syn" /\ room' = 0 /\ inq' = 0 /\ answer' = 0
  /\ signals' = 0 /\ began' = 0 /\ first' = 0 /\ rounds' = 0 /\ broken' = FALSE
  /\ left' = 0 /\ UNCHANGED <<now, until, updates>>

CheckStep ==
  \/ SetAddress \/ SocketFail \/ Connect \/ ConnectReady \/ ConnectTimeout
  \/ SendBegin \/ SendWrite \/ SendBlocked \/ SendError \/ SendReady
  \/ SendTimeout \/ SendDone \/ RecvReady \/ RecvNone \/ RecvSome \/ RecvLast
  \/ Disconnection \/ CheckReturn

=============================================================================
