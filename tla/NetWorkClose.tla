---------------------------- MODULE NetWorkClose ----------------------------
(***************************************************************************)
(* With one thread that calls connect, a handle names one connection for   *)
(* ever, and a connection is closed once, however many threads close it.   *)
(* (With two, make_handle can give both the same handle: run               *)
(* unique_handle.)                                                         *)
(***************************************************************************)
EXTENDS NetWorkTypes

USE ThreadsAssumption, NumbersAssumption
USE DEF makeVars, frameVars, callVars, roundVars, loopVars, refVars, fieldVars,
        dataVars, connVars, tableVars, sockVars, netVars, closeVars, histVars,
        sharedVars, vars

\* connect is called by one thread only.
OneConnector == \A t, u \in Connectors : t = u

MakePc  == {"mh_check", "mh_next", "mh_return"}
SetupPc == {"c_connect", "c_add"}
KillPc  == {"k_fd", "k_del", "k_remove", "k_state"}

\* make_handle is about to give out a number above every number in use: the
\* counter is not read and written by two threads at once.
FreshHandle ==
  \A t \in Threads :
    /\ pc[t] \in ConnectPc => t \in Connectors
    /\ pc[t] = "mh_store" => tmp[t] = hseq /\ handle[new[t]] = 0
    /\ pc[t] \in MakePc =>
         /\ handle[new[t]] = 0
         /\ \A c \in Conns : handle[c] < hseq
         /\ \A h \in Handles : closer[h] # "none" => h < hseq

\* A handle in use is the handle of one connection, which is where the table
\* says it is.
UniqueHandle ==
  /\ \A c \in Conns : handle[c] <= hseq
  /\ \A h \in Handles : closer[h] # "none" => h <= hseq
  /\ \A c, d \in Conns : handle[c] = handle[d] /\ handle[c] # 0 => c = d
  /\ \A h \in Handles : conns[h] # None => handle[conns[h]] = h

\* A connection under construction is not in the table, not closed and not
\* being closed.
Setup ==
  /\ \A c \in Conns : life[c] = "none" => handle[c] = 0 /\ closes[c] = 0
  /\ \A t \in Threads :
       /\ pc[t] \in Creating =>
            /\ life[new[t]] # "none"
            /\ closes[new[t]] = 0
       /\ pc[t] \in SetupPc =>
            /\ \A h \in Handles : conns[h] # new[t]
            /\ closer[handle[new[t]]] = "none"
            /\ \A u \in Threads : pc[u] = "k_state" => ptr[u] # new[t]

\* The one thread that took a connection out of the table closes it.
OneCloser ==
  /\ \A t \in Threads : pc[t] \in KillPc => handle[ptr[t]] = arg[t]
  /\ \A t \in Threads :
       pc[t] = "k_state" =>
         /\ closes[ptr[t]] = 0
         /\ \A h \in Handles : conns[h] # ptr[t]
  /\ \A t, u \in Threads :
       pc[t] = "k_state" /\ pc[u] = "k_state" /\ ptr[t] = ptr[u] => t = u
  /\ \A c \in Conns, h \in Handles : closes[c] > 0 => conns[h] # c

CloseInv == FreshHandle /\ UniqueHandle /\ Setup /\ OneCloser /\ CloseOnce

\* A step keeps the number make_handle is about to give out fresh.
LEMMA FreshHandleStep ==
  ASSUME OneConnector, TypeInv, CloseInv, [Next]_vars
  PROVE  FreshHandle'
<1> USE DEF TypeInv, CloseInv
<1>1. ASSUME NEW t \in Threads, NEW c \in Conns, ConnectNew(t, c)
      PROVE  FreshHandle'
  BY <1>1 DEF ConnectNew, Setup, TypeOK, FreshHandle, ConnectPc, MakePc, Goto
<1>2. ASSUME NEW t \in Threads, NEW h \in Handles, SendCall(t, h)
      PROVE  FreshHandle'
  BY <1>2 DEF SendCall, TypeOK, FreshHandle, ConnectPc, MakePc, Goto
<1>3. ASSUME NEW t \in Threads, NEW h \in Handles, CloseCall(t, h)
      PROVE  FreshHandle'
  BY <1>3
    DEF CloseCall, BeginClose, TypeOK, FreshHandle, ConnectPc, MakePc, Goto
<1>4. ASSUME NEW t \in Threads, NEW h \in Handles, StatusCall(t, h)
      PROVE  FreshHandle'
  BY <1>4 DEF StatusCall, TypeOK, FreshHandle, ConnectPc, MakePc, Goto
<1>5. ASSUME NEW t \in Threads, ConnectStep(t) PROVE  FreshHandle'
  <2>1. CASE MakeHandleStore(t)
    BY <2>1
      DEF MakeHandleStore, OneConnector, NextHandle, UniqueHandle,
          ConnectLocals, Handles, TypeOK, FreshHandle, ConnectPc, MakePc, Goto
  <2>2. CASE MakeHandleCheck(t)
    BY <2>2 DEF MakeHandleCheck, TypeOK, FreshHandle, ConnectPc, MakePc, Goto
  <2>3. CASE MakeHandleNext(t)
    BY <2>3
      DEF MakeHandleNext, OneConnector, NextHandle, ConnectLocals, Handles,
          TypeOK, FreshHandle, ConnectPc, MakePc, Goto
  <2>4. CASE MakeHandleReturn(t)
    BY <2>4
      DEF MakeHandleReturn, OneConnector, ConnectLocals, TypeOK, FreshHandle,
          ConnectPc, MakePc, Goto
  <2>5. CASE ConnectSocket(t)
    BY <2>5 DEF ConnectSocket, TypeOK, FreshHandle, ConnectPc, MakePc, Goto
  <2>6. CASE ConnectFail(t)
    BY <2>6
      DEF ConnectFail, Home, TypeOK, FreshHandle, ConnectPc, MakePc, Goto
  <2>7. CASE AddConn(t)
    BY <2>7 DEF AddConn, TypeOK, FreshHandle, ConnectPc, MakePc, Goto
  <2>8. CASE AddConnTaken(t)
    BY <2>8 DEF AddConnTaken, TypeOK, FreshHandle, ConnectPc, MakePc, Goto
  <2>9. CASE AddConnLog(t)
    BY <2>9 DEF AddConnLog, Home, TypeOK, FreshHandle, ConnectPc, MakePc, Goto
  <2>10. CASE AddEventFd(t)
    BY <2>10 DEF AddEventFd, TypeOK, FreshHandle, ConnectPc, MakePc, Goto
  <2>11. CASE AddEventCtl(t)
    BY <2>11 DEF AddEventCtl, TypeOK, FreshHandle, ConnectPc, MakePc, Goto
  <2>12. CASE ConnectReturn(t)
    BY <2>12
      DEF ConnectReturn, Home, TypeOK, FreshHandle, ConnectPc, MakePc, Goto
  <2>13. QED
    BY <1>5, <2>1, <2>2, <2>3, <2>4, <2>5, <2>6, <2>7, <2>8, <2>9, <2>10,
       <2>11, <2>12
      DEF ConnectStep
<1>6. ASSUME NEW t \in Threads, SendStep(t) PROVE  FreshHandle'
  <2>1. CASE DeliverRefused(t)
    BY <2>1 DEF DeliverRefused, TypeOK, FreshHandle, ConnectPc, MakePc, Goto
  <2>2. CASE DeliverData(t)
    BY <2>2 DEF DeliverData, TypeOK, FreshHandle, ConnectPc, MakePc, Goto
  <2>3. CASE DeliverSetEvent(t)
    BY <2>3 DEF DeliverSetEvent, TypeOK, FreshHandle, ConnectPc, MakePc, Goto
  <2>4. QED
    BY <1>6, <2>1, <2>2, <2>3 DEF SendStep
<1>7. ASSUME NEW t \in Threads, CloseStep(t) PROVE  FreshHandle'
  <2>1. CASE CloseGet(t)
    BY SMTT(30), <2>1
      DEF CloseGet, CallEnd, TypeOK, FreshHandle, ConnectPc, MakePc, Goto
  <2>2. CASE CloseFd(t)
    BY <2>2 DEF CloseFd, TypeOK, FreshHandle, ConnectPc, MakePc, Goto
  <2>3. CASE CloseRemoveEvent(t)
    BY <2>3 DEF CloseRemoveEvent, TypeOK, FreshHandle, ConnectPc, MakePc, Goto
  <2>4. CASE CloseRemoveConn(t)
    BY <2>4
      DEF CloseRemoveConn, AfterRemove, UniqueHandle, CallLocals, ClosePc,
          Handles, TypeOK, FreshHandle, ConnectPc, MakePc, Goto
  <2>5. CASE ConnCloseState(t)
    BY <2>5 DEF ConnCloseState, TypeOK, FreshHandle, ConnectPc, MakePc, Goto
  <2>6. CASE ConnCloseSocket(t)
    BY <2>6 DEF ConnCloseSocket, TypeOK, FreshHandle, ConnectPc, MakePc, Goto
  <2>7. QED
    BY <1>7, <2>1, <2>2, <2>3, <2>4, <2>5, <2>6 DEF CloseStep
<1>8. ASSUME NEW t \in Threads, StatusStep(t) PROVE  FreshHandle'
  BY <1>8
    DEF StatusStep, StatusRead, StatusReturn, Home, TypeOK, FreshHandle,
        ConnectPc, MakePc, Goto
<1>9. ASSUME NEW t \in Threads, CallRelease(t) PROVE  FreshHandle'
  <2>1. ret[t] \notin ConnectPc \cup MakePc
    BY SMTT(30) DEF TypeOK, ConnectPc, MakePc
  <2>2. /\ pc' = [pc EXCEPT ![t] = ret[t]]
        /\ UNCHANGED <<new, tmp, hseq, handle, closer>>
    BY <1>9 DEF CallRelease, CallEnd, Goto
  <2>3. QED
    BY <2>1, <2>2 DEF TypeOK, FreshHandle, ConnectPc
<1>10. ASSUME NEW l \in Loops, RoundStep(l) PROVE  FreshHandle'
  <2>1. CASE GetEvents(l)
    BY <2>1 DEF GetEvents, TypeOK, FreshHandle, ConnectPc, MakePc, Goto
  <2>2. ASSUME NEW e \in batch[l], NextEvent(l, e)
        PROVE  FreshHandle'
    BY <2>2 DEF NextEvent, TypeOK, FreshHandle, ConnectPc, MakePc, Goto
  <2>3. CASE ReleaseEvent(l)
    BY <2>3 DEF ReleaseEvent, TypeOK, FreshHandle, ConnectPc, MakePc, Goto
  <2>4. CASE CallbackReturn(l)
    BY SMTT(30), <2>4
      DEF CallbackReturn, TypeOK, FreshHandle, ConnectPc, MakePc, Goto
  <2>5. QED
    BY <1>10, <2>1, <2>2, <2>3, <2>4 DEF RoundStep
<1>11. ASSUME NEW l \in Loops, ReadStep(l) PROVE  FreshHandle'
  BY <1>11
    DEF ReadStep, ReadSkip, ReadBegin, ReadData, ReadBroken, ReadDone,
        ReadMore, ReadClosed, BeginClose, Callback, TypeOK, FreshHandle,
        ConnectPc, MakePc, Goto
<1>12. ASSUME NEW l \in Loops, WriteStep(l) PROVE  FreshHandle'
  <2>1. CASE WriteSkip(l)
    BY <2>1 DEF WriteSkip, TypeOK, FreshHandle, ConnectPc, MakePc, Goto
  <2>2. CASE WriteOutcome(l)
    BY <2>2 DEF WriteOutcome, TypeOK, FreshHandle, ConnectPc, MakePc, Goto
  <2>3. CASE WriteConnected(l)
    BY <2>3 DEF WriteConnected, TypeOK, FreshHandle, ConnectPc, MakePc, Goto
  <2>4. CASE OnConnect(l)
    BY <2>4
      DEF OnConnect, Callback, TypeOK, FreshHandle, ConnectPc, MakePc, Goto
  <2>5. CASE WriteFailed(l)
    BY <2>5
      DEF WriteFailed, BeginClose, TypeOK, FreshHandle, ConnectPc, MakePc,
          Goto
  <2>6. CASE WriteClosed(l)
    BY <2>6
      DEF WriteClosed, Callback, TypeOK, FreshHandle, ConnectPc, MakePc, Goto
  <2>7. CASE WriteBegin(l)
    BY <2>7 DEF WriteBegin, TypeOK, FreshHandle, ConnectPc, MakePc, Goto
  <2>8. CASE WriteSome(l)
    BY <2>8 DEF WriteSome, TypeOK, FreshHandle, ConnectPc, MakePc, Goto
  <2>9. CASE WriteAll(l)
    BY <2>9 DEF WriteAll, TypeOK, FreshHandle, ConnectPc, MakePc, Goto
  <2>10. CASE WriteSetEvent(l)
    BY <2>10 DEF WriteSetEvent, TypeOK, FreshHandle, ConnectPc, MakePc, Goto
  <2>11. QED
    BY <1>12, <2>1, <2>2, <2>3, <2>4, <2>5, <2>6, <2>7, <2>8, <2>9, <2>10
      DEF WriteStep
<1>13. ASSUME NEW l \in Loops, TimeStep(l) PROVE  FreshHandle'
  BY <1>13
    DEF TimeStep, TimeSkip, CheckTimeout, TimeoutClose, TimeoutClosed, Clear,
        BeginClose, Callback, TypeOK, FreshHandle, ConnectPc, MakePc, Goto
<1>14. ASSUME NEW c \in Conns, NetStep(c) PROVE  FreshHandle'
  BY <1>14 DEF NetStep, TypeOK, FreshHandle, ConnectPc, MakePc, Goto
<1>15. ASSUME NEW c \in Conns, Tick(c) PROVE  FreshHandle'
  BY <1>15 DEF Tick, TypeOK, FreshHandle, ConnectPc, MakePc, Goto
<1>16. CASE UNCHANGED vars
  BY <1>16 DEF TypeOK, FreshHandle, ConnectPc, MakePc, Goto
<1>17. QED
  BY <1>1, <1>2, <1>3, <1>4, <1>5, <1>6, <1>7, <1>8, <1>9, <1>10, <1>11,
     <1>12, <1>13, <1>14, <1>15, <1>16
    DEF Next, ApiCall, CallStep, LoopStep

\* A step keeps handles unique.
LEMMA UniqueHandleStep ==
  ASSUME OneConnector, TypeInv, CloseInv, [Next]_vars
  PROVE  UniqueHandle'
<1> USE DEF TypeInv, CloseInv
<1>1. ASSUME NEW t \in Threads, NEW c \in Conns, ConnectNew(t, c)
      PROVE  UniqueHandle'
  BY <1>1 DEF ConnectNew, TypeOK, UniqueHandle
<1>2. ASSUME NEW t \in Threads, NEW h \in Handles, SendCall(t, h)
      PROVE  UniqueHandle'
  BY <1>2 DEF SendCall, TypeOK, UniqueHandle
<1>3. ASSUME NEW t \in Threads, NEW h \in Handles, CloseCall(t, h)
      PROVE  UniqueHandle'
  BY <1>3 DEF CloseCall, BeginClose, TypeOK, UniqueHandle
<1>4. ASSUME NEW t \in Threads, NEW h \in Handles, StatusCall(t, h)
      PROVE  UniqueHandle'
  BY <1>4 DEF StatusCall, TypeOK, UniqueHandle
<1>5. ASSUME NEW t \in Threads, ConnectStep(t) PROVE  UniqueHandle'
  <2>1. CASE MakeHandleStore(t)
    BY <2>1
      DEF MakeHandleStore, FreshHandle, NextHandle, ConnectLocals, Handles,
          TypeOK, UniqueHandle
  <2>2. CASE MakeHandleCheck(t)
    BY <2>2 DEF MakeHandleCheck, TypeOK, UniqueHandle
  <2>3. CASE MakeHandleNext(t)
    BY <2>3
      DEF MakeHandleNext, NextHandle, ConnectLocals, Handles, TypeOK,
          UniqueHandle
  <2>4. CASE MakeHandleReturn(t)
    BY <2>4
      DEF MakeHandleReturn, FreshHandle, MakePc, ConnectLocals, ConnectPc,
          Handles, TypeOK, UniqueHandle
  <2>5. CASE ConnectSocket(t)
    BY <2>5 DEF ConnectSocket, TypeOK, UniqueHandle
  <2>6. CASE ConnectFail(t)
    BY <2>6 DEF ConnectFail, TypeOK, UniqueHandle
  <2>7. CASE AddConn(t)
    BY <2>7 DEF AddConn, ConnectLocals, ConnectPc, TypeOK, UniqueHandle
  <2>8. CASE AddConnTaken(t)
    BY <2>8 DEF AddConnTaken, TypeOK, UniqueHandle
  <2>9. CASE AddConnLog(t)
    BY <2>9 DEF AddConnLog, TypeOK, UniqueHandle
  <2>10. CASE AddEventFd(t)
    BY <2>10 DEF AddEventFd, TypeOK, UniqueHandle
  <2>11. CASE AddEventCtl(t)
    BY <2>11 DEF AddEventCtl, TypeOK, UniqueHandle
  <2>12. CASE ConnectReturn(t)
    BY <2>12 DEF ConnectReturn, TypeOK, UniqueHandle
  <2>13. QED
    BY <1>5, <2>1, <2>2, <2>3, <2>4, <2>5, <2>6, <2>7, <2>8, <2>9, <2>10,
       <2>11, <2>12
      DEF ConnectStep
<1>6. ASSUME NEW t \in Threads, SendStep(t) PROVE  UniqueHandle'
  <2>1. CASE DeliverRefused(t)
    BY <2>1 DEF DeliverRefused, TypeOK, UniqueHandle
  <2>2. CASE DeliverData(t)
    BY <2>2 DEF DeliverData, TypeOK, UniqueHandle
  <2>3. CASE DeliverSetEvent(t)
    BY <2>3 DEF DeliverSetEvent, TypeOK, UniqueHandle
  <2>4. QED
    BY <1>6, <2>1, <2>2, <2>3 DEF SendStep
<1>7. ASSUME NEW t \in Threads, CloseStep(t) PROVE  UniqueHandle'
  <2>1. CASE CloseGet(t)
    BY <2>1 DEF CloseGet, TypeOK, UniqueHandle
  <2>2. CASE CloseFd(t)
    BY <2>2 DEF CloseFd, TypeOK, UniqueHandle
  <2>3. CASE CloseRemoveEvent(t)
    BY <2>3 DEF CloseRemoveEvent, TypeOK, UniqueHandle
  <2>4. CASE CloseRemoveConn(t)
    BY <2>4
      DEF CloseRemoveConn, CallLocals, ClosePc, Handles, TypeOK, UniqueHandle
  <2>5. CASE ConnCloseState(t)
    BY <2>5 DEF ConnCloseState, TypeOK, UniqueHandle
  <2>6. CASE ConnCloseSocket(t)
    BY <2>6 DEF ConnCloseSocket, TypeOK, UniqueHandle
  <2>7. QED
    BY <1>7, <2>1, <2>2, <2>3, <2>4, <2>5, <2>6 DEF CloseStep
<1>8. ASSUME NEW t \in Threads, StatusStep(t) PROVE  UniqueHandle'
  BY <1>8 DEF StatusStep, StatusRead, StatusReturn, TypeOK, UniqueHandle
<1>9. ASSUME NEW t \in Threads, CallRelease(t) PROVE  UniqueHandle'
  BY <1>9 DEF CallRelease, TypeOK, UniqueHandle
<1>10. ASSUME NEW l \in Loops, RoundStep(l) PROVE  UniqueHandle'
  BY <1>10
    DEF RoundStep, GetEvents, NextEvent, ReleaseEvent, CallbackReturn, TypeOK,
        UniqueHandle
<1>11. ASSUME NEW l \in Loops, ReadStep(l) PROVE  UniqueHandle'
  BY <1>11
    DEF ReadStep, ReadSkip, ReadBegin, ReadData, ReadBroken, ReadDone,
        ReadMore, ReadClosed, TypeOK, UniqueHandle
<1>12. ASSUME NEW l \in Loops, WriteStep(l) PROVE  UniqueHandle'
  <2>1. CASE WriteSkip(l)
    BY <2>1 DEF WriteSkip, TypeOK, UniqueHandle
  <2>2. CASE WriteOutcome(l)
    BY <2>2 DEF WriteOutcome, TypeOK, UniqueHandle
  <2>3. CASE WriteConnected(l)
    BY <2>3 DEF WriteConnected, TypeOK, UniqueHandle
  <2>4. CASE OnConnect(l)
    BY <2>4 DEF OnConnect, Callback, TypeOK, UniqueHandle
  <2>5. CASE WriteFailed(l)
    BY <2>5 DEF WriteFailed, BeginClose, TypeOK, UniqueHandle
  <2>6. CASE WriteClosed(l)
    BY <2>6 DEF WriteClosed, Callback, TypeOK, UniqueHandle
  <2>7. CASE WriteBegin(l)
    BY <2>7 DEF WriteBegin, TypeOK, UniqueHandle
  <2>8. CASE WriteSome(l)
    BY <2>8 DEF WriteSome, TypeOK, UniqueHandle
  <2>9. CASE WriteAll(l)
    BY <2>9 DEF WriteAll, TypeOK, UniqueHandle
  <2>10. CASE WriteSetEvent(l)
    BY <2>10 DEF WriteSetEvent, TypeOK, UniqueHandle
  <2>11. QED
    BY <1>12, <2>1, <2>2, <2>3, <2>4, <2>5, <2>6, <2>7, <2>8, <2>9, <2>10
      DEF WriteStep
<1>13. ASSUME NEW l \in Loops, TimeStep(l) PROVE  UniqueHandle'
  BY <1>13
    DEF TimeStep, TimeSkip, CheckTimeout, TimeoutClose, TimeoutClosed, Clear,
        TypeOK, UniqueHandle
<1>14. ASSUME NEW c \in Conns, NetStep(c) PROVE  UniqueHandle'
  BY <1>14 DEF NetStep, TypeOK, UniqueHandle
<1>15. ASSUME NEW c \in Conns, Tick(c) PROVE  UniqueHandle'
  BY <1>15 DEF Tick, TypeOK, UniqueHandle
<1>16. CASE UNCHANGED vars
  BY <1>16 DEF TypeOK, UniqueHandle
<1>17. QED
  BY <1>1, <1>2, <1>3, <1>4, <1>5, <1>6, <1>7, <1>8, <1>9, <1>10, <1>11,
     <1>12, <1>13, <1>14, <1>15, <1>16
    DEF Next, ApiCall, CallStep, LoopStep

\* A step keeps the connection under construction to its creator.
LEMMA SetupStep ==
  ASSUME OneConnector, TypeInv, CloseInv, [Next]_vars
  PROVE  Setup'
<1> USE DEF TypeInv, CloseInv
<1>1. ASSUME NEW t \in Threads, NEW c \in Conns, ConnectNew(t, c)
      PROVE  Setup'
  BY <1>1
    DEF ConnectNew, CanCall, Home, TypeOK, Setup, Creating, SetupPc, Goto
<1>2. ASSUME NEW t \in Threads, NEW h \in Handles, SendCall(t, h)
      PROVE  Setup'
  BY <1>2 DEF SendCall, TypeOK, Setup, Creating, SetupPc, Goto
<1>3. ASSUME NEW t \in Threads, NEW h \in Handles, CloseCall(t, h)
      PROVE  Setup'
  BY <1>3 DEF CloseCall, BeginClose, TypeOK, Setup, Creating, SetupPc, Goto
<1>4. ASSUME NEW t \in Threads, NEW h \in Handles, StatusCall(t, h)
      PROVE  Setup'
  <2>1. \A c \in Conns : life'[c] = "none" => life[c] = "none"
    BY <1>4 DEF StatusCall, TypeOK
  <2>2. \A u \in Threads :
        /\ pc'[u] \in Creating => pc[u] \in Creating /\ new'[u] = new[u]
        /\ pc'[u] \in SetupPc => pc[u] \in SetupPc
        /\ pc'[u] = "k_state" => pc[u] = "k_state" /\ ptr'[u] = ptr[u]
    BY <1>4 DEF StatusCall, TypeOK, Creating, SetupPc, Goto
  <2>3. UNCHANGED <<handle, closes, conns, closer>>
    BY <1>4 DEF StatusCall
  <2>4. \A u \in Threads : pc[u] \in Creating => new[u] \in Conns
    BY DEF ConnectLocals, ConnectPc, Creating
  <2>5. QED
    BY <2>1, <2>2, <2>3, <2>4 DEF Setup, SetupPc, Creating
<1>5. ASSUME NEW t \in Threads, ConnectStep(t) PROVE  Setup'
  <2>1. CASE MakeHandleStore(t)
    BY <2>1 DEF MakeHandleStore, TypeOK, Setup, Creating, SetupPc, Goto
  <2>2. CASE MakeHandleCheck(t)
    BY <2>2 DEF MakeHandleCheck, TypeOK, Setup, Creating, SetupPc, Goto
  <2>3. CASE MakeHandleNext(t)
    <3>1. \A c \in Conns : life'[c] = "none" => life[c] = "none"
      BY <2>3 DEF MakeHandleNext, Release, Destroy, TypeOK
    <3>2. \A u \in Threads :
          /\ pc'[u] \in Creating => pc[u] \in Creating /\ new'[u] = new[u]
          /\ pc'[u] \in SetupPc => pc[u] \in SetupPc
          /\ pc'[u] = "k_state" => pc[u] = "k_state" /\ ptr'[u] = ptr[u]
      BY <2>3 DEF MakeHandleNext, TypeOK, Creating, SetupPc, Goto
    <3>3. UNCHANGED <<handle, closes, conns, closer>>
      BY <2>3 DEF MakeHandleNext
    <3>4. \A u \in Threads : pc[u] \in Creating => new[u] \in Conns
      BY DEF ConnectLocals, ConnectPc, Creating
    <3>5. QED
      BY <3>1, <3>2, <3>3, <3>4 DEF Setup, SetupPc, Creating
  <2>4. CASE MakeHandleReturn(t)
    <3>1. PICK c \in Conns : c = new[t]
      BY <2>4 DEF MakeHandleReturn, ConnectLocals, ConnectPc
    <3>2. /\ handle[c] = 0 /\ hseq \in Handles
          /\ \A h \in Handles : closer[h] # "none" => h < hseq
      BY <2>4, <3>1 DEF MakeHandleReturn, FreshHandle, MakePc, ConnectLocals
    <3>3. handle' = [handle EXCEPT ![c] = hseq]
      BY <2>4, <3>1 DEF MakeHandleReturn
    <3>4. \A h \in Handles : conns[h] # c
      <4> SUFFICES ASSUME NEW h \in Handles, conns[h] = c PROVE FALSE
        OBVIOUS
      <4>1. handle[c] = h
        BY DEF UniqueHandle
      <4>2. QED
        BY <4>1, <3>2 DEF Handles
    <3>5. \A u \in Threads : pc[u] = "k_state" => ptr[u] # c
      BY <3>2 DEF OneCloser, KillPc, CallLocals, ClosePc, Handles
    <3>6. life[c] # "none" /\ closes[c] = 0
      BY <2>4, <3>1 DEF MakeHandleReturn, Setup, Creating
    <3>7. closer[hseq] = "none"
      BY <3>2 DEF Handles
    <3>8. /\ pc' = [pc EXCEPT ![t] = "c_connect"]
          /\ UNCHANGED <<new, life, closes, conns, closer, ptr>>
      BY <2>4 DEF MakeHandleReturn, Goto
    <3>9. \A u \in Threads : u # t => pc[u] \notin SetupPc
      BY <2>4 DEF MakeHandleReturn, FreshHandle, ConnectPc, SetupPc, OneConnector
    <3>10. handle'[c] = hseq
      BY <3>3 DEF TypeOK
    <3>11. \A d \in Conns : life[d] = "none" => handle'[d] = 0
      BY <3>3, <3>6 DEF TypeOK, Setup
    <3>12. QED
      BY <3>1, <3>4, <3>5, <3>6, <3>7, <3>8, <3>9, <3>10, <3>11
      DEF TypeOK, Setup, Creating, SetupPc
  <2>5. CASE ConnectSocket(t)
    BY <2>5 DEF ConnectSocket, TypeOK, Setup, Creating, SetupPc, Goto
  <2>6. CASE ConnectFail(t)
    <3>1. \A c \in Conns : life'[c] = "none" => life[c] = "none"
      BY <2>6 DEF ConnectFail, Delete, Destroy, TypeOK
    <3>2. \A u \in Threads :
          /\ pc'[u] \in Creating => pc[u] \in Creating /\ new'[u] = new[u]
          /\ pc'[u] \in SetupPc => pc[u] \in SetupPc
          /\ pc'[u] = "k_state" => pc[u] = "k_state" /\ ptr'[u] = ptr[u]
      BY <2>6 DEF ConnectFail, Home, TypeOK, Creating, SetupPc, Goto
    <3>3. UNCHANGED <<handle, closes, conns, closer>>
      BY <2>6 DEF ConnectFail
    <3>4. \A u \in Threads : pc[u] \in Creating => new[u] \in Conns
      BY DEF ConnectLocals, ConnectPc, Creating
    <3>5. QED
      BY <3>1, <3>2, <3>3, <3>4 DEF Setup, SetupPc, Creating
  <2>7. CASE AddConn(t)
    BY <2>7
      DEF AddConn, OneConnector, FreshHandle, ConnectPc, ConnectLocals,
          TypeOK, Setup, Creating, SetupPc, Goto
  <2>8. CASE AddConnTaken(t)
    <3>1. \A c \in Conns : life'[c] = "none" => life[c] = "none"
      BY <2>8 DEF AddConnTaken, Delete, Destroy, TypeOK
    <3>2. \A u \in Threads :
          /\ pc'[u] \in Creating => pc[u] \in Creating /\ new'[u] = new[u]
          /\ pc'[u] \in SetupPc => pc[u] \in SetupPc
          /\ pc'[u] = "k_state" => pc[u] = "k_state" /\ ptr'[u] = ptr[u]
      BY <2>8 DEF AddConnTaken, TypeOK, Creating, SetupPc, Goto
    <3>3. UNCHANGED <<handle, closes, conns, closer>>
      BY <2>8 DEF AddConnTaken
    <3>4. \A u \in Threads : pc[u] \in Creating => new[u] \in Conns
      BY DEF ConnectLocals, ConnectPc, Creating
    <3>5. QED
      BY <3>1, <3>2, <3>3, <3>4 DEF Setup, SetupPc, Creating
  <2>9. CASE AddConnLog(t)
    BY <2>9 DEF AddConnLog, Home, TypeOK, Setup, Creating, SetupPc, Goto
  <2>10. CASE AddEventFd(t)
    BY <2>10 DEF AddEventFd, TypeOK, Setup, Creating, SetupPc, Goto
  <2>11. CASE AddEventCtl(t)
    BY <2>11 DEF AddEventCtl, TypeOK, Setup, Creating, SetupPc, Goto
  <2>12. CASE ConnectReturn(t)
    BY <2>12 DEF ConnectReturn, Home, TypeOK, Setup, Creating, SetupPc, Goto
  <2>13. QED
    BY <1>5, <2>1, <2>2, <2>3, <2>4, <2>5, <2>6, <2>7, <2>8, <2>9, <2>10,
       <2>11, <2>12
      DEF ConnectStep
<1>6. ASSUME NEW t \in Threads, SendStep(t) PROVE  Setup'
  <2>1. CASE DeliverRefused(t)
    BY <2>1 DEF DeliverRefused, TypeOK, Setup, Creating, SetupPc, Goto
  <2>2. CASE DeliverData(t)
    BY <2>2 DEF DeliverData, TypeOK, Setup, Creating, SetupPc, Goto
  <2>3. CASE DeliverSetEvent(t)
    BY <2>3 DEF DeliverSetEvent, TypeOK, Setup, Creating, SetupPc, Goto
  <2>4. QED
    BY <1>6, <2>1, <2>2, <2>3 DEF SendStep
<1>7. ASSUME NEW t \in Threads, CloseStep(t) PROVE  Setup'
  <2>1. CASE CloseGet(t)
    BY SMTT(30), <2>1
      DEF CloseGet, CallEnd, TypeOK, Setup, Creating, SetupPc, Goto
  <2>2. CASE CloseFd(t)
    BY <2>2 DEF CloseFd, TypeOK, Setup, Creating, SetupPc, Goto
  <2>3. CASE CloseRemoveEvent(t)
    BY <2>3 DEF CloseRemoveEvent, TypeOK, Setup, Creating, SetupPc, Goto
  <2>4. CASE CloseRemoveConn(t)
    <3>1. CASE conns[arg[t]] = None
      <4>1. /\ pc' = [pc EXCEPT ![t] = "rel"]
            /\ UNCHANGED <<arg, ptr, new, life, handle, closes, conns, closer>>
        BY <2>4, <3>1 DEF CloseRemoveConn, AfterRemove, Goto
      <4>2. QED
        BY <4>1 DEF TypeOK, Setup, Creating, SetupPc
    <3>2. CASE conns[arg[t]] # None
      <4>1. /\ pc[t] = "k_remove" /\ arg[t] \in Handles /\ ptr[t] \in Conns
            /\ handle[ptr[t]] = arg[t]
        BY <2>4 DEF CloseRemoveConn, CallLocals, PtrPc, ClosePc, OneCloser, KillPc
      <4>2. conns[arg[t]] = ptr[t]
        BY <3>2, <4>1 DEF TypeOK, UniqueHandle, Handles
      <4>3. \A h \in Handles : conns[h] = ptr[t] => h = arg[t]
        BY <4>1 DEF TypeOK, UniqueHandle
      <4>4. /\ pc' = [pc EXCEPT ![t] = "k_state"]
            /\ conns' = [conns EXCEPT ![arg[t]] = None]
            /\ UNCHANGED <<arg, ptr, new, life, handle, closes>>
        BY <2>4, <3>2 DEF CloseRemoveConn, AfterRemove, Goto
      <4>5. \A h \in Handles : h # arg[t] => closer'[h] = closer[h]
        BY <2>4, <3>2 DEF CloseRemoveConn, TypeOK
      <4>6. \A u \in Threads : pc[u] \in SetupPc => new[u] # ptr[t]
        BY <4>1, <4>2 DEF Setup
      <4>7. \A u \in Threads :
              pc[u] \in SetupPc => /\ new[u] \in Conns
                                   /\ handle[new[u]] \in Handles
                                   /\ handle[new[u]] # arg[t]
        BY <4>1, <4>6 DEF UniqueHandle, ConnectLocals, ConnectPc, SetupPc, Handles
      <4>8. None \notin Conns
        OBVIOUS
      <4>9. QED
        BY <4>1, <4>4, <4>5, <4>6, <4>7, <4>8 DEF TypeOK, Setup, Creating, SetupPc
    <3>3. QED
      BY <3>1, <3>2
  <2>5. CASE ConnCloseState(t)
    BY SMTT(30), <2>5
      DEF ConnCloseState, FreshHandle, MakePc, OneCloser, KillPc, CallLocals,
          PtrPc, ClosePc, Handles, TypeOK, Setup, Creating, SetupPc, Goto
  <2>6. CASE ConnCloseSocket(t)
    BY <2>6 DEF ConnCloseSocket, TypeOK, Setup, Creating, SetupPc, Goto
  <2>7. QED
    BY <1>7, <2>1, <2>2, <2>3, <2>4, <2>5, <2>6 DEF CloseStep
<1>8. ASSUME NEW t \in Threads, StatusStep(t) PROVE  Setup'
  BY <1>8
    DEF StatusStep, StatusRead, StatusReturn, Home, TypeOK, Setup, Creating,
        SetupPc, Goto
<1>9. ASSUME NEW t \in Threads, CallRelease(t) PROVE  Setup'
  <2>1. \A c \in Conns : life'[c] = "none" => life[c] = "none"
    BY <1>9 DEF CallRelease, Release, Destroy, TypeOK
  <2>2. \A u \in Threads :
        /\ pc'[u] \in Creating => pc[u] \in Creating /\ new'[u] = new[u]
        /\ pc'[u] \in SetupPc => pc[u] \in SetupPc
        /\ pc'[u] = "k_state" => pc[u] = "k_state" /\ ptr'[u] = ptr[u]
    BY SMTT(30), <1>9
      DEF CallRelease, CallEnd, TypeOK, Creating, SetupPc, Goto
  <2>3. UNCHANGED <<handle, closes, conns, closer>>
    BY <1>9 DEF CallRelease
  <2>4. \A u \in Threads : pc[u] \in Creating => new[u] \in Conns
    BY DEF ConnectLocals, ConnectPc, Creating
  <2>5. QED
    BY <2>1, <2>2, <2>3, <2>4 DEF Setup, SetupPc, Creating
<1>10. ASSUME NEW l \in Loops, RoundStep(l) PROVE  Setup'
  <2>1. CASE GetEvents(l)
    BY <2>1 DEF GetEvents, TypeOK, Setup, Creating, SetupPc, Goto
  <2>2. ASSUME NEW e \in batch[l], NextEvent(l, e)
        PROVE  Setup'
    BY <2>2 DEF NextEvent, TypeOK, Setup, Creating, SetupPc, Goto
  <2>3. CASE ReleaseEvent(l)
    <3>1. \A c \in Conns : life'[c] = "none" => life[c] = "none"
      BY <2>3 DEF ReleaseEvent, Release, Destroy, TypeOK
    <3>2. \A u \in Threads :
          /\ pc'[u] \in Creating => pc[u] \in Creating /\ new'[u] = new[u]
          /\ pc'[u] \in SetupPc => pc[u] \in SetupPc
          /\ pc'[u] = "k_state" => pc[u] = "k_state" /\ ptr'[u] = ptr[u]
      BY <2>3, LoopsAreThreads
        DEF ReleaseEvent, TypeOK, Creating, SetupPc, Goto
    <3>3. UNCHANGED <<handle, closes, conns, closer>>
      BY <2>3 DEF ReleaseEvent
    <3>4. \A u \in Threads : pc[u] \in Creating => new[u] \in Conns
      BY DEF ConnectLocals, ConnectPc, Creating
    <3>5. QED
      BY <3>1, <3>2, <3>3, <3>4 DEF Setup, SetupPc, Creating
  <2>4. CASE CallbackReturn(l)
    BY SMTT(30), <2>4
      DEF CallbackReturn, TypeOK, Setup, Creating, SetupPc, Goto
  <2>5. QED
    BY <1>10, <2>1, <2>2, <2>3, <2>4 DEF RoundStep
<1>11. ASSUME NEW l \in Loops, ReadStep(l) PROVE  Setup'
  BY <1>11
    DEF ReadStep, ReadSkip, ReadBegin, ReadData, ReadBroken, ReadDone,
        ReadMore, ReadClosed, BeginClose, Callback, TypeOK, Setup, Creating,
        SetupPc, Goto
<1>12. ASSUME NEW l \in Loops, WriteStep(l) PROVE  Setup'
  <2>1. CASE WriteSkip(l)
    BY <2>1 DEF WriteSkip, TypeOK, Setup, Creating, SetupPc, Goto
  <2>2. CASE WriteOutcome(l)
    BY <2>2 DEF WriteOutcome, TypeOK, Setup, Creating, SetupPc, Goto
  <2>3. CASE WriteConnected(l)
    BY <2>3 DEF WriteConnected, TypeOK, Setup, Creating, SetupPc, Goto
  <2>4. CASE OnConnect(l)
    BY <2>4 DEF OnConnect, Callback, TypeOK, Setup, Creating, SetupPc, Goto
  <2>5. CASE WriteFailed(l)
    BY <2>5
      DEF WriteFailed, BeginClose, TypeOK, Setup, Creating, SetupPc, Goto
  <2>6. CASE WriteClosed(l)
    BY <2>6 DEF WriteClosed, Callback, TypeOK, Setup, Creating, SetupPc, Goto
  <2>7. CASE WriteBegin(l)
    BY <2>7 DEF WriteBegin, TypeOK, Setup, Creating, SetupPc, Goto
  <2>8. CASE WriteSome(l)
    BY <2>8 DEF WriteSome, TypeOK, Setup, Creating, SetupPc, Goto
  <2>9. CASE WriteAll(l)
    BY <2>9 DEF WriteAll, TypeOK, Setup, Creating, SetupPc, Goto
  <2>10. CASE WriteSetEvent(l)
    BY <2>10 DEF WriteSetEvent, TypeOK, Setup, Creating, SetupPc, Goto
  <2>11. QED
    BY <1>12, <2>1, <2>2, <2>3, <2>4, <2>5, <2>6, <2>7, <2>8, <2>9, <2>10
      DEF WriteStep
<1>13. ASSUME NEW l \in Loops, TimeStep(l) PROVE  Setup'
  <2>1. CASE TimeSkip(l)
    BY <2>1 DEF TimeSkip, TypeOK, Setup, Creating, SetupPc, Goto
  <2>2. CASE CheckTimeout(l)
    BY <2>2 DEF CheckTimeout, TypeOK, Setup, Creating, SetupPc, Goto
  <2>3. CASE TimeoutClose(l)
    BY <2>3
      DEF TimeoutClose, BeginClose, TypeOK, Setup, Creating, SetupPc, Goto
  <2>4. CASE TimeoutClosed(l)
    BY <2>4
      DEF TimeoutClosed, Callback, TypeOK, Setup, Creating, SetupPc, Goto
  <2>5. CASE Clear(l)
    <3>1. \A c \in Conns : life'[c] = "none" => life[c] = "none"
      BY <2>5 DEF Clear, Release, Destroy, TypeOK
    <3>2. \A u \in Threads :
          /\ pc'[u] \in Creating => pc[u] \in Creating /\ new'[u] = new[u]
          /\ pc'[u] \in SetupPc => pc[u] \in SetupPc
          /\ pc'[u] = "k_state" => pc[u] = "k_state" /\ ptr'[u] = ptr[u]
      BY <2>5, LoopsAreThreads DEF Clear, TypeOK, Creating, SetupPc, Goto
    <3>3. UNCHANGED <<handle, closes, conns, closer>>
      BY <2>5 DEF Clear
    <3>4. \A u \in Threads : pc[u] \in Creating => new[u] \in Conns
      BY DEF ConnectLocals, ConnectPc, Creating
    <3>5. QED
      BY <3>1, <3>2, <3>3, <3>4 DEF Setup, SetupPc, Creating
  <2>6. QED
    BY <1>13, <2>1, <2>2, <2>3, <2>4, <2>5 DEF TimeStep
<1>14. ASSUME NEW c \in Conns, NetStep(c) PROVE  Setup'
  BY <1>14 DEF NetStep, TypeOK, Setup, Creating, SetupPc, Goto
<1>15. ASSUME NEW c \in Conns, Tick(c) PROVE  Setup'
  BY <1>15 DEF Tick, TypeOK, Setup, Creating, SetupPc, Goto
<1>16. CASE UNCHANGED vars
  BY <1>16 DEF TypeOK, Setup, Creating, SetupPc, Goto
<1>17. QED
  BY <1>1, <1>2, <1>3, <1>4, <1>5, <1>6, <1>7, <1>8, <1>9, <1>10, <1>11,
     <1>12, <1>13, <1>14, <1>15, <1>16
    DEF Next, ApiCall, CallStep, LoopStep

\* A step leaves each connection at most one thread that closes it.
LEMMA OneCloserStep ==
  ASSUME OneConnector, TypeInv, CloseInv, [Next]_vars
  PROVE  OneCloser'
<1> USE DEF TypeInv, CloseInv
<1>1. ASSUME NEW t \in Threads, NEW c \in Conns, ConnectNew(t, c)
      PROVE  OneCloser'
  BY <1>1 DEF ConnectNew, TypeOK, OneCloser, KillPc, Goto
<1>2. ASSUME NEW t \in Threads, NEW h \in Handles, SendCall(t, h)
      PROVE  OneCloser'
  BY <1>2 DEF SendCall, TypeOK, OneCloser, KillPc, Goto
<1>3. ASSUME NEW t \in Threads, NEW h \in Handles, CloseCall(t, h)
      PROVE  OneCloser'
  BY <1>3 DEF CloseCall, BeginClose, TypeOK, OneCloser, KillPc, Goto
<1>4. ASSUME NEW t \in Threads, NEW h \in Handles, StatusCall(t, h)
      PROVE  OneCloser'
  <2>1. \A u \in Threads :
        pc'[u] \in KillPc =>
          pc'[u] = pc[u] /\ ptr'[u] = ptr[u] /\ arg'[u] = arg[u]
    BY <1>4 DEF StatusCall, TypeOK, KillPc, Goto
  <2>2. UNCHANGED <<handle, closes, conns>>
    BY <1>4 DEF StatusCall
  <2>3. QED
    BY <2>1, <2>2 DEF OneCloser, KillPc
<1>5. ASSUME NEW t \in Threads, ConnectStep(t) PROVE  OneCloser'
  <2>1. CASE MakeHandleStore(t)
    BY <2>1 DEF MakeHandleStore, TypeOK, OneCloser, KillPc, Goto
  <2>2. CASE MakeHandleCheck(t)
    <3>1. \A u \in Threads :
          pc'[u] \in KillPc =>
            pc'[u] = pc[u] /\ ptr'[u] = ptr[u] /\ arg'[u] = arg[u]
      BY <2>2 DEF MakeHandleCheck, TypeOK, KillPc, Goto
    <3>2. UNCHANGED <<handle, closes, conns>>
      BY <2>2 DEF MakeHandleCheck
    <3>3. QED
      BY <3>1, <3>2 DEF OneCloser, KillPc
  <2>3. CASE MakeHandleNext(t)
    BY <2>3 DEF MakeHandleNext, TypeOK, OneCloser, KillPc, Goto
  <2>4. CASE MakeHandleReturn(t)
    BY <2>4
      DEF MakeHandleReturn, FreshHandle, MakePc, CallLocals, PtrPc, ClosePc,
          Handles, TypeOK, OneCloser, KillPc, Goto
  <2>5. CASE ConnectSocket(t)
    BY <2>5 DEF ConnectSocket, TypeOK, OneCloser, KillPc, Goto
  <2>6. CASE ConnectFail(t)
    BY <2>6 DEF ConnectFail, Home, TypeOK, OneCloser, KillPc, Goto
  <2>7. CASE AddConn(t)
    BY <2>7
      DEF AddConn, Setup, Creating, SetupPc, ConnectLocals, ConnectPc, TypeOK,
          OneCloser, KillPc, Goto
  <2>8. CASE AddConnTaken(t)
    BY <2>8 DEF AddConnTaken, TypeOK, OneCloser, KillPc, Goto
  <2>9. CASE AddConnLog(t)
    BY <2>9 DEF AddConnLog, Home, TypeOK, OneCloser, KillPc, Goto
  <2>10. CASE AddEventFd(t)
    BY <2>10 DEF AddEventFd, TypeOK, OneCloser, KillPc, Goto
  <2>11. CASE AddEventCtl(t)
    BY <2>11 DEF AddEventCtl, TypeOK, OneCloser, KillPc, Goto
  <2>12. CASE ConnectReturn(t)
    BY <2>12 DEF ConnectReturn, Home, TypeOK, OneCloser, KillPc, Goto
  <2>13. QED
    BY <1>5, <2>1, <2>2, <2>3, <2>4, <2>5, <2>6, <2>7, <2>8, <2>9, <2>10,
       <2>11, <2>12
      DEF ConnectStep
<1>6. ASSUME NEW t \in Threads, SendStep(t) PROVE  OneCloser'
  <2>1. CASE DeliverRefused(t)
    BY <2>1 DEF DeliverRefused, TypeOK, OneCloser, KillPc, Goto
  <2>2. CASE DeliverData(t)
    BY <2>2 DEF DeliverData, TypeOK, OneCloser, KillPc, Goto
  <2>3. CASE DeliverSetEvent(t)
    BY <2>3 DEF DeliverSetEvent, TypeOK, OneCloser, KillPc, Goto
  <2>4. QED
    BY <1>6, <2>1, <2>2, <2>3 DEF SendStep
<1>7. ASSUME NEW t \in Threads, CloseStep(t) PROVE  OneCloser'
  <2>1. CASE CloseGet(t)
    <3>1. CASE conns[arg[t]] = None
      <4>1. /\ pc' = [pc EXCEPT ![t] = ret[t]]
            /\ arg' = [arg EXCEPT ![t] = 0]
            /\ UNCHANGED <<ptr, handle, closes, conns>>
        BY <2>1, <3>1 DEF CloseGet, CallEnd, Goto
      <4>2. ret[t] \notin KillPc
        BY DEF TypeOK, KillPc
      <4>3. QED
        BY <4>1, <4>2 DEF TypeOK, OneCloser, KillPc
    <3>2. CASE conns[arg[t]] # None
      <4>1. handle[conns[arg[t]]] = arg[t]
        BY <2>1, <3>2 DEF CloseGet, CallLocals, ClosePc, UniqueHandle
      <4>2. /\ pc' = [pc EXCEPT ![t] = "k_fd"]
            /\ ptr' = [ptr EXCEPT ![t] = conns[arg[t]]]
            /\ UNCHANGED <<arg, handle, closes, conns>>
        BY <2>1, <3>2 DEF CloseGet, Goto
      <4>3. QED
        BY <4>1, <4>2 DEF TypeOK, OneCloser, KillPc
    <3>3. QED
      BY <3>1, <3>2
  <2>2. CASE CloseFd(t)
    BY <2>2 DEF CloseFd, TypeOK, OneCloser, KillPc, Goto
  <2>3. CASE CloseRemoveEvent(t)
    BY <2>3 DEF CloseRemoveEvent, TypeOK, OneCloser, KillPc, Goto
  <2>4. CASE CloseRemoveConn(t)
    <3>1. CASE conns[arg[t]] = None
      <4>1. /\ pc' = [pc EXCEPT ![t] = "rel"]
            /\ UNCHANGED <<arg, ptr, new, life, handle, closes, conns, closer>>
        BY <2>4, <3>1 DEF CloseRemoveConn, AfterRemove, Goto
      <4>2. QED
        BY <4>1 DEF TypeOK, OneCloser, KillPc
    <3>2. CASE conns[arg[t]] # None
      <4>1. /\ pc[t] = "k_remove" /\ arg[t] \in Handles /\ ptr[t] \in Conns
            /\ handle[ptr[t]] = arg[t]
        BY <2>4 DEF CloseRemoveConn, CallLocals, PtrPc, ClosePc, OneCloser, KillPc
      <4>2. conns[arg[t]] = ptr[t]
        BY <3>2, <4>1 DEF TypeOK, UniqueHandle, Handles
      <4>3. \A h \in Handles : conns[h] = ptr[t] => h = arg[t]
        BY <4>1 DEF TypeOK, UniqueHandle
      <4>4. /\ pc' = [pc EXCEPT ![t] = "k_state"]
            /\ conns' = [conns EXCEPT ![arg[t]] = None]
            /\ UNCHANGED <<arg, ptr, new, life, handle, closes>>
        BY <2>4, <3>2 DEF CloseRemoveConn, AfterRemove, Goto
      <4>5. /\ closes[ptr[t]] = 0
            /\ \A u \in Threads : pc[u] = "k_state" => ptr[u] # ptr[t]
        BY <4>1, <4>2 DEF OneCloser, TypeOK
      <4>6. \A h \in Handles : conns'[h] # ptr[t]
        BY <4>1, <4>3, <4>4 DEF TypeOK
      <4>7. \A h \in Handles : conns'[h] = conns[h] \/ conns'[h] = None
        BY <4>4 DEF TypeOK
      <4>8. \A c \in Conns, h \in Handles : closes[c] > 0 => conns'[h] # c
        BY <4>7 DEF OneCloser
      <4>9. \A u \in Threads :
              /\ pc'[u] \in KillPc => pc[u] \in KillPc
              /\ pc'[u] = "k_state" => u = t \/ pc[u] = "k_state"
        BY <4>1, <4>4 DEF TypeOK, KillPc
      <4>10. \A u \in Threads :
               pc'[u] = "k_state" => /\ closes[ptr[u]] = 0
                                     /\ \A h \in Handles : conns'[h] # ptr[u]
        <5> SUFFICES ASSUME NEW u \in Threads, u # t, pc'[u] = "k_state"
                     PROVE  /\ closes[ptr[u]] = 0
                            /\ \A h \in Handles : conns'[h] # ptr[u]
          BY <4>5, <4>6
        <5>1. pc[u] = "k_state" /\ ptr[u] \in Conns
          BY <4>9 DEF CallLocals, PtrPc, ClosePc
        <5>2. closes[ptr[u]] = 0 /\ \A h \in Handles : conns[h] # ptr[u]
          BY <5>1 DEF OneCloser
        <5>3. QED
          BY <4>7, <5>1, <5>2
      <4>11. \A u, v \in Threads :
               pc'[u] = "k_state" /\ pc'[v] = "k_state" /\ ptr[u] = ptr[v] => u = v
        BY <4>5, <4>9 DEF OneCloser
      <4>12. QED
        BY <4>4, <4>8, <4>9, <4>10, <4>11 DEF OneCloser
    <3>3. QED
      BY <3>1, <3>2
  <2>5. CASE ConnCloseState(t)
    BY <2>5
      DEF ConnCloseState, CallLocals, PtrPc, ClosePc, TypeOK, OneCloser,
          KillPc, Goto
  <2>6. CASE ConnCloseSocket(t)
    BY <2>6 DEF ConnCloseSocket, TypeOK, OneCloser, KillPc, Goto
  <2>7. QED
    BY <1>7, <2>1, <2>2, <2>3, <2>4, <2>5, <2>6 DEF CloseStep
<1>8. ASSUME NEW t \in Threads, StatusStep(t) PROVE  OneCloser'
  <2>1. CASE StatusRead(t)
    BY <2>1 DEF StatusRead, TypeOK, OneCloser, KillPc, Goto
  <2>2. CASE StatusReturn(t)
    BY <2>2 DEF StatusReturn, Home, TypeOK, OneCloser, KillPc, Goto
  <2>3. QED
    BY <1>8, <2>1, <2>2 DEF StatusStep
<1>9. ASSUME NEW t \in Threads, CallRelease(t) PROVE  OneCloser'
  <2>1. \A u \in Threads :
        pc'[u] \in KillPc =>
          pc'[u] = pc[u] /\ ptr'[u] = ptr[u] /\ arg'[u] = arg[u]
    BY SMTT(30), <1>9 DEF CallRelease, CallEnd, TypeOK, KillPc, Goto
  <2>2. UNCHANGED <<handle, closes, conns>>
    BY <1>9 DEF CallRelease
  <2>3. QED
    BY <2>1, <2>2 DEF OneCloser, KillPc
<1>10. ASSUME NEW l \in Loops, RoundStep(l) PROVE  OneCloser'
  <2>1. CASE GetEvents(l)
    BY <2>1 DEF GetEvents, TypeOK, OneCloser, KillPc, Goto
  <2>2. ASSUME NEW e \in batch[l], NextEvent(l, e)
        PROVE  OneCloser'
    BY <2>2 DEF NextEvent, TypeOK, OneCloser, KillPc, Goto
  <2>3. CASE ReleaseEvent(l)
    BY <2>3 DEF ReleaseEvent, TypeOK, OneCloser, KillPc, Goto
  <2>4. CASE CallbackReturn(l)
    <3>1. \A u \in Threads :
          pc'[u] \in KillPc =>
            pc'[u] = pc[u] /\ ptr'[u] = ptr[u] /\ arg'[u] = arg[u]
      BY SMTT(30), <2>4, LoopsAreThreads DEF CallbackReturn, TypeOK, KillPc, Goto
    <3>2. UNCHANGED <<handle, closes, conns>>
      BY <2>4 DEF CallbackReturn
    <3>3. QED
      BY <3>1, <3>2 DEF OneCloser, KillPc
  <2>5. QED
    BY <1>10, <2>1, <2>2, <2>3, <2>4 DEF RoundStep
<1>11. ASSUME NEW l \in Loops, ReadStep(l) PROVE  OneCloser'
  BY SMTT(30), <1>11
    DEF ReadStep, ReadSkip, ReadBegin, ReadData, ReadBroken, ReadDone,
        ReadMore, ReadClosed, BeginClose, Callback, TypeOK, OneCloser, KillPc,
        Goto
<1>12. ASSUME NEW l \in Loops, WriteStep(l) PROVE  OneCloser'
  <2>1. CASE WriteSkip(l)
    BY <2>1 DEF WriteSkip, TypeOK, OneCloser, KillPc, Goto
  <2>2. CASE WriteOutcome(l)
    BY <2>2 DEF WriteOutcome, TypeOK, OneCloser, KillPc, Goto
  <2>3. CASE WriteConnected(l)
    BY <2>3 DEF WriteConnected, TypeOK, OneCloser, KillPc, Goto
  <2>4. CASE OnConnect(l)
    BY <2>4 DEF OnConnect, Callback, TypeOK, OneCloser, KillPc, Goto
  <2>5. CASE WriteFailed(l)
    BY <2>5 DEF WriteFailed, BeginClose, TypeOK, OneCloser, KillPc, Goto
  <2>6. CASE WriteClosed(l)
    BY <2>6 DEF WriteClosed, Callback, TypeOK, OneCloser, KillPc, Goto
  <2>7. CASE WriteBegin(l)
    BY <2>7 DEF WriteBegin, TypeOK, OneCloser, KillPc, Goto
  <2>8. CASE WriteSome(l)
    BY <2>8 DEF WriteSome, TypeOK, OneCloser, KillPc, Goto
  <2>9. CASE WriteAll(l)
    BY <2>9 DEF WriteAll, TypeOK, OneCloser, KillPc, Goto
  <2>10. CASE WriteSetEvent(l)
    BY <2>10 DEF WriteSetEvent, TypeOK, OneCloser, KillPc, Goto
  <2>11. QED
    BY <1>12, <2>1, <2>2, <2>3, <2>4, <2>5, <2>6, <2>7, <2>8, <2>9, <2>10
      DEF WriteStep
<1>13. ASSUME NEW l \in Loops, TimeStep(l) PROVE  OneCloser'
  <2>1. CASE TimeSkip(l)
    BY <2>1 DEF TimeSkip, TypeOK, OneCloser, KillPc, Goto
  <2>2. CASE CheckTimeout(l)
    BY <2>2 DEF CheckTimeout, TypeOK, OneCloser, KillPc, Goto
  <2>3. CASE TimeoutClose(l)
    BY <2>3 DEF TimeoutClose, BeginClose, TypeOK, OneCloser, KillPc, Goto
  <2>4. CASE TimeoutClosed(l)
    BY <2>4 DEF TimeoutClosed, Callback, TypeOK, OneCloser, KillPc, Goto
  <2>5. CASE Clear(l)
    BY <2>5 DEF Clear, TypeOK, OneCloser, KillPc, Goto
  <2>6. QED
    BY <1>13, <2>1, <2>2, <2>3, <2>4, <2>5 DEF TimeStep
<1>14. ASSUME NEW c \in Conns, NetStep(c) PROVE  OneCloser'
  BY <1>14 DEF NetStep, TypeOK, OneCloser, KillPc, Goto
<1>15. ASSUME NEW c \in Conns, Tick(c) PROVE  OneCloser'
  BY <1>15 DEF Tick, TypeOK, OneCloser, KillPc, Goto
<1>16. CASE UNCHANGED vars
  BY <1>16 DEF TypeOK, OneCloser, KillPc, Goto
<1>17. QED
  BY <1>1, <1>2, <1>3, <1>4, <1>5, <1>6, <1>7, <1>8, <1>9, <1>10, <1>11,
     <1>12, <1>13, <1>14, <1>15, <1>16
    DEF Next, ApiCall, CallStep, LoopStep

\* A step closes no connection a second time: only the thread at k_state
\* closes, and its connection has not been closed.
LEMMA CloseOnceStep ==
  ASSUME OneConnector, TypeInv, CloseInv, [Next]_vars
  PROVE  CloseOnce'
<1> USE DEF TypeInv, CloseInv
<1>1. ASSUME NEW t \in Threads, ConnCloseState(t) PROVE  CloseOnce'
  <2>1. closes[ptr[t]] = 0 /\ closes' = [closes EXCEPT ![ptr[t]] = @ + 1]
    BY <1>1 DEF ConnCloseState, OneCloser
  <2>2. \A c \in Conns : closes'[c] = closes[c] \/ closes'[c] = 1
    BY <2>1 DEF TypeOK
  <2>3. QED
    BY <2>2 DEF CloseOnce
<1>2. CASE UNCHANGED closes
  BY <1>2 DEF CloseOnce
<1>3. (\E t \in Threads : ConnCloseState(t)) \/ UNCHANGED closes
  <2>1. ASSUME NEW t \in Threads, ApiCall(t) PROVE UNCHANGED closes
    BY <2>1 DEF ApiCall, ConnectNew, SendCall, CloseCall, StatusCall
  <2>2. ASSUME NEW t \in Threads, ConnectStep(t) PROVE UNCHANGED closes
    BY <2>2
    DEF ConnectStep, MakeHandleStore, MakeHandleCheck, MakeHandleNext,
        MakeHandleReturn, ConnectSocket, ConnectFail, AddConn, AddConnTaken,
        AddConnLog, AddEventFd, AddEventCtl, ConnectReturn
  <2>3. ASSUME NEW t \in Threads, CloseStep(t)
        PROVE  ConnCloseState(t) \/ UNCHANGED closes
    BY <2>3
    DEF CloseStep, CloseGet, CloseFd, CloseRemoveEvent, CloseRemoveConn,
        ConnCloseSocket
  <2>4. ASSUME NEW t \in Threads, SendStep(t) \/ StatusStep(t) \/ CallRelease(t)
        PROVE  UNCHANGED closes
    BY <2>4
    DEF SendStep, DeliverRefused, DeliverData, DeliverSetEvent, StatusStep,
        StatusRead, StatusReturn, CallRelease
  <2>5. ASSUME NEW l \in Loops, RoundStep(l) \/ TimeStep(l) PROVE UNCHANGED closes
    BY <2>5
    DEF RoundStep, GetEvents, NextEvent, ReleaseEvent, CallbackReturn, TimeStep,
        TimeSkip, CheckTimeout, TimeoutClose, TimeoutClosed, Clear
  <2>6. ASSUME NEW l \in Loops, ReadStep(l) PROVE UNCHANGED closes
    BY <2>6
    DEF ReadStep, ReadSkip, ReadBegin, ReadData, ReadBroken, ReadDone,
        ReadMore, ReadClosed
  <2>7. ASSUME NEW l \in Loops, WriteStep(l) PROVE UNCHANGED closes
    BY <2>7
    DEF WriteStep, WriteSkip, WriteOutcome, WriteConnected, OnConnect,
        WriteFailed, WriteClosed, WriteBegin, WriteSome, WriteAll, WriteSetEvent
  <2>8. ASSUME NEW c \in Conns, NetStep(c) \/ Tick(c) PROVE UNCHANGED closes
    BY <2>8 DEF NetStep, Tick
  <2>9. QED
    BY <2>1, <2>2, <2>3, <2>4, <2>5, <2>6, <2>7, <2>8 DEF Next, CallStep, LoopStep
<1>4. QED
  BY <1>1, <1>2, <1>3

\* Initially there is no connection and no handle.
LEMMA CloseInvInit == Init => CloseInv
<1> SUFFICES ASSUME Init PROVE CloseInv
  OBVIOUS
<1>1. FreshHandle
  BY DEF Init, FreshHandle, ConnectPc, MakePc
<1>2. UniqueHandle
  BY DEF Init, UniqueHandle
<1>3. Setup
  BY DEF Init, Setup, Creating, SetupPc
<1>4. OneCloser
  BY DEF Init, OneCloser, KillPc
<1>5. CloseOnce
  BY DEF Init, CloseOnce
<1>6. QED
  BY <1>1, <1>2, <1>3, <1>4, <1>5 DEF CloseInv

\* CloseInv is inductive, relative to TypeInv.
LEMMA CloseInvStep ==
  ASSUME OneConnector
  PROVE  TypeInv /\ CloseInv /\ [Next]_vars => CloseInv'
<1> SUFFICES ASSUME TypeInv, CloseInv, [Next]_vars PROVE CloseInv'
  OBVIOUS
<1>1. FreshHandle'
  BY OneConnector, FreshHandleStep
<1>2. UniqueHandle'
  BY OneConnector, UniqueHandleStep
<1>3. Setup'
  BY OneConnector, SetupStep
<1>4. OneCloser'
  BY OneConnector, OneCloserStep
<1>5. CloseOnce'
  BY OneConnector, CloseOnceStep
<1>6. QED
  BY <1>1, <1>2, <1>3, <1>4, <1>5 DEF CloseInv

\* The invariant behind the theorems below: handles are unique, and a
\* connection is closed by the one thread that took it out of the table.
THEOREM CloseInvariant ==
  ASSUME OneConnector
  PROVE  Spec => []CloseInv
<1>1. Init => CloseInv
  BY CloseInvInit
<1>2. TypeInv /\ CloseInv /\ [Next]_vars => CloseInv'
  BY OneConnector, CloseInvStep
<1>3. QED
  BY <1>1, <1>2, TypeInvariant, PTL DEF Spec

\* TcpConnection::close runs at most once on a connection, however many
\* threads close it at the same time, the loop included (network.cpp 215-231).
THEOREM ClosedOnce ==
  ASSUME OneConnector
  PROVE  Spec => []CloseOnce
<1>1. CloseInv => CloseOnce
  BY DEF CloseInv
<1>2. QED
  BY OneConnector, <1>1, CloseInvariant, PTL

\* A handle enters the table once: it is never given to a second connection
\* after the first is closed (network.cpp 345-361).
THEOREM HandleNeverReused ==
  ASSUME OneConnector
  PROVE  Spec => HandleUsedOnce
<1> DEFINE Once == \A h \in Handles :
                     conns[h] = None /\ conns'[h] # None => closer[h] = "none"
<1>1. TypeInv /\ CloseInv /\ [Next]_vars => Once
  <2> SUFFICES ASSUME TypeInv, CloseInv, [Next]_vars PROVE Once
    OBVIOUS
  <2> USE DEF TypeInv, CloseInv
  <2>1. ASSUME NEW t \in Threads, AddConn(t) PROVE Once
    <3>1. handle[new[t]] \in Handles /\ closer[handle[new[t]]] = "none"
      BY <2>1 DEF AddConn, ConnectLocals, Setup, SetupPc
    <3>2. conns' = [conns EXCEPT ![handle[new[t]]] = new[t]]
      BY <2>1 DEF AddConn
    <3>3. QED
      BY <3>1, <3>2 DEF TypeOK
  <2>2. ASSUME NEW t \in Threads, CloseRemoveConn(t) PROVE Once
    BY <2>2 DEF CloseRemoveConn, TypeOK
  <2>3. ASSUME UNCHANGED conns PROVE Once
    BY <2>3
  <2>4. \/ \E t \in Threads : AddConn(t) \/ CloseRemoveConn(t)
        \/ UNCHANGED conns
    <3>1. ASSUME NEW t \in Threads, ApiCall(t) PROVE UNCHANGED conns
      BY <3>1 DEF ApiCall, ConnectNew, SendCall, CloseCall, StatusCall
    <3>2. ASSUME NEW t \in Threads, ConnectStep(t)
          PROVE  AddConn(t) \/ UNCHANGED conns
      BY <3>2
      DEF ConnectStep, MakeHandleStore, MakeHandleCheck, MakeHandleNext,
          MakeHandleReturn, ConnectSocket, ConnectFail, AddConnTaken,
          AddConnLog, AddEventFd, AddEventCtl, ConnectReturn
    <3>3. ASSUME NEW t \in Threads, CloseStep(t)
          PROVE  CloseRemoveConn(t) \/ UNCHANGED conns
      BY <3>3
      DEF CloseStep, CloseGet, CloseFd, CloseRemoveEvent, ConnCloseState,
          ConnCloseSocket
    <3>4. ASSUME NEW t \in Threads, SendStep(t) \/ StatusStep(t) \/ CallRelease(t)
          PROVE  UNCHANGED conns
      BY <3>4
      DEF SendStep, DeliverRefused, DeliverData, DeliverSetEvent, StatusStep,
          StatusRead, StatusReturn, CallRelease
    <3>5. ASSUME NEW l \in Loops, RoundStep(l) \/ TimeStep(l)
          PROVE  UNCHANGED conns
      BY <3>5
      DEF RoundStep, GetEvents, NextEvent, ReleaseEvent, CallbackReturn,
          TimeStep, TimeSkip, CheckTimeout, TimeoutClose, TimeoutClosed, Clear
    <3>6. ASSUME NEW l \in Loops, ReadStep(l) PROVE UNCHANGED conns
      BY <3>6
      DEF ReadStep, ReadSkip, ReadBegin, ReadData, ReadBroken, ReadMore,
          ReadDone, ReadClosed
    <3>7. ASSUME NEW l \in Loops, WriteStep(l) PROVE UNCHANGED conns
      BY <3>7
      DEF WriteStep, WriteSkip, WriteOutcome, WriteConnected, OnConnect,
          WriteFailed, WriteClosed, WriteBegin, WriteSome, WriteAll,
          WriteSetEvent
    <3>8. ASSUME NEW c \in Conns, NetStep(c) \/ Tick(c) PROVE UNCHANGED conns
      BY <3>8 DEF NetStep, Tick
    <3>9. QED
      BY <3>1, <3>2, <3>3, <3>4, <3>5, <3>6, <3>7, <3>8
      DEF Next, CallStep, LoopStep
  <2>5. QED
    BY <2>1, <2>2, <2>3, <2>4
<1>2. QED
  BY OneConnector, <1>1, TypeInvariant, CloseInvariant, PTL
  DEF Spec, HandleUsedOnce

=============================================================================
