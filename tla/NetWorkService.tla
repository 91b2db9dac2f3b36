-------------------------- MODULE NetWorkService --------------------------
(***************************************************************************)
(* NetWork implements NetService: with the connections, the epoll set and  *)
(* the threads out of sight, what the application sees of a handle is the  *)
(* service that interface.h promises.                                      *)
(*                                                                         *)
(* Each step must be a step of the service on one handle.  That needs more *)
(* than RefInv: whatever the loop calls back about was entered in the      *)
(* table, and onConnect does not come after onClose.  The second is the    *)
(* hard half.  The loop may report the close of a connection whose state   *)
(* is still CONNECTING, because the application closed it at the same      *)
(* time, and only the state decides whether the next event is the outcome  *)
(* of the connect; what saves it is that there is no next event (Silent).  *)
(***************************************************************************)
EXTENDS NetWorkEpoll

USE ThreadsAssumption, NumbersAssumption
USE DEF makeVars, frameVars, callVars, roundVars, loopVars, refVars, fieldVars,
        dataVars, connVars, tableVars, sockVars, netVars, closeVars, histVars,
        sharedVars, vars

\* The handles that have been in the table.
Entered == {h \in Handles : conns[h] # None \/ closer[h] # "none"}

\* Whatever the loop works on was entered in the table.
Seen ==
  \A l \in Loops :
    /\ \A e \in batch[l] : handle[e.conn] \in Entered
    /\ cur[l] # NoEvent => handle[cur[l].conn] \in Entered
    /\ tlist[l] \subseteq Entered

\* A round has one event for a connection.
OneEvent ==
  \A l \in Loops : \A e \in batch[l] :
    /\ e.conn # cur[l].conn
    /\ \A d \in batch[l] : d.conn = e.conn => d = e

\* A connection that the time-out closes before its add_event is CLOSED before
\* onClose.
Expelled ==
  \A u \in Threads :
    pc[u] \in AddPc /\ conns[handle[new[u]]] = None =>
      \/ state[new[u]] = "CLOSED"
      \/ \E l \in Loops : pc[l] = "k_state" /\ ptr[l] = new[u]

\* on_read_event goes on with a connection that is not CONNECTING, and so does
\* the loop when onClose returns to it ...
Reading == {l \in Loops : \/ Within(l, {"r_read", "r_more", "r_closed"})
                          \/ cbret[l] = "w_event"}
NotConnecting == \A l \in Reading : state[cur[l].conn] # "CONNECTING"

\* ... and on_write_event has not been told closed when it asks for the outcome.
NotClosed ==
  \A l \in Loops :
    /\ pc[l] \in {"w_error", "w_connect"} => told[handle[cur[l].conn]] # "closed"
    /\ pc[l] \in {"r_event", "w_event"} /\ state[cur[l].conn] = "CONNECTING" =>
         told[handle[cur[l].conn]] # "closed"

\* A connection still CONNECTING whose close was reported is heard of no more.
Silent ==
  \A c \in Conns :
    handle[c] # 0 /\ state[c] = "CONNECTING" /\ told[handle[c]] = "closed" =>
      /\ \A f \in Fds : reg[f].ptr # c
      /\ \A l \in Loops : \A e \in batch[l] : e.conn # c
      /\ \A u \in Threads : pc[u] \in Creating \cup AddPc => new[u] # c

\* The strengthening behind Implements: the callbacks of event_loop and
\* time_process come for handles that were online, onConnect never after onClose.
ServiceInv == Seen /\ OneEvent /\ Expelled /\ NotConnecting /\ NotClosed /\ Silent

----------------------------------------------------------------------------
(* What a step does to the epoll set, to the connections being set up, to  *)
(* the place of the loop in the handling of an event, and to a close that  *)
(* has taken its connection out of the table.                              *)

RegKept ==
  \A f \in Fds : \/ reg'[f].ptr \in {reg[f].ptr, None}
                 \/ \E u \in Threads : pc[u] = "c_ctl" /\ reg'[f].ptr = new[u]
SetupKept ==
  \A u \in Threads : pc'[u] \in Creating \cup AddPc =>
    \/ pc'[u] = "mh_store" /\ new'[u] \in Conns /\ life[new'[u]] = "none"
    \/ /\ new'[u] = new[u] /\ pc[u] \in Creating \cup AddPc
       /\ pc'[u] \in AddPc => \/ pc[u] \in AddPc
                              \/ pc[u] = "c_add" /\ conns'[handle[new[u]]] # None
PlaceKept ==
  /\ \A l \in Reading' :
       /\ cur'[l] = cur[l]
       /\ l \in Reading \/ (pc[l] = "r_event" /\ state[cur[l].conn] = "CONNECTED")
  /\ \A l \in Loops : pc'[l] \in {"w_error", "w_connect"} =>
       /\ cur'[l] = cur[l] /\ pc[l] \in {"w_event", "w_error", "w_connect"}
       /\ pc[l] = "w_event" => state[cur[l].conn] = "CONNECTING"
  /\ \A l \in Loops : pc'[l] \in {"r_event", "w_event"} =>
       \/ cur'[l] \in batch[l]
       \/ cur'[l] = cur[l] /\ (pc[l] \in {"r_event", "w_event"} \/ l \in Reading)
KillKept ==
  \A u \in Threads : pc[u] = "k_state" =>
    (pc'[u] = "k_state" /\ ptr'[u] = ptr[u]) \/ state'[ptr[u]] = "CLOSED"

----------------------------------------------------------------------------
(* Who changes what.                                                       *)

\* Who enters a handle in the table and who takes it out.
LEMMA TableWriters ==
  ASSUME [Next]_vars
  PROVE  \/ \E t \in Threads : AddConn(t) \/ CloseRemoveConn(t)
         \/ UNCHANGED <<conns, closer>>
<1>1. ASSUME NEW t \in Threads, ApiCall(t) PROVE  UNCHANGED <<conns, closer>>
  BY <1>1 DEF ApiCall, ConnectNew, SendCall, CloseCall, StatusCall
<1>2. ASSUME NEW t \in Threads, ConnectStep(t)
      PROVE  AddConn(t) \/ UNCHANGED <<conns, closer>>
  BY <1>2
    DEF ConnectStep, MakeHandleStore, MakeHandleCheck, MakeHandleNext,
        MakeHandleReturn, ConnectSocket, ConnectFail, AddConnTaken, AddConnLog,
        AddEventFd, AddEventCtl, ConnectReturn
<1>3. ASSUME NEW t \in Threads, SendStep(t) PROVE  UNCHANGED <<conns, closer>>
  BY <1>3 DEF SendStep, DeliverRefused, DeliverData, DeliverSetEvent
<1>4. ASSUME NEW t \in Threads, CloseStep(t)
      PROVE  CloseRemoveConn(t) \/ UNCHANGED <<conns, closer>>
  BY <1>4
    DEF CloseStep, CloseGet, CloseFd, CloseRemoveEvent, ConnCloseState,
        ConnCloseSocket
<1>5. ASSUME NEW t \in Threads, StatusStep(t) PROVE  UNCHANGED <<conns, closer>>
  BY <1>5 DEF StatusStep, StatusRead, StatusReturn
<1>6. ASSUME NEW t \in Threads, CallRelease(t)
      PROVE  UNCHANGED <<conns, closer>>
  BY <1>6 DEF CallRelease
<1>7. ASSUME NEW l \in Loops, RoundStep(l) PROVE  UNCHANGED <<conns, closer>>
  BY <1>7 DEF RoundStep, GetEvents, NextEvent, ReleaseEvent, CallbackReturn
<1>8. ASSUME NEW l \in Loops, ReadStep(l) PROVE  UNCHANGED <<conns, closer>>
  BY <1>8
    DEF ReadStep, ReadSkip, ReadBegin, ReadData, ReadBroken, ReadDone, ReadMore,
        ReadClosed
<1>9. ASSUME NEW l \in Loops, WriteStep(l) PROVE  UNCHANGED <<conns, closer>>
  BY <1>9
    DEF WriteStep, WriteSkip, WriteOutcome, WriteConnected, OnConnect,
        WriteFailed, WriteClosed, WriteBegin, WriteSome, WriteAll, WriteSetEvent
<1>10. ASSUME NEW l \in Loops, TimeStep(l) PROVE  UNCHANGED <<conns, closer>>
  BY <1>10
    DEF TimeStep, TimeSkip, CheckTimeout, TimeoutClose, TimeoutClosed, Clear
<1>11. ASSUME NEW c \in Conns, NetStep(c) \/ Tick(c)
      PROVE  UNCHANGED <<conns, closer>>
  BY <1>11 DEF NetStep, Tick
<1>12. QED
  BY <1>1, <1>2, <1>3, <1>4, <1>5, <1>6, <1>7, <1>8, <1>9, <1>10, <1>11
    DEF Next, CallStep, LoopStep

\* Who calls the application back about the state of a connection.
LEMMA ToldWriters ==
  ASSUME [Next]_vars
  PROVE  \/ \E l \in Loops : \/ ReadClosed(l)
                             \/ OnConnect(l)
                             \/ WriteClosed(l)
                             \/ TimeoutClosed(l)
         \/ UNCHANGED told
<1>1. ASSUME NEW t \in Threads, ApiCall(t) PROVE  UNCHANGED told
  BY <1>1 DEF ApiCall, ConnectNew, SendCall, CloseCall, StatusCall
<1>2. ASSUME NEW t \in Threads, ConnectStep(t) PROVE  UNCHANGED told
  BY <1>2
    DEF ConnectStep, MakeHandleStore, MakeHandleCheck, MakeHandleNext,
        MakeHandleReturn, ConnectSocket, ConnectFail, AddConn, AddConnTaken,
        AddConnLog, AddEventFd, AddEventCtl, ConnectReturn
<1>3. ASSUME NEW t \in Threads, SendStep(t) PROVE  UNCHANGED told
  BY <1>3 DEF SendStep, DeliverRefused, DeliverData, DeliverSetEvent
<1>4. ASSUME NEW t \in Threads, CloseStep(t) PROVE  UNCHANGED told
  BY <1>4
    DEF CloseStep, CloseGet, CloseFd, CloseRemoveEvent, CloseRemoveConn,
        ConnCloseState, ConnCloseSocket
<1>5. ASSUME NEW t \in Threads, StatusStep(t) PROVE  UNCHANGED told
  BY <1>5 DEF StatusStep, StatusRead, StatusReturn
<1>6. ASSUME NEW t \in Threads, CallRelease(t) PROVE  UNCHANGED told
  BY <1>6 DEF CallRelease
<1>7. ASSUME NEW l \in Loops, RoundStep(l) PROVE  UNCHANGED told
  BY <1>7 DEF RoundStep, GetEvents, NextEvent, ReleaseEvent, CallbackReturn
<1>8. ASSUME NEW l \in Loops, ReadStep(l) PROVE  ReadClosed(l) \/ UNCHANGED told
  BY <1>8
    DEF ReadStep, ReadSkip, ReadBegin, ReadData, ReadBroken, ReadDone, ReadMore
<1>9. ASSUME NEW l \in Loops, WriteStep(l)
      PROVE  OnConnect(l) \/ WriteClosed(l) \/ UNCHANGED told
  BY <1>9
    DEF WriteStep, WriteSkip, WriteOutcome, WriteConnected, WriteFailed,
        WriteBegin, WriteSome, WriteAll, WriteSetEvent
<1>10. ASSUME NEW l \in Loops, TimeStep(l)
      PROVE  TimeoutClosed(l) \/ UNCHANGED told
  BY <1>10 DEF TimeStep, TimeSkip, CheckTimeout, TimeoutClose, Clear
<1>11. ASSUME NEW c \in Conns, NetStep(c) \/ Tick(c) PROVE  UNCHANGED told
  BY <1>11 DEF NetStep, Tick
<1>12. QED
  BY <1>1, <1>2, <1>3, <1>4, <1>5, <1>6, <1>7, <1>8, <1>9, <1>10, <1>11
    DEF Next, CallStep, LoopStep

\* Who changes what the loop has to do.
LEMMA RoundWriters ==
  ASSUME [Next]_vars
  PROVE  \/ \E l \in Loops : \/ GetEvents(l)
                             \/ (\E e \in batch[l] : NextEvent(l, e))
                             \/ ReleaseEvent(l)
                             \/ CheckTimeout(l)
                             \/ TimeoutClosed(l)
         \/ UNCHANGED roundVars
<1>1. ASSUME NEW t \in Threads, ApiCall(t) PROVE  UNCHANGED roundVars
  BY <1>1 DEF ApiCall, ConnectNew, SendCall, CloseCall, StatusCall
<1>2. ASSUME NEW t \in Threads, ConnectStep(t) PROVE  UNCHANGED roundVars
  BY <1>2
    DEF ConnectStep, MakeHandleStore, MakeHandleCheck, MakeHandleNext,
        MakeHandleReturn, ConnectSocket, ConnectFail, AddConn, AddConnTaken,
        AddConnLog, AddEventFd, AddEventCtl, ConnectReturn
<1>3. ASSUME NEW t \in Threads, SendStep(t) PROVE  UNCHANGED roundVars
  BY <1>3 DEF SendStep, DeliverRefused, DeliverData, DeliverSetEvent
<1>4. ASSUME NEW t \in Threads, CloseStep(t) PROVE  UNCHANGED roundVars
  BY <1>4
    DEF CloseStep, CloseGet, CloseFd, CloseRemoveEvent, CloseRemoveConn,
        ConnCloseState, ConnCloseSocket
<1>5. ASSUME NEW t \in Threads, StatusStep(t) PROVE  UNCHANGED roundVars
  BY <1>5 DEF StatusStep, StatusRead, StatusReturn
<1>6. ASSUME NEW t \in Threads, CallRelease(t) PROVE  UNCHANGED roundVars
  BY <1>6 DEF CallRelease
<1>7. ASSUME NEW l \in Loops, RoundStep(l)
      PROVE  \/ GetEvents(l)
             \/ (\E e \in batch[l] : NextEvent(l, e))
             \/ ReleaseEvent(l)
             \/ UNCHANGED roundVars
  BY <1>7 DEF RoundStep, CallbackReturn
<1>8. ASSUME NEW l \in Loops, ReadStep(l) PROVE  UNCHANGED roundVars
  BY <1>8
    DEF ReadStep, ReadSkip, ReadBegin, ReadData, ReadBroken, ReadDone, ReadMore,
        ReadClosed
<1>9. ASSUME NEW l \in Loops, WriteStep(l) PROVE  UNCHANGED roundVars
  BY <1>9
    DEF WriteStep, WriteSkip, WriteOutcome, WriteConnected, OnConnect,
        WriteFailed, WriteClosed, WriteBegin, WriteSome, WriteAll, WriteSetEvent
<1>10. ASSUME NEW l \in Loops, TimeStep(l)
      PROVE  CheckTimeout(l) \/ TimeoutClosed(l) \/ UNCHANGED roundVars
  BY <1>10 DEF TimeStep, TimeSkip, TimeoutClose, Clear
<1>11. ASSUME NEW c \in Conns, NetStep(c) \/ Tick(c) PROVE  UNCHANGED roundVars
  BY <1>11 DEF NetStep, Tick
<1>12. QED
  BY <1>1, <1>2, <1>3, <1>4, <1>5, <1>6, <1>7, <1>8, <1>9, <1>10, <1>11
    DEF Next, CallStep, LoopStep

\* Who gives a connection its handle.
LEMMA HandleWriters ==
  ASSUME [Next]_vars
  PROVE  \/ \E t \in Threads : MakeHandleReturn(t)
         \/ UNCHANGED handle
<1>1. ASSUME NEW t \in Threads, ApiCall(t) PROVE  UNCHANGED handle
  BY <1>1 DEF ApiCall, ConnectNew, SendCall, CloseCall, StatusCall
<1>2. ASSUME NEW t \in Threads, ConnectStep(t)
      PROVE  MakeHandleReturn(t) \/ UNCHANGED handle
  BY <1>2
    DEF ConnectStep, MakeHandleStore, MakeHandleCheck, MakeHandleNext,
        ConnectSocket, ConnectFail, AddConn, AddConnTaken, AddConnLog,
        AddEventFd, AddEventCtl, ConnectReturn
<1>3. ASSUME NEW t \in Threads, SendStep(t) PROVE  UNCHANGED handle
  BY <1>3 DEF SendStep, DeliverRefused, DeliverData, DeliverSetEvent
<1>4. ASSUME NEW t \in Threads, CloseStep(t) PROVE  UNCHANGED handle
  BY <1>4
    DEF CloseStep, CloseGet, CloseFd, CloseRemoveEvent, CloseRemoveConn,
        ConnCloseState, ConnCloseSocket
<1>5. ASSUME NEW t \in Threads, StatusStep(t) PROVE  UNCHANGED handle
  BY <1>5 DEF StatusStep, StatusRead, StatusReturn
<1>6. ASSUME NEW t \in Threads, CallRelease(t) PROVE  UNCHANGED handle
  BY <1>6 DEF CallRelease
<1>7. ASSUME NEW l \in Loops, RoundStep(l) PROVE  UNCHANGED handle
  BY <1>7 DEF RoundStep, GetEvents, NextEvent, ReleaseEvent, CallbackReturn
<1>8. ASSUME NEW l \in Loops, ReadStep(l) PROVE  UNCHANGED handle
  BY <1>8
    DEF ReadStep, ReadSkip, ReadBegin, ReadData, ReadBroken, ReadDone, ReadMore,
        ReadClosed
<1>9. ASSUME NEW l \in Loops, WriteStep(l) PROVE  UNCHANGED handle
  BY <1>9
    DEF WriteStep, WriteSkip, WriteOutcome, WriteConnected, OnConnect,
        WriteFailed, WriteClosed, WriteBegin, WriteSome, WriteAll, WriteSetEvent
<1>10. ASSUME NEW l \in Loops, TimeStep(l) PROVE  UNCHANGED handle
  BY <1>10
    DEF TimeStep, TimeSkip, CheckTimeout, TimeoutClose, TimeoutClosed, Clear
<1>11. ASSUME NEW c \in Conns, NetStep(c) \/ Tick(c) PROVE  UNCHANGED handle
  BY <1>11 DEF NetStep, Tick
<1>12. QED
  BY <1>1, <1>2, <1>3, <1>4, <1>5, <1>6, <1>7, <1>8, <1>9, <1>10, <1>11
    DEF Next, CallStep, LoopStep

\* Who changes the state of a connection.
LEMMA StateWriters ==
  ASSUME [Next]_vars
  PROVE  \/ \E t \in Threads : \/ ConnectSocket(t)
                               \/ ConnectFail(t)
                               \/ ConnCloseState(t)
         \/ \E l \in Loops : OnConnect(l)
         \/ UNCHANGED state
<1>1. ASSUME NEW t \in Threads, ApiCall(t) PROVE  UNCHANGED state
  BY <1>1 DEF ApiCall, ConnectNew, SendCall, CloseCall, StatusCall
<1>2. ASSUME NEW t \in Threads, ConnectStep(t)
      PROVE  ConnectSocket(t) \/ ConnectFail(t) \/ UNCHANGED state
  BY <1>2
    DEF ConnectStep, MakeHandleStore, MakeHandleCheck, MakeHandleNext,
        MakeHandleReturn, AddConn, AddConnTaken, AddConnLog, AddEventFd,
        AddEventCtl, ConnectReturn
<1>3. ASSUME NEW t \in Threads, SendStep(t) PROVE  UNCHANGED state
  BY <1>3 DEF SendStep, DeliverRefused, DeliverData, DeliverSetEvent
<1>4. ASSUME NEW t \in Threads, CloseStep(t)
      PROVE  ConnCloseState(t) \/ UNCHANGED state
  BY <1>4
    DEF CloseStep, CloseGet, CloseFd, CloseRemoveEvent, CloseRemoveConn,
        ConnCloseSocket
<1>5. ASSUME NEW t \in Threads, StatusStep(t) PROVE  UNCHANGED state
  BY <1>5 DEF StatusStep, StatusRead, StatusReturn
<1>6. ASSUME NEW t \in Threads, CallRelease(t) PROVE  UNCHANGED state
  BY <1>6 DEF CallRelease
<1>7. ASSUME NEW l \in Loops, RoundStep(l) PROVE  UNCHANGED state
  BY <1>7 DEF RoundStep, GetEvents, NextEvent, ReleaseEvent, CallbackReturn
<1>8. ASSUME NEW l \in Loops, ReadStep(l) PROVE  UNCHANGED state
  BY <1>8
    DEF ReadStep, ReadSkip, ReadBegin, ReadData, ReadBroken, ReadDone, ReadMore,
        ReadClosed
<1>9. ASSUME NEW l \in Loops, WriteStep(l)
      PROVE  OnConnect(l) \/ UNCHANGED state
  BY <1>9
    DEF WriteStep, WriteSkip, WriteOutcome, WriteConnected, WriteFailed,
        WriteClosed, WriteBegin, WriteSome, WriteAll, WriteSetEvent
<1>10. ASSUME NEW l \in Loops, TimeStep(l) PROVE  UNCHANGED state
  BY <1>10
    DEF TimeStep, TimeSkip, CheckTimeout, TimeoutClose, TimeoutClosed, Clear
<1>11. ASSUME NEW c \in Conns, NetStep(c) \/ Tick(c) PROVE  UNCHANGED state
  BY <1>11 DEF NetStep, Tick
<1>12. QED
  BY <1>1, <1>2, <1>3, <1>4, <1>5, <1>6, <1>7, <1>8, <1>9, <1>10, <1>11
    DEF Next, CallStep, LoopStep

\* A connection being set up is a new one or was being set up.
LEMMA SetupKeeps ==
  ASSUME TypeInv, [Next]_vars
  PROVE  SetupKept
<1> USE DEF TypeInv
<1>1. ASSUME NEW t \in Threads, NEW c \in Conns, ConnectNew(t, c)
      PROVE  SetupKept
  BY <1>1 DEF ConnectNew, CanCall, TypeOK, SetupKept, Creating, AddPc, Goto
<1>2. ASSUME NEW t \in Threads, NEW h \in Handles, SendCall(t, h)
      PROVE  SetupKept
  BY <1>2
    DEF SendCall, AddRef, CanCall, Home, TypeOK, SetupKept, Creating, AddPc,
        Goto
<1>3. ASSUME NEW t \in Threads, NEW h \in Handles, CloseCall(t, h)
      PROVE  SetupKept
  BY <1>3
    DEF CloseCall, BeginClose, CanCall, Home, TypeOK, SetupKept, Creating,
        AddPc, Goto
<1>4. ASSUME NEW t \in Threads, NEW h \in Handles, StatusCall(t, h)
      PROVE  SetupKept
  BY <1>4
    DEF StatusCall, AddRef, CanCall, TypeOK, SetupKept, Creating, AddPc, Goto
<1>5. ASSUME NEW t \in Threads, ConnectStep(t) PROVE  SetupKept
  <2>1. CASE MakeHandleStore(t) \/ MakeHandleCheck(t) \/ MakeHandleNext(t)
             \/ MakeHandleReturn(t) \/ ConnectSocket(t) \/ ConnectFail(t)
    BY <2>1
      DEF MakeHandleStore, NextHandle, MakeHandleCheck, AddRef, MakeHandleNext,
          Release, Destroy, CloseFds, MakeHandleReturn, ConnectSocket,
          ConnectFail, Delete, Home, TypeOK, SetupKept, Creating, AddPc, Goto
  <2>2. CASE AddConn(t) \/ AddConnTaken(t) \/ AddConnLog(t) \/ AddEventFd(t)
             \/ AddEventCtl(t) \/ ConnectReturn(t)
    BY <2>2
      DEF AddConn, ConnectLocals, ConnectPc, AddConnTaken, Delete, Destroy,
          CloseFds, AddConnLog, Home, AddEventFd, AddEventCtl, CtlAdd,
          ConnectReturn, TypeOK, SetupKept, Creating, AddPc, Goto
  <2>3. QED
    BY <1>5, <2>1, <2>2 DEF ConnectStep
<1>6. ASSUME NEW t \in Threads, SendStep(t) PROVE  SetupKept
  <2>1. CASE DeliverRefused(t) \/ DeliverData(t) \/ DeliverSetEvent(t)
    BY <2>1
      DEF DeliverRefused, DeliverData, Lock, DeliverSetEvent, CtlMod, TypeOK,
          SetupKept, Creating, AddPc, Goto
  <2>2. QED
    BY <1>6, <2>1 DEF SendStep
<1>7. ASSUME NEW t \in Threads, CloseStep(t) PROVE  SetupKept
  <2>1. CASE CloseGet(t)
    <3>1. /\ \/ pc' = [pc EXCEPT ![t] = ret[t]] /\ UNCHANGED ptr
             \/ pc' = [pc EXCEPT ![t] = "k_fd"] /\ ptr' = [ptr EXCEPT ![t] = conns[arg[t]]]
          /\ UNCHANGED new /\ pc[t] = "k_get"
      BY <2>1 DEF CloseGet, CallEnd, Goto
    <3>2. ret[t] \notin Creating \cup AddPc
      BY DEF TypeOK, Creating, AddPc
    <3>3. QED
      BY <3>1, <3>2 DEF TypeOK, SetupKept, KillKept, Creating, AddPc
  <2>2. CASE CloseFd(t) \/ CloseRemoveEvent(t) \/ CloseRemoveConn(t)
             \/ ConnCloseState(t) \/ ConnCloseSocket(t)
    BY <2>2
      DEF CloseFd, CloseRemoveEvent, CtlDel, CloseRemoveConn, AfterRemove,
          ConnCloseState, CallLocals, PtrPc, ClosePc, ConnCloseSocket, CloseFds,
          TypeOK, SetupKept, Creating, AddPc, Goto
  <2>3. QED
    BY <1>7, <2>1, <2>2 DEF CloseStep
<1>8. ASSUME NEW t \in Threads, StatusStep(t) PROVE  SetupKept
  BY <1>8
    DEF StatusStep, StatusRead, StatusReturn, Home, TypeOK, SetupKept, Creating,
        AddPc, Goto
<1>9. ASSUME NEW t \in Threads, CallRelease(t) PROVE  SetupKept
  <2>1. /\ pc' = [pc EXCEPT ![t] = ret[t]] /\ UNCHANGED new
        /\ pc[t] = "rel" /\ ptr' = [ptr EXCEPT ![t] = None]
    BY <1>9 DEF CallRelease, CallEnd, Goto
  <2>2. ret[t] \notin Creating \cup AddPc
    BY DEF TypeOK, Creating, AddPc
  <2>3. QED
    BY <2>1, <2>2 DEF TypeOK, SetupKept, KillKept
<1>10. ASSUME NEW l \in Loops, RoundStep(l) PROVE  SetupKept
  <2>1. CASE GetEvents(l)
    BY <2>1, LoopsAreThreads
      DEF GetEvents, TypeOK, SetupKept, Creating, AddPc, Goto
  <2>2. ASSUME NEW e \in batch[l], NextEvent(l, e)
        PROVE  SetupKept
    BY <2>2, LoopsAreThreads
      DEF NextEvent, AddRef, TypeOK, SetupKept, Creating, AddPc, Goto
  <2>3. CASE ReleaseEvent(l)
    BY <2>3, LoopsAreThreads
      DEF ReleaseEvent, Release, Destroy, CloseFds, TypeOK, SetupKept, Creating,
          AddPc, Goto
  <2>4. CASE CallbackReturn(l)
    <3>1. /\ pc' = [pc EXCEPT ![l] = cbret[l]] /\ UNCHANGED new
          /\ pc[l] \in {"cb", "cb_done"} /\ UNCHANGED ptr
      BY <2>4 DEF CallbackReturn, Goto
    <3>2. cbret[l] \notin Creating \cup AddPc
      BY DEF TypeOK, Creating, AddPc
    <3>3. QED
      BY <3>1, <3>2, LoopsAreThreads DEF TypeOK, SetupKept, KillKept
  <2>5. QED
    BY <1>10, <2>1, <2>2, <2>3, <2>4 DEF RoundStep
<1>11. ASSUME NEW l \in Loops, ReadStep(l) PROVE  SetupKept
  <2>1. CASE ReadSkip(l) \/ ReadBegin(l) \/ ReadData(l) \/ ReadBroken(l)
             \/ ReadDone(l) \/ ReadMore(l)
    BY <2>1, LoopsAreThreads
      DEF ReadSkip, ReadBegin, ReadData, ReadBroken, BeginClose, ReadDone,
          ReadMore, TypeOK, SetupKept, Creating, AddPc, Goto
  <2>2. CASE ReadClosed(l)
    BY <2>2, LoopsAreThreads
      DEF ReadClosed, Callback, TypeOK, SetupKept, Creating, AddPc, Goto
  <2>3. QED
    BY <1>11, <2>1, <2>2 DEF ReadStep
<1>12. ASSUME NEW l \in Loops, WriteStep(l) PROVE  SetupKept
  <2>1. CASE WriteSkip(l) \/ WriteOutcome(l) \/ WriteConnected(l)
             \/ OnConnect(l) \/ WriteFailed(l) \/ WriteClosed(l)
    BY <2>1, LoopsAreThreads
      DEF WriteSkip, WriteOutcome, WriteConnected, OnConnect, Callback,
          WriteFailed, BeginClose, WriteClosed, TypeOK, SetupKept, Creating,
          AddPc, Goto
  <2>2. CASE WriteBegin(l) \/ WriteSome(l) \/ WriteAll(l) \/ WriteSetEvent(l)
    BY <2>2, LoopsAreThreads
      DEF WriteBegin, WriteSome, WriteAll, Lock, WriteSetEvent, CtlMod, TypeOK,
          SetupKept, Creating, AddPc, Goto
  <2>3. QED
    BY <1>12, <2>1, <2>2 DEF WriteStep
<1>13. ASSUME NEW l \in Loops, TimeStep(l) PROVE  SetupKept
  <2>1. CASE TimeSkip(l) \/ CheckTimeout(l) \/ TimeoutClose(l)
             \/ TimeoutClosed(l) \/ Clear(l)
    BY <2>1, LoopsAreThreads
      DEF TimeSkip, CheckTimeout, TimeoutClose, BeginClose, TimeoutClosed,
          Callback, Clear, Release, Destroy, CloseFds, TypeOK, SetupKept,
          Creating, AddPc, Goto
  <2>2. QED
    BY <1>13, <2>1 DEF TimeStep
<1>14. ASSUME NEW c \in Conns, NetStep(c)
      PROVE  SetupKept
  BY <1>14 DEF NetStep, TypeOK, SetupKept, Creating, AddPc, Goto
<1>15. ASSUME NEW c \in Conns, Tick(c)
      PROVE  SetupKept
  BY <1>15 DEF Tick, TypeOK, SetupKept, Creating, AddPc, Goto
<1>16. CASE UNCHANGED vars
  BY <1>16 DEF TypeOK, SetupKept, Creating, AddPc, Goto
<1>17. QED
  BY <1>1, <1>2, <1>3, <1>4, <1>5, <1>6, <1>7, <1>8, <1>9, <1>10, <1>11, <1>12,
     <1>13, <1>14, <1>15, <1>16
    DEF Next, ApiCall, CallStep, LoopStep

\* A close that has begun to close the connection closes it.
LEMMA KillKeeps ==
  ASSUME TypeInv, [Next]_vars
  PROVE  KillKept
<1> USE DEF TypeInv
<1>1. ASSUME NEW t \in Threads, NEW c \in Conns, ConnectNew(t, c)
      PROVE  KillKept
  BY <1>1 DEF ConnectNew, CanCall, TypeOK, KillKept, Goto
<1>2. ASSUME NEW t \in Threads, NEW h \in Handles, SendCall(t, h)
      PROVE  KillKept
  BY <1>2 DEF SendCall, AddRef, CanCall, Home, TypeOK, KillKept, Goto
<1>3. ASSUME NEW t \in Threads, NEW h \in Handles, CloseCall(t, h)
      PROVE  KillKept
  BY <1>3 DEF CloseCall, BeginClose, CanCall, Home, TypeOK, KillKept, Goto
<1>4. ASSUME NEW t \in Threads, NEW h \in Handles, StatusCall(t, h)
      PROVE  KillKept
  BY <1>4 DEF StatusCall, AddRef, CanCall, TypeOK, KillKept, Goto
<1>5. ASSUME NEW t \in Threads, ConnectStep(t) PROVE  KillKept
  <2>1. CASE MakeHandleStore(t) \/ MakeHandleCheck(t) \/ MakeHandleNext(t)
             \/ MakeHandleReturn(t) \/ ConnectSocket(t) \/ ConnectFail(t)
    BY <2>1
      DEF MakeHandleStore, NextHandle, MakeHandleCheck, AddRef, MakeHandleNext,
          Release, Destroy, CloseFds, MakeHandleReturn, ConnectSocket,
          ConnectFail, Delete, Home, TypeOK, KillKept, Goto
  <2>2. CASE AddConn(t) \/ AddConnTaken(t) \/ AddConnLog(t) \/ AddEventFd(t)
             \/ AddEventCtl(t) \/ ConnectReturn(t)
    BY <2>2
      DEF AddConn, ConnectLocals, ConnectPc, AddConnTaken, Delete, Destroy,
          CloseFds, AddConnLog, Home, AddEventFd, AddEventCtl, CtlAdd,
          ConnectReturn, TypeOK, KillKept, Goto
  <2>3. QED
    BY <1>5, <2>1, <2>2 DEF ConnectStep
<1>6. ASSUME NEW t \in Threads, SendStep(t) PROVE  KillKept
  <2>1. CASE DeliverRefused(t) \/ DeliverData(t) \/ DeliverSetEvent(t)
    BY <2>1
      DEF DeliverRefused, DeliverData, Lock, DeliverSetEvent, CtlMod, TypeOK,
          KillKept, Goto
  <2>2. QED
    BY <1>6, <2>1 DEF SendStep
<1>7. ASSUME NEW t \in Threads, CloseStep(t) PROVE  KillKept
  <2>1. CASE CloseGet(t)
    <3>1. /\ \/ pc' = [pc EXCEPT ![t] = ret[t]] /\ UNCHANGED ptr
             \/ pc' = [pc EXCEPT ![t] = "k_fd"] /\ ptr' = [ptr EXCEPT ![t] = conns[arg[t]]]
          /\ UNCHANGED new /\ pc[t] = "k_get"
      BY <2>1 DEF CloseGet, CallEnd, Goto
    <3>2. ret[t] \notin Creating \cup AddPc
      BY DEF TypeOK, Creating, AddPc
    <3>3. QED
      BY <3>1, <3>2 DEF TypeOK, SetupKept, KillKept, Creating, AddPc
  <2>2. CASE CloseFd(t) \/ CloseRemoveEvent(t) \/ CloseRemoveConn(t)
             \/ ConnCloseState(t) \/ ConnCloseSocket(t)
    BY <2>2
      DEF CloseFd, CloseRemoveEvent, CtlDel, CloseRemoveConn, AfterRemove,
          ConnCloseState, CallLocals, PtrPc, ClosePc, ConnCloseSocket, CloseFds,
          TypeOK, KillKept, Goto
  <2>3. QED
    BY <1>7, <2>1, <2>2 DEF CloseStep
<1>8. ASSUME NEW t \in Threads, StatusStep(t) PROVE  KillKept
  BY <1>8 DEF StatusStep, StatusRead, StatusReturn, Home, TypeOK, KillKept, Goto
<1>9. ASSUME NEW t \in Threads, CallRelease(t) PROVE  KillKept
  <2>1. /\ pc' = [pc EXCEPT ![t] = ret[t]] /\ UNCHANGED new
        /\ pc[t] = "rel" /\ ptr' = [ptr EXCEPT ![t] = None]
    BY <1>9 DEF CallRelease, CallEnd, Goto
  <2>2. ret[t] \notin Creating \cup AddPc
    BY DEF TypeOK, Creating, AddPc
  <2>3. QED
    BY <2>1, <2>2 DEF TypeOK, SetupKept, KillKept
<1>10. ASSUME NEW l \in Loops, RoundStep(l) PROVE  KillKept
  <2>1. CASE GetEvents(l)
    BY <2>1, LoopsAreThreads DEF GetEvents, TypeOK, KillKept, Goto
  <2>2. ASSUME NEW e \in batch[l], NextEvent(l, e)
        PROVE  KillKept
    BY <2>2, LoopsAreThreads DEF NextEvent, AddRef, TypeOK, KillKept, Goto
  <2>3. CASE ReleaseEvent(l)
    BY <2>3, LoopsAreThreads
      DEF ReleaseEvent, Release, Destroy, CloseFds, TypeOK, KillKept, Goto
  <2>4. CASE CallbackReturn(l)
    <3>1. /\ pc' = [pc EXCEPT ![l] = cbret[l]] /\ UNCHANGED new
          /\ pc[l] \in {"cb", "cb_done"} /\ UNCHANGED ptr
      BY <2>4 DEF CallbackReturn, Goto
    <3>2. cbret[l] \notin Creating \cup AddPc
      BY DEF TypeOK, Creating, AddPc
    <3>3. QED
      BY <3>1, <3>2, LoopsAreThreads DEF TypeOK, SetupKept, KillKept
  <2>5. QED
    BY <1>10, <2>1, <2>2, <2>3, <2>4 DEF RoundStep
<1>11. ASSUME NEW l \in Loops, ReadStep(l) PROVE  KillKept
  <2>1. CASE ReadSkip(l) \/ ReadBegin(l) \/ ReadData(l) \/ ReadBroken(l)
             \/ ReadDone(l) \/ ReadMore(l)
    BY <2>1, LoopsAreThreads
      DEF ReadSkip, ReadBegin, ReadData, ReadBroken, BeginClose, ReadDone,
          ReadMore, TypeOK, KillKept, Goto
  <2>2. CASE ReadClosed(l)
    BY <2>2, LoopsAreThreads DEF ReadClosed, Callback, TypeOK, KillKept, Goto
  <2>3. QED
    BY <1>11, <2>1, <2>2 DEF ReadStep
<1>12. ASSUME NEW l \in Loops, WriteStep(l) PROVE  KillKept
  <2>1. CASE WriteSkip(l) \/ WriteOutcome(l) \/ WriteConnected(l)
             \/ OnConnect(l) \/ WriteFailed(l) \/ WriteClosed(l)
    BY <2>1, LoopsAreThreads
      DEF WriteSkip, WriteOutcome, WriteConnected, OnConnect, Callback,
          WriteFailed, BeginClose, WriteClosed, TypeOK, KillKept, Goto
  <2>2. CASE WriteBegin(l) \/ WriteSome(l) \/ WriteAll(l) \/ WriteSetEvent(l)
    BY <2>2, LoopsAreThreads
      DEF WriteBegin, WriteSome, WriteAll, Lock, WriteSetEvent, CtlMod, TypeOK,
          KillKept, Goto
  <2>3. QED
    BY <1>12, <2>1, <2>2 DEF WriteStep
<1>13. ASSUME NEW l \in Loops, TimeStep(l) PROVE  KillKept
  <2>1. CASE TimeSkip(l) \/ CheckTimeout(l) \/ TimeoutClose(l)
             \/ TimeoutClosed(l) \/ Clear(l)
    BY <2>1, LoopsAreThreads
      DEF TimeSkip, CheckTimeout, TimeoutClose, BeginClose, TimeoutClosed,
          Callback, Clear, Release, Destroy, CloseFds, TypeOK, KillKept, Goto
  <2>2. QED
    BY <1>13, <2>1 DEF TimeStep
<1>14. ASSUME NEW c \in Conns, NetStep(c)
      PROVE  KillKept
  BY <1>14 DEF NetStep, TypeOK, KillKept, Goto
<1>15. ASSUME NEW c \in Conns, Tick(c)
      PROVE  KillKept
  BY <1>15 DEF Tick, TypeOK, KillKept, Goto
<1>16. CASE UNCHANGED vars
  BY <1>16 DEF TypeOK, KillKept, Goto
<1>17. QED
  BY <1>1, <1>2, <1>3, <1>4, <1>5, <1>6, <1>7, <1>8, <1>9, <1>10, <1>11, <1>12,
     <1>13, <1>14, <1>15, <1>16
    DEF Next, ApiCall, CallStep, LoopStep

\* Only add_event puts a connection in the epoll set.
LEMMA RegKeeps ==
  ASSUME TypeInv, RefInv, [Next]_vars
  PROVE  RegKept
<1> USE DEF TypeInv
<1>1. ASSUME NEW t \in Threads, NEW c \in Conns, ConnectNew(t, c)
      PROVE  RegKept
  BY <1>1 DEF ConnectNew, CanCall, NoReg, RegKept
<1>2. ASSUME NEW t \in Threads, NEW h \in Handles, SendCall(t, h)
      PROVE  RegKept
  BY <1>2 DEF SendCall, AddRef, CanCall, Home, NoReg, RegKept
<1>3. ASSUME NEW t \in Threads, NEW h \in Handles, CloseCall(t, h)
      PROVE  RegKept
  BY <1>3 DEF CloseCall, BeginClose, CanCall, Home, NoReg, RegKept
<1>4. ASSUME NEW t \in Threads, NEW h \in Handles, StatusCall(t, h)
      PROVE  RegKept
  BY <1>4 DEF StatusCall, AddRef, CanCall, NoReg, RegKept
<1>5. ASSUME NEW t \in Threads, ConnectStep(t) PROVE  RegKept
  <2>1. CASE MakeHandleStore(t) \/ MakeHandleCheck(t) \/ MakeHandleNext(t)
             \/ MakeHandleReturn(t) \/ ConnectSocket(t) \/ ConnectFail(t)
    BY <2>1
      DEF MakeHandleStore, NextHandle, MakeHandleCheck, AddRef, MakeHandleNext,
          Release, Destroy, CloseFds, MakeHandleReturn, ConnectSocket,
          ConnectFail, Delete, Home, NoReg, RegKept
  <2>2. CASE AddConn(t) \/ AddConnTaken(t) \/ AddConnLog(t) \/ AddEventFd(t)
             \/ AddEventCtl(t) \/ ConnectReturn(t)
    BY <2>2
      DEF AddConn, AddConnTaken, Delete, Destroy, CloseFds, AddConnLog, Home,
          AddEventFd, AddEventCtl, CtlAdd, ConnectReturn, NoReg, RegKept
  <2>3. QED
    BY <1>5, <2>1, <2>2 DEF ConnectStep
<1>6. ASSUME NEW t \in Threads, SendStep(t) PROVE  RegKept
  <2>1. CASE DeliverRefused(t) \/ DeliverData(t)
    BY <2>1 DEF DeliverRefused, DeliverData, Lock, NoReg, RegKept
  <2>2. CASE DeliverSetEvent(t)
    <3>1. pc[t] \in CtlPc /\ CtlMod(tfd[t], Target(t), TRUE) /\ t \in Threads
      BY <2>2 DEF DeliverSetEvent, CtlPc, Target
    <3>2. QED
      BY <3>1, CtlModKeeps DEF RegKept
  <2>3. QED
    BY <1>6, <2>1, <2>2 DEF SendStep
<1>7. ASSUME NEW t \in Threads, CloseStep(t) PROVE  RegKept
  <2>1. CASE CloseGet(t) \/ CloseFd(t) \/ CloseRemoveEvent(t)
             \/ CloseRemoveConn(t) \/ ConnCloseState(t) \/ ConnCloseSocket(t)
    BY <2>1
      DEF CloseGet, AddRef, CallEnd, CloseFd, CloseRemoveEvent, CtlDel,
          CloseRemoveConn, AfterRemove, ConnCloseState, ConnCloseSocket,
          CloseFds, NoReg, RegKept
  <2>2. QED
    BY <1>7, <2>1 DEF CloseStep
<1>8. ASSUME NEW t \in Threads, StatusStep(t) PROVE  RegKept
  BY <1>8 DEF StatusStep, StatusRead, StatusReturn, Home, NoReg, RegKept
<1>9. ASSUME NEW t \in Threads, CallRelease(t) PROVE  RegKept
  BY <1>9 DEF CallRelease, Release, Destroy, CloseFds, CallEnd, NoReg, RegKept
<1>10. ASSUME NEW l \in Loops, RoundStep(l) PROVE  RegKept
  <2>1. CASE GetEvents(l)
    BY <2>1, LoopsAreThreads DEF GetEvents, NoReg, RegKept
  <2>2. ASSUME NEW e \in batch[l], NextEvent(l, e)
        PROVE  RegKept
    BY <2>2, LoopsAreThreads DEF NextEvent, AddRef, NoReg, RegKept
  <2>3. CASE ReleaseEvent(l) \/ CallbackReturn(l)
    BY <2>3, LoopsAreThreads
      DEF ReleaseEvent, Release, Destroy, CloseFds, CallbackReturn, NoReg,
          RegKept
  <2>4. QED
    BY <1>10, <2>1, <2>2, <2>3 DEF RoundStep
<1>11. ASSUME NEW l \in Loops, ReadStep(l) PROVE  RegKept
  BY <1>11, LoopsAreThreads
    DEF ReadStep, ReadSkip, ReadBegin, ReadData, ReadBroken, ReadDone, ReadMore,
        ReadClosed, BeginClose, Callback, NoReg, RegKept
<1>12. ASSUME NEW l \in Loops, WriteStep(l) PROVE  RegKept
  <2>1. CASE WriteSkip(l) \/ WriteOutcome(l) \/ WriteConnected(l)
             \/ OnConnect(l) \/ WriteFailed(l) \/ WriteClosed(l)
    BY <2>1, LoopsAreThreads
      DEF WriteSkip, WriteOutcome, WriteConnected, OnConnect, Callback,
          WriteFailed, BeginClose, WriteClosed, NoReg, RegKept
  <2>2. CASE WriteBegin(l) \/ WriteSome(l) \/ WriteAll(l)
    BY <2>2, LoopsAreThreads
      DEF WriteBegin, WriteSome, WriteAll, Lock, NoReg, RegKept
  <2>3. CASE WriteSetEvent(l)
    <3>1. pc[l] \in CtlPc /\ CtlMod(tfd[l], Target(l), FALSE) /\ l \in Threads
      BY <2>3, LoopsAreThreads DEF WriteSetEvent, CtlPc, Target
    <3>2. QED
      BY <3>1, CtlModKeeps DEF RegKept
  <2>4. QED
    BY <1>12, <2>1, <2>2, <2>3 DEF WriteStep
<1>13. ASSUME NEW l \in Loops, TimeStep(l) PROVE  RegKept
  BY <1>13, LoopsAreThreads
    DEF TimeStep, TimeSkip, CheckTimeout, TimeoutClose, TimeoutClosed, Clear,
        BeginClose, Callback, Release, Destroy, CloseFds, NoReg, RegKept
<1>14. ASSUME NEW c \in Conns, NetStep(c)
      PROVE  RegKept
  BY <1>14 DEF NetStep, NoReg, RegKept
<1>15. ASSUME NEW c \in Conns, Tick(c)
      PROVE  RegKept
  BY <1>15 DEF Tick, NoReg, RegKept
<1>16. CASE UNCHANGED vars
  BY <1>16 DEF NoReg, RegKept
<1>17. QED
  BY <1>1, <1>2, <1>3, <1>4, <1>5, <1>6, <1>7, <1>8, <1>9, <1>10, <1>11, <1>12,
     <1>13, <1>14, <1>15, <1>16
    DEF Next, ApiCall, CallStep, LoopStep

\* Where the loop is in the handling of an event after a step, by where it was.
LEMMA PlaceKeeps ==
  ASSUME TypeInv, [Next]_vars
  PROVE  PlaceKept
<1> USE DEF TypeInv
<1>1. ASSUME NEW t \in Threads, NEW c \in Conns, ConnectNew(t, c)
      PROVE  PlaceKept
  BY <1>1, LoopsAreThreads
    DEF ConnectNew, CanCall, TypeOK, PlaceKept, Reading, Within, Goto
<1>2. ASSUME NEW t \in Threads, NEW h \in Handles, SendCall(t, h)
      PROVE  PlaceKept
  BY <1>2, LoopsAreThreads
    DEF SendCall, AddRef, CanCall, Home, TypeOK, PlaceKept, Reading, Within,
        Goto
<1>3. ASSUME NEW t \in Threads, NEW h \in Handles, CloseCall(t, h)
      PROVE  PlaceKept
  BY <1>3, LoopsAreThreads
    DEF CloseCall, BeginClose, CanCall, Home, TypeOK, PlaceKept, Reading,
        Within, Goto
<1>4. ASSUME NEW t \in Threads, NEW h \in Handles, StatusCall(t, h)
      PROVE  PlaceKept
  BY <1>4, LoopsAreThreads
    DEF StatusCall, AddRef, CanCall, TypeOK, PlaceKept, Reading, Within, Goto
<1>5. ASSUME NEW t \in Threads, ConnectStep(t) PROVE  PlaceKept
  <2>1. CASE MakeHandleStore(t) \/ MakeHandleCheck(t) \/ MakeHandleNext(t)
             \/ MakeHandleReturn(t) \/ ConnectSocket(t) \/ ConnectFail(t)
    BY <2>1, LoopsAreThreads
      DEF MakeHandleStore, NextHandle, MakeHandleCheck, AddRef, MakeHandleNext,
          Release, Destroy, CloseFds, MakeHandleReturn, ConnectSocket,
          ConnectFail, Delete, Home, TypeOK, PlaceKept, Reading, Within, Goto
  <2>2. CASE AddConn(t) \/ AddConnTaken(t) \/ AddConnLog(t) \/ AddEventFd(t)
             \/ AddEventCtl(t) \/ ConnectReturn(t)
    BY <2>2, LoopsAreThreads
      DEF AddConn, AddConnTaken, Delete, Destroy, CloseFds, AddConnLog, Home,
          AddEventFd, AddEventCtl, CtlAdd, ConnectReturn, TypeOK, PlaceKept,
          Reading, Within, Goto
  <2>3. QED
    BY <1>5, <2>1, <2>2 DEF ConnectStep
<1>6. ASSUME NEW t \in Threads, SendStep(t) PROVE  PlaceKept
  BY <1>6, LoopsAreThreads
    DEF SendStep, DeliverRefused, DeliverData, DeliverSetEvent, Lock, CtlMod,
        TypeOK, PlaceKept, Reading, Within, Goto
<1>7. ASSUME NEW t \in Threads, CloseStep(t) PROVE  PlaceKept
  <2>1. CASE CloseGet(t)
    <3>1. /\ \/ pc' = [pc EXCEPT ![t] = ret[t]] /\ ret' = [ret EXCEPT ![t] = "idle"]
             \/ pc' = [pc EXCEPT ![t] = "k_fd"] /\ UNCHANGED ret
          /\ UNCHANGED <<cur, cbret>> /\ pc[t] = "k_get"
      BY <2>1 DEF CloseGet, CallEnd, Goto
    <3>2. QED
      BY SMTT(30), <3>1, LoopsAreThreads DEF TypeOK, PlaceKept, Reading, Within
  <2>2. CASE CloseFd(t) \/ CloseRemoveEvent(t) \/ CloseRemoveConn(t)
             \/ ConnCloseState(t) \/ ConnCloseSocket(t)
    BY <2>2, LoopsAreThreads
      DEF CloseFd, CloseRemoveEvent, CtlDel, CloseRemoveConn, AfterRemove,
          ConnCloseState, ConnCloseSocket, CloseFds, TypeOK, PlaceKept, Reading,
          Within, Goto
  <2>3. QED
    BY <1>7, <2>1, <2>2 DEF CloseStep
<1>8. ASSUME NEW t \in Threads, StatusStep(t) PROVE  PlaceKept
  BY <1>8, LoopsAreThreads
    DEF StatusStep, StatusRead, StatusReturn, Home, TypeOK, PlaceKept, Reading,
        Within, Goto
<1>9. ASSUME NEW t \in Threads, CallRelease(t) PROVE  PlaceKept
  <2>1. /\ pc' = [pc EXCEPT ![t] = ret[t]] /\ ret' = [ret EXCEPT ![t] = "idle"]
        /\ UNCHANGED <<cur, cbret>> /\ pc[t] = "rel"
    BY <1>9 DEF CallRelease, CallEnd, Goto
  <2>2. QED
    BY SMTT(30), <2>1, LoopsAreThreads DEF TypeOK, PlaceKept, Reading, Within
<1>10. ASSUME NEW l \in Loops, RoundStep(l) PROVE  PlaceKept
  <2>1. CASE GetEvents(l)
    BY <2>1, LoopsAreThreads
      DEF GetEvents, TypeOK, PlaceKept, Reading, Within, Goto
  <2>2. ASSUME NEW e \in batch[l], NextEvent(l, e)
        PROVE  PlaceKept
    BY <2>2, LoopsAreThreads, LoopAtHome
      DEF NextEvent, AddRef, TypeOK, PlaceKept, Reading, Within, Goto, OutPc
  <2>3. CASE ReleaseEvent(l)
    <3>1. /\ pc' = [pc EXCEPT ![l] = "next"] /\ pc[l] = "unref"
          /\ UNCHANGED <<cbret, ret>> /\ \A k \in Loops : k # l => cur'[k] = cur[k]
      BY <2>3 DEF ReleaseEvent, Goto, TypeOK
    <3>2. ret[l] = "idle" /\ cbret[l] = "wait"
      BY <3>1, LoopAtHome DEF OutPc, EventPc
    <3>3. QED
      BY <3>1, <3>2, LoopsAreThreads DEF TypeOK, PlaceKept, Reading, Within
  <2>4. CASE CallbackReturn(l)
    <3>1. /\ pc' = [pc EXCEPT ![l] = cbret[l]] /\ pc[l] \in {"cb", "cb_done"}
          /\ cbret' = [cbret EXCEPT ![l] = "wait"] /\ UNCHANGED <<cur, ret>>
      BY <2>4 DEF CallbackReturn, Goto
    <3>2. QED
      BY SMTT(30), <3>1, LoopsAreThreads DEF TypeOK, PlaceKept, Reading, Within
  <2>5. QED
    BY <1>10, <2>1, <2>2, <2>3, <2>4 DEF RoundStep
<1>11. ASSUME NEW l \in Loops, ReadStep(l) PROVE  PlaceKept
  <2>1. CASE ReadSkip(l) \/ ReadBegin(l) \/ ReadData(l) \/ ReadBroken(l)
             \/ ReadDone(l) \/ ReadMore(l)
    BY <2>1, LoopsAreThreads
      DEF ReadSkip, ReadBegin, ReadData, ReadBroken, BeginClose, ReadDone,
          ReadMore, TypeOK, PlaceKept, Reading, Within, Goto
  <2>2. CASE ReadClosed(l)
    BY <2>2, LoopsAreThreads
      DEF ReadClosed, Callback, TypeOK, PlaceKept, Reading, Within, Goto
  <2>3. QED
    BY <1>11, <2>1, <2>2 DEF ReadStep
<1>12. ASSUME NEW l \in Loops, WriteStep(l) PROVE  PlaceKept
  <2>1. CASE WriteSkip(l) \/ WriteOutcome(l) \/ WriteConnected(l)
             \/ OnConnect(l) \/ WriteFailed(l) \/ WriteClosed(l)
    BY <2>1, LoopsAreThreads
      DEF WriteSkip, WriteOutcome, WriteConnected, OnConnect, Callback,
          WriteFailed, BeginClose, WriteClosed, TypeOK, PlaceKept, Reading,
          Within, Goto
  <2>2. CASE WriteBegin(l) \/ WriteSome(l) \/ WriteAll(l) \/ WriteSetEvent(l)
    BY <2>2, LoopsAreThreads
      DEF WriteBegin, WriteSome, WriteAll, Lock, WriteSetEvent, CtlMod, TypeOK,
          PlaceKept, Reading, Within, Goto
  <2>3. QED
    BY <1>12, <2>1, <2>2 DEF WriteStep
<1>13. ASSUME NEW l \in Loops, TimeStep(l) PROVE  PlaceKept
  <2>1. CASE TimeSkip(l) \/ CheckTimeout(l) \/ TimeoutClose(l)
             \/ TimeoutClosed(l) \/ Clear(l)
    BY <2>1, LoopsAreThreads
      DEF TimeSkip, CheckTimeout, TimeoutClose, BeginClose, TimeoutClosed,
          Callback, Clear, Release, Destroy, CloseFds, TypeOK, PlaceKept,
          Reading, Within, Goto
  <2>2. QED
    BY <1>13, <2>1 DEF TimeStep
<1>14. ASSUME NEW c \in Conns, NetStep(c)
      PROVE  PlaceKept
  BY <1>14, LoopsAreThreads
    DEF NetStep, TypeOK, PlaceKept, Reading, Within, Goto
<1>15. ASSUME NEW c \in Conns, Tick(c)
      PROVE  PlaceKept
  BY <1>15, LoopsAreThreads DEF Tick, TypeOK, PlaceKept, Reading, Within, Goto
<1>16. CASE UNCHANGED vars
  BY <1>16, LoopsAreThreads DEF TypeOK, PlaceKept, Reading, Within, Goto
<1>17. QED
  BY <1>1, <1>2, <1>3, <1>4, <1>5, <1>6, <1>7, <1>8, <1>9, <1>10, <1>11, <1>12,
     <1>13, <1>14, <1>15, <1>16
    DEF Next, ApiCall, CallStep, LoopStep

----------------------------------------------------------------------------
(* The invariant is inductive.                                             *)

\* A handle once entered stays so.
LEMMA EnteredGrows ==
  ASSUME TypeInv, [Next]_vars
  PROVE  Entered \subseteq Entered'
<1> USE DEF TypeInv
<1>1. ASSUME NEW t \in Threads, AddConn(t) PROVE Entered \subseteq Entered'
  BY <1>1 DEF AddConn, TypeOK, Entered, ConnectLocals, ConnectPc
<1>2. ASSUME NEW t \in Threads, CloseRemoveConn(t) PROVE Entered \subseteq Entered'
  BY <1>2 DEF CloseRemoveConn, TypeOK, Entered
<1>3. QED
  BY <1>1, <1>2, TableWriters DEF Entered

\* What the loop works on keeps its handle, and so does what is in the table.
LEMMA HandleStays ==
  ASSUME TypeInv, CloseInv, RefInv, [Next]_vars
  PROVE  /\ \A l \in Loops : \A e \in batch[l] : handle'[e.conn] = handle[e.conn]
         /\ \A l \in Loops : cur[l] # NoEvent =>
              handle'[cur[l].conn] = handle[cur[l].conn]
         /\ \A h \in Handles : conns[h] # None =>
              conns[h] \in Conns /\ handle[conns[h]] = h /\ handle'[conns[h]] = h
<1> USE DEF TypeInv, CloseInv, RefInv
<1>1. ASSUME NEW t \in Threads, MakeHandleReturn(t)
      PROVE  \A c \in Conns : Unused(c) \/ handle'[c] = handle[c]
  BY <1>1 DEF MakeHandleReturn, TypeOK, Private, Creating
<1>2. \A c \in Conns : Unused(c) \/ handle'[c] = handle[c]
  BY <1>1, HandleWriters
<1>3. \A l \in Loops : /\ \A e \in batch[l] : e.conn \in Conns
                       /\ cur[l] # NoEvent => cur[l].conn \in Conns
  BY DEF TypeOK, Event
<1>4. \A h \in Handles : conns[h] # None => conns[h] \in Conns /\ handle[conns[h]] = h
  BY DEF TypeOK, UniqueHandle
<1>5. QED
  BY <1>2, <1>3, <1>4 DEF Unused, Online

\* What is new in a round comes from the epoll set, the batch or the table.
LEMMA RoundKeeps ==
  ASSUME TypeInv, RefInv, OneLoop, [Next]_vars
  PROVE  \A l \in Loops :
           /\ \A e \in batch'[l] : \/ e \in batch[l]
                                   \/ \E f \in Fds : /\ reg[f].ptr = e.conn
                                                     /\ e.conn \in Conns /\ Online(e.conn)
           /\ cur'[l] \in {cur[l], NoEvent} \cup batch[l]
           /\ \A h \in tlist'[l] : h \in tlist[l] \/ (h \in Handles /\ conns[h] # None)
<1> USE DEF TypeInv, RefInv
<1>1. ASSUME NEW k \in Loops, GetEvents(k), NEW l \in Loops, NEW e \in batch'[l]
      PROVE  \/ e \in batch[l]
             \/ \E f \in Fds : /\ reg[f].ptr = e.conn
                               /\ e.conn \in Conns /\ Online(e.conn)
  <2>1. CASE l # k
    BY <1>1, <2>1 DEF GetEvents, TypeOK
  <2>2. CASE l = k
    <3>1. PICK f \in Fds : reg[f] # NoReg /\ e = Ready(f)
      BY <1>1, <2>2 DEF GetEvents, TypeOK
    <3>2. pc[k] = "wait" /\ \A m \in Loops : m = k
      BY <1>1 DEF GetEvents, OneLoop
    <3>3. e.conn = reg[f].ptr /\ reg[f].ptr \in Conns /\ Online(reg[f].ptr)
      BY <3>1, <3>2, RegisteredPtr DEF Ready, Registered
    <3>4. QED
      BY <3>3
  <2>3. QED
    BY <2>1, <2>2
<1>2. ASSUME NEW k \in Loops, GetEvents(k)
      PROVE  UNCHANGED <<cur, tlist>>
  BY <1>2 DEF GetEvents
<1>3. ASSUME NEW k \in Loops, NEW e \in batch[k], NextEvent(k, e)
      PROVE  /\ \A l \in Loops : batch'[l] \subseteq batch[l]
             /\ \A l \in Loops : cur'[l] \in {cur[l]} \cup batch[l]
             /\ UNCHANGED tlist
  BY <1>3 DEF NextEvent, TypeOK
<1>4. ASSUME NEW k \in Loops, ReleaseEvent(k)
      PROVE  /\ UNCHANGED <<batch, tlist>>
             /\ \A l \in Loops : cur'[l] \in {cur[l], NoEvent}
  BY <1>4 DEF ReleaseEvent, TypeOK
<1>5. ASSUME NEW k \in Loops, CheckTimeout(k) \/ TimeoutClosed(k)
      PROVE  /\ UNCHANGED <<batch, cur>>
             /\ \A l \in Loops : \A h \in tlist'[l] :
                  h \in tlist[l] \/ (h \in Handles /\ conns[h] # None)
  BY <1>5 DEF CheckTimeout, TimeoutClosed, TypeOK
<1>6. QED
  BY <1>1, <1>2, <1>3, <1>4, <1>5, RoundWriters

\* Nothing but entered handles gets to the loop.
LEMMA SeenStep ==
  ASSUME TypeInv, CloseInv, RefInv, OneLoop, Seen, [Next]_vars
  PROVE  Seen'
<1>1. \A c \in Conns : Online(c) => handle[c] \in Entered /\ handle'[c] = handle[c]
  BY HandleStays DEF Online, Entered
<1>2. \A l \in Loops : \A e \in batch[l] : e.conn \in Conns
  BY DEF TypeInv, TypeOK, Event
<1>3. ASSUME NEW l \in Loops, NEW e \in batch'[l] PROVE handle'[e.conn] \in Entered
  <2>1. CASE e \in batch[l]
    BY <2>1, HandleStays DEF Seen
  <2>2. CASE e.conn \in Conns /\ Online(e.conn)
    BY <1>1, <2>2
  <2>3. QED
    BY <1>3, <2>1, <2>2, RoundKeeps
<1>4. ASSUME NEW l \in Loops, cur'[l] # NoEvent
      PROVE  handle'[cur'[l].conn] \in Entered
  BY <1>4, HandleStays, RoundKeeps DEF Seen
<1>5. ASSUME NEW l \in Loops PROVE tlist'[l] \subseteq Entered
  BY <1>5, RoundKeeps DEF Seen, Entered
<1>6. QED
  BY <1>3, <1>4, <1>5, EnteredGrows DEF Seen

\* A round keeps to one event for a connection: every connection has one
\* descriptor in the epoll set.
LEMMA OneEventStep ==
  ASSUME TypeInv, RefInv, OneEvent, [Next]_vars
  PROVE  OneEvent'
<1> USE DEF TypeInv, RefInv
<1>1. ASSUME NEW l \in Loops, GetEvents(l) PROVE OneEvent'
  <2>1. cur[l] = NoEvent
    <3>1. pc[l] = "wait" /\ pc[l] \in OutPc /\ pc[l] \notin EventPc
      BY <1>1 DEF GetEvents, OutPc, EventPc
    <3>2. ret[l] \notin EventPc /\ cbret[l] \notin EventPc
      BY <3>1, LoopAtHome DEF EventPc
    <3>3. QED
      BY <3>1, <3>2 DEF LoopIdle, Within
  <2>2. ASSUME NEW d \in batch'[l], NEW e \in batch'[l]
        PROVE  e.conn # None /\ (d.conn = e.conn => d = e)
    <3>1. PICK f \in Fds : reg[f] # NoReg /\ d = Ready(f)
      BY <1>1 DEF GetEvents, TypeOK
    <3>2. PICK g \in Fds : reg[g] # NoReg /\ e = Ready(g)
      BY <1>1 DEF GetEvents, TypeOK
    <3>3. fd[reg[f].ptr] = f /\ fd[reg[g].ptr] = g /\ reg[g].ptr # None
      BY <3>1, <3>2, RegisteredPtr DEF Registered
    <3>4. d.conn = reg[f].ptr /\ e.conn = reg[g].ptr
      BY <3>1, <3>2 DEF Ready
    <3>5. QED
      BY <3>1, <3>2, <3>3, <3>4
  <2>3. /\ cur' = cur
        /\ \A k \in Loops : k # l => batch'[k] = batch[k]
    BY <1>1 DEF GetEvents, TypeOK
  <2>4. QED
    BY <2>1, <2>2, <2>3 DEF OneEvent, NoEvent
<1>2. ASSUME NEW l \in Loops, NEW e \in batch[l], NextEvent(l, e) PROVE OneEvent'
  <2>1. /\ batch' = [batch EXCEPT ![l] = batch[l] \ {e}]
        /\ cur' = [cur EXCEPT ![l] = e]
    BY <1>2 DEF NextEvent
  <2>2. QED
    BY <2>1 DEF OneEvent, TypeOK
<1>3. ASSUME NEW l \in Loops, ReleaseEvent(l) PROVE OneEvent'
  <2>1. batch' = batch /\ cur' = [cur EXCEPT ![l] = NoEvent]
    BY <1>3 DEF ReleaseEvent
  <2>2. \A k \in Loops : \A e \in batch[k] : e.conn # None
    BY DEF TypeOK, Event
  <2>3. QED
    BY <2>1, <2>2 DEF OneEvent, TypeOK, NoEvent
<1>4. ASSUME UNCHANGED <<batch, cur>> PROVE OneEvent'
  BY <1>4 DEF OneEvent
<1>5. ASSUME NEW l \in Loops, CheckTimeout(l) \/ TimeoutClosed(l)
      PROVE  UNCHANGED <<batch, cur>>
  BY <1>5 DEF CheckTimeout, TimeoutClosed
<1>6. QED
  BY <1>1, <1>2, <1>3, <1>4, <1>5, RoundWriters

\* A state other than CONNECTING does not become CONNECTING, except for a new
\* connection, and one that is being set up is left alone.
LEMMA StateKeeps ==
  ASSUME OneConnector, TypeInv, CloseInv, RefInv, [Next]_vars
  PROVE  /\ \A c \in Conns : state'[c] = "CONNECTING" =>
              \/ state[c] = "CONNECTING"
              \/ Unused(c) /\ handle'[c] \in Handles /\ told'[handle'[c]] = "none"
         /\ \A u \in Threads : pc[u] \in AddPc =>
              state'[new[u]] \in {state[new[u]], "CLOSED"}
<1> USE DEF TypeInv, CloseInv, RefInv
<1>a. \A u \in Threads : pc[u] \in AddPc => new[u] \in Conns /\ pc[u] \in ConnectPc
  BY DEF ConnectLocals, AddPc, ConnectPc
<1>1. ASSUME NEW t \in Threads, ConnectSocket(t)
      PROVE  /\ \A c \in Conns : state'[c] = state[c] \/ c = new[t]
             /\ \A u \in Threads : pc[u] \notin AddPc
             /\ Unused(new[t]) /\ handle'[new[t]] \in Handles
             /\ told'[handle'[new[t]]] = "none"
  <2>1. pc[t] = "c_connect" /\ UNCHANGED <<handle, told>>
    BY <1>1 DEF ConnectSocket
  <2>2. \A u \in Threads : pc[u] \in AddPc => u = t
    BY <1>a, <2>1, OneSetup DEF ConnectPc
  <2>3. \A u \in Threads : pc[u] \notin AddPc
    BY <2>1, <2>2 DEF AddPc
  <2>4. /\ handle[new[t]] \in Handles /\ told[handle[new[t]]] = "none"
        /\ Unused(new[t])
    BY <2>1, NewHandle DEF SetupPc, Private, Creating
  <2>5. \A c \in Conns : state'[c] = state[c] \/ c = new[t]
    BY <1>1 DEF ConnectSocket, TypeOK
  <2>6. QED
    BY <2>1, <2>3, <2>4, <2>5
<1>2. ASSUME NEW t \in Threads, ConnectFail(t) \/ ConnCloseState(t)
      PROVE  \A c \in Conns : state'[c] \in {state[c], "CLOSED"}
  BY <1>2 DEF ConnectFail, ConnCloseState, TypeOK
<1>3. ASSUME NEW l \in Loops, OnConnect(l)
      PROVE  /\ \A c \in Conns : state'[c] \in {state[c], "CONNECTED"}
             /\ \A u \in Threads : pc[u] \in AddPc => state'[new[u]] = state[new[u]]
  <2>1. pc[l] \in EventPc /\ state' = [state EXCEPT ![cur[l].conn] = "CONNECTED"]
    BY <1>3 DEF OnConnect, EventPc
  <2>2. \A u \in Threads : pc[u] \in AddPc => cur[l].conn # new[u]
    BY <2>1, AddHandle
  <2>3. QED
    BY <1>a, <2>1, <2>2 DEF TypeOK
<1>4. \A c \in Conns : state'[c] = "CONNECTING" =>
              \/ state[c] = "CONNECTING"
              \/ Unused(c) /\ handle'[c] \in Handles /\ told'[handle'[c]] = "none"
  BY <1>1, <1>2, <1>3, StateWriters
<1>5. \A u \in Threads : pc[u] \in AddPc =>
              state'[new[u]] \in {state[new[u]], "CLOSED"}
  BY <1>a, <1>1, <1>2, <1>3, StateWriters
<1>6. QED
  BY <1>4, <1>5

\* A connection that the time-out closes before its add_event is CLOSED before
\* the close is reported.
LEMMA ExpelledStep ==
  ASSUME OneConnector, OneLoop, TypeInv, CloseInv, RefInv, Expelled, [Next]_vars
  PROVE  Expelled'
<1> USE DEF TypeInv, CloseInv, RefInv
<1> SUFFICES ASSUME NEW u \in Threads, pc'[u] \in AddPc,
                    conns'[handle'[new'[u]]] = None
             PROVE  \/ state'[new'[u]] = "CLOSED"
                    \/ \E l \in Loops : pc'[l] = "k_state" /\ ptr'[l] = new'[u]
  BY DEF Expelled
<1>1. /\ new'[u] = new[u] /\ pc[u] \in Creating \cup AddPc
      /\ \/ pc[u] \in AddPc
         \/ pc[u] = "c_add" /\ conns'[handle[new[u]]] # None
  BY SetupKeeps DEF SetupKept, AddPc
<1>2. pc[u] \in ConnectPc /\ pc[u] # "mh_return" /\ new[u] \in Conns
  BY <1>1 DEF ConnectLocals, ConnectPc, AddPc
<1>3. handle'[new[u]] = handle[new[u]]
  <2>1. ASSUME NEW t \in Threads, MakeHandleReturn(t) PROVE FALSE
    <3>1. pc[t] = "mh_return"
      BY <2>1 DEF MakeHandleReturn
    <3>2. t = u
      BY <1>2, <3>1, OneSetup DEF ConnectPc
    <3>3. QED
      BY <1>2, <3>1, <3>2
  <2>2. QED
    BY <2>1, HandleWriters
<1>4. pc[u] \in AddPc /\ handle[new[u]] \in Handles
  BY <1>1, <1>3 DEF ConnectLocals, AddPc
<1>5. CASE conns[handle[new[u]]] = None
  <2>1. CASE state[new[u]] = "CLOSED"
    BY <1>1, <1>4, <2>1, StateKeeps
  <2>2. ASSUME NEW l \in Loops, pc[l] = "k_state", ptr[l] = new[u]
        PROVE  \/ state'[new[u]] = "CLOSED"
               \/ pc'[l] = "k_state" /\ ptr'[l] = new[u]
    BY <2>2, KillKeeps, LoopsAreThreads DEF KillKept
  <2>3. QED
    BY <1>1, <1>4, <1>5, <2>1, <2>2 DEF Expelled
<1>6. CASE conns[handle[new[u]]] # None
  <2>1. PICK t \in Threads : CloseRemoveConn(t)
    <3>1. ASSUME NEW t \in Threads, AddConn(t) PROVE conns'[handle[new[u]]] # None
      BY <1>4, <1>6, <3>1 DEF AddConn, TypeOK, ConnectLocals, ConnectPc
    <3>2. QED
      BY <1>1, <1>3, <1>6, <3>1, TableWriters
  <2>2. /\ pc[t] = "k_remove" /\ arg[t] = handle[new[u]]
        /\ pc' = [pc EXCEPT ![t] = "k_state"] /\ ptr' = ptr
    <3>1. pc[t] = "k_remove" /\ arg[t] \in Handles /\ ptr' = ptr
      BY <2>1 DEF CloseRemoveConn, CallLocals, ClosePc
    <3>2. conns'[handle[new[u]]] # conns[handle[new[u]]]
      BY <1>1, <1>3, <1>6
    <3>3. \A h \in Handles : h # arg[t] => conns'[h] = conns[h]
      BY <2>1 DEF CloseRemoveConn, TypeOK
    <3>4. arg[t] = handle[new[u]]
      BY <1>4, <3>2, <3>3
    <3>5. pc' = [pc EXCEPT ![t] = "k_state"]
      BY <1>6, <2>1, <3>4 DEF CloseRemoveConn, AfterRemove, Goto
    <3>6. QED
      BY <3>1, <3>4, <3>5
  <2>3. t \in Loops
    BY <1>4, <2>2 DEF NotYet, ClosePc
  <2>4. ptr[t] = new[u]
    <3>1. handle[ptr[t]] = arg[t] /\ ptr[t] \in Conns
      BY <2>2 DEF OneCloser, KillPc, CallLocals, PtrPc, ClosePc
    <3>2. QED
      BY <1>2, <1>4, <2>2, <3>1 DEF UniqueHandle, Handles
  <2>5. QED
    BY <1>1, <2>2, <2>3, <2>4, LoopsAreThreads DEF TypeOK
<1>7. QED
  BY <1>5, <1>6

\* No connection is heard of after it was reported closed while CONNECTING.
LEMMA SilentStep ==
  ASSUME OneConnector, OneLoop, TypeInv, CloseInv, RefInv, ServiceInv, [Next]_vars
  PROVE  Silent'
<1> USE DEF TypeInv, CloseInv, RefInv, ServiceInv
<1> SUFFICES ASSUME NEW c \in Conns, handle'[c] # 0, state'[c] = "CONNECTING",
                    told'[handle'[c]] = "closed"
             PROVE  /\ \A f \in Fds : reg'[f].ptr # c
                    /\ \A l \in Loops : \A e \in batch'[l] : e.conn # c
                    /\ \A u \in Threads : pc'[u] \in Creating \cup AddPc => new'[u] # c
  BY DEF Silent
<1>1. state[c] = "CONNECTING"
  BY StateKeeps
<1>2. handle'[c] = handle[c]
  <2>1. ASSUME NEW t \in Threads, MakeHandleReturn(t), c = new[t] PROVE FALSE
    <3>1. /\ pc[t] = "mh_return" /\ hseq \in Handles
          /\ handle'[c] = hseq /\ told' = told
      BY <2>1 DEF MakeHandleReturn, TypeOK, ConnectLocals
    <3>2. \A d \in Conns : handle[d] # hseq
      BY <3>1 DEF FreshHandle, MakePc, TypeOK
    <3>3. told[hseq] = "none"
      BY <3>1, <3>2 DEF HandleUse, HandedOut
    <3>4. QED
      BY <3>1, <3>3
  <2>2. ASSUME NEW t \in Threads, MakeHandleReturn(t), c # new[t]
        PROVE  handle'[c] = handle[c]
    BY <2>2 DEF MakeHandleReturn, TypeOK
  <2>3. QED
    BY <2>1, <2>2, HandleWriters
<1>3. handle[c] \in Handles
  BY <1>2 DEF TypeOK, Handles
<1>4. CASE told[handle[c]] = "closed"
  <2>1. /\ \A f \in Fds : reg[f].ptr # c
        /\ \A l \in Loops : \A e \in batch[l] : e.conn # c
        /\ \A u \in Threads : pc[u] \in Creating \cup AddPc => new[u] # c
    BY <1>1, <1>2, <1>4 DEF Silent
  <2>2. \A f \in Fds : reg'[f].ptr # c
    BY <2>1, RegKeeps DEF RegKept, AddPc
  <2>3. \A l \in Loops : \A e \in batch'[l] : e.conn # c
    BY <2>1, RoundKeeps
  <2>4. \A u \in Threads : pc'[u] \in Creating \cup AddPc => new'[u] # c
    BY <1>2, <2>1, SetupKeeps DEF SetupKept, Setup
  <2>5. QED
    BY <2>2, <2>3, <2>4
<1>5. ASSUME conns[handle[c]] = None, NEW l \in Loops,
             pc[l] \in {"w_closed", "t_closed"}
      PROVE  \A f \in Fds : reg[f].ptr # c
  <2>1. ASSUME NEW f \in Fds, reg[f].ptr = c PROVE FALSE
    <3>1. reg[f] # NoReg
      BY <2>1 DEF NoReg
    <3>2. \A k \in Loops : pc[k] \notin {"k_state", "k_sock"}
      BY <1>5 DEF OneLoop
    <3>3. Online(c)
      BY <2>1, <3>1, <3>2 DEF Registered
    <3>4. QED
      BY <1>5, <3>3 DEF Online, UniqueHandle
  <2>2. QED
    BY <2>1
<1>6. ASSUME NEW l \in Loops, WriteClosed(l), told[handle[c]] # "closed"
      PROVE  /\ \A f \in Fds : reg[f].ptr # c
             /\ \A k \in Loops : \A e \in batch[k] : e.conn # c
             /\ \A u \in Threads : pc[u] \in Creating \cup AddPc => new[u] # c
  <2>1. /\ pc[l] = "w_closed" /\ pc[l] \in EventPc
        /\ told' = [told EXCEPT ![handle[cur[l].conn]] = "closed"]
    BY <1>6 DEF WriteClosed, Callback, EventPc
  <2>2. handle[cur[l].conn] = handle[c] /\ cur[l].conn \in Conns
    BY <1>2, <1>6, <2>1 DEF TypeOK, LoopLocals, Event
  <2>3. cur[l].conn = c
    BY <1>3, <2>2 DEF UniqueHandle, Handles
  <2>4. conns[handle[c]] = None
    BY <2>1, <2>3 DEF Reported
  <2>5. \A k \in Loops : \A e \in batch[k] : e.conn # c
    BY <2>3 DEF OneEvent, OneLoop
  <2>6. \A u \in Threads : pc[u] \in Creating \cup AddPc => new[u] # c
    BY <2>3 DEF NotYet, Private, Unused
  <2>7. QED
    BY <1>5, <2>1, <2>4, <2>5, <2>6
<1>7. ASSUME NEW l \in Loops, TimeoutClosed(l), told[handle[c]] # "closed"
      PROVE  /\ \A f \in Fds : reg[f].ptr # c
             /\ \A k \in Loops : \A e \in batch[k] : e.conn # c
             /\ \A u \in Threads : pc[u] \in Creating \cup AddPc => new[u] # c
  <2>1. /\ pc[l] = "t_closed" /\ \A k \in Loops : k = l
        /\ told' = [told EXCEPT ![Lowest(tlist[l])] = "closed"]
    BY <1>7 DEF TimeoutClosed, Callback, OneLoop
  <2>2. handle[c] = Lowest(tlist[l]) /\ handle[c] \in tlist[l]
    BY <1>2, <1>7, <2>1, LoopHandles DEF TypeOK
  <2>3. conns[handle[c]] = None /\ handle[c] \in HandedOut
    BY <2>1, <2>2 DEF Reported, HandleUse
  <2>4. \A k \in Loops : batch[k] = {}
    BY <2>1 DEF LoopIdle, Within, TimePc
  <2>5. \A u \in Threads : pc[u] \in Creating => new[u] # c
    BY <1>3, <2>3 DEF HandedOut, UniqueHandle, Handles
  <2>6. ASSUME NEW u \in Threads, pc[u] \in AddPc PROVE new[u] # c
    BY <1>1, <2>1, <2>3, <2>6 DEF Expelled
  <2>7. QED
    BY <1>5, <2>1, <2>3, <2>4, <2>5, <2>6
<1>8. ASSUME NEW l \in Loops, ReadClosed(l), told[handle[c]] # "closed" PROVE FALSE
  <2>1. /\ pc[l] = "r_closed" /\ pc[l] \in EventPc
        /\ told' = [told EXCEPT ![handle[cur[l].conn]] = "closed"]
    BY <1>8 DEF ReadClosed, Callback, EventPc
  <2>2. handle[cur[l].conn] = handle[c] /\ cur[l].conn \in Conns
    BY <1>2, <1>8, <2>1 DEF TypeOK, LoopLocals, Event
  <2>3. cur[l].conn = c
    BY <1>3, <2>2 DEF UniqueHandle, Handles
  <2>4. QED
    BY <1>1, <2>1, <2>3 DEF NotConnecting, Reading, Within
<1>9. ASSUME NEW l \in Loops, OnConnect(l), told[handle[c]] # "closed" PROVE FALSE
  <2>1. told' = [told EXCEPT ![handle[cur[l].conn]] = "connected"]
    BY <1>9 DEF OnConnect, Callback
  <2>2. QED
    BY <1>2, <1>9, <2>1 DEF TypeOK
<1>10. CASE told[handle[c]] # "closed"
  <2>1. PICK l \in Loops : WriteClosed(l) \/ TimeoutClosed(l)
    BY <1>2, <1>8, <1>9, <1>10, ToldWriters
  <2>2. UNCHANGED <<reg, batch, new>> /\ pc' = [pc EXCEPT ![l] = "cb"]
    BY <2>1 DEF WriteClosed, TimeoutClosed, Callback, Goto
  <2>3. QED
    BY <1>6, <1>7, <1>10, <2>1, <2>2, LoopsAreThreads DEF TypeOK, Creating, AddPc
<1>11. QED
  BY <1>4, <1>10

\* Only the loop calls back, and it is in the callback then.
LEMMA ToldKeeps ==
  ASSUME OneLoop, TypeInv, [Next]_vars
  PROVE  (\A l \in Loops : pc'[l] = "cb") \/ told' = told
<1>1. ASSUME NEW k \in Loops,
             ReadClosed(k) \/ OnConnect(k) \/ WriteClosed(k) \/ TimeoutClosed(k)
      PROVE  \A l \in Loops : pc'[l] = "cb"
  <2>1. pc' = [pc EXCEPT ![k] = "cb"]
    BY <1>1 DEF ReadClosed, OnConnect, WriteClosed, TimeoutClosed, Callback, Goto
  <2>2. QED
    BY <2>1, LoopsAreThreads DEF OneLoop, TypeInv, TypeOK
<1>2. QED
  BY <1>1, ToldWriters

\* The connection of an event that is not CONNECTING stays so; one that is, and
\* is asked for the outcome of its connect, has not been reported closed.
LEMMA HandlingStep ==
  ASSUME OneConnector, OneLoop, TypeInv, CloseInv, RefInv, ServiceInv, [Next]_vars
  PROVE  NotConnecting' /\ NotClosed'
<1> USE DEF TypeInv, CloseInv, RefInv, ServiceInv
<1>1. \A l \in Loops : /\ \A e \in batch[l] : e.conn \in Conns /\ ~Unused(e.conn)
                       /\ cur[l] # NoEvent => cur[l].conn \in Conns /\ ~Unused(cur[l].conn)
  BY DEF TypeOK, Event, Unused
<1>2. \A c \in Conns : state'[c] = "CONNECTING" /\ ~Unused(c) => state[c] = "CONNECTING"
  BY StateKeeps
<1>3. \A l \in Reading : cur[l] # NoEvent
  BY DEF Reading, Within, LoopLocals, EventPc, Event, NoEvent, TypeOK
<1>4. \A l \in Loops : pc[l] \in {"r_event", "w_event", "w_error", "w_connect"} =>
        cur[l] # NoEvent /\ handle[cur[l].conn] \in Handles
  BY DEF LoopLocals, EventPc, Event, NoEvent
<1>5. NotConnecting'
  <2> SUFFICES ASSUME NEW l \in Reading', state'[cur'[l].conn] = "CONNECTING"
               PROVE  FALSE
    BY DEF NotConnecting
  <2>1. /\ l \in Loops /\ cur'[l] = cur[l]
        /\ l \in Reading \/ (pc[l] = "r_event" /\ state[cur[l].conn] = "CONNECTED")
    BY PlaceKeeps DEF PlaceKept, Reading
  <2>2. cur[l] # NoEvent
    BY <1>3, <1>4, <2>1
  <2>3. state[cur[l].conn] = "CONNECTING"
    BY <1>1, <1>2, <2>1, <2>2
  <2>4. QED
    BY <2>1, <2>3 DEF NotConnecting
<1>6. ASSUME NEW l \in Loops, pc'[l] \in {"w_error", "w_connect"}
      PROVE  told'[handle'[cur'[l].conn]] # "closed"
  <2>1. /\ cur'[l] = cur[l] /\ pc[l] \in {"w_event", "w_error", "w_connect"}
        /\ pc[l] = "w_event" => state[cur[l].conn] = "CONNECTING"
    BY <1>6, PlaceKeeps DEF PlaceKept
  <2>2. told' = told /\ handle'[cur[l].conn] = handle[cur[l].conn]
    BY <1>4, <1>6, <2>1, ToldKeeps, HandleStays
  <2>3. QED
    BY <2>1, <2>2 DEF NotClosed
<1>7. ASSUME NEW l \in Loops, pc'[l] \in {"r_event", "w_event"},
             state'[cur'[l].conn] = "CONNECTING"
      PROVE  told'[handle'[cur'[l].conn]] # "closed"
  <2>1. told' = told
    BY <1>7, ToldKeeps
  <2>2. CASE cur'[l] \in batch[l]
    <3>1. /\ handle'[cur'[l].conn] = handle[cur'[l].conn]
          /\ state[cur'[l].conn] = "CONNECTING" /\ cur'[l].conn \in Conns
          /\ handle[cur'[l].conn] # 0
      BY <1>1, <1>2, <1>7, <2>2, HandleStays DEF Named, Handles
    <3>2. QED
      BY <2>1, <2>2, <3>1 DEF Silent
  <2>3. CASE cur'[l] = cur[l] /\ pc[l] \in {"r_event", "w_event"}
    BY <1>1, <1>2, <1>4, <1>7, <2>1, <2>3, HandleStays DEF NotClosed
  <2>4. CASE cur'[l] = cur[l] /\ l \in Reading
    BY <1>1, <1>2, <1>3, <1>7, <2>4 DEF NotConnecting
  <2>5. QED
    BY <1>7, <2>2, <2>3, <2>4, PlaceKeeps DEF PlaceKept
<1>8. QED
  BY <1>5, <1>6, <1>7 DEF NotClosed

----------------------------------------------------------------------------

LEMMA ServiceInvInit == Init => ServiceInv
<1> SUFFICES ASSUME Init PROVE ServiceInv
  OBVIOUS
<1>1. \A t \in Threads : pc[t] \in {"idle", "wait"} /\ ret[t] = "idle"
  BY DEF Init, Threads
<1>2. Seen /\ OneEvent
  BY DEF Init, Seen, OneEvent
<1>3. Expelled
  BY <1>1 DEF Expelled, AddPc
<1>4. NotConnecting /\ NotClosed /\ Silent
  BY <1>1, LoopsAreThreads
  DEF Init, NotConnecting, Reading, Within, NotClosed, Silent
<1>5. QED
  BY <1>2, <1>3, <1>4 DEF ServiceInv

\* The invariant behind the refinement.
THEOREM ServiceInvariant ==
  ASSUME OneConnector, OneLoop, NoReuse
  PROVE  Spec => []ServiceInv
<1>1. Init => ServiceInv
  BY ServiceInvInit
<1>2. TypeInv /\ CloseInv /\ RefInv /\ ServiceInv /\ [Next]_vars => ServiceInv'
  <2> SUFFICES ASSUME TypeInv, CloseInv, RefInv, ServiceInv, [Next]_vars
               PROVE  ServiceInv'
    OBVIOUS
  <2>1. Seen' /\ OneEvent' /\ Expelled'
    BY OneConnector, OneLoop, SeenStep, OneEventStep, ExpelledStep DEF ServiceInv
  <2>2. NotConnecting' /\ NotClosed' /\ Silent'
    BY OneConnector, OneLoop, HandlingStep, SilentStep
  <2>3. QED
    BY <2>1, <2>2 DEF ServiceInv
<1>3. QED
  BY <1>1, <1>2, OneConnector, OneLoop, NoReuse, TypeInvariant, CloseInvariant,
     RefInvariant, PTL DEF Spec

\* A step of the SDK is a step of the service on one handle, or none.
LEMMA ServiceStep ==
  ASSUME OneConnector, OneLoop, TypeInv, CloseInv, RefInv, ServiceInv, [Next]_vars
  PROVE  Service!Next \/ UNCHANGED <<Table, told>>
<1> USE DEF TypeInv, CloseInv, RefInv, ServiceInv
<1>1. ASSUME NEW t \in Threads, AddConn(t)
      PROVE  Service!Next
  <2> DEFINE h == handle[new[t]]
  <2>1. /\ pc[t] = "c_add" /\ conns[h] = None /\ told' = told /\ closer' = closer
        /\ conns' = [conns EXCEPT ![h] = new[t]]
    BY <1>1 DEF AddConn
  <2>2. h \in Handles /\ new[t] \in Conns /\ closer[h] = "none"
    BY <2>1 DEF ConnectLocals, ConnectPc, Setup, SetupPc
  <2>3. Table[h] = "unused" /\ Table' = [Table EXCEPT ![h] = "online"]
    BY ZenonT(60), <2>1, <2>2 DEF Table, TypeOK
  <2>4. Service!GoOnline(h)
    BY <2>1, <2>3 DEF Service!GoOnline
  <2>5. QED
    BY <2>2, <2>4 DEF Service!Next
<1>2. ASSUME NEW t \in Threads, CloseRemoveConn(t)
      PROVE  Service!Next \/ UNCHANGED <<Table, told>>
  <2> DEFINE h == arg[t]
  <2>1. h \in Handles /\ told' = told
    BY <1>2 DEF CloseRemoveConn, CallLocals, ClosePc
  <2>2. CASE conns[h] # None
    <3>1. /\ conns' = [conns EXCEPT ![h] = None]
          /\ \E w \in {"app", "loop"} : closer' = [closer EXCEPT ![h] = w]
      BY <1>2, <2>2 DEF CloseRemoveConn
    <3>2. Table[h] = "online" /\ Table' = [Table EXCEPT ![h] = "offline"]
      <4>1. /\ conns'[h] = None /\ closer'[h] # "none"
            /\ \A k \in Handles : k # h => conns'[k] = conns[k] /\ closer'[k] = closer[k]
        BY <2>1, <3>1 DEF TypeOK
      <4>2. \A k \in Handles : Table'[k] = IF k = h THEN "offline" ELSE Table[k]
        BY <4>1 DEF Table
      <4>3. QED
        BY <2>1, <2>2, <4>2 DEF Table
    <3>3. Service!GoOffline(h)
      BY <2>1, <3>2 DEF Service!GoOffline
    <3>4. QED
      BY <2>1, <3>3 DEF Service!Next
  <2>3. CASE conns[h] = None
    BY <1>2, <2>1, <2>3 DEF CloseRemoveConn, Table
  <2>4. QED
    BY <2>2, <2>3
<1>3. ASSUME NEW h \in Entered, UNCHANGED <<conns, closer>>,
             told[h] # "closed", told' = [told EXCEPT ![h] = "connected"]
      PROVE  Service!Next \/ UNCHANGED <<Table, told>>
  <2>1. Table' = Table /\ h \in Handles /\ Table[h] # "unused"
    BY <1>3 DEF Table, Entered
  <2>2. CASE told[h] = "none"
    BY <1>3, <2>1, <2>2 DEF Service!Next, Service!OnConnect
  <2>3. CASE told[h] = "connected"
    BY <1>3, <2>1, <2>3 DEF TypeOK
  <2>4. QED
    BY <1>3, <2>1, <2>2, <2>3 DEF TypeOK
<1>4. ASSUME NEW h \in Entered, UNCHANGED <<conns, closer>>,
             conns[h] = None, told' = [told EXCEPT ![h] = "closed"]
      PROVE  Service!Next \/ UNCHANGED <<Table, told>>
  <2>1. Table' = Table /\ h \in Handles /\ Table[h] = "offline"
    BY <1>4 DEF Table, Entered
  <2>2. CASE told[h] # "closed"
    BY <1>4, <2>1, <2>2 DEF Service!Next, Service!OnClose
  <2>3. CASE told[h] = "closed"
    BY <1>4, <2>1, <2>3 DEF TypeOK
  <2>4. QED
    BY <2>2, <2>3
<1>5. ASSUME NEW l \in Loops, OnConnect(l)
      PROVE  Service!Next \/ UNCHANGED <<Table, told>>
  <2>1. /\ pc[l] = "w_connect" /\ UNCHANGED <<conns, closer>>
        /\ told' = [told EXCEPT ![handle[cur[l].conn]] = "connected"]
    BY <1>5 DEF OnConnect, Callback
  <2>2. handle[cur[l].conn] \in Entered /\ told[handle[cur[l].conn]] # "closed"
    BY <2>1 DEF Seen, NotClosed, LoopLocals, EventPc, Event, NoEvent
  <2>3. QED
    BY <1>3, <2>1, <2>2
<1>6. ASSUME NEW l \in Loops, ReadClosed(l) \/ WriteClosed(l)
      PROVE  Service!Next \/ UNCHANGED <<Table, told>>
  <2>1. /\ pc[l] \in {"r_closed", "w_closed"} /\ UNCHANGED <<conns, closer>>
        /\ told' = [told EXCEPT ![handle[cur[l].conn]] = "closed"]
    BY <1>6 DEF ReadClosed, WriteClosed, Callback
  <2>2. handle[cur[l].conn] \in Entered /\ conns[handle[cur[l].conn]] = None
    BY <2>1 DEF Seen, Reported, LoopLocals, EventPc, Event, NoEvent
  <2>3. QED
    BY <1>4, <2>1, <2>2
<1>7. ASSUME NEW l \in Loops, TimeoutClosed(l)
      PROVE  Service!Next \/ UNCHANGED <<Table, told>>
  <2>1. /\ pc[l] = "t_closed" /\ UNCHANGED <<conns, closer>>
        /\ told' = [told EXCEPT ![Lowest(tlist[l])] = "closed"]
    BY <1>7 DEF TimeoutClosed, Callback
  <2>2. Lowest(tlist[l]) \in Entered /\ conns[Lowest(tlist[l])] = None
    BY <2>1, LoopHandles DEF Seen, Reported
  <2>3. QED
    BY <1>4, <2>1, <2>2
<1>8. ASSUME UNCHANGED <<conns, closer, told>>
      PROVE  UNCHANGED <<Table, told>>
  BY <1>8 DEF Table
<1>9. QED
  BY <1>1, <1>2, <1>5, <1>6, <1>7, <1>8, TableWriters, ToldWriters

\* The SDK implements the service of NetService for every number of connections,
\* handles, descriptors and application threads (interface.h, class IService).
THEOREM ImplementsService ==
  ASSUME OneConnector, OneLoop, NoReuse
  PROVE  Spec => Implements
<1>1. Init => Service!Init
  BY DEF Init, Service!Init, Table
<1>2. TypeInv /\ CloseInv /\ RefInv /\ ServiceInv /\ [Next]_vars
        => [Service!Next]_<<Table, told>>
  BY OneConnector, OneLoop, ServiceStep
<1>3. QED
  BY <1>1, <1>2, OneConnector, OneLoop, NoReuse, TypeInvariant, CloseInvariant,
     RefInvariant, ServiceInvariant, PTL DEF Spec, Implements, Service!Spec


====
