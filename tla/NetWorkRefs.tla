---------------------------- MODULE NetWorkRefs ----------------------------
(***************************************************************************)
(* The inductive invariant behind the reference counts, the epoll set and  *)
(* the service of NetWork, and the first half of its proof: the locals of  *)
(* the threads, the handles they use, and the holders of each connection.  *)
(* NetWorkEpoll has the other half and the theorems.                       *)
(*                                                                         *)
(* RefInv is one invariant because its parts need each other.  A count is  *)
(* right only if the pointers epoll_wait hands out are alive; they are,    *)
(* because the epoll set names connections of the table, which a close     *)
(* leaves before the table forgets them; and it does so because nobody     *)
(* closes a connection before add_event, which needs the handle unknown    *)
(* to everyone but its creator.                                            *)
(***************************************************************************)
EXTENDS NetWorkClose, FiniteSetTheorems

USE ThreadsAssumption, NumbersAssumption
USE DEF makeVars, frameVars, callVars, roundVars, loopVars, refVars, fieldVars,
        dataVars, connVars, tableVars, sockVars, netVars, closeVars, histVars,
        sharedVars, vars

\* NetWork::init starts one thread in event_loop.
OneLoop == \A k, l \in Loops : k = l

\* The kernel does not give a descriptor number out again while a thread may
\* still hold it from a getfd().  (When it does, epoll_ctl can hit a stranger's
\* registration: run fd_reuse.)
NoReuse == FdReuse = FALSE

----------------------------------------------------------------------------
(* The invariant.                                                          *)

Online(c)    == \E h \in Handles : conns[h] = c

\* A handle is handed out when the connection it names is set up.
HandedOut == {h \in Handles : \E c \in Conns :
                handle[c] = h /\ \A t \in Threads : pc[t] \in Creating => new[t] # c}

\* The loop is at one of the labels S, or will be when the call or the callback
\* that it makes returns.
Within(l, S) == pc[l] \in S \/ ret[l] \in S \/ cbret[l] \in S

\* connect between addconn and the end of add_event; the epoll_ctl calls, and
\* the connection that each is about; close after remove_event.
AddPc  == {"c_getfd", "c_ctl"}
CtlPc  == {"c_ctl", "s_ctl", "k_del", "w_ctl"}
PastPc == {"k_remove", "k_state", "k_sock"}
Target(t) == IF pc[t] = "c_ctl" THEN new[t]
             ELSE IF pc[t] = "w_ctl" THEN cur[t].conn ELSE ptr[t]

\* The locals of a thread, outside the calls that use them; conn->close closes
\* the connection the handle names.
Locals ==
  \A t \in Threads :
    /\ pc[t] \notin PtrPc => ptr[t] = None
    /\ pc[t] \notin ConnectPc => new[t] = None
    /\ pc[t] \notin ClosePc \cup {"rel"} => arg[t] = 0
    /\ pc[t] = "k_sock" => closes[ptr[t]] > 0 /\ handle[ptr[t]] = arg[t]

\* Only a loop thread runs the loop.
Places == \A t \in Threads : pc[t] \in LoopPc \/ ret[t] \in LoopPc => t \in Loops

\* The loop's locals, outside the part of the round that uses them.
LoopIdle ==
  \A l \in Loops :
    /\ cur[l] # NoEvent => Within(l, EventPc)
    /\ pc[l] = "wait" \/ Within(l, TimePc) => batch[l] = {}
    /\ pc[l] \notin OutPc /\ ret[l] \notin OutPc => cbret[l] # "wait"

\* Whatever a call, a callback or the time-out works on was handed out.
HandleUse ==
  /\ \A h \in Handles : told[h] # "none" => h \in HandedOut
  /\ \A t \in Threads : arg[t] # 0 => arg[t] \in HandedOut
  /\ \A l \in Loops : \A h \in tlist[l] : h \in HandedOut

\* No thread, table or event knows the connection.
Unused(c) ==
  /\ ~Online(c) /\ c \notin recycles
  /\ \A t \in Threads : ptr[t] # c
  /\ \A l \in Loops : cur[l].conn # c /\ \A e \in batch[l] : e.conn # c
  /\ \A f \in Fds : reg[f].ptr # c

\* A connection under construction is its creator's alone, and is not
\* connected.
Private ==
  /\ \A t \in Threads : pc[t] \in Creating =>
       /\ Unused(new[t])
       /\ ~pending[new[t]] /\ state[new[t]] # "CONNECTED"
       /\ pc[t] = "c_add" => fd[new[t]] # NoFd
  /\ \A c \in Conns : life[c] = "none" => ~pending[c] /\ state[c] # "CONNECTED"

\* A handle reported closed, or about to be, has left the table.
Reported ==
  /\ \A h \in Handles : told[h] = "closed" => conns[h] = None
  /\ \A t \in Threads :
       pc[t] \in {"k_state", "k_sock", "rel"} /\ arg[t] # 0 => conns[arg[t]] = None
  /\ \A l \in Loops :
       /\ pc[l] \in {"r_closed", "w_closed"} => conns[handle[cur[l].conn]] = None
       /\ pc[l] = "t_closed" => conns[Lowest(tlist[l])] = None
       /\ ret[l] \in {"r_closed", "w_closed"} => arg[l] = handle[cur[l].conn]
       /\ ret[l] = "t_closed" => arg[l] = Lowest(tlist[l])

\* A connection that addconn has published and add_event has not registered is
\* in no event, and only the time-out can be closing it.
NotYet ==
  \A u \in Threads : pc[u] \in AddPc =>
    /\ told[handle[new[u]]] # "connected"
    /\ \A l \in Loops : cur[l].conn # new[u] /\ \A e \in batch[l] : e.conn # new[u]
    /\ \A f \in Fds : reg[f].ptr # new[u]
    /\ ~pending[new[u]] /\ state[new[u]] # "CONNECTED"
    /\ \A t \in Threads :
         pc[t] \in ClosePc /\ arg[t] = handle[new[u]] =>
           \/ t \in Loops /\ ret[t] = "t_closed"
           \/ pc[t] = "k_get" /\ conns[arg[t]] = None

\* The sockets: of live connections, each with its own, every online one with
\* some.
Sockets ==
  /\ \A c \in Conns : fd[c] # NoFd => life[c] = "live" /\ fd[c] \in spent
  /\ \A c, d \in Conns : fd[c] = fd[d] /\ fd[c] # NoFd => c = d
  /\ \A c \in Conns : Online(c) => fd[c] # NoFd

\* An open socket is in the table, on the way to it, or being closed.
Attached ==
  \A c \in Conns : fd[c] # NoFd =>
    \/ Online(c)
    \/ \E t \in Threads : \/ pc[t] = "c_add" /\ new[t] = c
                          \/ pc[t] \in {"k_state", "k_sock"} /\ ptr[t] = c

\* A descriptor read by getfd() is still the connection's own, or is closed;
\* it has never become another's.
Descriptors ==
  \A t \in Threads :
    /\ tfd[t] # NoFd => pc[t] \in CtlPc /\ tfd[t] \in spent
    /\ pc[t] \in CtlPc => fd[Target(t)] \in {tfd[t], NoFd}
    /\ \A c \in Conns : tfd[t] # NoFd /\ fd[c] = tfd[t] => c = Target(t)

\* A registered descriptor is that of its connection, which is online, or being
\* closed by the time-out of the loop itself.
Registered ==
  \A f \in Fds : reg[f] # NoReg =>
    /\ fd[reg[f].ptr] = f
    /\ \/ Online(reg[f].ptr)
       \/ \E l \in Loops : pc[l] \in {"k_state", "k_sock"} /\ ptr[l] = reg[f].ptr
    /\ \A t \in Threads :
         pc[t] \in PastPc /\ ptr[t] = reg[f].ptr => t \in Loops /\ ret[t] = "t_closed"

\* deliver_data and write_data set the write interest under the mutex, so it
\* is armed whenever output waits and the mutex is free.
Arms ==
  /\ \A t \in Threads : pc[t] = "s_ctl" => mtx[ptr[t]] = t
  /\ \A l \in Loops : pc[l] = "w_ctl" =>
       mtx[cur[l].conn] = l /\ ~pending[cur[l].conn]
  /\ \A f \in Fds :
       reg[f] # NoReg /\ pending[reg[f].ptr] /\ mtx[reg[f].ptr] = None => reg[f].w

\* An online connection is registered, unless its connect or a close is at it.
Watching ==
  \A c \in Conns :
    /\ Online(c)
    /\ \A t \in Threads : pc[t] \in AddPc => new[t] # c
    /\ \A t \in Threads : pc[t] = "k_remove" => ptr[t] # c
    => reg[fd[c]].ptr = c

\* The reference count is the number of holders, and an object lives as long
\* as it has one.
Held == [c \in Conns |-> Holders(c)]
Counted ==
  \A c \in Conns : /\ ref[c] = Cardinality(Held[c])
                   /\ life[c] = "live" <=> Held[c] # {}

\* The table's reference outlives the batch: what epoll_wait returned is in the
\* table, or waits in _recycles for the end of the round.
Recycled ==
  /\ \A c \in recycles : ~Online(c)
  /\ \A l \in Loops : \A e \in batch[l] : Online(e.conn) \/ e.conn \in recycles

\* The inductive invariant: the references network.cpp takes and releases add
\* up, and the epoll set names online connections by their own descriptors.
RefInv ==
  /\ Places /\ Locals /\ LoopIdle
  /\ HandleUse /\ Private /\ Reported /\ NotYet
  /\ Counted /\ Recycled
  /\ Sockets /\ Attached /\ Descriptors
  /\ Registered /\ Arms /\ Watching

----------------------------------------------------------------------------
(* The threads.                                                            *)

\* A step keeps the loop's own code to the loop.
LEMMA PlacesStep ==
  ASSUME TypeInv, RefInv, [Next]_vars
  PROVE  Places'
<1> USE DEF TypeInv, RefInv
<1>1. ASSUME NEW t \in Threads, NEW c \in Conns, ConnectNew(t, c)
      PROVE  Places'
  BY <1>1, LoopsAreThreads
    DEF ConnectNew, CanCall, TypeOK, Places, LoopPc, EventPc, TimePc, Home,
        Threads, Goto
<1>2. ASSUME NEW t \in Threads, NEW h \in Handles, SendCall(t, h)
      PROVE  Places'
  BY <1>2, LoopsAreThreads
    DEF SendCall, AddRef, CanCall, Home, TypeOK, Places, LoopPc, EventPc,
        TimePc, Threads, Goto
<1>3. ASSUME NEW t \in Threads, NEW h \in Handles, CloseCall(t, h)
      PROVE  Places'
  BY <1>3, LoopsAreThreads
    DEF CloseCall, BeginClose, CanCall, Home, TypeOK, Places, LoopPc, EventPc,
        TimePc, Threads, Goto
<1>4. ASSUME NEW t \in Threads, NEW h \in Handles, StatusCall(t, h)
      PROVE  Places'
  BY <1>4, LoopsAreThreads
    DEF StatusCall, AddRef, CanCall, TypeOK, Places, LoopPc, EventPc, TimePc,
        Home, Threads, Goto
<1>5. ASSUME NEW t \in Threads, ConnectStep(t) PROVE  Places'
  <2>1. CASE MakeHandleStore(t) \/ MakeHandleCheck(t) \/ MakeHandleNext(t)
             \/ MakeHandleReturn(t) \/ ConnectSocket(t) \/ ConnectFail(t)
    BY <2>1, LoopsAreThreads
      DEF MakeHandleStore, NextHandle, MakeHandleCheck, AddRef, MakeHandleNext,
          Release, Destroy, CloseFds, MakeHandleReturn, ConnectSocket,
          ConnectFail, Delete, Home, TypeOK, Places, LoopPc, EventPc, TimePc,
          Threads, Goto
  <2>2. CASE AddConn(t) \/ AddConnTaken(t) \/ AddConnLog(t) \/ AddEventFd(t)
             \/ AddEventCtl(t) \/ ConnectReturn(t)
    BY <2>2, LoopsAreThreads
      DEF AddConn, AddConnTaken, Delete, Destroy, CloseFds, AddConnLog, Home,
          AddEventFd, AddEventCtl, CtlAdd, ConnectReturn, TypeOK, Places,
          LoopPc, EventPc, TimePc, Threads, Goto
  <2>3. QED
    BY <1>5, <2>1, <2>2 DEF ConnectStep
<1>6. ASSUME NEW t \in Threads, SendStep(t) PROVE  Places'
  BY <1>6, LoopsAreThreads
    DEF SendStep, DeliverRefused, DeliverData, DeliverSetEvent, Lock, CtlMod,
        TypeOK, Places, LoopPc, EventPc, TimePc, Home, Threads, Goto
<1>7. ASSUME NEW t \in Threads, CloseStep(t) PROVE  Places'
  <2>1. CASE CloseGet(t)
    <3>1. CASE pc' = [pc EXCEPT ![t] = ret[t]] /\ ret' = [ret EXCEPT ![t] = "idle"]
      BY <3>1 DEF Places, TypeOK, LoopPc, EventPc, TimePc
    <3>2. CASE pc' = [pc EXCEPT ![t] = "k_fd"] /\ UNCHANGED ret
      BY <3>2 DEF Places, TypeOK, LoopPc, EventPc, TimePc
    <3>3. QED
      BY <2>1, <3>1, <3>2 DEF CloseGet, CallEnd, Goto
  <2>2. CASE CloseFd(t) \/ CloseRemoveEvent(t) \/ CloseRemoveConn(t)
             \/ ConnCloseState(t) \/ ConnCloseSocket(t)
    BY <2>2, LoopsAreThreads
      DEF CloseFd, CloseRemoveEvent, CtlDel, CloseRemoveConn, AfterRemove,
          ConnCloseState, ConnCloseSocket, CloseFds, TypeOK, Places, LoopPc,
          EventPc, TimePc, Home, Threads, Goto
  <2>3. QED
    BY <1>7, <2>1, <2>2 DEF CloseStep
<1>8. ASSUME NEW t \in Threads, StatusStep(t) PROVE  Places'
  BY <1>8, LoopsAreThreads
    DEF StatusStep, StatusRead, StatusReturn, Home, TypeOK, Places, LoopPc,
        EventPc, TimePc, Threads, Goto
<1>9. ASSUME NEW t \in Threads, CallRelease(t) PROVE  Places'
  <2>1. pc' = [pc EXCEPT ![t] = ret[t]] /\ ret' = [ret EXCEPT ![t] = "idle"]
    BY <1>9 DEF CallRelease, CallEnd, Goto
  <2>2. QED
    BY <2>1 DEF Places, TypeOK, LoopPc, EventPc, TimePc
<1>10. ASSUME NEW l \in Loops, RoundStep(l) PROVE  Places'
  <2>1. CASE GetEvents(l)
    BY <2>1, LoopsAreThreads
      DEF GetEvents, TypeOK, Places, LoopPc, EventPc, TimePc, Home, Threads,
          Goto
  <2>2. ASSUME NEW e \in batch[l], NextEvent(l, e)
        PROVE  Places'
    BY <2>2, LoopsAreThreads
      DEF NextEvent, AddRef, TypeOK, Places, LoopPc, EventPc, TimePc, Home,
          Threads, Goto
  <2>3. CASE ReleaseEvent(l)
    BY <2>3, LoopsAreThreads
      DEF ReleaseEvent, Release, Destroy, CloseFds, TypeOK, Places, LoopPc,
          EventPc, TimePc, Home, Threads, Goto
  <2>4. CASE CallbackReturn(l)
    <3>1. pc' = [pc EXCEPT ![l] = cbret[l]] /\ UNCHANGED ret
      BY <2>4 DEF CallbackReturn, Goto
    <3>2. QED
      BY <3>1, LoopsAreThreads DEF Places, TypeOK
  <2>5. QED
    BY <1>10, <2>1, <2>2, <2>3, <2>4 DEF RoundStep
<1>11. ASSUME NEW l \in Loops, ReadStep(l) PROVE  Places'
  BY <1>11, LoopsAreThreads
    DEF ReadStep, ReadSkip, ReadBegin, ReadData, ReadBroken, ReadDone, ReadMore,
        ReadClosed, BeginClose, Callback, TypeOK, Places, LoopPc, EventPc,
        TimePc, Home, Threads, Goto
<1>12. ASSUME NEW l \in Loops, WriteStep(l) PROVE  Places'
  BY <1>12, LoopsAreThreads
    DEF WriteStep, WriteSkip, WriteOutcome, WriteConnected, OnConnect,
        WriteFailed, WriteClosed, WriteBegin, WriteSome, WriteAll,
        WriteSetEvent, Callback, BeginClose, Lock, CtlMod, TypeOK, Places,
        LoopPc, EventPc, TimePc, Home, Threads, Goto
<1>13. ASSUME NEW l \in Loops, TimeStep(l) PROVE  Places'
  BY <1>13, LoopsAreThreads
    DEF TimeStep, TimeSkip, CheckTimeout, TimeoutClose, TimeoutClosed, Clear,
        BeginClose, Callback, Release, Destroy, CloseFds, TypeOK, Places,
        LoopPc, EventPc, TimePc, Home, Threads, Goto
<1>14. ASSUME NEW c \in Conns, NetStep(c)
      PROVE  Places'
  BY <1>14, LoopsAreThreads
    DEF NetStep, TypeOK, Places, LoopPc, EventPc, TimePc, Home, Threads, Goto
<1>15. ASSUME NEW c \in Conns, Tick(c)
      PROVE  Places'
  BY <1>15, LoopsAreThreads
    DEF Tick, TypeOK, Places, LoopPc, EventPc, TimePc, Home, Threads, Goto
<1>16. CASE UNCHANGED vars
  BY <1>16, LoopsAreThreads
    DEF TypeOK, Places, LoopPc, EventPc, TimePc, Home, Threads, Goto
<1>17. QED
  BY <1>1, <1>2, <1>3, <1>4, <1>5, <1>6, <1>7, <1>8, <1>9, <1>10, <1>11, <1>12,
     <1>13, <1>14, <1>15, <1>16
    DEF Next, ApiCall, CallStep, LoopStep

\* A step keeps the locals of a thread outside the calls that use them
\* cleared.
LEMMA LocalsStep ==
  ASSUME TypeInv, CloseInv, RefInv, [Next]_vars
  PROVE  Locals'
<1> USE DEF TypeInv, CloseInv, RefInv
<1>1. ASSUME NEW t \in Threads, NEW c \in Conns, ConnectNew(t, c)
      PROVE  Locals'
  BY <1>1
    DEF ConnectNew, CanCall, TypeOK, Locals, PtrPc, ConnectPc, SendPc, ClosePc,
        Goto
<1>2. ASSUME NEW t \in Threads, NEW h \in Handles, SendCall(t, h)
      PROVE  Locals'
  BY <1>2
    DEF SendCall, AddRef, CanCall, Home, TypeOK, Locals, PtrPc, ConnectPc,
        SendPc, ClosePc, Goto
<1>3. ASSUME NEW t \in Threads, NEW h \in Handles, CloseCall(t, h)
      PROVE  Locals'
  BY <1>3
    DEF CloseCall, BeginClose, CanCall, Home, TypeOK, Locals, PtrPc, ConnectPc,
        SendPc, ClosePc, Goto
<1>4. ASSUME NEW t \in Threads, NEW h \in Handles, StatusCall(t, h)
      PROVE  Locals'
  BY <1>4
    DEF StatusCall, AddRef, CanCall, TypeOK, Locals, PtrPc, ConnectPc, SendPc,
        ClosePc, Goto
<1>5. ASSUME NEW t \in Threads, ConnectStep(t) PROVE  Locals'
  <2>1. CASE MakeHandleStore(t) \/ MakeHandleCheck(t) \/ MakeHandleNext(t)
             \/ MakeHandleReturn(t) \/ ConnectSocket(t) \/ ConnectFail(t)
    BY <2>1
      DEF MakeHandleStore, NextHandle, MakeHandleCheck, AddRef, MakeHandleNext,
          Release, Destroy, CloseFds, MakeHandleReturn, ConnectLocals,
          CallLocals, Private, Unused, Creating, ConnectSocket, ConnectFail,
          Delete, Home, TypeOK, Locals, PtrPc, ConnectPc, SendPc, ClosePc, Goto
  <2>2. CASE AddConn(t) \/ AddConnTaken(t) \/ AddConnLog(t) \/ AddEventFd(t)
             \/ AddEventCtl(t) \/ ConnectReturn(t)
    BY <2>2
      DEF AddConn, AddConnTaken, Delete, Destroy, CloseFds, AddConnLog, Home,
          AddEventFd, AddEventCtl, CtlAdd, ConnectReturn, TypeOK, Locals, PtrPc,
          ConnectPc, SendPc, ClosePc, Goto
  <2>3. QED
    BY <1>5, <2>1, <2>2 DEF ConnectStep
<1>6. ASSUME NEW t \in Threads, SendStep(t) PROVE  Locals'
  BY <1>6
    DEF SendStep, DeliverRefused, DeliverData, DeliverSetEvent, Lock, CtlMod,
        TypeOK, Locals, PtrPc, ConnectPc, SendPc, ClosePc, Goto
<1>7. ASSUME NEW t \in Threads, CloseStep(t) PROVE  Locals'
  <2>1. CASE CloseGet(t)
    BY SMTT(30), <2>1
      DEF CloseGet, AddRef, CallEnd, TypeOK, Locals, PtrPc, ConnectPc, SendPc,
          ClosePc, Goto
  <2>2. CASE CloseFd(t) \/ CloseRemoveEvent(t) \/ CloseRemoveConn(t)
             \/ ConnCloseState(t) \/ ConnCloseSocket(t)
    BY <2>2
      DEF CloseFd, CloseRemoveEvent, CtlDel, CloseRemoveConn, AfterRemove,
          ConnCloseState, CallLocals, OneCloser, KillPc, ConnCloseSocket,
          CloseFds, TypeOK, Locals, PtrPc, ConnectPc, SendPc, ClosePc, Goto
  <2>3. QED
    BY <1>7, <2>1, <2>2 DEF CloseStep
<1>8. ASSUME NEW t \in Threads, StatusStep(t) PROVE  Locals'
  BY <1>8
    DEF StatusStep, StatusRead, StatusReturn, Home, TypeOK, Locals, PtrPc,
        ConnectPc, SendPc, ClosePc, Goto
<1>9. ASSUME NEW t \in Threads, CallRelease(t) PROVE  Locals'
  <2>1. ret[t] \notin PtrPc \cup ConnectPc \cup ClosePc \cup {"rel", "k_sock"}
    BY DEF TypeOK, PtrPc, ConnectPc, ClosePc, SendPc
  <2>2. /\ pc' = [pc EXCEPT ![t] = ret[t]]
        /\ ptr' = [ptr EXCEPT ![t] = None] /\ arg' = [arg EXCEPT ![t] = 0]
        /\ UNCHANGED <<new, closes, handle>> /\ pc[t] = "rel"
    BY <1>9 DEF CallRelease, CallEnd, Goto
  <2>3. ASSUME NEW u \in Threads
        PROVE  /\ pc'[u] \notin PtrPc => ptr'[u] = None
               /\ pc'[u] \notin ConnectPc => new'[u] = None
               /\ pc'[u] \notin ClosePc \cup {"rel"} => arg'[u] = 0
               /\ pc'[u] = "k_sock" => closes'[ptr'[u]] > 0 /\ handle'[ptr'[u]] = arg'[u]
    <3>1. CASE u = t
      <4>1. pc'[u] = ret[u] /\ ptr'[u] = None /\ arg'[u] = 0 /\ new'[u] = new[u]
        BY <2>2, <3>1 DEF TypeOK
      <4>2. new[u] = None
        BY <2>2, <3>1 DEF Locals, ConnectPc
      <4>3. QED
        BY <2>1, <3>1, <4>1, <4>2
    <3>2. CASE u # t
      <4>1. pc'[u] = pc[u] /\ ptr'[u] = ptr[u] /\ arg'[u] = arg[u] /\ new'[u] = new[u]
        BY <2>2, <3>2 DEF TypeOK
      <4>2. QED
        BY <2>2, <4>1 DEF Locals
    <3>3. QED
      BY <3>1, <3>2
  <2>4. QED
    BY <2>3 DEF Locals
<1>10. ASSUME NEW l \in Loops, RoundStep(l) PROVE  Locals'
  <2>1. CASE GetEvents(l)
    BY <2>1, LoopsAreThreads
      DEF GetEvents, TypeOK, Locals, PtrPc, ConnectPc, SendPc, ClosePc, Goto
  <2>2. ASSUME NEW e \in batch[l], NextEvent(l, e)
        PROVE  Locals'
    BY <2>2, LoopsAreThreads
      DEF NextEvent, AddRef, TypeOK, Locals, PtrPc, ConnectPc, SendPc, ClosePc,
          Goto
  <2>3. CASE ReleaseEvent(l)
    BY <2>3, LoopsAreThreads
      DEF ReleaseEvent, Release, Destroy, CloseFds, TypeOK, Locals, PtrPc,
          ConnectPc, SendPc, ClosePc, Goto
  <2>4. CASE CallbackReturn(l)
    <3>1. /\ pc' = [pc EXCEPT ![l] = cbret[l]] /\ pc[l] \in {"cb", "cb_done"}
          /\ UNCHANGED <<ptr, new, arg, closes, handle>>
      BY <2>4 DEF CallbackReturn, Goto
    <3>2. cbret[l] \notin PtrPc \cup ConnectPc \cup ClosePc \cup {"rel", "k_sock"}
      BY DEF TypeOK, PtrPc, ConnectPc, ClosePc, SendPc
    <3>3. ptr[l] = None /\ new[l] = None /\ arg[l] = 0
      BY <3>1, LoopsAreThreads DEF Locals, PtrPc, ConnectPc, ClosePc, SendPc
    <3>4. QED
      BY <3>1, <3>2, <3>3, LoopsAreThreads DEF TypeOK, Locals
  <2>5. QED
    BY <1>10, <2>1, <2>2, <2>3, <2>4 DEF RoundStep
<1>11. ASSUME NEW l \in Loops, ReadStep(l) PROVE  Locals'
  BY <1>11, LoopsAreThreads
    DEF ReadStep, ReadSkip, ReadBegin, ReadData, ReadBroken, ReadDone, ReadMore,
        ReadClosed, BeginClose, Callback, TypeOK, Locals, PtrPc, ConnectPc,
        SendPc, ClosePc, Goto
<1>12. ASSUME NEW l \in Loops, WriteStep(l) PROVE  Locals'
  BY <1>12, LoopsAreThreads
    DEF WriteStep, WriteSkip, WriteOutcome, WriteConnected, OnConnect,
        WriteFailed, WriteClosed, WriteBegin, WriteSome, WriteAll,
        WriteSetEvent, Callback, BeginClose, Lock, CtlMod, TypeOK, Locals,
        PtrPc, ConnectPc, SendPc, ClosePc, Goto
<1>13. ASSUME NEW l \in Loops, TimeStep(l) PROVE  Locals'
  BY <1>13, LoopsAreThreads
    DEF TimeStep, TimeSkip, CheckTimeout, TimeoutClose, TimeoutClosed, Clear,
        BeginClose, Callback, Release, Destroy, CloseFds, TypeOK, Locals, PtrPc,
        ConnectPc, SendPc, ClosePc, Goto
<1>14. ASSUME NEW c \in Conns, NetStep(c)
      PROVE  Locals'
  BY <1>14 DEF NetStep, TypeOK, Locals, PtrPc, ConnectPc, SendPc, ClosePc, Goto
<1>15. ASSUME NEW c \in Conns, Tick(c)
      PROVE  Locals'
  BY <1>15 DEF Tick, TypeOK, Locals, PtrPc, ConnectPc, SendPc, ClosePc, Goto
<1>16. CASE UNCHANGED vars
  BY <1>16 DEF TypeOK, Locals, PtrPc, ConnectPc, SendPc, ClosePc, Goto
<1>17. QED
  BY <1>1, <1>2, <1>3, <1>4, <1>5, <1>6, <1>7, <1>8, <1>9, <1>10, <1>11, <1>12,
     <1>13, <1>14, <1>15, <1>16
    DEF Next, ApiCall, CallStep, LoopStep

\* A step keeps the locals of a loop thread between events, and between
\* rounds, cleared.
LEMMA LoopIdleStep ==
  ASSUME TypeInv, RefInv, [Next]_vars
  PROVE  LoopIdle'
<1> USE DEF TypeInv, RefInv
<1>1. ASSUME NEW t \in Threads, NEW c \in Conns, ConnectNew(t, c)
      PROVE  LoopIdle'
  BY <1>1, LoopsAreThreads
    DEF ConnectNew, CanCall, TypeOK, LoopIdle, Within, EventPc, TimePc, OutPc,
        Goto, CallLocals, RetPc, SendPc, ClosePc
<1>2. ASSUME NEW t \in Threads, NEW h \in Handles, SendCall(t, h)
      PROVE  LoopIdle'
  BY ZenonT(60), <1>2, LoopsAreThreads
    DEF SendCall, AddRef, CanCall, Home, TypeOK, LoopIdle, Within, EventPc,
        TimePc, OutPc, Goto, CallLocals, RetPc, SendPc, ClosePc
<1>3. ASSUME NEW t \in Threads, NEW h \in Handles, CloseCall(t, h)
      PROVE  LoopIdle'
  BY SMTT(30), <1>3, LoopsAreThreads
    DEF CloseCall, BeginClose, CanCall, Home, TypeOK, LoopIdle, Within, EventPc,
        TimePc, OutPc, Goto, CallLocals, RetPc, SendPc, ClosePc
<1>4. ASSUME NEW t \in Threads, NEW h \in Handles, StatusCall(t, h)
      PROVE  LoopIdle'
  <2>1. ret[t] = "idle" /\ pc[t] \in {"idle", "cb"}
    BY <1>4 DEF StatusCall, CanCall, CallLocals, RetPc, SendPc, ClosePc
  <2>2. \/ pc' = [pc EXCEPT ![t] = "g_ret"] /\ UNCHANGED ret
        \/ pc' = [pc EXCEPT ![t] = "g_read"] /\ ret' = [ret EXCEPT ![t] = "g_ret"]
    BY <1>4 DEF StatusCall, Goto
  <2>3. UNCHANGED <<batch, cur, cbret>>
    BY <1>4 DEF StatusCall
  <2>4. QED
    BY <2>1, <2>2, <2>3, LoopsAreThreads
      DEF TypeOK, LoopIdle, Within, EventPc, TimePc, OutPc
<1>5. ASSUME NEW t \in Threads, ConnectStep(t) PROVE  LoopIdle'
  <2>1. CASE MakeHandleStore(t) \/ MakeHandleCheck(t) \/ MakeHandleNext(t)
             \/ MakeHandleReturn(t) \/ ConnectSocket(t) \/ ConnectFail(t)
    BY <2>1, LoopsAreThreads
      DEF MakeHandleStore, NextHandle, MakeHandleCheck, AddRef, MakeHandleNext,
          Release, Destroy, CloseFds, MakeHandleReturn, ConnectSocket,
          ConnectFail, Delete, Home, TypeOK, LoopIdle, Within, EventPc, TimePc,
          OutPc, Goto
  <2>2. CASE AddConn(t)
    BY <2>2, LoopsAreThreads
      DEF AddConn, TypeOK, LoopIdle, Within, EventPc, TimePc, OutPc, Goto
  <2>3. CASE AddConnTaken(t)
    BY <2>3, LoopsAreThreads
      DEF AddConnTaken, Delete, Destroy, CloseFds, TypeOK, LoopIdle, Within,
          EventPc, TimePc, OutPc, Goto
  <2>4. CASE AddConnLog(t) \/ AddEventFd(t) \/ AddEventCtl(t)
             \/ ConnectReturn(t)
    BY <2>4, LoopsAreThreads
      DEF AddConnLog, Home, AddEventFd, AddEventCtl, CtlAdd, ConnectReturn,
          TypeOK, LoopIdle, Within, EventPc, TimePc, OutPc, Goto
  <2>5. QED
    BY <1>5, <2>1, <2>2, <2>3, <2>4 DEF ConnectStep
<1>6. ASSUME NEW t \in Threads, SendStep(t) PROVE  LoopIdle'
  <2>1. CASE DeliverRefused(t) \/ DeliverData(t) \/ DeliverSetEvent(t)
    BY <2>1, LoopsAreThreads
      DEF DeliverRefused, DeliverData, Lock, DeliverSetEvent, CtlMod, TypeOK,
          LoopIdle, Within, EventPc, TimePc, OutPc, Goto
  <2>2. QED
    BY <1>6, <2>1 DEF SendStep
<1>7. ASSUME NEW t \in Threads, CloseStep(t) PROVE  LoopIdle'
  <2>1. CASE CloseGet(t)
    <3>1. \/ pc' = [pc EXCEPT ![t] = "k_fd"] /\ UNCHANGED ret
          \/ pc' = [pc EXCEPT ![t] = ret[t]] /\ ret' = [ret EXCEPT ![t] = "idle"]
      BY <2>1 DEF CloseGet, CallEnd, Goto
    <3>2. pc[t] = "k_get" /\ UNCHANGED <<batch, cur, cbret>>
      BY <2>1 DEF CloseGet
    <3>3. QED
      BY <3>1, <3>2, LoopsAreThreads
        DEF TypeOK, LoopIdle, Within, EventPc, TimePc, OutPc
  <2>2. CASE CloseFd(t) \/ CloseRemoveEvent(t) \/ CloseRemoveConn(t)
             \/ ConnCloseState(t) \/ ConnCloseSocket(t)
    BY SMTT(30), <2>2, LoopsAreThreads
      DEF CloseFd, CloseRemoveEvent, CtlDel, CloseRemoveConn, AfterRemove,
          ConnCloseState, ConnCloseSocket, CloseFds, TypeOK, LoopIdle, Within,
          EventPc, TimePc, OutPc, Goto
  <2>3. QED
    BY <1>7, <2>1, <2>2 DEF CloseStep
<1>8. ASSUME NEW t \in Threads, StatusStep(t) PROVE  LoopIdle'
  BY <1>8, LoopsAreThreads
    DEF StatusStep, StatusRead, StatusReturn, Home, TypeOK, LoopIdle, Within,
        EventPc, TimePc, OutPc, Goto
<1>9. ASSUME NEW t \in Threads, CallRelease(t) PROVE  LoopIdle'
  BY SMTT(30), <1>9, LoopsAreThreads
    DEF CallRelease, Release, Destroy, CloseFds, CallEnd, TypeOK, LoopIdle,
        Within, EventPc, TimePc, OutPc, Goto, CallLocals, RetPc, SendPc, ClosePc
<1>10. ASSUME NEW l \in Loops, RoundStep(l) PROVE  LoopIdle'
  <2>1. CASE GetEvents(l)
    BY <2>1, LoopsAreThreads, LoopAtHome
      DEF GetEvents, TypeOK, LoopIdle, Within, EventPc, TimePc, OutPc, Goto
  <2>2. ASSUME NEW e \in batch[l], NextEvent(l, e)
        PROVE  LoopIdle'
    BY <2>2, LoopsAreThreads, LoopAtHome
      DEF NextEvent, AddRef, TypeOK, LoopIdle, Within, EventPc, TimePc, OutPc,
          Goto
  <2>3. CASE ReleaseEvent(l)
    BY <2>3, LoopsAreThreads
      DEF ReleaseEvent, Release, Destroy, CloseFds, TypeOK, LoopIdle, Within,
          EventPc, TimePc, OutPc, Goto
  <2>4. CASE CallbackReturn(l)
    <3>1. ret[l] = "idle" /\ cbret[l] # "wait"
      BY <2>4, LoopsAreThreads
        DEF CallbackReturn, LoopIdle, CallLocals, RetPc, OutPc, EventPc, TimePc,
            SendPc, ClosePc
    <3>2. /\ pc' = [pc EXCEPT ![l] = cbret[l]] /\ cbret' = [cbret EXCEPT ![l] = "wait"]
          /\ UNCHANGED <<batch, cur, ret>> /\ pc[l] \in {"cb", "cb_done"}
      BY <2>4 DEF CallbackReturn, Goto
    <3>3. cbret[l] \in OutPc /\ cbret[l] # "wait"
      BY <3>1 DEF TypeOK, OutPc, EventPc, TimePc
    <3>4. QED
      BY <3>1, <3>2, <3>3, LoopsAreThreads
        DEF TypeOK, LoopIdle, Within, EventPc, TimePc, OutPc
  <2>5. QED
    BY <1>10, <2>1, <2>2, <2>3, <2>4 DEF RoundStep
<1>11. ASSUME NEW l \in Loops, ReadStep(l) PROVE  LoopIdle'
  <2>1. CASE ReadSkip(l) \/ ReadBegin(l) \/ ReadData(l) \/ ReadBroken(l)
             \/ ReadDone(l) \/ ReadMore(l)
    BY SMTT(30), <2>1, LoopsAreThreads
      DEF ReadSkip, ReadBegin, ReadData, ReadBroken, BeginClose, ReadDone,
          ReadMore, TypeOK, LoopIdle, Within, EventPc, TimePc, OutPc, Goto
  <2>2. CASE ReadClosed(l)
    BY <2>2, LoopsAreThreads
      DEF ReadClosed, Callback, TypeOK, LoopIdle, Within, EventPc, TimePc,
          OutPc, Goto
  <2>3. QED
    BY <1>11, <2>1, <2>2 DEF ReadStep
<1>12. ASSUME NEW l \in Loops, WriteStep(l) PROVE  LoopIdle'
  <2>1. CASE WriteSkip(l) \/ WriteOutcome(l) \/ WriteConnected(l)
             \/ OnConnect(l) \/ WriteFailed(l) \/ WriteClosed(l)
    BY <2>1, LoopsAreThreads
      DEF WriteSkip, WriteOutcome, WriteConnected, OnConnect, Callback,
          WriteFailed, BeginClose, WriteClosed, TypeOK, LoopIdle, Within,
          EventPc, TimePc, OutPc, Goto
  <2>2. CASE WriteBegin(l) \/ WriteSome(l) \/ WriteAll(l) \/ WriteSetEvent(l)
    BY <2>2, LoopsAreThreads
      DEF WriteBegin, WriteSome, WriteAll, Lock, WriteSetEvent, CtlMod, TypeOK,
          LoopIdle, Within, EventPc, TimePc, OutPc, Goto
  <2>3. QED
    BY <1>12, <2>1, <2>2 DEF WriteStep
<1>13. ASSUME NEW l \in Loops, TimeStep(l) PROVE  LoopIdle'
  <2>1. CASE TimeSkip(l) \/ CheckTimeout(l) \/ TimeoutClose(l)
             \/ TimeoutClosed(l) \/ Clear(l)
    BY <2>1, LoopsAreThreads, LoopAtHome
      DEF TimeSkip, CheckTimeout, TimeoutClose, BeginClose, TimeoutClosed,
          Callback, Clear, Release, Destroy, CloseFds, TypeOK, LoopIdle, Within,
          EventPc, TimePc, OutPc, Goto
  <2>2. QED
    BY <1>13, <2>1 DEF TimeStep
<1>14. ASSUME NEW c \in Conns, NetStep(c)
      PROVE  LoopIdle'
  BY <1>14, LoopsAreThreads
    DEF NetStep, TypeOK, LoopIdle, Within, EventPc, TimePc, OutPc, Goto
<1>15. ASSUME NEW c \in Conns, Tick(c)
      PROVE  LoopIdle'
  BY <1>15, LoopsAreThreads
    DEF Tick, TypeOK, LoopIdle, Within, EventPc, TimePc, OutPc, Goto
<1>16. CASE UNCHANGED vars
  BY <1>16, LoopsAreThreads
    DEF TypeOK, LoopIdle, Within, EventPc, TimePc, OutPc, Goto
<1>17. QED
  BY <1>1, <1>2, <1>3, <1>4, <1>5, <1>6, <1>7, <1>8, <1>9, <1>10, <1>11, <1>12,
     <1>13, <1>14, <1>15, <1>16
    DEF Next, ApiCall, CallStep, LoopStep

\* One thread at a time is in connect.
LEMMA OneSetup ==
  ASSUME OneConnector, CloseInv, NEW t \in Threads, NEW u \in Threads,
         pc[t] \in ConnectPc, pc[u] \in ConnectPc
  PROVE  t = u
  BY DEF OneConnector, CloseInv, FreshHandle

----------------------------------------------------------------------------
(* Handles.                                                                *)

\* A handle that was given out stays so.
LEMMA HandedOutKept ==
  ASSUME TypeInv, CloseInv, [Next]_vars
  PROVE  HandedOut \subseteq HandedOut'
<1> USE DEF TypeInv, CloseInv
<1>1. ASSUME NEW t \in Threads, NEW c \in Conns, ConnectNew(t, c)
      PROVE  HandedOut \subseteq HandedOut'
  <2>1. /\ pc' = [pc EXCEPT ![t] = "mh_store"] /\ new' = [new EXCEPT ![t] = c]
        /\ handle[c] = 0 /\ UNCHANGED handle
    BY <1>1 DEF ConnectNew, Goto, Setup
  <2>2. \A u \in Threads : pc'[u] \in Creating => u = t \/ pc[u] \in Creating
    BY <2>1 DEF TypeOK
  <2>3. \A u \in Threads : u # t => new'[u] = new[u]
    BY <2>1 DEF TypeOK
  <2>4. new'[t] = c
    BY <2>1 DEF TypeOK
  <2>5. \A h \in Handles, d \in Conns : handle[d] = h => d # c /\ handle'[d] = h
    BY <2>1 DEF Handles
  <2>6. QED
    BY <2>2, <2>3, <2>4, <2>5 DEF HandedOut
<1>2. ASSUME NEW t \in Threads, NEW h \in Handles, SendCall(t, h)
      PROVE  HandedOut \subseteq HandedOut'
  BY <1>2, LoopsAreThreads
    DEF SendCall, AddRef, CanCall, Home, TypeOK, HandedOut, Creating, Goto
<1>3. ASSUME NEW t \in Threads, NEW h \in Handles, CloseCall(t, h)
      PROVE  HandedOut \subseteq HandedOut'
  BY <1>3, LoopsAreThreads
    DEF CloseCall, BeginClose, CanCall, Home, TypeOK, HandedOut, Creating, Goto
<1>4. ASSUME NEW t \in Threads, NEW h \in Handles, StatusCall(t, h)
      PROVE  HandedOut \subseteq HandedOut'
  <2>1. /\ pc'[t] \notin Creating /\ \A u \in Threads : u # t => pc'[u] = pc[u]
        /\ UNCHANGED <<new, handle>>
    BY <1>4 DEF StatusCall, TypeOK, Creating, Goto
  <2>2. QED
    BY <2>1 DEF TypeOK, HandedOut
<1>5. ASSUME NEW t \in Threads, ConnectStep(t) PROVE  HandedOut \subseteq HandedOut'
  <2>1. CASE MakeHandleStore(t) \/ MakeHandleCheck(t) \/ MakeHandleNext(t)
             \/ MakeHandleReturn(t) \/ ConnectSocket(t) \/ ConnectFail(t)
    BY <2>1, LoopsAreThreads
      DEF MakeHandleStore, NextHandle, MakeHandleCheck, AddRef, MakeHandleNext,
          Release, Destroy, CloseFds, MakeHandleReturn, ConnectLocals,
          ConnectPc, ConnectSocket, ConnectFail, Delete, Home, TypeOK,
          HandedOut, Creating, Goto
  <2>2. CASE AddConn(t) \/ AddConnTaken(t) \/ AddConnLog(t) \/ AddEventFd(t)
             \/ AddEventCtl(t) \/ ConnectReturn(t)
    BY <2>2, LoopsAreThreads
      DEF AddConn, AddConnTaken, Delete, Destroy, CloseFds, AddConnLog, Home,
          AddEventFd, AddEventCtl, CtlAdd, ConnectReturn, TypeOK, HandedOut,
          Creating, Goto
  <2>3. QED
    BY <1>5, <2>1, <2>2 DEF ConnectStep
<1>6. ASSUME NEW t \in Threads, SendStep(t) PROVE  HandedOut \subseteq HandedOut'
  <2>1. CASE DeliverRefused(t)
    BY <2>1, LoopsAreThreads
      DEF DeliverRefused, TypeOK, HandedOut, Creating, Goto
  <2>2. CASE DeliverData(t)
    BY <2>2, LoopsAreThreads
      DEF DeliverData, Lock, TypeOK, HandedOut, Creating, Goto
  <2>3. CASE DeliverSetEvent(t)
    BY <2>3, LoopsAreThreads
      DEF DeliverSetEvent, CtlMod, TypeOK, HandedOut, Creating, Goto
  <2>4. QED
    BY <1>6, <2>1, <2>2, <2>3 DEF SendStep
<1>7. ASSUME NEW t \in Threads, CloseStep(t) PROVE  HandedOut \subseteq HandedOut'
  <2>1. CASE CloseGet(t)
    <3>1. /\ pc'[t] \notin Creating /\ \A u \in Threads : u # t => pc'[u] = pc[u]
          /\ UNCHANGED <<new, handle>>
      BY SMTT(30), <2>1 DEF CloseGet, CallEnd, TypeOK, Creating, Goto
    <3>2. QED
      BY <3>1 DEF TypeOK, HandedOut
  <2>2. CASE CloseFd(t)
    BY <2>2, LoopsAreThreads DEF CloseFd, TypeOK, HandedOut, Creating, Goto
  <2>3. CASE CloseRemoveEvent(t)
    BY <2>3, LoopsAreThreads
      DEF CloseRemoveEvent, CtlDel, TypeOK, HandedOut, Creating, Goto
  <2>4. CASE CloseRemoveConn(t)
    BY <2>4, LoopsAreThreads
      DEF CloseRemoveConn, AfterRemove, TypeOK, HandedOut, Creating, Goto
  <2>5. CASE ConnCloseState(t)
    BY <2>5, LoopsAreThreads
      DEF ConnCloseState, TypeOK, HandedOut, Creating, Goto
  <2>6. CASE ConnCloseSocket(t)
    BY <2>6, LoopsAreThreads
      DEF ConnCloseSocket, CloseFds, TypeOK, HandedOut, Creating, Goto
  <2>7. QED
    BY <1>7, <2>1, <2>2, <2>3, <2>4, <2>5, <2>6 DEF CloseStep
<1>8. ASSUME NEW t \in Threads, StatusStep(t) PROVE  HandedOut \subseteq HandedOut'
  <2>1. CASE StatusRead(t)
    BY <2>1, LoopsAreThreads DEF StatusRead, TypeOK, HandedOut, Creating, Goto
  <2>2. CASE StatusReturn(t)
    BY <2>2, LoopsAreThreads
      DEF StatusReturn, Home, TypeOK, HandedOut, Creating, Goto
  <2>3. QED
    BY <1>8, <2>1, <2>2 DEF StatusStep
<1>9. ASSUME NEW t \in Threads, CallRelease(t) PROVE  HandedOut \subseteq HandedOut'
  <2>1. /\ ret[t] \notin Creating /\ pc' = [pc EXCEPT ![t] = ret[t]]
        /\ UNCHANGED <<new, handle>>
    BY <1>9 DEF CallRelease, CallEnd, TypeOK, Creating, Goto
  <2>2. QED
    BY <2>1 DEF TypeOK, HandedOut
<1>10. ASSUME NEW l \in Loops, RoundStep(l) PROVE  HandedOut \subseteq HandedOut'
  <2>1. CASE GetEvents(l)
    BY <2>1, LoopsAreThreads DEF GetEvents, TypeOK, HandedOut, Creating, Goto
  <2>2. ASSUME NEW e \in batch[l], NextEvent(l, e)
        PROVE  HandedOut \subseteq HandedOut'
    BY <2>2, LoopsAreThreads
      DEF NextEvent, AddRef, TypeOK, HandedOut, Creating, Goto
  <2>3. CASE ReleaseEvent(l)
    BY <2>3, LoopsAreThreads
      DEF ReleaseEvent, Release, Destroy, CloseFds, TypeOK, HandedOut, Creating,
          Goto
  <2>4. CASE CallbackReturn(l)
    <3>1. /\ cbret[l] \notin Creating /\ pc' = [pc EXCEPT ![l] = cbret[l]]
          /\ UNCHANGED <<new, handle>>
      BY <2>4 DEF CallbackReturn, TypeOK, Creating, Goto
    <3>2. QED
      BY <3>1 DEF TypeOK, HandedOut
  <2>5. QED
    BY <1>10, <2>1, <2>2, <2>3, <2>4 DEF RoundStep
<1>11. ASSUME NEW l \in Loops, ReadStep(l) PROVE  HandedOut \subseteq HandedOut'
  <2>1. CASE ReadSkip(l) \/ ReadBegin(l) \/ ReadData(l) \/ ReadBroken(l)
             \/ ReadDone(l)
    BY SMTT(60), <2>1, LoopsAreThreads
      DEF ReadSkip, ReadBegin, ReadData, ReadBroken, BeginClose, ReadDone,
          TypeOK, HandedOut, Creating, Goto
  <2>2. CASE ReadMore(l)
    <3>1. /\ pc'[l] \notin Creating /\ \A u \in Threads : u # l => pc'[u] = pc[u]
          /\ UNCHANGED <<new, handle>>
      BY <2>2, LoopsAreThreads DEF ReadMore, TypeOK, Creating, Goto
    <3>2. QED
      BY <3>1 DEF TypeOK, HandedOut
  <2>3. CASE ReadClosed(l)
    BY <2>3, LoopsAreThreads
      DEF ReadClosed, Callback, TypeOK, HandedOut, Creating, Goto
  <2>4. QED
    BY <1>11, <2>1, <2>2, <2>3 DEF ReadStep
<1>12. ASSUME NEW l \in Loops, WriteStep(l) PROVE  HandedOut \subseteq HandedOut'
  BY SMTT(30), <1>12, LoopsAreThreads
    DEF WriteStep, WriteSkip, WriteOutcome, WriteConnected, OnConnect,
        WriteFailed, WriteClosed, WriteBegin, WriteSome, WriteAll,
        WriteSetEvent, Callback, BeginClose, Lock, CtlMod, TypeOK, HandedOut,
        Creating, Goto
<1>13. ASSUME NEW l \in Loops, TimeStep(l) PROVE  HandedOut \subseteq HandedOut'
  BY SMTT(30), <1>13, LoopsAreThreads
    DEF TimeStep, TimeSkip, CheckTimeout, TimeoutClose, TimeoutClosed, Clear,
        BeginClose, Callback, Release, Destroy, CloseFds, TypeOK, HandedOut,
        Creating, Goto
<1>14. ASSUME NEW c \in Conns, NetStep(c)
      PROVE  HandedOut \subseteq HandedOut'
  BY <1>14, LoopsAreThreads DEF NetStep, TypeOK, HandedOut, Creating, Goto
<1>15. ASSUME NEW c \in Conns, Tick(c)
      PROVE  HandedOut \subseteq HandedOut'
  BY <1>15, LoopsAreThreads DEF Tick, TypeOK, HandedOut, Creating, Goto
<1>16. CASE UNCHANGED vars
  BY <1>16, LoopsAreThreads DEF TypeOK, HandedOut, Creating, Goto
<1>17. QED
  BY <1>1, <1>2, <1>3, <1>4, <1>5, <1>6, <1>7, <1>8, <1>9, <1>10, <1>11, <1>12,
     <1>13, <1>14, <1>15, <1>16
    DEF Next, ApiCall, CallStep, LoopStep

\* The handles the loop works on have been given out.
LEMMA LoopHandles ==
  ASSUME TypeInv, CloseInv, RefInv
  PROVE  /\ \A l \in Loops : pc[l] \in EventPc => handle[cur[l].conn] \in HandedOut
         /\ \A h \in Handles : conns[h] # None => h \in HandedOut
         /\ Known \subseteq HandedOut
         /\ \A l \in Loops : pc[l] = "t_next" /\ tlist[l] # {} => Lowest(tlist[l]) \in tlist[l]
         /\ \A l \in Loops : pc[l] = "t_closed" => Lowest(tlist[l]) \in tlist[l]
<1> USE DEF TypeInv, CloseInv, RefInv
<1>1. \A l \in Loops : pc[l] \in EventPc => handle[cur[l].conn] \in HandedOut
  BY DEF LoopLocals, HandedOut, Private, Unused, Event
<1>2. \A h \in Handles : conns[h] # None => h \in HandedOut
  BY DEF TypeOK, UniqueHandle, HandedOut, Private, Unused, Online
<1>3. Known \subseteq HandedOut
  BY DEF Known, HandedOut, HandleUse
<1>4. \A l \in Loops : tlist[l] # {} => Lowest(tlist[l]) \in tlist[l]
  <2>1. \A l \in Loops : tlist[l] \in SUBSET Nat
    BY DEF TypeOK, Handles
  <2>2. QED
    BY <2>1, LowestType
<1>5. QED
  BY <1>1, <1>2, <1>3, <1>4 DEF LoopLocals

\* A step keeps calls and callbacks to handles that were given out.
LEMMA HandleUseStep ==
  ASSUME TypeInv, CloseInv, RefInv, [Next]_vars
  PROVE  HandleUse'
<1> USE DEF TypeInv, CloseInv, RefInv
<1>a. HandedOut \subseteq HandedOut'
  BY HandedOutKept
<1>b. /\ \A l \in Loops : pc[l] \in EventPc => handle[cur[l].conn] \in HandedOut
      /\ \A h \in Handles : conns[h] # None => h \in HandedOut
      /\ Known \subseteq HandedOut
      /\ \A l \in Loops : pc[l] = "t_next" /\ tlist[l] # {} => Lowest(tlist[l]) \in tlist[l]
      /\ \A l \in Loops : pc[l] = "t_closed" => Lowest(tlist[l]) \in tlist[l]
  BY LoopHandles
<1>1. ASSUME NEW t \in Threads, NEW c \in Conns, ConnectNew(t, c)
      PROVE  HandleUse'
  BY <1>1, LoopsAreThreads, <1>a, <1>b
    DEF ConnectNew, CanCall, TypeOK, HandleUse, Goto
<1>2. ASSUME NEW t \in Threads, NEW h \in Handles, SendCall(t, h)
      PROVE  HandleUse'
  BY <1>2, LoopsAreThreads, <1>a, <1>b
    DEF SendCall, AddRef, CanCall, Home, TypeOK, HandleUse, Goto
<1>3. ASSUME NEW t \in Threads, NEW h \in Handles, CloseCall(t, h)
      PROVE  HandleUse'
  BY <1>3, LoopsAreThreads, <1>a, <1>b
    DEF CloseCall, BeginClose, CanCall, Home, TypeOK, HandleUse, Goto
<1>4. ASSUME NEW t \in Threads, NEW h \in Handles, StatusCall(t, h)
      PROVE  HandleUse'
  BY <1>4, LoopsAreThreads, <1>a, <1>b
    DEF StatusCall, AddRef, CanCall, TypeOK, HandleUse, Goto
<1>5. ASSUME NEW t \in Threads, ConnectStep(t) PROVE  HandleUse'
  <2>1. CASE MakeHandleStore(t) \/ MakeHandleCheck(t) \/ MakeHandleNext(t)
             \/ MakeHandleReturn(t) \/ ConnectSocket(t) \/ ConnectFail(t)
    BY <2>1, LoopsAreThreads, <1>a, <1>b
      DEF MakeHandleStore, NextHandle, MakeHandleCheck, AddRef, MakeHandleNext,
          Release, Destroy, CloseFds, MakeHandleReturn, ConnectSocket,
          ConnectFail, Delete, Home, TypeOK, HandleUse, Goto
  <2>2. CASE AddConn(t) \/ AddConnTaken(t) \/ AddConnLog(t) \/ AddEventFd(t)
             \/ AddEventCtl(t) \/ ConnectReturn(t)
    BY <2>2, LoopsAreThreads, <1>a, <1>b
      DEF AddConn, AddConnTaken, Delete, Destroy, CloseFds, AddConnLog, Home,
          AddEventFd, AddEventCtl, CtlAdd, ConnectReturn, TypeOK, HandleUse,
          Goto
  <2>3. QED
    BY <1>5, <2>1, <2>2 DEF ConnectStep
<1>6. ASSUME NEW t \in Threads, SendStep(t) PROVE  HandleUse'
  BY <1>6, LoopsAreThreads, <1>a, <1>b
    DEF SendStep, DeliverRefused, DeliverData, DeliverSetEvent, Lock, CtlMod,
        TypeOK, HandleUse, Goto
<1>7. ASSUME NEW t \in Threads, CloseStep(t) PROVE  HandleUse'
  <2>1. CASE CloseGet(t) \/ CloseFd(t) \/ CloseRemoveEvent(t)
             \/ CloseRemoveConn(t) \/ ConnCloseState(t) \/ ConnCloseSocket(t)
    BY <2>1, LoopsAreThreads, <1>a, <1>b
      DEF CloseGet, AddRef, CallEnd, CloseFd, CloseRemoveEvent, CtlDel,
          CloseRemoveConn, AfterRemove, ConnCloseState, ConnCloseSocket,
          CloseFds, TypeOK, HandleUse, Goto
  <2>2. QED
    BY <1>7, <2>1 DEF CloseStep
<1>8. ASSUME NEW t \in Threads, StatusStep(t) PROVE  HandleUse'
  BY <1>8, LoopsAreThreads, <1>a, <1>b
    DEF StatusStep, StatusRead, StatusReturn, Home, TypeOK, HandleUse, Goto
<1>9. ASSUME NEW t \in Threads, CallRelease(t) PROVE  HandleUse'
  BY <1>9, LoopsAreThreads, <1>a, <1>b
    DEF CallRelease, Release, Destroy, CloseFds, CallEnd, TypeOK, HandleUse,
        Goto
<1>10. ASSUME NEW l \in Loops, RoundStep(l) PROVE  HandleUse'
  <2>1. CASE GetEvents(l)
    BY <2>1, LoopsAreThreads, <1>a, <1>b DEF GetEvents, TypeOK, HandleUse, Goto
  <2>2. ASSUME NEW e \in batch[l], NextEvent(l, e)
        PROVE  HandleUse'
    BY <2>2, LoopsAreThreads, <1>a, <1>b
      DEF NextEvent, AddRef, TypeOK, HandleUse, Goto
  <2>3. CASE ReleaseEvent(l) \/ CallbackReturn(l)
    BY <2>3, LoopsAreThreads, <1>a, <1>b
      DEF ReleaseEvent, Release, Destroy, CloseFds, CallbackReturn, TypeOK,
          HandleUse, Goto
  <2>4. QED
    BY <1>10, <2>1, <2>2, <2>3 DEF RoundStep
<1>11. ASSUME NEW l \in Loops, ReadStep(l) PROVE  HandleUse'
  <2>1. CASE ReadSkip(l) \/ ReadBegin(l) \/ ReadData(l) \/ ReadBroken(l)
    BY SMTT(30), <2>1, LoopsAreThreads, <1>a, <1>b
      DEF ReadSkip, ReadBegin, ReadData, ReadBroken, BeginClose, LoopLocals,
          EventPc, TypeOK, HandleUse, Goto
  <2>2. CASE ReadDone(l)
    <3>1. /\ arg' \in {arg, [arg EXCEPT ![l] = handle[cur[l].conn]]}
          /\ UNCHANGED <<told, tlist>>
      BY <2>2 DEF ReadDone, BeginClose
    <3>2. handle[cur[l].conn] \in HandedOut
      BY <2>2, <1>b DEF ReadDone, EventPc
    <3>3. QED
      BY <3>1, <3>2, LoopsAreThreads, <1>a DEF TypeOK, HandleUse
  <2>3. CASE ReadMore(l) \/ ReadClosed(l)
    BY <2>3, LoopsAreThreads, <1>a, <1>b
      DEF ReadMore, ReadClosed, Callback, LoopLocals, EventPc, TypeOK,
          HandleUse, Goto
  <2>4. QED
    BY <1>11, <2>1, <2>2, <2>3 DEF ReadStep
<1>12. ASSUME NEW l \in Loops, WriteStep(l) PROVE  HandleUse'
  <2>1. CASE WriteSkip(l) \/ WriteOutcome(l) \/ WriteConnected(l)
             \/ OnConnect(l) \/ WriteFailed(l) \/ WriteClosed(l)
    BY <2>1, LoopsAreThreads, <1>a, <1>b
      DEF WriteSkip, WriteOutcome, WriteConnected, OnConnect, Callback,
          LoopLocals, EventPc, WriteFailed, BeginClose, WriteClosed, TypeOK,
          HandleUse, Goto
  <2>2. CASE WriteBegin(l) \/ WriteSome(l) \/ WriteAll(l) \/ WriteSetEvent(l)
    BY <2>2, LoopsAreThreads, <1>a, <1>b
      DEF WriteBegin, WriteSome, WriteAll, Lock, WriteSetEvent, CtlMod, TypeOK,
          HandleUse, Goto
  <2>3. QED
    BY <1>12, <2>1, <2>2 DEF WriteStep
<1>13. ASSUME NEW l \in Loops, TimeStep(l) PROVE  HandleUse'
  <2>1. CASE TimeSkip(l) \/ CheckTimeout(l)
    BY SMTT(30), <2>1, LoopsAreThreads, <1>a, <1>b
      DEF TimeSkip, CheckTimeout, TypeOK, HandleUse, Goto
  <2>2. CASE TimeoutClose(l)
    BY <2>2, LoopsAreThreads, <1>a, <1>b
      DEF TimeoutClose, BeginClose, TypeOK, HandleUse, Goto
  <2>3. CASE TimeoutClosed(l) \/ Clear(l)
    BY <2>3, LoopsAreThreads, <1>a, <1>b
      DEF TimeoutClosed, Callback, Clear, Release, Destroy, CloseFds, TypeOK,
          HandleUse, Goto
  <2>4. QED
    BY <1>13, <2>1, <2>2, <2>3 DEF TimeStep
<1>14. ASSUME NEW c \in Conns, NetStep(c)
      PROVE  HandleUse'
  BY <1>14, LoopsAreThreads, <1>a, <1>b DEF NetStep, TypeOK, HandleUse, Goto
<1>15. ASSUME NEW c \in Conns, Tick(c)
      PROVE  HandleUse'
  BY <1>15, LoopsAreThreads, <1>a, <1>b DEF Tick, TypeOK, HandleUse, Goto
<1>16. CASE UNCHANGED vars
  BY <1>16, LoopsAreThreads, <1>a, <1>b DEF TypeOK, HandleUse, Goto
<1>17. QED
  BY <1>1, <1>2, <1>3, <1>4, <1>5, <1>6, <1>7, <1>8, <1>9, <1>10, <1>11, <1>12,
     <1>13, <1>14, <1>15, <1>16
    DEF Next, ApiCall, CallStep, LoopStep

\* The handle of a connection that is not yet in the table is not given out.
LEMMA NewHandle ==
  ASSUME TypeInv, CloseInv, RefInv, NEW t \in Threads, pc[t] \in SetupPc
  PROVE  /\ handle[new[t]] \notin HandedOut
         /\ handle[new[t]] \in Handles /\ new[t] \in Conns
         /\ told[handle[new[t]]] = "none"
         /\ \A u \in Threads : arg[u] # handle[new[t]]
         /\ \A l \in Loops : handle[new[t]] \notin tlist[l]
<1> USE DEF TypeInv, CloseInv, RefInv
<1>1. handle[new[t]] \in Handles /\ new[t] \in Conns /\ pc[t] \in Creating
  BY DEF ConnectLocals, ConnectPc, SetupPc, Creating
<1>2. handle[new[t]] \notin HandedOut
  BY <1>1 DEF HandedOut, UniqueHandle, Handles
<1>3. QED
  BY <1>1, <1>2 DEF HandleUse, Handles

\* A close begun by the loop is a close of the handle it is going to report.
LEMMA ReturnHandle ==
  ASSUME TypeInv, CloseInv, RefInv, NEW l \in Loops, pc[l] = "rel"
  PROVE  /\ ret[l] \in {"r_closed", "w_closed"} => arg[l] # 0 /\ arg[l] = handle[cur[l].conn]
         /\ ret[l] = "t_closed" => arg[l] # 0 /\ arg[l] = Lowest(tlist[l])
<1> USE DEF TypeInv, CloseInv, RefInv
<1>1. ASSUME ret[l] \in {"r_closed", "w_closed"}
      PROVE  arg[l] # 0 /\ arg[l] = handle[cur[l].conn]
  BY <1>1, LoopsAreThreads DEF Reported, LoopLocals, EventPc, Handles
<1>2. ASSUME ret[l] = "t_closed"
      PROVE  arg[l] # 0 /\ arg[l] = Lowest(tlist[l])
  <2>1. tlist[l] \in SUBSET Nat /\ tlist[l] # {}
    BY <1>2 DEF TypeOK, LoopLocals, Handles
  <2>2. Lowest(tlist[l]) \in tlist[l]
    BY <2>1, LowestType
  <2>3. QED
    BY <1>2, <2>1, <2>2 DEF Reported, TypeOK, Handles
<1>3. QED
  BY <1>1, <1>2

\* A step keeps a handle that is reported closed out of the table.
LEMMA ReportedStep ==
  ASSUME TypeInv, CloseInv, RefInv, [Next]_vars
  PROVE  Reported'
<1> USE DEF TypeInv, CloseInv, RefInv
<1>1. ASSUME NEW t \in Threads, NEW c \in Conns, ConnectNew(t, c)
      PROVE  Reported'
  BY <1>1, LoopsAreThreads DEF ConnectNew, CanCall, TypeOK, Reported, Goto
<1>2. ASSUME NEW t \in Threads, NEW h \in Handles, SendCall(t, h)
      PROVE  Reported'
  BY <1>2, LoopsAreThreads
    DEF SendCall, AddRef, CanCall, Home, TypeOK, Reported, Goto
<1>3. ASSUME NEW t \in Threads, NEW h \in Handles, CloseCall(t, h)
      PROVE  Reported'
  BY <1>3, LoopsAreThreads
    DEF CloseCall, BeginClose, CanCall, Home, TypeOK, Reported, Goto
<1>4. ASSUME NEW t \in Threads, NEW h \in Handles, StatusCall(t, h)
      PROVE  Reported'
  BY <1>4, LoopsAreThreads
    DEF StatusCall, AddRef, CanCall, TypeOK, Reported, Goto
<1>5. ASSUME NEW t \in Threads, ConnectStep(t) PROVE  Reported'
  <2>1. CASE MakeHandleStore(t)
    BY <2>1, LoopsAreThreads
      DEF MakeHandleStore, NextHandle, TypeOK, Reported, Goto
  <2>2. CASE MakeHandleCheck(t)
    BY <2>2, LoopsAreThreads DEF MakeHandleCheck, AddRef, TypeOK, Reported, Goto
  <2>3. CASE MakeHandleNext(t)
    BY <2>3, LoopsAreThreads
      DEF MakeHandleNext, NextHandle, Release, Destroy, CloseFds, TypeOK,
          Reported, Goto
  <2>4. CASE MakeHandleReturn(t)
    BY <2>4, LoopsAreThreads
      DEF MakeHandleReturn, TypeOK, Reported, Goto, Private, Unused, Creating,
          ConnectLocals, ConnectPc
  <2>5. CASE ConnectSocket(t)
    BY <2>5, LoopsAreThreads DEF ConnectSocket, TypeOK, Reported, Goto
  <2>6. CASE ConnectFail(t)
    BY <2>6, LoopsAreThreads
      DEF ConnectFail, Delete, Destroy, CloseFds, Home, TypeOK, Reported, Goto
  <2>7. CASE AddConn(t)
    <3>1. pc[t] \in SetupPc /\ pc' = [pc EXCEPT ![t] = "c_getfd"]
      BY <2>7 DEF AddConn, SetupPc, Goto
    <3>2. /\ conns' = [conns EXCEPT ![handle[new[t]]] = new[t]]
          /\ UNCHANGED <<arg, ret, told, cur, tlist, handle>>
      BY <2>7 DEF AddConn
    <3>3. /\ told[handle[new[t]]] = "none"
          /\ \A u \in Threads : arg[u] # handle[new[t]]
          /\ \A l \in Loops : pc[l] \in EventPc => handle[cur[l].conn] # handle[new[t]]
          /\ \A l \in Loops : pc[l] = "t_closed" => Lowest(tlist[l]) # handle[new[t]]
      BY <3>1, NewHandle, LoopHandles
    <3>4. QED
      BY <3>1, <3>2, <3>3, LoopsAreThreads DEF TypeOK, Reported, EventPc
  <2>8. CASE AddConnTaken(t)
    BY <2>8, LoopsAreThreads
      DEF AddConnTaken, Delete, Destroy, CloseFds, TypeOK, Reported, Goto
  <2>9. CASE AddConnLog(t)
    BY <2>9, LoopsAreThreads DEF AddConnLog, Home, TypeOK, Reported, Goto
  <2>10. CASE AddEventFd(t)
    BY <2>10, LoopsAreThreads DEF AddEventFd, TypeOK, Reported, Goto
  <2>11. CASE AddEventCtl(t)
    BY <2>11, LoopsAreThreads DEF AddEventCtl, CtlAdd, TypeOK, Reported, Goto
  <2>12. CASE ConnectReturn(t)
    BY <2>12, LoopsAreThreads DEF ConnectReturn, Home, TypeOK, Reported, Goto
  <2>13. QED
    BY <1>5, <2>1, <2>2, <2>3, <2>4, <2>5, <2>6, <2>7, <2>8, <2>9, <2>10, <2>11,
       <2>12
      DEF ConnectStep
<1>6. ASSUME NEW t \in Threads, SendStep(t) PROVE  Reported'
  <2>1. CASE DeliverRefused(t)
    BY SMTT(30), <2>1, LoopsAreThreads
      DEF DeliverRefused, TypeOK, Reported, Goto, Locals, ClosePc
  <2>2. CASE DeliverData(t)
    BY <2>2, LoopsAreThreads DEF DeliverData, Lock, TypeOK, Reported, Goto
  <2>3. CASE DeliverSetEvent(t)
    BY SMTT(30), <2>3, LoopsAreThreads
      DEF DeliverSetEvent, CtlMod, TypeOK, Reported, Goto, Locals, ClosePc
  <2>4. QED
    BY <1>6, <2>1, <2>2, <2>3 DEF SendStep
<1>7. ASSUME NEW t \in Threads, CloseStep(t) PROVE  Reported'
  <2>1. CASE CloseGet(t)
    <3>1. /\ pc[t] = "k_get"
          /\ UNCHANGED <<conns, told, cur, tlist, handle>>
      BY <2>1 DEF CloseGet
    <3>2. CASE pc' = [pc EXCEPT ![t] = "k_fd"] /\ UNCHANGED <<arg, ret>>
      BY <3>1, <3>2, LoopsAreThreads DEF TypeOK, Reported
    <3>3. CASE /\ pc' = [pc EXCEPT ![t] = ret[t]] /\ conns[arg[t]] = None
               /\ arg' = [arg EXCEPT ![t] = 0] /\ ret' = [ret EXCEPT ![t] = "idle"]
      <4>1. ret[t] \notin {"k_state", "k_sock", "rel"}
        BY DEF TypeOK
      <4>2. ASSUME NEW l \in Loops
            PROVE  /\ pc'[l] \in {"r_closed", "w_closed"} => conns[handle[cur[l].conn]] = None
                   /\ pc'[l] = "t_closed" => conns[Lowest(tlist[l])] = None
        <5>1. CASE l = t
          BY <3>1, <3>3, <5>1 DEF TypeOK, Reported
        <5>2. CASE l # t
          BY <3>3, <5>2, LoopsAreThreads DEF TypeOK, Reported
        <5>3. QED
          BY <5>1, <5>2
      <4>3. QED
        BY <3>1, <3>3, <4>1, <4>2, LoopsAreThreads DEF TypeOK, Reported
    <3>4. QED
      BY <2>1, <3>2, <3>3 DEF CloseGet, CallEnd, Goto
  <2>2. CASE CloseFd(t)
    BY <2>2, LoopsAreThreads DEF CloseFd, TypeOK, Reported, Goto
  <2>3. CASE CloseRemoveEvent(t)
    BY <2>3, LoopsAreThreads
      DEF CloseRemoveEvent, CtlDel, TypeOK, Reported, Goto
  <2>4. CASE CloseRemoveConn(t)
    <3>1. /\ pc[t] = "k_remove" /\ arg[t] \in Handles
          /\ pc' = [pc EXCEPT ![t] = "k_state"] \/ pc' = [pc EXCEPT ![t] = "rel"]
          /\ conns' \in {conns, [conns EXCEPT ![arg[t]] = None]}
          /\ UNCHANGED <<arg, ret, told, cur, tlist, handle>>
      BY <2>4 DEF CloseRemoveConn, AfterRemove, Goto, CallLocals, ClosePc
    <3>2. conns'[arg[t]] = None /\ \A h \in Handles : conns'[h] \in {conns[h], None}
      BY <2>4, <3>1 DEF CloseRemoveConn, TypeOK
    <3>3. \A u \in Threads : arg[u] # 0 => arg[u] \in Handles
      BY DEF TypeOK, Handles
    <3>4. /\ \A l \in Loops : pc[l] \in {"r_closed", "w_closed"} => handle[cur[l].conn] \in Handles
          /\ \A l \in Loops : pc[l] = "t_closed" => Lowest(tlist[l]) \in Handles
      BY LoopHandles DEF EventPc, HandedOut, TypeOK
    <3>5. /\ \A u \in Threads : u # t => pc'[u] = pc[u]
          /\ pc'[t] \in {"k_state", "rel"}
      BY <3>1 DEF TypeOK
    <3>6. \A h \in Handles : conns[h] = None => conns'[h] = None
      BY <3>2
    <3>7. /\ \A u \in Threads :
               pc'[u] \in {"k_state", "k_sock", "rel"} /\ arg[u] # 0 => conns'[arg[u]] = None
          /\ \A l \in Loops : pc'[l] \in {"r_closed", "w_closed"} => conns'[handle[cur[l].conn]] = None
          /\ \A l \in Loops : pc'[l] = "t_closed" => conns'[Lowest(tlist[l])] = None
      BY <3>2, <3>3, <3>4, <3>5, <3>6, LoopsAreThreads DEF Reported
    <3>8. QED
      BY <3>1, <3>6, <3>7 DEF Reported
  <2>5. CASE ConnCloseState(t)
    BY <2>5, LoopsAreThreads DEF ConnCloseState, TypeOK, Reported, Goto
  <2>6. CASE ConnCloseSocket(t)
    BY <2>6, LoopsAreThreads
      DEF ConnCloseSocket, CloseFds, TypeOK, Reported, Goto
  <2>7. QED
    BY <1>7, <2>1, <2>2, <2>3, <2>4, <2>5, <2>6 DEF CloseStep
<1>8. ASSUME NEW t \in Threads, StatusStep(t) PROVE  Reported'
  <2>1. CASE StatusRead(t)
    BY SMTT(30), <2>1, LoopsAreThreads
      DEF StatusRead, TypeOK, Reported, Goto, Locals, ClosePc
  <2>2. CASE StatusReturn(t)
    BY <2>2, LoopsAreThreads DEF StatusReturn, Home, TypeOK, Reported, Goto
  <2>3. QED
    BY <1>8, <2>1, <2>2 DEF StatusStep
<1>9. ASSUME NEW t \in Threads, CallRelease(t) PROVE  Reported'
  <2>1. /\ pc[t] = "rel" /\ pc' = [pc EXCEPT ![t] = ret[t]]
        /\ arg' = [arg EXCEPT ![t] = 0] /\ ret' = [ret EXCEPT ![t] = "idle"]
        /\ UNCHANGED <<conns, told, cur, tlist, handle>>
    BY <1>9 DEF CallRelease, CallEnd, Goto
  <2>2. /\ ret[t] \notin {"k_state", "k_sock", "rel"}
        /\ arg[t] # 0 => conns[arg[t]] = None
    BY <2>1 DEF TypeOK, Reported
  <2>3. ASSUME NEW l \in Loops
        PROVE  /\ pc'[l] \in {"r_closed", "w_closed"} => conns[handle[cur[l].conn]] = None
               /\ pc'[l] = "t_closed" => conns[Lowest(tlist[l])] = None
    <3>1. CASE l = t
      BY <2>1, <2>2, <3>1, ReturnHandle DEF TypeOK, Reported
    <3>2. CASE l # t
      BY <2>1, <3>2, LoopsAreThreads DEF TypeOK, Reported
    <3>3. QED
      BY <3>1, <3>2
  <2>4. QED
    BY <2>1, <2>2, <2>3, LoopsAreThreads DEF TypeOK, Reported
<1>10. ASSUME NEW l \in Loops, RoundStep(l) PROVE  Reported'
  <2>1. CASE GetEvents(l)
    BY <2>1, LoopsAreThreads DEF GetEvents, TypeOK, Reported, Goto
  <2>2. ASSUME NEW e \in batch[l], NextEvent(l, e)
        PROVE  Reported'
    BY SMTT(30), <2>2, LoopsAreThreads
      DEF NextEvent, AddRef, TypeOK, Reported, Goto, CallLocals, RetPc, SendPc,
          ClosePc
  <2>3. CASE ReleaseEvent(l)
    BY ZenonT(60), <2>3, LoopsAreThreads
      DEF ReleaseEvent, Release, Destroy, CloseFds, TypeOK, Reported, Goto,
          CallLocals, RetPc, SendPc, ClosePc
  <2>4. CASE CallbackReturn(l)
    <3>1. /\ pc[l] \in {"cb", "cb_done"} /\ pc' = [pc EXCEPT ![l] = cbret[l]]
          /\ UNCHANGED <<arg, ret, conns, told, cur, tlist, handle>>
      BY <2>4 DEF CallbackReturn, Goto
    <3>2. cbret[l] \notin {"k_state", "k_sock", "rel", "r_closed", "w_closed", "t_closed"}
      BY DEF TypeOK
    <3>3. QED
      BY <3>1, <3>2, LoopsAreThreads DEF TypeOK, Reported
  <2>5. QED
    BY <1>10, <2>1, <2>2, <2>3, <2>4 DEF RoundStep
<1>11. ASSUME NEW l \in Loops, ReadStep(l) PROVE  Reported'
  <2>1. CASE ReadSkip(l)
    BY <2>1, LoopsAreThreads DEF ReadSkip, TypeOK, Reported, Goto
  <2>2. CASE ReadBegin(l)
    BY <2>2, LoopsAreThreads DEF ReadBegin, TypeOK, Reported, Goto
  <2>3. CASE ReadData(l)
    BY <2>3, LoopsAreThreads DEF ReadData, TypeOK, Reported, Goto
  <2>4. CASE ReadBroken(l)
    BY <2>4, LoopsAreThreads DEF ReadBroken, BeginClose, TypeOK, Reported, Goto
  <2>5. CASE ReadDone(l)
    BY SMTT(30), <2>5, LoopsAreThreads DEF ReadDone, BeginClose, TypeOK, Reported, Goto
  <2>6. CASE ReadMore(l)
    BY <2>6, LoopsAreThreads DEF ReadMore, TypeOK, Reported, Goto
  <2>7. CASE ReadClosed(l)
    BY <2>7, LoopsAreThreads
      DEF ReadClosed, Callback, TypeOK, Reported, Goto, CallLocals, RetPc,
          SendPc, ClosePc
  <2>8. QED
    BY <1>11, <2>1, <2>2, <2>3, <2>4, <2>5, <2>6, <2>7 DEF ReadStep
<1>12. ASSUME NEW l \in Loops, WriteStep(l) PROVE  Reported'
  <2>1. CASE WriteSkip(l)
    BY <2>1, LoopsAreThreads DEF WriteSkip, TypeOK, Reported, Goto
  <2>2. CASE WriteOutcome(l)
    BY <2>2, LoopsAreThreads DEF WriteOutcome, TypeOK, Reported, Goto
  <2>3. CASE WriteConnected(l)
    BY <2>3, LoopsAreThreads DEF WriteConnected, TypeOK, Reported, Goto
  <2>4. CASE OnConnect(l)
    BY <2>4, LoopsAreThreads
      DEF OnConnect, Callback, TypeOK, Reported, Goto, CallLocals, RetPc,
          SendPc, ClosePc
  <2>5. CASE WriteFailed(l)
    BY <2>5, LoopsAreThreads DEF WriteFailed, BeginClose, TypeOK, Reported, Goto
  <2>6. CASE WriteClosed(l)
    BY <2>6, LoopsAreThreads
      DEF WriteClosed, Callback, TypeOK, Reported, Goto, CallLocals, RetPc,
          SendPc, ClosePc
  <2>7. CASE WriteBegin(l)
    BY <2>7, LoopsAreThreads DEF WriteBegin, TypeOK, Reported, Goto
  <2>8. CASE WriteSome(l)
    BY <2>8, LoopsAreThreads DEF WriteSome, TypeOK, Reported, Goto
  <2>9. CASE WriteAll(l)
    BY <2>9, LoopsAreThreads DEF WriteAll, Lock, TypeOK, Reported, Goto
  <2>10. CASE WriteSetEvent(l)
    BY <2>10, LoopsAreThreads DEF WriteSetEvent, CtlMod, TypeOK, Reported, Goto
  <2>11. QED
    BY <1>12, <2>1, <2>2, <2>3, <2>4, <2>5, <2>6, <2>7, <2>8, <2>9, <2>10
      DEF WriteStep
<1>13. ASSUME NEW l \in Loops, TimeStep(l) PROVE  Reported'
  <2>1. CASE TimeSkip(l)
    BY <2>1, LoopsAreThreads DEF TimeSkip, TypeOK, Reported, Goto
  <2>2. CASE CheckTimeout(l)
    BY SMTT(30), <2>2, LoopsAreThreads
      DEF CheckTimeout, TypeOK, Reported, Goto, CallLocals, RetPc, SendPc,
          ClosePc
  <2>3. CASE TimeoutClose(l)
    BY <2>3, LoopsAreThreads
      DEF TimeoutClose, BeginClose, TypeOK, Reported, Goto, CallLocals, RetPc,
          SendPc, ClosePc
  <2>4. CASE TimeoutClosed(l)
    BY SMTT(30), <2>4, LoopsAreThreads
      DEF TimeoutClosed, Callback, TypeOK, Reported, Goto, CallLocals, RetPc,
          SendPc, ClosePc
  <2>5. CASE Clear(l)
    BY <2>5, LoopsAreThreads
      DEF Clear, Release, Destroy, CloseFds, TypeOK, Reported, Goto
  <2>6. QED
    BY <1>13, <2>1, <2>2, <2>3, <2>4, <2>5 DEF TimeStep
<1>14. ASSUME NEW c \in Conns, NetStep(c)
      PROVE  Reported'
  BY <1>14, LoopsAreThreads DEF NetStep, TypeOK, Reported, Goto
<1>15. ASSUME NEW c \in Conns, Tick(c)
      PROVE  Reported'
  BY <1>15, LoopsAreThreads DEF Tick, TypeOK, Reported, Goto
<1>16. CASE UNCHANGED vars
  BY <1>16, LoopsAreThreads DEF TypeOK, Reported, Goto
<1>17. QED
  BY <1>1, <1>2, <1>3, <1>4, <1>5, <1>6, <1>7, <1>8, <1>9, <1>10, <1>11, <1>12,
     <1>13, <1>14, <1>15, <1>16
    DEF Next, ApiCall, CallStep, LoopStep

----------------------------------------------------------------------------
(* Holders and counts.                                                     *)

\* The members of Held.
OwnedConns == {c \in Conns : Owned(c)}
Membership ==
  \A c \in Conns : \A x :
     x \in Held[c] <=>
       \/ x = <<"table", None>> /\ c \in OwnedConns
       \/ \E t \in Threads : x = <<"call", t>> /\ ptr[t] = c
       \/ \E l \in Loops : x = <<"event", l>> /\ cur[l].conn = c

LEMMA HeldMember == Membership
<1>1. ASSUME NEW c \in Conns, NEW x
      PROVE  x \in Holders(c) <=>
               \/ x = <<"table", None>> /\ Owned(c)
               \/ \E t \in Threads : x = <<"call", t>> /\ ptr[t] = c
               \/ \E l \in Loops : x = <<"event", l>> /\ cur[l].conn = c
  BY DEF Holders
<1>2. QED
  BY <1>1 DEF Held, Membership, OwnedConns

\* A connection with no holder is named by no thread and no table.
LEMMA HeldEmpty ==
  \A c \in Conns : Held[c] = {} <=>
     /\ ~Owned(c)
     /\ \A t \in Threads : ptr[t] # c
     /\ \A l \in Loops : cur[l].conn # c
<1> SUFFICES ASSUME NEW c \in Conns
             PROVE  Held[c] = {} <=> /\ ~Owned(c)
                                     /\ \A t \in Threads : ptr[t] # c
                                     /\ \A l \in Loops : cur[l].conn # c
  OBVIOUS
<1>1. Owned(c) => <<"table", None>> \in Held[c]
  BY HeldMember DEF Membership, OwnedConns
<1>2. \A t \in Threads : ptr[t] = c => <<"call", t>> \in Held[c]
  BY HeldMember DEF Membership, OwnedConns
<1>3. \A l \in Loops : cur[l].conn = c => <<"event", l>> \in Held[c]
  BY HeldMember DEF Membership, OwnedConns
<1>4. \A x \in Held[c] : \/ Owned(c)
                         \/ \E t \in Threads : ptr[t] = c
                         \/ \E l \in Loops : cur[l].conn = c
  BY HeldMember DEF Membership, OwnedConns
<1>5. QED
  BY <1>1, <1>2, <1>3, <1>4

\* With finitely many threads a connection has finitely many holders.
LEMMA HeldFinite ==
  \A c \in Conns : IsFiniteSet(Held[c])
<1> SUFFICES ASSUME NEW c \in Conns PROVE IsFiniteSet(Held[c])
  OBVIOUS
<1> DEFINE C == {<<"call", t>> : t \in Threads}
           E == {<<"event", t>> : t \in Threads}
           f == [t \in Threads |-> <<"call", t>>]
           g == [t \in Threads |-> <<"event", t>>]
<1>1. IsFiniteSet(C)
  <2>1. f \in Surjection(Threads, C)
    BY DEF Surjection
  <2>2. QED
    BY <2>1, FS_Surjection, FiniteAssumption
<1>2. IsFiniteSet(E)
  <2>1. g \in Surjection(Threads, E)
    BY DEF Surjection
  <2>2. QED
    BY <2>1, FS_Surjection, FiniteAssumption
<1>3. IsFiniteSet((C \cup E) \cup {<<"table", None>>})
  BY <1>1, <1>2, FS_Union, FS_AddElement
<1>4. Held[c] \subseteq (C \cup E) \cup {<<"table", None>>}
  BY HeldMember, LoopsAreThreads DEF Membership
<1>5. QED
  BY <1>3, <1>4, FS_Subset

\* A connection that is not live is nowhere used.
LEMMA DeadUnused ==
  ASSUME TypeInv, RefInv, NEW c \in Conns, life[c] # "live"
  PROVE  Unused(c) /\ \A t \in Threads : pc[t] \in Creating => new[t] # c
<1>1. /\ ~Owned(c)
      /\ \A t \in Threads : ptr[t] # c
      /\ \A l \in Loops : cur[l].conn # c
  BY HeldEmpty DEF RefInv, Counted
<1>2. ~Online(c) /\ c \notin recycles
  BY <1>1 DEF Owned, Online
<1>3. \A l \in Loops : \A e \in batch[l] : e.conn # c
  BY <1>2 DEF RefInv, Recycled
<1>4. \A f \in Fds : reg[f].ptr # c
  BY <1>1, <1>2, LoopsAreThreads DEF RefInv, Registered, NoReg
<1>5. QED
  BY <1>1, <1>2, <1>3, <1>4 DEF Unused, Owned

\* Taking and giving back a reference, on the number of holders.
LEMMA CountGain ==
  ASSUME NEW S, NEW x, x \notin S, IsFiniteSet(S)
  PROVE  Cardinality(S \cup {x}) = Cardinality(S) + 1 /\ S \cup {x} # {}
  BY FS_AddElement

LEMMA CountLose ==
  ASSUME NEW S, NEW x \in S, IsFiniteSet(S)
  PROVE  /\ Cardinality(S \ {x}) = Cardinality(S) - 1
         /\ S \ {x} = {} <=> Cardinality(S) = 1
<1>1. Cardinality(S \ {x}) = Cardinality(S) - 1 /\ IsFiniteSet(S \ {x})
  BY FS_RemoveElement
<1>2. Cardinality(S) \in Nat
  BY FS_CardinalityType
<1>3. S \ {x} = {} <=> Cardinality(S \ {x}) = 0
  BY <1>1, FS_EmptySet
<1>4. QED
  BY <1>1, <1>2, <1>3

\* A step that moves no thread in or out of the set-up of a connection and
\* leaves the table alone.
SameCreators ==
  /\ UNCHANGED <<new, conns, recycles>>
  /\ \A t \in Threads : pc'[t] \in Creating <=> pc[t] \in Creating

LEMMA SameOwned ==
  ASSUME SameCreators
  PROVE  OwnedConns' = OwnedConns
  BY DEF SameCreators, OwnedConns, Owned

LEMMA SameHeld ==
  ASSUME OwnedConns' = OwnedConns, UNCHANGED <<ptr, cur>>
  PROVE  Held' = Held
<1>2. Membership /\ Membership'
  BY HeldMember, PTL
<1>3. ASSUME NEW c \in Conns PROVE Held'[c] = Held[c]
  <2>1. \A x : x \in Held'[c] <=> x \in Held[c]
    BY <1>2 DEF Membership
  <2>2. QED
    BY <2>1
<1>4. QED
  BY <1>3 DEF Held

\* ptr[t] leaves None for c, or c for None.
LEMMA CallHeld ==
  ASSUME OwnedConns' = OwnedConns, UNCHANGED cur, NEW t \in Threads,
         \A u \in Threads : u # t => ptr'[u] = ptr[u], NEW c \in Conns
  PROVE  /\ ptr[t] = None /\ ptr'[t] = c =>
              /\ <<"call", t>> \notin Held[c] /\ Held'[c] = Held[c] \cup {<<"call", t>>}
              /\ \A d \in Conns : d # c => Held'[d] = Held[d]
         /\ ptr[t] = c /\ ptr'[t] = None =>
              /\ <<"call", t>> \in Held[c] /\ Held'[c] = Held[c] \ {<<"call", t>>}
              /\ \A d \in Conns : d # c => Held'[d] = Held[d]
<1>2. Membership /\ Membership'
  BY HeldMember, PTL
<1>3. ASSUME ptr[t] = None, ptr'[t] = c
      PROVE  /\ <<"call", t>> \notin Held[c] /\ Held'[c] = Held[c] \cup {<<"call", t>>}
             /\ \A d \in Conns : d # c => Held'[d] = Held[d]
  <2>1. <<"call", t>> \notin Held[c]
    BY <1>2, <1>3 DEF Membership
  <2>2. \A x : x \in Held'[c] <=> x \in Held[c] \cup {<<"call", t>>}
    BY <1>2, <1>3 DEF Membership
  <2>3. ASSUME NEW d \in Conns, d # c
        PROVE  \A x : x \in Held'[d] <=> x \in Held[d]
    BY <1>2, <1>3, <2>3 DEF Membership
  <2>4. QED
    BY <2>1, <2>2, <2>3
<1>4. ASSUME ptr[t] = c, ptr'[t] = None
      PROVE  /\ <<"call", t>> \in Held[c] /\ Held'[c] = Held[c] \ {<<"call", t>>}
             /\ \A d \in Conns : d # c => Held'[d] = Held[d]
  <2>1. <<"call", t>> \in Held[c]
    BY <1>2, <1>4 DEF Membership
  <2>2. \A x : x \in Held'[c] <=> x \in Held[c] \ {<<"call", t>>}
    BY <1>2, <1>4 DEF Membership
  <2>3. ASSUME NEW d \in Conns, d # c
        PROVE  \A x : x \in Held'[d] <=> x \in Held[d]
    BY <1>2, <1>4, <2>3 DEF Membership
  <2>4. QED
    BY <2>1, <2>2, <2>3
<1>5. QED
  BY <1>3, <1>4

\* cur[l] leaves no event for one of c, or the reverse.
LEMMA EventHeld ==
  ASSUME OwnedConns' = OwnedConns, UNCHANGED ptr, NEW l \in Loops,
         \A k \in Loops : k # l => cur'[k] = cur[k], NEW c \in Conns
  PROVE  /\ cur[l].conn = None /\ cur'[l].conn = c =>
              /\ <<"event", l>> \notin Held[c] /\ Held'[c] = Held[c] \cup {<<"event", l>>}
              /\ \A d \in Conns : d # c => Held'[d] = Held[d]
         /\ cur[l].conn = c /\ cur'[l].conn = None =>
              /\ <<"event", l>> \in Held[c] /\ Held'[c] = Held[c] \ {<<"event", l>>}
              /\ \A d \in Conns : d # c => Held'[d] = Held[d]
<1>2. Membership /\ Membership'
  BY HeldMember, PTL
<1>3. ASSUME cur[l].conn = None, cur'[l].conn = c
      PROVE  /\ <<"event", l>> \notin Held[c] /\ Held'[c] = Held[c] \cup {<<"event", l>>}
             /\ \A d \in Conns : d # c => Held'[d] = Held[d]
  <2>1. <<"event", l>> \notin Held[c]
    BY <1>2, <1>3 DEF Membership
  <2>2. \A x : x \in Held'[c] <=> x \in Held[c] \cup {<<"event", l>>}
    BY <1>2, <1>3 DEF Membership
  <2>3. ASSUME NEW d \in Conns, d # c
        PROVE  \A x : x \in Held'[d] <=> x \in Held[d]
    BY <1>2, <1>3, <2>3 DEF Membership
  <2>4. QED
    BY <2>1, <2>2, <2>3
<1>4. ASSUME cur[l].conn = c, cur'[l].conn = None
      PROVE  /\ <<"event", l>> \in Held[c] /\ Held'[c] = Held[c] \ {<<"event", l>>}
             /\ \A d \in Conns : d # c => Held'[d] = Held[d]
  <2>1. <<"event", l>> \in Held[c]
    BY <1>2, <1>4 DEF Membership
  <2>2. \A x : x \in Held'[c] <=> x \in Held[c] \ {<<"event", l>>}
    BY <1>2, <1>4 DEF Membership
  <2>3. ASSUME NEW d \in Conns, d # c
        PROVE  \A x : x \in Held'[d] <=> x \in Held[d]
    BY <1>2, <1>4, <2>3 DEF Membership
  <2>4. QED
    BY <2>1, <2>2, <2>3
<1>5. QED
  BY <1>3, <1>4

\* Only the table and the creators change.
LEMMA OwnerHeld ==
  ASSUME UNCHANGED <<ptr, cur>>, NEW c \in Conns
  PROVE  /\ (c \in OwnedConns') = (c \in OwnedConns) => Held'[c] = Held[c]
         /\ c \in OwnedConns' /\ c \notin OwnedConns =>
              /\ <<"table", None>> \notin Held[c]
              /\ Held'[c] = Held[c] \cup {<<"table", None>>}
         /\ c \notin OwnedConns' /\ c \in OwnedConns =>
              /\ <<"table", None>> \in Held[c]
              /\ Held'[c] = Held[c] \ {<<"table", None>>}
<1>1. Membership /\ Membership'
  BY HeldMember, PTL
<1>2. \A x : x # <<"table", None>> => (x \in Held'[c] <=> x \in Held[c])
  BY <1>1 DEF Membership
<1>3. /\ <<"table", None>> \in Held[c] <=> c \in OwnedConns
      /\ <<"table", None>> \in Held'[c] <=> c \in OwnedConns'
  BY <1>1 DEF Membership
<1>4. ASSUME (c \in OwnedConns') = (c \in OwnedConns)
      PROVE  Held'[c] = Held[c]
  <2>1. \A x : x \in Held'[c] <=> x \in Held[c]
    BY <1>2, <1>3, <1>4
  <2>2. QED
    BY <2>1
<1>5. ASSUME c \in OwnedConns', c \notin OwnedConns
      PROVE  Held'[c] = Held[c] \cup {<<"table", None>>}
  <2>1. \A x : x \in Held'[c] <=> x \in Held[c] \cup {<<"table", None>>}
    BY <1>2, <1>3, <1>5
  <2>2. QED
    BY <2>1
<1>6. ASSUME c \notin OwnedConns', c \in OwnedConns
      PROVE  Held'[c] = Held[c] \ {<<"table", None>>}
  <2>1. \A x : x \in Held'[c] <=> x \in Held[c] \ {<<"table", None>>}
    BY <1>2, <1>3, <1>6
  <2>2. QED
    BY <2>1
<1>7. QED
  BY <1>3, <1>4, <1>5, <1>6
\* getconn and release keep the count.
LEMMA TakeRef ==
  ASSUME TypeInv, RefInv, OwnedConns' = OwnedConns, UNCHANGED <<cur, life>>,
         NEW t \in Threads, NEW c \in Conns, life[c] = "live",
         ptr[t] = None, ptr' = [ptr EXCEPT ![t] = c], AddRef(c)
  PROVE  Counted'
<1> USE DEF TypeInv, RefInv
<1>1. /\ <<"call", t>> \notin Held[c] /\ Held'[c] = Held[c] \cup {<<"call", t>>}
      /\ \A d \in Conns : d # c => Held'[d] = Held[d]
  BY CallHeld DEF TypeOK
<1>2. /\ Cardinality(Held'[c]) = Cardinality(Held[c]) + 1
      /\ Held'[c] # {}
  BY <1>1, HeldFinite, CountGain
<1>3. \A d \in Conns : ref'[d] = IF d = c THEN ref[d] + 1 ELSE ref[d]
  BY DEF AddRef, TypeOK
<1>4. QED
  BY <1>1, <1>2, <1>3 DEF Counted

LEMMA DropRef ==
  ASSUME TypeInv, RefInv, OwnedConns' = OwnedConns, UNCHANGED cur,
         NEW t \in Threads, ptr[t] \in Conns, ptr' = [ptr EXCEPT ![t] = None],
         Release({ptr[t]})
  PROVE  Counted'
<1> USE DEF TypeInv, RefInv
<1>1. /\ <<"call", t>> \in Held[ptr[t]]
      /\ Held'[ptr[t]] = Held[ptr[t]] \ {<<"call", t>>}
      /\ \A d \in Conns : d # ptr[t] => Held'[d] = Held[d]
  BY CallHeld DEF TypeOK
<1>2. IsFiniteSet(Held[ptr[t]])
  BY HeldFinite
<1>3. /\ Cardinality(Held'[ptr[t]]) = Cardinality(Held[ptr[t]]) - 1
      /\ Held'[ptr[t]] = {} <=> Cardinality(Held[ptr[t]]) = 1
  BY <1>1, <1>2, CountLose
<1>4. \A d \in Conns :
        /\ ref'[d] = IF d = ptr[t] THEN ref[d] - 1 ELSE ref[d]
        /\ life'[d] = IF d = ptr[t] /\ ref[d] = 1 THEN "freed" ELSE life[d]
  BY DEF Release, Destroy, TypeOK
<1>5. ASSUME NEW d \in Conns
      PROVE  /\ ref'[d] = Cardinality(Held'[d])
             /\ life'[d] = "live" <=> Held'[d] # {}
  <2>1. CASE d = ptr[t]
    <3>1. ref[d] = Cardinality(Held[d]) /\ life[d] = "live"
      BY <1>1, <2>1 DEF Counted
    <3>2. QED
      BY <1>3, <1>4, <2>1, <3>1
  <2>2. CASE d # ptr[t]
    BY <1>1, <1>4, <2>2 DEF Counted
  <2>3. QED
    BY <2>1, <2>2
<1>6. QED
  BY <1>5 DEF Counted

\* A connection in the table or in use is alive.
LEMMA OnlineLive ==
  ASSUME TypeInv, RefInv, NEW h \in Handles, conns[h] # None
  PROVE  conns[h] \in Conns /\ life[conns[h]] = "live"
  BY DeadUnused DEF TypeInv, TypeOK, Unused, Online

\* One reference given back, one holder less.
LEMMA LoseOne ==
  ASSUME TypeInv, RefInv, NEW c \in Conns, NEW x \in Held[c],
         Release({c}), Held'[c] = Held[c] \ {x},
         \A d \in Conns : d # c => Held'[d] = Held[d]
  PROVE  Counted'
<1> USE DEF TypeInv, RefInv
<1>1. IsFiniteSet(Held[c])
  BY HeldFinite
<1>2. /\ Cardinality(Held'[c]) = Cardinality(Held[c]) - 1
      /\ Held'[c] = {} <=> Cardinality(Held[c]) = 1
  BY <1>1, CountLose
<1>3. \A d \in Conns :
        /\ ref'[d] = IF d = c THEN ref[d] - 1 ELSE ref[d]
        /\ life'[d] = IF d = c /\ ref[d] = 1 THEN "freed" ELSE life[d]
  BY DEF Release, Destroy, TypeOK
<1>4. ASSUME NEW d \in Conns
      PROVE  /\ ref'[d] = Cardinality(Held'[d])
             /\ life'[d] = "live" <=> Held'[d] # {}
  <2>1. CASE d = c
    <3>1. ref[d] = Cardinality(Held[d]) /\ life[d] = "live"
      BY <2>1 DEF Counted
    <3>2. QED
      BY <1>2, <1>3, <2>1, <3>1
  <2>2. CASE d # c
    BY <1>3, <2>2 DEF Counted
  <2>3. QED
    BY <2>1, <2>2
<1>5. QED
  BY <1>4 DEF Counted

\* A step keeps the count of every connection equal to the number of its
\* holders: what add_ref and release are for.
LEMMA CountedStep ==
  ASSUME OneConnector, TypeInv, CloseInv, RefInv, [Next]_vars
  PROVE  Counted'
<1> USE DEF TypeInv, CloseInv, RefInv
<1>u. UNCHANGED vars => Held' = Held
  BY SameHeld DEF OwnedConns, Owned
<1>1. ASSUME NEW t \in Threads, NEW c \in Conns, ConnectNew(t, c)
      PROVE  Counted'
  <2>1. /\ pc' = [pc EXCEPT ![t] = "mh_store"] /\ new' = [new EXCEPT ![t] = c]
        /\ pc[t] \notin Creating /\ life[c] = "none"
        /\ UNCHANGED <<conns, recycles, ptr, cur>>
    BY <1>1 DEF ConnectNew, CanCall, Creating, Goto
  <2>2. /\ ref' = [ref EXCEPT ![c] = 1] /\ life' = [life EXCEPT ![c] = "live"]
    BY <1>1 DEF ConnectNew
  <2>3. Held[c] = {} /\ c \notin OwnedConns
    BY <2>1, HeldEmpty DEF Counted, OwnedConns
  <2>4. OwnedConns' = OwnedConns \cup {c}
    BY <2>1, <2>3 DEF OwnedConns, Owned, TypeOK, Creating
  <2>5. Held'[c] = {<<"table", None>>}
    BY <2>1, <2>3, <2>4, OwnerHeld
  <2>6. Cardinality(Held'[c]) = 1
    BY <2>5, FS_Singleton
  <2>7. \A d \in Conns : d # c => Held'[d] = Held[d]
    BY <2>1, <2>4, OwnerHeld
  <2>8. \A d \in Conns :
          /\ ref'[d] = IF d = c THEN 1 ELSE ref[d]
          /\ life'[d] = IF d = c THEN "live" ELSE life[d]
    BY <2>2 DEF TypeOK
  <2>9. Held'[c] # {}
    BY <2>5
  <2>10. QED
    BY <2>6, <2>7, <2>8, <2>9 DEF Counted
<1>2. ASSUME NEW t \in Threads, NEW h \in Handles, SendCall(t, h)
      PROVE  Counted'
  <2>1. ASSUME conns[h] # None
        PROVE  Counted'
    <3>1. SameCreators /\ UNCHANGED <<cur, life>>
      BY <1>2, <2>1 DEF SendCall, CanCall, SameCreators, TypeOK, Creating, Goto
    <3>2. /\ conns[h] \in Conns /\ life[conns[h]] = "live" /\ ptr[t] = None
          /\ ptr' = [ptr EXCEPT ![t] = conns[h]] /\ AddRef(conns[h])
      BY <1>2, <2>1, OnlineLive
        DEF SendCall, CanCall, TypeOK, Handles, Locals, PtrPc, SendPc, ClosePc
    <3>3. QED
      BY <3>1, <3>2, SameOwned, TakeRef
  <2>2. QED
    BY <1>2, <2>1 DEF SendCall
<1>3. ASSUME NEW t \in Threads, NEW h \in Handles, CloseCall(t, h)
      PROVE  Counted'
  <2>1. SameCreators /\ UNCHANGED <<ptr, cur, ref, life>>
    BY <1>3
      DEF CloseCall, BeginClose, CanCall, Home, SameCreators, TypeOK, Creating,
          Goto
  <2>2. Held' = Held
    BY <2>1, SameOwned, SameHeld
  <2>3. QED
    BY <2>1, <2>2 DEF Counted
<1>4. ASSUME NEW t \in Threads, NEW h \in Handles, StatusCall(t, h)
      PROVE  Counted'
  <2>1. ASSUME conns[h] # None
        PROVE  Counted'
    <3>1. SameCreators /\ UNCHANGED <<cur, life>>
      BY <1>4, <2>1
        DEF StatusCall, CanCall, SameCreators, TypeOK, Creating, Goto
    <3>2. /\ conns[h] \in Conns /\ life[conns[h]] = "live" /\ ptr[t] = None
          /\ ptr' = [ptr EXCEPT ![t] = conns[h]] /\ AddRef(conns[h])
      BY <1>4, <2>1, OnlineLive
        DEF StatusCall, CanCall, TypeOK, Handles, Locals, PtrPc, SendPc, ClosePc
    <3>3. QED
      BY <3>1, <3>2, SameOwned, TakeRef
  <2>2. ASSUME conns[h] = None
        PROVE  Counted'
    <3>1. SameCreators /\ UNCHANGED <<ptr, cur, ref, life>>
      BY <1>4, <2>2
        DEF StatusCall, CanCall, SameCreators, TypeOK, Creating, Goto
    <3>2. Held' = Held
      BY <3>1, SameOwned, SameHeld
    <3>3. QED
      BY <3>1, <3>2 DEF Counted
  <2>3. QED
    BY <2>1, <2>2
<1>5. ASSUME NEW t \in Threads, ConnectStep(t) PROVE  Counted'
  <2>1. CASE MakeHandleStore(t)
    <3>1. SameCreators /\ UNCHANGED <<ptr, cur, ref, life>>
      BY <2>1
        DEF MakeHandleStore, NextHandle, SameCreators, TypeOK, Creating, Goto
    <3>2. Held' = Held
      BY <3>1, SameOwned, SameHeld
    <3>3. QED
      BY <3>1, <3>2 DEF Counted
  <2>2. CASE MakeHandleCheck(t)
    <3>1. ASSUME conns[hseq] # None
          PROVE  Counted'
      <4>1. SameCreators /\ UNCHANGED <<cur, life>>
        BY <2>2, <3>1 DEF MakeHandleCheck, SameCreators, TypeOK, Creating, Goto
      <4>2. /\ conns[hseq] \in Conns /\ life[conns[hseq]] = "live" /\ ptr[t] = None
            /\ ptr' = [ptr EXCEPT ![t] = conns[hseq]] /\ AddRef(conns[hseq])
        BY <2>2, <3>1, OnlineLive
          DEF MakeHandleCheck, TypeOK, Handles, Locals, PtrPc, SendPc, ClosePc,
              ConnectLocals
      <4>3. QED
        BY <4>1, <4>2, SameOwned, TakeRef
    <3>2. ASSUME conns[hseq] = None
          PROVE  Counted'
      <4>1. SameCreators /\ UNCHANGED <<ptr, cur, ref, life>>
        BY <2>2, <3>2 DEF MakeHandleCheck, SameCreators, TypeOK, Creating, Goto
      <4>2. Held' = Held
        BY <4>1, SameOwned, SameHeld
      <4>3. QED
        BY <4>1, <4>2 DEF Counted
    <3>3. QED
      BY <3>1, <3>2
  <2>3. CASE MakeHandleNext(t)
    <3>1. SameCreators /\ UNCHANGED cur
      BY <2>3 DEF MakeHandleNext, SameCreators, TypeOK, Creating, Goto
    <3>2. /\ ptr[t] \in Conns /\ Release({ptr[t]})
          /\ ptr' = [ptr EXCEPT ![t] = None]
      BY <2>3 DEF MakeHandleNext, CallLocals, PtrPc
    <3>3. QED
      BY <3>1, <3>2, SameOwned, DropRef
  <2>4. CASE MakeHandleReturn(t) \/ ConnectSocket(t)
    <3>1. SameCreators /\ UNCHANGED <<ptr, cur, ref, life>>
      BY <2>4
        DEF MakeHandleReturn, ConnectSocket, SameCreators, TypeOK, Creating,
            Goto
    <3>2. Held' = Held
      BY <3>1, SameOwned, SameHeld
    <3>3. QED
      BY <3>1, <3>2 DEF Counted
  <2>5. CASE ConnectFail(t)
    <3>1. /\ new[t] \in Conns /\ pc[t] \in Creating
          /\ Unused(new[t]) /\ \A u \in Threads : pc[u] \in Creating => u = t
      BY <2>5, OneSetup
        DEF ConnectFail, ConnectLocals, ConnectPc, Private, Creating
    <3>2. /\ pc'[t] \notin Creating /\ \A u \in Threads : u # t => pc'[u] = pc[u]
          /\ UNCHANGED <<conns, recycles, ptr, cur>>
      BY <2>5 DEF ConnectFail, Home, Creating, Goto, TypeOK
    <3>3. /\ \A c \in Conns : ref'[c] = IF c = new[t] THEN 0 ELSE ref[c]
          /\ \A c \in Conns : life'[c] = IF c = new[t] THEN "freed" ELSE life[c]
      BY <2>5 DEF ConnectFail, Delete, Destroy, TypeOK
    <3>4. OwnedConns' = OwnedConns \ {new[t]} /\ new[t] \in OwnedConns
      BY <3>1, <3>2 DEF OwnedConns, Owned, Unused, Online
    <3>5. Held[new[t]] \subseteq {<<"table", None>>}
      BY <3>1, HeldMember DEF Unused, Membership
    <3>6. /\ Held'[new[t]] = {}
          /\ \A d \in Conns : d # new[t] => Held'[d] = Held[d]
      BY <3>1, <3>2, <3>4, <3>5, OwnerHeld
    <3>7. Cardinality(Held'[new[t]]) = 0
      BY <3>6, FS_EmptySet
    <3>8. QED
      BY <3>1, <3>3, <3>6, <3>7 DEF Counted
  <2>6. CASE AddConn(t)
    <3>1. new[t] \in Conns /\ handle[new[t]] \in Handles
      BY <2>6 DEF AddConn, ConnectLocals, ConnectPc
    <3>2. OwnedConns' = OwnedConns /\ UNCHANGED <<ptr, cur, ref, life>>
      BY <2>6, <3>1 DEF AddConn, OwnedConns, Owned, TypeOK, Creating, Goto
    <3>3. Held' = Held
      BY <3>2, SameHeld
    <3>4. QED
      BY <3>2, <3>3 DEF Counted
  <2>7. CASE AddConnTaken(t)
    <3>1. /\ new[t] \in Conns /\ pc[t] \in Creating
          /\ Unused(new[t]) /\ \A u \in Threads : pc[u] \in Creating => u = t
      BY <2>7, OneSetup
        DEF AddConnTaken, ConnectLocals, ConnectPc, Private, Creating
    <3>2. /\ pc'[t] \notin Creating /\ \A u \in Threads : u # t => pc'[u] = pc[u]
          /\ UNCHANGED <<conns, recycles, ptr, cur>>
      BY <2>7 DEF AddConnTaken, Home, Creating, Goto, TypeOK
    <3>3. /\ \A c \in Conns : ref'[c] = IF c = new[t] THEN 0 ELSE ref[c]
          /\ \A c \in Conns : life'[c] = IF c = new[t] THEN "freed" ELSE life[c]
      BY <2>7 DEF AddConnTaken, Delete, Destroy, TypeOK
    <3>4. OwnedConns' = OwnedConns \ {new[t]} /\ new[t] \in OwnedConns
      BY <3>1, <3>2 DEF OwnedConns, Owned, Unused, Online
    <3>5. Held[new[t]] \subseteq {<<"table", None>>}
      BY <3>1, HeldMember DEF Unused, Membership
    <3>6. /\ Held'[new[t]] = {}
          /\ \A d \in Conns : d # new[t] => Held'[d] = Held[d]
      BY <3>1, <3>2, <3>4, <3>5, OwnerHeld
    <3>7. Cardinality(Held'[new[t]]) = 0
      BY <3>6, FS_EmptySet
    <3>8. QED
      BY <3>1, <3>3, <3>6, <3>7 DEF Counted
  <2>8. CASE AddConnLog(t)
    <3>1. pc[t] \notin Creating
      BY <2>8 DEF AddConnLog, Creating
    <3>2. OwnedConns' = OwnedConns /\ UNCHANGED <<ptr, cur, ref, life>>
      BY <2>8, <3>1
        DEF AddConnLog, Home, OwnedConns, Owned, TypeOK, Creating, Goto
    <3>3. Held' = Held
      BY <3>2, SameHeld
    <3>4. QED
      BY <3>2, <3>3 DEF Counted
  <2>9. CASE AddEventFd(t) \/ AddEventCtl(t)
    <3>1. SameCreators /\ UNCHANGED <<ptr, cur, ref, life>>
      BY <2>9
        DEF AddEventFd, AddEventCtl, CtlAdd, SameCreators, TypeOK, Creating,
            Goto
    <3>2. Held' = Held
      BY <3>1, SameOwned, SameHeld
    <3>3. QED
      BY <3>1, <3>2 DEF Counted
  <2>10. CASE ConnectReturn(t)
    <3>1. pc[t] \notin Creating
      BY <2>10 DEF ConnectReturn, Creating
    <3>2. OwnedConns' = OwnedConns /\ UNCHANGED <<ptr, cur, ref, life>>
      BY <2>10, <3>1
        DEF ConnectReturn, Home, OwnedConns, Owned, TypeOK, Creating, Goto
    <3>3. Held' = Held
      BY <3>2, SameHeld
    <3>4. QED
      BY <3>2, <3>3 DEF Counted
  <2>11. QED
    BY <1>5, <2>1, <2>2, <2>3, <2>4, <2>5, <2>6, <2>7, <2>8, <2>9, <2>10
      DEF ConnectStep
<1>6. ASSUME NEW t \in Threads, SendStep(t) PROVE  Counted'
  <2>1. CASE DeliverRefused(t) \/ DeliverData(t) \/ DeliverSetEvent(t)
    <3>1. SameCreators /\ UNCHANGED <<ptr, cur, ref, life>>
      BY <2>1
        DEF DeliverRefused, DeliverData, Lock, DeliverSetEvent, CtlMod,
            SameCreators, TypeOK, Creating, Goto
    <3>2. Held' = Held
      BY <3>1, SameOwned, SameHeld
    <3>3. QED
      BY <3>1, <3>2 DEF Counted
  <2>2. QED
    BY <1>6, <2>1 DEF SendStep
<1>7. ASSUME NEW t \in Threads, CloseStep(t) PROVE  Counted'
  <2>1. CASE CloseGet(t)
    <3>1. ASSUME conns[arg[t]] # None
          PROVE  Counted'
      <4>1. SameCreators /\ UNCHANGED <<cur, life>>
        BY <2>1, <3>1
          DEF CloseGet, CallEnd, SameCreators, TypeOK, Creating, Goto
      <4>2. /\ conns[arg[t]] \in Conns /\ life[conns[arg[t]]] = "live" /\ ptr[t] = None
            /\ ptr' = [ptr EXCEPT ![t] = conns[arg[t]]] /\ AddRef(conns[arg[t]])
        BY <2>1, <3>1, OnlineLive
          DEF CloseGet, CallEnd, TypeOK, Handles, Locals, PtrPc, SendPc,
              ClosePc, CallLocals
      <4>3. QED
        BY <4>1, <4>2, SameOwned, TakeRef
    <3>2. ASSUME conns[arg[t]] = None
          PROVE  Counted'
      <4>1. SameCreators /\ UNCHANGED <<ptr, cur, ref, life>>
        BY <2>1, <3>2
          DEF CloseGet, CallEnd, SameCreators, TypeOK, Creating, Goto
      <4>2. Held' = Held
        BY <4>1, SameOwned, SameHeld
      <4>3. QED
        BY <4>1, <4>2 DEF Counted
    <3>3. QED
      BY <3>1, <3>2
  <2>2. CASE CloseFd(t) \/ CloseRemoveEvent(t)
    <3>1. SameCreators /\ UNCHANGED <<ptr, cur, ref, life>>
      BY <2>2
        DEF CloseFd, CloseRemoveEvent, CtlDel, SameCreators, TypeOK, Creating,
            Goto
    <3>2. Held' = Held
      BY <3>1, SameOwned, SameHeld
    <3>3. QED
      BY <3>1, <3>2 DEF Counted
  <2>3. CASE CloseRemoveConn(t)
    <3>1. arg[t] \in Handles
      BY <2>3 DEF CloseRemoveConn, CallLocals, ClosePc
    <3>2. OwnedConns' = OwnedConns /\ UNCHANGED <<ptr, cur, ref, life>>
      BY <2>3, <3>1
        DEF CloseRemoveConn, AfterRemove, OwnedConns, Owned, TypeOK, Creating,
            Goto
    <3>3. Held' = Held
      BY <3>2, SameHeld
    <3>4. QED
      BY <3>2, <3>3 DEF Counted
  <2>4. CASE ConnCloseState(t) \/ ConnCloseSocket(t)
    <3>1. SameCreators /\ UNCHANGED <<ptr, cur, ref, life>>
      BY <2>4
        DEF ConnCloseState, ConnCloseSocket, CloseFds, SameCreators, TypeOK,
            Creating, Goto
    <3>2. Held' = Held
      BY <3>1, SameOwned, SameHeld
    <3>3. QED
      BY <3>1, <3>2 DEF Counted
  <2>5. QED
    BY <1>7, <2>1, <2>2, <2>3, <2>4 DEF CloseStep
<1>8. ASSUME NEW t \in Threads, StatusStep(t) PROVE  Counted'
  <2>1. CASE StatusRead(t) \/ StatusReturn(t)
    <3>1. SameCreators /\ UNCHANGED <<ptr, cur, ref, life>>
      BY <2>1
        DEF StatusRead, StatusReturn, Home, SameCreators, TypeOK, Creating, Goto
    <3>2. Held' = Held
      BY <3>1, SameOwned, SameHeld
    <3>3. QED
      BY <3>1, <3>2 DEF Counted
  <2>2. QED
    BY <1>8, <2>1 DEF StatusStep
<1>9. ASSUME NEW t \in Threads, CallRelease(t) PROVE  Counted'
  <2>1. SameCreators /\ UNCHANGED cur
    BY SMTT(30), <1>9 DEF CallRelease, CallEnd, SameCreators, TypeOK, Creating, Goto
  <2>2. /\ ptr[t] \in Conns /\ Release({ptr[t]})
        /\ ptr' = [ptr EXCEPT ![t] = None]
    BY <1>9 DEF CallRelease, CallEnd, CallLocals, PtrPc
  <2>3. QED
    BY <2>1, <2>2, SameOwned, DropRef
<1>10. ASSUME NEW l \in Loops, RoundStep(l) PROVE  Counted'
  <2>1. CASE GetEvents(l)
    <3>1. SameCreators /\ UNCHANGED <<ptr, cur, ref, life>>
      BY <2>1, LoopsAreThreads
        DEF GetEvents, SameCreators, TypeOK, Creating, Goto
    <3>2. Held' = Held
      BY <3>1, SameOwned, SameHeld
    <3>3. QED
      BY <3>1, <3>2 DEF Counted
  <2>2. ASSUME NEW e \in batch[l], NextEvent(l, e)
        PROVE  Counted'
    <3>1. SameCreators /\ UNCHANGED <<ptr, life>> /\ pc[l] = "next"
      BY <2>2, LoopsAreThreads
        DEF NextEvent, SameCreators, TypeOK, Creating, Goto
    <3>2. /\ e.conn \in Conns /\ life[e.conn] = "live" /\ cur[l].conn = None
          /\ cur' = [cur EXCEPT ![l] = e] /\ AddRef(e.conn)
      <4>1. cur[l] = NoEvent
        BY <3>1, LoopsAreThreads
          DEF LoopIdle, Within, EventPc, CallLocals, RetPc, SendPc, ClosePc,
              LoopLocals, OutPc
      <4>2. e.conn \in Conns
        BY DEF TypeOK, Event
      <4>3. QED
        BY <2>2, <4>1, <4>2, DeadUnused DEF NextEvent, NoEvent, Unused
    <3>3. \A k \in Loops : k # l => cur'[k] = cur[k]
      BY <3>2 DEF TypeOK
    <3>4. cur'[l].conn = e.conn
      BY <3>2 DEF TypeOK
    <3>5. /\ <<"event", l>> \notin Held[e.conn]
          /\ Held'[e.conn] = Held[e.conn] \cup {<<"event", l>>}
          /\ \A d \in Conns : d # e.conn => Held'[d] = Held[d]
      BY <3>1, <3>2, <3>3, <3>4, SameOwned, EventHeld
    <3>6. /\ Cardinality(Held'[e.conn]) = Cardinality(Held[e.conn]) + 1
          /\ Held'[e.conn] # {}
      BY <3>2, <3>5, HeldFinite, CountGain
    <3>7. \A d \in Conns : ref'[d] = IF d = e.conn THEN ref[d] + 1 ELSE ref[d]
      BY <3>2 DEF AddRef, TypeOK
    <3>8. QED
      BY <3>1, <3>2, <3>5, <3>6, <3>7 DEF Counted
  <2>3. CASE ReleaseEvent(l)
    <3> DEFINE c == cur[l].conn
    <3>1. SameCreators /\ UNCHANGED ptr /\ pc[l] = "unref"
      BY <2>3, LoopsAreThreads
        DEF ReleaseEvent, SameCreators, TypeOK, Creating, Goto
    <3>2. c \in Conns /\ Release({c}) /\ cur' = [cur EXCEPT ![l] = NoEvent]
      BY <2>3 DEF ReleaseEvent, LoopLocals, EventPc, Event
    <3>3. /\ \A k \in Loops : k # l => cur'[k] = cur[k]
          /\ cur'[l].conn = None
      BY <3>2 DEF TypeOK, NoEvent
    <3>4. /\ <<"event", l>> \in Held[c]
          /\ Held'[c] = Held[c] \ {<<"event", l>>}
          /\ \A d \in Conns : d # c => Held'[d] = Held[d]
      BY <3>1, <3>2, <3>3, SameOwned, EventHeld
    <3>5. QED
      BY <3>2, <3>4, LoseOne
  <2>4. CASE CallbackReturn(l)
    <3>1. SameCreators /\ UNCHANGED <<ptr, cur, ref, life>>
      BY ZenonT(60), <2>4, LoopsAreThreads
        DEF CallbackReturn, SameCreators, TypeOK, Creating, Goto
    <3>2. Held' = Held
      BY <3>1, SameOwned, SameHeld
    <3>3. QED
      BY <3>1, <3>2 DEF Counted
  <2>5. QED
    BY <1>10, <2>1, <2>2, <2>3, <2>4 DEF RoundStep
<1>11. ASSUME NEW l \in Loops, ReadStep(l) PROVE  Counted'
  <2>1. CASE ReadSkip(l) \/ ReadBegin(l) \/ ReadData(l) \/ ReadBroken(l)
             \/ ReadDone(l) \/ ReadMore(l)
    <3>1. SameCreators /\ UNCHANGED <<ptr, cur, ref, life>>
      BY <2>1, LoopsAreThreads
        DEF ReadSkip, ReadBegin, ReadData, ReadBroken, BeginClose, ReadDone,
            ReadMore, SameCreators, TypeOK, Creating, Goto
    <3>2. Held' = Held
      BY <3>1, SameOwned, SameHeld
    <3>3. QED
      BY <3>1, <3>2 DEF Counted
  <2>2. CASE ReadClosed(l)
    <3>1. SameCreators /\ UNCHANGED <<ptr, cur, ref, life>>
      BY <2>2, LoopsAreThreads
        DEF ReadClosed, Callback, SameCreators, TypeOK, Creating, Goto
    <3>2. Held' = Held
      BY <3>1, SameOwned, SameHeld
    <3>3. QED
      BY <3>1, <3>2 DEF Counted
  <2>3. QED
    BY <1>11, <2>1, <2>2 DEF ReadStep
<1>12. ASSUME NEW l \in Loops, WriteStep(l) PROVE  Counted'
  <2>1. CASE WriteSkip(l) \/ WriteOutcome(l) \/ WriteConnected(l)
             \/ OnConnect(l) \/ WriteFailed(l) \/ WriteClosed(l)
    <3>1. SameCreators /\ UNCHANGED <<ptr, cur, ref, life>>
      BY <2>1, LoopsAreThreads
        DEF WriteSkip, WriteOutcome, WriteConnected, OnConnect, Callback,
            WriteFailed, BeginClose, WriteClosed, SameCreators, TypeOK,
            Creating, Goto
    <3>2. Held' = Held
      BY <3>1, SameOwned, SameHeld
    <3>3. QED
      BY <3>1, <3>2 DEF Counted
  <2>2. CASE WriteBegin(l) \/ WriteSome(l) \/ WriteAll(l) \/ WriteSetEvent(l)
    <3>1. SameCreators /\ UNCHANGED <<ptr, cur, ref, life>>
      BY <2>2, LoopsAreThreads
        DEF WriteBegin, WriteSome, WriteAll, Lock, WriteSetEvent, CtlMod,
            SameCreators, TypeOK, Creating, Goto
    <3>2. Held' = Held
      BY <3>1, SameOwned, SameHeld
    <3>3. QED
      BY <3>1, <3>2 DEF Counted
  <2>3. QED
    BY <1>12, <2>1, <2>2 DEF WriteStep
<1>13. ASSUME NEW l \in Loops, TimeStep(l) PROVE  Counted'
  <2>1. CASE TimeSkip(l) \/ CheckTimeout(l) \/ TimeoutClose(l)
             \/ TimeoutClosed(l)
    <3>1. SameCreators /\ UNCHANGED <<ptr, cur, ref, life>>
      BY <2>1, LoopsAreThreads
        DEF TimeSkip, CheckTimeout, TimeoutClose, BeginClose, TimeoutClosed,
            Callback, SameCreators, TypeOK, Creating, Goto
    <3>2. Held' = Held
      BY <3>1, SameOwned, SameHeld
    <3>3. QED
      BY <3>1, <3>2 DEF Counted
  <2>2. CASE Clear(l)
    <3>1. /\ pc[l] = "t_next" /\ pc' = [pc EXCEPT ![l] = "wait"]
          /\ recycles' = {} /\ Release(recycles)
          /\ UNCHANGED <<new, conns, ptr, cur>>
      BY <2>2 DEF Clear, Goto
    <3>2. /\ OwnedConns' = OwnedConns \ recycles /\ recycles \subseteq OwnedConns
          /\ recycles \subseteq Conns
      <4>1. \A c \in recycles : ~Online(c) /\ \A u \in Threads : pc[u] \in Creating => new[u] # c
        BY DEF Recycled, Private, Unused
      <4>2. \A u \in Threads : pc'[u] \in Creating <=> pc[u] \in Creating
        BY <3>1, LoopsAreThreads DEF TypeOK, Creating
      <4>3. QED
        BY <3>1, <4>1, <4>2 DEF OwnedConns, Owned, Online, TypeOK
    <3>3. ASSUME NEW c \in Conns
          PROVE  /\ ref'[c] = Cardinality(Held'[c])
                 /\ life'[c] = "live" <=> Held'[c] # {}
      <4>1. /\ ref'[c] = IF c \in recycles THEN ref[c] - 1 ELSE ref[c]
            /\ life'[c] = IF c \in recycles /\ ref[c] = 1 THEN "freed" ELSE life[c]
        BY <3>1 DEF Release, Destroy
      <4>2. CASE c \in recycles
        <5>1. /\ <<"table", None>> \in Held[c]
              /\ Held'[c] = Held[c] \ {<<"table", None>>}
          BY <3>1, <3>2, <4>2, OwnerHeld
        <5>2. IsFiniteSet(Held[c])
          BY HeldFinite
        <5>3. /\ Cardinality(Held'[c]) = Cardinality(Held[c]) - 1
              /\ Held'[c] = {} <=> Cardinality(Held[c]) = 1
          BY <5>1, <5>2, CountLose
        <5>4. ref[c] = Cardinality(Held[c]) /\ life[c] = "live"
          BY <5>1 DEF Counted
        <5>5. QED
          BY <4>1, <4>2, <5>3, <5>4
      <4>3. CASE c \notin recycles
        <5>1. Held'[c] = Held[c]
          BY <3>1, <3>2, <4>3, OwnerHeld
        <5>2. QED
          BY <4>1, <4>3, <5>1 DEF Counted
      <4>4. QED
        BY <4>2, <4>3
    <3>4. QED
      BY <3>3 DEF Counted
  <2>3. QED
    BY <1>13, <2>1, <2>2 DEF TimeStep
<1>14. ASSUME NEW c \in Conns, NetStep(c)
      PROVE  Counted'
  <2>1. SameCreators /\ UNCHANGED <<ptr, cur, ref, life>>
    BY <1>14 DEF NetStep, SameCreators, TypeOK, Creating, Goto
  <2>2. Held' = Held
    BY <2>1, SameOwned, SameHeld
  <2>3. QED
    BY <2>1, <2>2 DEF Counted
<1>15. ASSUME NEW c \in Conns, Tick(c)
      PROVE  Counted'
  <2>1. SameCreators /\ UNCHANGED <<ptr, cur, ref, life>>
    BY <1>15 DEF Tick, SameCreators, TypeOK, Creating, Goto
  <2>2. Held' = Held
    BY <2>1, SameOwned, SameHeld
  <2>3. QED
    BY <2>1, <2>2 DEF Counted
<1>16. CASE UNCHANGED vars
  BY <1>16, <1>u DEF Counted
<1>17. QED
  BY <1>1, <1>2, <1>3, <1>4, <1>5, <1>6, <1>7, <1>8, <1>9, <1>10, <1>11, <1>12,
     <1>13, <1>14, <1>15, <1>16
    DEF Next, ApiCall, CallStep, LoopStep

\* A step keeps a connection under construction to its creator.
LEMMA PrivateStep ==
  ASSUME OneConnector, TypeInv, CloseInv, RefInv, [Next]_vars
  PROVE  Private'
<1> USE DEF TypeInv, CloseInv, RefInv
<1>1. ASSUME NEW t \in Threads, NEW c \in Conns, ConnectNew(t, c)
      PROVE  Private'
  <2>1. /\ pc' = [pc EXCEPT ![t] = "mh_store"] /\ new' = [new EXCEPT ![t] = c]
        /\ life[c] = "none" /\ life' = [life EXCEPT ![c] = "live"]
        /\ UNCHANGED <<conns, recycles, ptr, cur, batch, state, fd, reg, pending>>
    BY <1>1 DEF ConnectNew, Goto
  <2>2. Unused(c) /\ ~pending[c] /\ state[c] # "CONNECTED"
    BY <2>1, DeadUnused DEF Private, TypeOK
  <2>3. ASSUME NEW u \in Threads, pc'[u] \in Creating
        PROVE  /\ Unused(new[u])'
               /\ ~pending'[new'[u]] /\ state'[new'[u]] # "CONNECTED"
               /\ pc'[u] = "c_add" => fd'[new'[u]] # NoFd
    <3>1. CASE u = t
      BY <2>1, <2>2, <3>1 DEF TypeOK, Unused, Online
    <3>2. CASE u # t
      BY <2>1, <2>3, <3>2 DEF TypeOK, Private, Unused, Online
    <3>3. QED
      BY <3>1, <3>2
  <2>4. ASSUME NEW d \in Conns, life'[d] = "none"
        PROVE  ~pending'[d] /\ state'[d] # "CONNECTED"
    BY <2>1, <2>4 DEF TypeOK, Private
  <2>5. QED
    BY <2>3, <2>4 DEF Private
<1>2. ASSUME NEW t \in Threads, NEW h \in Handles, SendCall(t, h)
      PROVE  Private'
  BY <1>2, LoopsAreThreads
    DEF SendCall, AddRef, CanCall, Home, TypeOK, Private, Unused, Online,
        Creating, Goto
<1>3. ASSUME NEW t \in Threads, NEW h \in Handles, CloseCall(t, h)
      PROVE  Private'
  BY <1>3, LoopsAreThreads
    DEF CloseCall, BeginClose, CanCall, Home, TypeOK, Private, Unused, Online,
        Creating, Goto
<1>4. ASSUME NEW t \in Threads, NEW h \in Handles, StatusCall(t, h)
      PROVE  Private'
  BY <1>4, LoopsAreThreads
    DEF StatusCall, AddRef, CanCall, TypeOK, Private, Unused, Online, Creating,
        Goto
<1>5. ASSUME NEW t \in Threads, ConnectStep(t) PROVE  Private'
  <2>1. CASE MakeHandleStore(t)
    BY SMTT(30), <2>1, LoopsAreThreads
      DEF MakeHandleStore, NextHandle, TypeOK, Private, Unused, Online,
          Creating, Goto
  <2>2. CASE MakeHandleCheck(t)
    BY SMTT(30), <2>2, LoopsAreThreads
      DEF MakeHandleCheck, AddRef, TypeOK, Private, Unused, Online, Creating,
          Goto, OneConnector, FreshHandle, ConnectPc, ConnectLocals, Handles
  <2>3. CASE MakeHandleNext(t)
    BY SMTT(30), <2>3, LoopsAreThreads
      DEF MakeHandleNext, NextHandle, Release, Destroy, CloseFds, TypeOK,
          Private, Unused, Online, Creating, Goto, OneConnector, FreshHandle,
          ConnectPc, ConnectLocals, Handles, CallLocals, PtrPc, NoReg
  <2>4. CASE MakeHandleReturn(t)
    BY <2>4, LoopsAreThreads
      DEF MakeHandleReturn, TypeOK, Private, Unused, Online, Creating, Goto
  <2>5. CASE ConnectSocket(t)
    <3>1. Lowest(FreeFds) \in FreeFds /\ FreeFds \subseteq Fds
      BY <2>5, LowestType DEF ConnectSocket, FreeFds
    <3>2. new[t] \in Conns /\ pc[t] = "c_connect" /\ pc' = [pc EXCEPT ![t] = "c_add"]
      BY <2>5 DEF ConnectSocket, ConnectLocals, ConnectPc, Goto
    <3>3. \A u \in Threads : pc[u] \in Creating => u = t
      BY <3>2 DEF OneConnector, FreshHandle, ConnectPc, Creating
    <3>4. /\ fd' = [fd EXCEPT ![new[t]] = Lowest(FreeFds)]
          /\ state' = [state EXCEPT ![new[t]] = "CONNECTING"]
          /\ UNCHANGED <<new, conns, recycles, ptr, cur, batch, reg, pending, life>>
      BY <2>5 DEF ConnectSocket
    <3>5. ASSUME NEW u \in Threads, pc'[u] \in Creating
          PROVE  /\ Unused(new[u])'
                 /\ ~pending'[new'[u]] /\ state'[new'[u]] # "CONNECTED"
                 /\ pc'[u] = "c_add" => fd'[new'[u]] # NoFd
      <4>1. u = t
        BY <3>2, <3>3, <3>5 DEF TypeOK
      <4>2. Unused(new[t]) /\ ~pending[new[t]] /\ state[new[t]] # "CONNECTED"
        BY <3>2 DEF Private, Creating
      <4>3. QED
        BY <3>1, <3>2, <3>4, <4>1, <4>2 DEF TypeOK, Unused, Online, NoFd
    <3>6. ASSUME NEW c \in Conns, life'[c] = "none"
          PROVE  ~pending'[c] /\ state'[c] # "CONNECTED"
      BY <3>4, <3>6 DEF TypeOK, Private
    <3>7. QED
      BY <3>5, <3>6 DEF Private
  <2>6. CASE ConnectFail(t)
    BY <2>6, LoopsAreThreads
      DEF ConnectFail, Delete, Destroy, CloseFds, Home, TypeOK, Private, Unused,
          Online, Creating, Goto, OneConnector, FreshHandle, ConnectPc,
          ConnectLocals, Handles
  <2>7. CASE AddConn(t)
    BY <2>7, LoopsAreThreads
      DEF AddConn, TypeOK, Private, Unused, Online, Creating, Goto,
          OneConnector, FreshHandle, ConnectPc, ConnectLocals, Handles
  <2>8. CASE AddConnTaken(t)
    BY <2>8, LoopsAreThreads
      DEF AddConnTaken, Delete, Destroy, CloseFds, TypeOK, Private, Unused,
          Online, Creating, Goto, OneConnector, FreshHandle, ConnectPc,
          ConnectLocals, Handles
  <2>9. CASE AddConnLog(t)
    BY <2>9, LoopsAreThreads
      DEF AddConnLog, Home, TypeOK, Private, Unused, Online, Creating, Goto
  <2>10. CASE AddEventFd(t)
    BY <2>10, LoopsAreThreads
      DEF AddEventFd, TypeOK, Private, Unused, Online, Creating, Goto
  <2>11. CASE AddEventCtl(t)
    BY <2>11, LoopsAreThreads
      DEF AddEventCtl, CtlAdd, TypeOK, Private, Unused, Online, Creating, Goto,
          OneConnector, FreshHandle, ConnectPc, ConnectLocals, Handles
  <2>12. CASE ConnectReturn(t)
    BY <2>12, LoopsAreThreads
      DEF ConnectReturn, Home, TypeOK, Private, Unused, Online, Creating, Goto
  <2>13. QED
    BY <1>5, <2>1, <2>2, <2>3, <2>4, <2>5, <2>6, <2>7, <2>8, <2>9, <2>10, <2>11,
       <2>12
      DEF ConnectStep
<1>6. ASSUME NEW t \in Threads, SendStep(t) PROVE  Private'
  <2>1. CASE DeliverRefused(t)
    BY <2>1, LoopsAreThreads
      DEF DeliverRefused, TypeOK, Private, Unused, Online, Creating, Goto
  <2>2. CASE DeliverData(t)
    BY <2>2, DeadUnused, LoopsAreThreads
      DEF DeliverData, Lock, TypeOK, Private, Unused, Online, Creating, Goto
  <2>3. CASE DeliverSetEvent(t)
    BY <2>3, LoopsAreThreads
      DEF DeliverSetEvent, CtlMod, TypeOK, Private, Unused, Online, Creating,
          Goto
  <2>4. QED
    BY <1>6, <2>1, <2>2, <2>3 DEF SendStep
<1>7. ASSUME NEW t \in Threads, CloseStep(t) PROVE  Private'
  <2>1. CASE CloseGet(t)
    <3>1. /\ \A u \in Threads : u # t => pc'[u] = pc[u]
          /\ pc'[t] \notin Creating
          /\ \A u \in Threads : ptr'[u] = ptr[u] \/ \E h \in Handles : ptr'[u] = conns[h]
          /\ UNCHANGED <<new, conns, recycles, cur, batch, state, fd, reg, pending, life>>
      BY SMTT(30), <2>1
        DEF CloseGet, CallEnd, Goto, CallLocals, ClosePc, TypeOK, Creating
    <3>2. ASSUME NEW u \in Threads, pc'[u] \in Creating
          PROVE  /\ Unused(new[u])'
                 /\ ~pending'[new'[u]] /\ state'[new'[u]] # "CONNECTED"
                 /\ pc'[u] = "c_add" => fd'[new'[u]] # NoFd
      <4>1. /\ pc[u] = pc'[u] /\ pc[u] \in Creating
            /\ new'[u] = new[u] /\ new[u] \in Conns /\ Unused(new[u])
            /\ ~pending[new[u]] /\ state[new[u]] # "CONNECTED"
            /\ pc[u] = "c_add" => fd[new[u]] # NoFd
        BY <3>1, <3>2, LoopsAreThreads
          DEF Private, ConnectLocals, ConnectPc, Creating, TypeOK
      <4>2. QED
        BY <3>1, <4>1, LoopsAreThreads DEF TypeOK, Unused, Online
    <3>3. ASSUME NEW c \in Conns, life'[c] = "none"
          PROVE  ~pending'[c] /\ state'[c] # "CONNECTED"
      BY <3>1, <3>3, DeadUnused, LoopsAreThreads DEF TypeOK, Private, Unused
    <3>4. QED
      BY <3>2, <3>3 DEF Private
  <2>2. CASE CloseFd(t)
    BY <2>2, LoopsAreThreads
      DEF CloseFd, TypeOK, Private, Unused, Online, Creating, Goto
  <2>3. CASE CloseRemoveEvent(t)
    <3>1. /\ pc' = [pc EXCEPT ![t] = "k_remove"]
          /\ \A f \in Fds : reg'[f] \in {reg[f], NoReg}
          /\ UNCHANGED <<new, conns, recycles, ptr, cur, batch, state, fd, pending, life>>
      BY <2>3 DEF CloseRemoveEvent, CtlDel, Goto
    <3>2. ASSUME NEW u \in Threads, pc'[u] \in Creating
          PROVE  /\ Unused(new[u])'
                 /\ ~pending'[new'[u]] /\ state'[new'[u]] # "CONNECTED"
                 /\ pc'[u] = "c_add" => fd'[new'[u]] # NoFd
      <4>1. /\ pc[u] = pc'[u] /\ pc[u] \in Creating
            /\ new'[u] = new[u] /\ new[u] \in Conns /\ Unused(new[u])
            /\ ~pending[new[u]] /\ state[new[u]] # "CONNECTED"
            /\ pc[u] = "c_add" => fd[new[u]] # NoFd
        BY <3>1, <3>2, LoopsAreThreads
          DEF Private, ConnectLocals, ConnectPc, Creating, TypeOK
      <4>2. /\ \A k \in Loops : cur'[k].conn # new[u]
            /\ fd'[new[u]] = fd[new[u]]
        BY <3>1, <4>1 DEF Unused
      <4>3. /\ ~pending'[new'[u]] /\ state'[new'[u]] # "CONNECTED"
            /\ pc'[u] = "c_add" => fd'[new'[u]] # NoFd
        BY <3>1, <4>1, <4>2
      <4>4. /\ ~Online(new[u])' /\ new'[u] \notin recycles'
            /\ \A k \in Threads : ptr'[k] # new'[u]
            /\ \A k \in Loops : \A e \in batch'[k] : e.conn # new'[u]
        BY <3>1, <4>1, <4>2 DEF Unused, Online
      <4>5. \A f \in Fds : reg'[f].ptr # new'[u]
        BY <3>1, <4>1 DEF Unused, NoReg
      <4>6. Unused(new[u])'
        BY <4>1, <4>2, <4>4, <4>5 DEF Unused
      <4>7. QED
        BY <4>3, <4>6
    <3>3. ASSUME NEW c \in Conns, life'[c] = "none"
          PROVE  ~pending'[c] /\ state'[c] # "CONNECTED"
      BY <3>1, <3>3, DeadUnused, LoopsAreThreads DEF TypeOK, Private, Unused
    <3>4. QED
      BY <3>2, <3>3 DEF Private
  <2>4. CASE CloseRemoveConn(t)
    <3>1. /\ \A u \in Threads : u # t => pc'[u] = pc[u]
          /\ pc'[t] \notin Creating
          /\ \A h \in Handles : conns'[h] \in {conns[h], None}
          /\ \A c \in recycles' : c \in recycles \/ \E h \in Handles : c = conns[h]
          /\ UNCHANGED <<new, ptr, cur, batch, state, fd, reg, pending, life>>
      BY <2>4
        DEF CloseRemoveConn, AfterRemove, Goto, CallLocals, ClosePc, TypeOK,
            Creating
    <3>2. ASSUME NEW u \in Threads, pc'[u] \in Creating
          PROVE  /\ Unused(new[u])'
                 /\ ~pending'[new'[u]] /\ state'[new'[u]] # "CONNECTED"
                 /\ pc'[u] = "c_add" => fd'[new'[u]] # NoFd
      <4>1. /\ pc[u] = pc'[u] /\ pc[u] \in Creating
            /\ new'[u] = new[u] /\ new[u] \in Conns /\ Unused(new[u])
            /\ ~pending[new[u]] /\ state[new[u]] # "CONNECTED"
            /\ pc[u] = "c_add" => fd[new[u]] # NoFd
        BY <3>1, <3>2, LoopsAreThreads
          DEF Private, ConnectLocals, ConnectPc, Creating, TypeOK
      <4>2. QED
        BY <3>1, <4>1, LoopsAreThreads DEF TypeOK, Unused, Online
    <3>3. ASSUME NEW c \in Conns, life'[c] = "none"
          PROVE  ~pending'[c] /\ state'[c] # "CONNECTED"
      BY <3>1, <3>3, DeadUnused, LoopsAreThreads DEF TypeOK, Private, Unused
    <3>4. QED
      BY <3>2, <3>3 DEF Private
  <2>5. CASE ConnCloseState(t)
    BY <2>5, LoopsAreThreads
      DEF ConnCloseState, TypeOK, Private, Unused, Online, Creating, Goto
  <2>6. CASE ConnCloseSocket(t)
    <3>1. /\ pc' = [pc EXCEPT ![t] = "rel"]
          /\ \A f \in Fds : reg'[f] \in {reg[f], NoReg}
          /\ \A c \in Conns : c # ptr[t] => fd'[c] = fd[c]
          /\ UNCHANGED <<new, conns, recycles, ptr, cur, batch, state, pending, life>>
      BY <2>6 DEF ConnCloseSocket, CloseFds, Goto, TypeOK
    <3>2. ASSUME NEW u \in Threads, pc'[u] \in Creating
          PROVE  /\ Unused(new[u])'
                 /\ ~pending'[new'[u]] /\ state'[new'[u]] # "CONNECTED"
                 /\ pc'[u] = "c_add" => fd'[new'[u]] # NoFd
      <4>1. /\ pc[u] = pc'[u] /\ pc[u] \in Creating
            /\ new'[u] = new[u] /\ new[u] \in Conns /\ Unused(new[u])
            /\ ~pending[new[u]] /\ state[new[u]] # "CONNECTED"
            /\ pc[u] = "c_add" => fd[new[u]] # NoFd
        BY <3>1, <3>2, LoopsAreThreads
          DEF Private, ConnectLocals, ConnectPc, Creating, TypeOK
      <4>2. QED
        BY SMTT(30), <3>1, <4>1, LoopsAreThreads DEF TypeOK, Unused, Online, NoReg
    <3>3. ASSUME NEW c \in Conns, life'[c] = "none"
          PROVE  ~pending'[c] /\ state'[c] # "CONNECTED"
      BY <3>1, <3>3, DeadUnused, LoopsAreThreads DEF TypeOK, Private, Unused
    <3>4. QED
      BY <3>2, <3>3 DEF Private
  <2>7. QED
    BY <1>7, <2>1, <2>2, <2>3, <2>4, <2>5, <2>6 DEF CloseStep
<1>8. ASSUME NEW t \in Threads, StatusStep(t) PROVE  Private'
  BY <1>8, LoopsAreThreads
    DEF StatusStep, StatusRead, StatusReturn, Home, TypeOK, Private, Unused,
        Online, Creating, Goto
<1>9. ASSUME NEW t \in Threads, CallRelease(t) PROVE  Private'
  <2>1. /\ \A u \in Threads : u # t => pc'[u] = pc[u]
        /\ pc'[t] \notin Creating
        /\ \A c \in Conns : pending'[c] => pending[c]
        /\ \A c \in Conns : life'[c] = "none" => life[c] = "none"
        /\ \A c \in Conns : c # ptr[t] => fd'[c] = fd[c]
        /\ \A f \in Fds : reg'[f] \in {reg[f], NoReg}
        /\ ptr' = [ptr EXCEPT ![t] = None]
        /\ UNCHANGED <<new, conns, recycles, cur, batch, state>>
    BY ZenonT(60), <1>9
      DEF CallRelease, CallEnd, Goto, Release, Destroy, CloseFds, TypeOK,
          Creating
  <2>2. ASSUME NEW u \in Threads, pc'[u] \in Creating
        PROVE  /\ Unused(new[u])'
               /\ ~pending'[new'[u]] /\ state'[new'[u]] # "CONNECTED"
               /\ pc'[u] = "c_add" => fd'[new'[u]] # NoFd
    <3>1. /\ pc[u] = pc'[u] /\ pc[u] \in Creating
          /\ new'[u] = new[u] /\ new[u] \in Conns /\ Unused(new[u])
          /\ ~pending[new[u]] /\ state[new[u]] # "CONNECTED"
          /\ pc[u] = "c_add" => fd[new[u]] # NoFd
      BY <2>1, <2>2, LoopsAreThreads
        DEF Private, ConnectLocals, ConnectPc, Creating, TypeOK
    <3>2. QED
      BY <2>1, <3>1, LoopsAreThreads DEF TypeOK, Unused, Online, NoReg
  <2>3. ASSUME NEW c \in Conns, life'[c] = "none"
        PROVE  ~pending'[c] /\ state'[c] # "CONNECTED"
    BY <2>1, <2>3, DeadUnused, LoopsAreThreads DEF TypeOK, Private, Unused
  <2>4. QED
    BY <2>2, <2>3 DEF Private
<1>10. ASSUME NEW l \in Loops, RoundStep(l) PROVE  Private'
  <2>1. CASE GetEvents(l)
    <3>1. /\ pc[l] = "wait" /\ pc' = [pc EXCEPT ![l] = "next"]
          /\ UNCHANGED <<new, conns, ptr, cur, recycles, state, fd, reg, pending, life>>
      BY <2>1 DEF GetEvents, Goto
    <3>2. \A k \in Loops : \A e \in batch'[k] :
            e \in batch[k] \/ \E f \in Fds : e.conn = reg[f].ptr
      BY <2>1 DEF GetEvents, Ready, TypeOK
    <3>3. QED
      BY <3>1, <3>2, LoopsAreThreads
        DEF TypeOK, Private, Unused, Online, Creating, ConnectLocals, ConnectPc
  <2>2. ASSUME NEW e \in batch[l], NextEvent(l, e)
        PROVE  Private'
    BY <2>2, LoopsAreThreads
      DEF NextEvent, AddRef, TypeOK, Private, Unused, Online, Creating, Goto
  <2>3. CASE ReleaseEvent(l)
    <3>1. /\ \A c \in Conns : pending'[c] => pending[c]
          /\ \A c \in Conns : life'[c] = "none" => life[c] = "none"
          /\ \A f \in Fds : reg'[f] \in {reg[f], NoReg}
          /\ pc' = [pc EXCEPT ![l] = "next"]
          /\ \A k \in Loops : cur'[k].conn \in {cur[k].conn, None}
          /\ \A c \in Conns : c # cur[l].conn => fd'[c] = fd[c]
          /\ UNCHANGED <<new, conns, recycles, ptr, batch, state>>
      BY <2>3
        DEF ReleaseEvent, NoEvent, Goto, Release, Destroy, CloseFds, TypeOK
    <3>2. ASSUME NEW u \in Threads, pc'[u] \in Creating
          PROVE  /\ Unused(new[u])'
                 /\ ~pending'[new'[u]] /\ state'[new'[u]] # "CONNECTED"
                 /\ pc'[u] = "c_add" => fd'[new'[u]] # NoFd
      <4>1. /\ pc[u] = pc'[u] /\ pc[u] \in Creating
            /\ new'[u] = new[u] /\ new[u] \in Conns /\ Unused(new[u])
            /\ ~pending[new[u]] /\ state[new[u]] # "CONNECTED"
            /\ pc[u] = "c_add" => fd[new[u]] # NoFd
        BY <3>1, <3>2, LoopsAreThreads
          DEF Private, ConnectLocals, ConnectPc, Creating, TypeOK
      <4>2. /\ \A k \in Loops : cur'[k].conn # new[u]
            /\ fd'[new[u]] = fd[new[u]]
        BY <3>1, <4>1 DEF Unused
      <4>3. /\ ~pending'[new'[u]] /\ state'[new'[u]] # "CONNECTED"
            /\ pc'[u] = "c_add" => fd'[new'[u]] # NoFd
        BY <3>1, <4>1, <4>2
      <4>4. /\ ~Online(new[u])' /\ new'[u] \notin recycles'
            /\ \A k \in Threads : ptr'[k] # new'[u]
            /\ \A k \in Loops : \A e \in batch'[k] : e.conn # new'[u]
        BY <3>1, <4>1, <4>2 DEF Unused, Online
      <4>5. \A f \in Fds : reg'[f].ptr # new'[u]
        BY <3>1, <4>1 DEF Unused, NoReg
      <4>6. Unused(new[u])'
        BY <4>1, <4>2, <4>4, <4>5 DEF Unused
      <4>7. QED
        BY <4>3, <4>6
    <3>3. ASSUME NEW c \in Conns, life'[c] = "none"
          PROVE  ~pending'[c] /\ state'[c] # "CONNECTED"
      BY <3>1, <3>3, DeadUnused, LoopsAreThreads DEF TypeOK, Private, Unused
    <3>4. QED
      BY <3>2, <3>3 DEF Private
  <2>4. CASE CallbackReturn(l)
    <3>1. /\ \A u \in Threads : u # l => pc'[u] = pc[u]
          /\ pc'[l] \notin Creating
          /\ UNCHANGED <<new, conns, ptr, cur, batch, recycles, state, fd, reg,
                         pending, life>>
      BY ZenonT(60), <2>4, LoopsAreThreads DEF CallbackReturn, Goto, TypeOK, Creating
    <3>2. ASSUME NEW u \in Threads, pc'[u] \in Creating
          PROVE  /\ Unused(new[u])'
                 /\ ~pending'[new'[u]] /\ state'[new'[u]] # "CONNECTED"
                 /\ pc'[u] = "c_add" => fd'[new'[u]] # NoFd
      <4>1. /\ pc[u] = pc'[u] /\ pc[u] \in Creating
            /\ new'[u] = new[u] /\ new[u] \in Conns /\ Unused(new[u])
            /\ ~pending[new[u]] /\ state[new[u]] # "CONNECTED"
            /\ pc[u] = "c_add" => fd[new[u]] # NoFd
        BY <3>1, <3>2, LoopsAreThreads
          DEF Private, ConnectLocals, ConnectPc, Creating, TypeOK
      <4>2. QED
        BY <3>1, <4>1, LoopsAreThreads DEF TypeOK, Unused, Online
    <3>3. ASSUME NEW c \in Conns, life'[c] = "none"
          PROVE  ~pending'[c] /\ state'[c] # "CONNECTED"
      BY <3>1, <3>3, DeadUnused, LoopsAreThreads DEF TypeOK, Private, Unused
    <3>4. QED
      BY <3>2, <3>3 DEF Private
  <2>5. QED
    BY <1>10, <2>1, <2>2, <2>3, <2>4 DEF RoundStep
<1>11. ASSUME NEW l \in Loops, ReadStep(l) PROVE  Private'
  <2>1. CASE ReadSkip(l)
    BY <2>1, LoopsAreThreads
      DEF ReadSkip, TypeOK, Private, Unused, Online, Creating, Goto
  <2>2. CASE ReadBegin(l)
    BY <2>2, LoopsAreThreads
      DEF ReadBegin, TypeOK, Private, Unused, Online, Creating, Goto
  <2>3. CASE ReadData(l)
    BY <2>3, LoopsAreThreads
      DEF ReadData, TypeOK, Private, Unused, Online, Creating, Goto
  <2>4. CASE ReadBroken(l)
    BY <2>4, LoopsAreThreads
      DEF ReadBroken, BeginClose, TypeOK, Private, Unused, Online, Creating,
          Goto
  <2>5. CASE ReadDone(l)
    BY <2>5, LoopsAreThreads
      DEF ReadDone, BeginClose, TypeOK, Private, Unused, Online, Creating, Goto
  <2>6. CASE ReadMore(l)
    BY <2>6, LoopsAreThreads
      DEF ReadMore, TypeOK, Private, Unused, Online, Creating, Goto
  <2>7. CASE ReadClosed(l)
    BY <2>7, LoopsAreThreads
      DEF ReadClosed, Callback, TypeOK, Private, Unused, Online, Creating, Goto
  <2>8. QED
    BY <1>11, <2>1, <2>2, <2>3, <2>4, <2>5, <2>6, <2>7 DEF ReadStep
<1>12. ASSUME NEW l \in Loops, WriteStep(l) PROVE  Private'
  <2>1. CASE WriteSkip(l)
    BY <2>1, LoopsAreThreads
      DEF WriteSkip, TypeOK, Private, Unused, Online, Creating, Goto
  <2>2. CASE WriteOutcome(l)
    BY <2>2, LoopsAreThreads
      DEF WriteOutcome, TypeOK, Private, Unused, Online, Creating, Goto
  <2>3. CASE WriteConnected(l)
    BY <2>3, LoopsAreThreads
      DEF WriteConnected, TypeOK, Private, Unused, Online, Creating, Goto
  <2>4. CASE OnConnect(l)
    <3>1. /\ pc' = [pc EXCEPT ![l] = "cb"]
          /\ state' = [state EXCEPT ![cur[l].conn] = "CONNECTED"]
          /\ UNCHANGED <<new, conns, recycles, ptr, cur, batch, fd, reg, pending, life>>
      BY <2>4 DEF OnConnect, Callback, Goto
    <3>2. ASSUME NEW u \in Threads, pc'[u] \in Creating
          PROVE  /\ Unused(new[u])'
                 /\ ~pending'[new'[u]] /\ state'[new'[u]] # "CONNECTED"
                 /\ pc'[u] = "c_add" => fd'[new'[u]] # NoFd
      <4>1. /\ pc[u] = pc'[u] /\ pc[u] \in Creating
            /\ new'[u] = new[u] /\ new[u] \in Conns /\ Unused(new[u])
            /\ ~pending[new[u]] /\ state[new[u]] # "CONNECTED"
            /\ pc[u] = "c_add" => fd[new[u]] # NoFd
        BY <3>1, <3>2, LoopsAreThreads
          DEF Private, ConnectLocals, ConnectPc, Creating, TypeOK
      <4>2. QED
        BY <3>1, <4>1, LoopsAreThreads DEF TypeOK, Unused, Online
    <3>3. ASSUME NEW c \in Conns, life'[c] = "none"
          PROVE  ~pending'[c] /\ state'[c] # "CONNECTED"
      BY SMTT(30), <3>1, <3>3, DeadUnused, LoopsAreThreads DEF TypeOK, Private, Unused
    <3>4. QED
      BY <3>2, <3>3 DEF Private
  <2>5. CASE WriteFailed(l)
    BY <2>5, LoopsAreThreads
      DEF WriteFailed, BeginClose, TypeOK, Private, Unused, Online, Creating,
          Goto
  <2>6. CASE WriteClosed(l)
    BY <2>6, LoopsAreThreads
      DEF WriteClosed, Callback, TypeOK, Private, Unused, Online, Creating, Goto
  <2>7. CASE WriteBegin(l)
    BY <2>7, LoopsAreThreads
      DEF WriteBegin, TypeOK, Private, Unused, Online, Creating, Goto
  <2>8. CASE WriteSome(l)
    BY <2>8, LoopsAreThreads
      DEF WriteSome, TypeOK, Private, Unused, Online, Creating, Goto
  <2>9. CASE WriteAll(l)
    BY <2>9, LoopsAreThreads
      DEF WriteAll, Lock, TypeOK, Private, Unused, Online, Creating, Goto
  <2>10. CASE WriteSetEvent(l)
    BY <2>10, LoopsAreThreads
      DEF WriteSetEvent, CtlMod, TypeOK, Private, Unused, Online, Creating, Goto
  <2>11. QED
    BY <1>12, <2>1, <2>2, <2>3, <2>4, <2>5, <2>6, <2>7, <2>8, <2>9, <2>10
      DEF WriteStep
<1>13. ASSUME NEW l \in Loops, TimeStep(l) PROVE  Private'
  <2>1. CASE TimeSkip(l)
    BY <2>1, LoopsAreThreads
      DEF TimeSkip, TypeOK, Private, Unused, Online, Creating, Goto
  <2>2. CASE CheckTimeout(l)
    BY <2>2, LoopsAreThreads
      DEF CheckTimeout, TypeOK, Private, Unused, Online, Creating, Goto
  <2>3. CASE TimeoutClose(l)
    BY <2>3, LoopsAreThreads
      DEF TimeoutClose, BeginClose, TypeOK, Private, Unused, Online, Creating,
          Goto
  <2>4. CASE TimeoutClosed(l)
    BY <2>4, LoopsAreThreads
      DEF TimeoutClosed, Callback, TypeOK, Private, Unused, Online, Creating,
          Goto
  <2>5. CASE Clear(l)
    <3>1. /\ \A c \in Conns : pending'[c] => pending[c]
          /\ \A c \in Conns : life'[c] = "none" => life[c] = "none"
          /\ \A f \in Fds : reg'[f] \in {reg[f], NoReg}
          /\ pc' = [pc EXCEPT ![l] = "wait"] /\ recycles' = {}
          /\ \A c \in Conns : c \notin recycles => fd'[c] = fd[c]
          /\ UNCHANGED <<new, conns, ptr, cur, batch, state>>
      BY <2>5 DEF Clear, Goto, Release, Destroy, CloseFds, TypeOK
    <3>2. ASSUME NEW u \in Threads, pc'[u] \in Creating
          PROVE  /\ Unused(new[u])'
                 /\ ~pending'[new'[u]] /\ state'[new'[u]] # "CONNECTED"
                 /\ pc'[u] = "c_add" => fd'[new'[u]] # NoFd
      <4>1. /\ pc[u] = pc'[u] /\ pc[u] \in Creating
            /\ new'[u] = new[u] /\ new[u] \in Conns /\ Unused(new[u])
            /\ ~pending[new[u]] /\ state[new[u]] # "CONNECTED"
            /\ pc[u] = "c_add" => fd[new[u]] # NoFd
        BY <3>1, <3>2, LoopsAreThreads
          DEF Private, ConnectLocals, ConnectPc, Creating, TypeOK
      <4>2. QED
        BY SMTT(30), <3>1, <4>1, LoopsAreThreads DEF TypeOK, Unused, Online, NoReg
    <3>3. ASSUME NEW c \in Conns, life'[c] = "none"
          PROVE  ~pending'[c] /\ state'[c] # "CONNECTED"
      BY <3>1, <3>3, DeadUnused, LoopsAreThreads DEF TypeOK, Private, Unused
    <3>4. QED
      BY <3>2, <3>3 DEF Private
  <2>6. QED
    BY <1>13, <2>1, <2>2, <2>3, <2>4, <2>5 DEF TimeStep
<1>14. ASSUME NEW c \in Conns, NetStep(c)
      PROVE  Private'
  BY <1>14, LoopsAreThreads
    DEF NetStep, TypeOK, Private, Unused, Online, Creating, Goto
<1>15. ASSUME NEW c \in Conns, Tick(c)
      PROVE  Private'
  BY <1>15, LoopsAreThreads
    DEF Tick, TypeOK, Private, Unused, Online, Creating, Goto
<1>16. CASE UNCHANGED vars
  BY <1>16, LoopsAreThreads DEF TypeOK, Private, Unused, Online, Creating, Goto
<1>17. QED
  BY <1>1, <1>2, <1>3, <1>4, <1>5, <1>6, <1>7, <1>8, <1>9, <1>10, <1>11, <1>12,
     <1>13, <1>14, <1>15, <1>16
    DEF Next, ApiCall, CallStep, LoopStep

\* A step keeps every connection that the loop was told of by epoll_wait in
\* the table or in _recycles: only the loop, between rounds, clears it.
LEMMA RecycledStep ==
  ASSUME OneLoop, TypeInv, CloseInv, RefInv, [Next]_vars
  PROVE  Recycled'
<1> USE DEF TypeInv, CloseInv, RefInv
<1>1. ASSUME NEW t \in Threads, NEW c \in Conns, ConnectNew(t, c)
      PROVE  Recycled'
  BY <1>1, LoopsAreThreads
    DEF ConnectNew, CanCall, TypeOK, Recycled, Online, Goto
<1>2. ASSUME NEW t \in Threads, NEW h \in Handles, SendCall(t, h)
      PROVE  Recycled'
  BY <1>2, LoopsAreThreads
    DEF SendCall, AddRef, CanCall, Home, TypeOK, Recycled, Online, Goto
<1>3. ASSUME NEW t \in Threads, NEW h \in Handles, CloseCall(t, h)
      PROVE  Recycled'
  BY <1>3, LoopsAreThreads
    DEF CloseCall, BeginClose, CanCall, Home, TypeOK, Recycled, Online, Goto
<1>4. ASSUME NEW t \in Threads, NEW h \in Handles, StatusCall(t, h)
      PROVE  Recycled'
  BY <1>4, LoopsAreThreads
    DEF StatusCall, AddRef, CanCall, TypeOK, Recycled, Online, Goto
<1>5. ASSUME NEW t \in Threads, ConnectStep(t) PROVE  Recycled'
  <2>1. CASE MakeHandleStore(t) \/ MakeHandleCheck(t) \/ MakeHandleNext(t)
             \/ MakeHandleReturn(t) \/ ConnectSocket(t) \/ ConnectFail(t)
    BY <2>1, LoopsAreThreads
      DEF MakeHandleStore, NextHandle, MakeHandleCheck, AddRef, MakeHandleNext,
          Release, Destroy, CloseFds, MakeHandleReturn, ConnectSocket,
          ConnectFail, Delete, Home, TypeOK, Recycled, Online, Goto
  <2>2. CASE AddConn(t)
    <3>1. /\ new[t] \in Conns /\ handle[new[t]] \in Handles /\ new[t] \notin recycles
          /\ conns[handle[new[t]]] = None
      BY <2>2 DEF AddConn, Private, Unused, Creating, ConnectLocals, ConnectPc
    <3>2. /\ conns' = [conns EXCEPT ![handle[new[t]]] = new[t]]
          /\ UNCHANGED <<recycles, batch>>
      BY <2>2 DEF AddConn
    <3>3. \A c \in Conns : /\ Online(c) => \E h \in Handles : conns'[h] = c
                          /\ c # new[t] /\ ~Online(c) => \A h \in Handles : conns'[h] # c
      BY <3>1, <3>2 DEF Online, TypeOK
    <3>4. \A k \in Loops : \A e \in batch[k] : e.conn \in Conns
      BY DEF TypeOK, Event
    <3>5. QED
      BY <3>1, <3>2, <3>3, <3>4 DEF Recycled, Online, TypeOK
  <2>3. CASE AddConnTaken(t) \/ AddConnLog(t) \/ AddEventFd(t)
             \/ AddEventCtl(t) \/ ConnectReturn(t)
    BY <2>3, LoopsAreThreads
      DEF AddConnTaken, Delete, Destroy, CloseFds, AddConnLog, Home, AddEventFd,
          AddEventCtl, CtlAdd, ConnectReturn, TypeOK, Recycled, Online, Goto
  <2>4. QED
    BY <1>5, <2>1, <2>2, <2>3 DEF ConnectStep
<1>6. ASSUME NEW t \in Threads, SendStep(t) PROVE  Recycled'
  BY <1>6, LoopsAreThreads
    DEF SendStep, DeliverRefused, DeliverData, DeliverSetEvent, Lock, CtlMod,
        TypeOK, Recycled, Online, Goto
<1>7. ASSUME NEW t \in Threads, CloseStep(t) PROVE  Recycled'
  <2>1. CASE CloseGet(t) \/ CloseFd(t) \/ CloseRemoveEvent(t)
    BY <2>1, LoopsAreThreads
      DEF CloseGet, AddRef, CallEnd, CloseFd, CloseRemoveEvent, CtlDel, TypeOK,
          Recycled, Online, Goto
  <2>2. CASE CloseRemoveConn(t)
    <3>1. arg[t] \in Handles /\ UNCHANGED batch
      BY <2>2 DEF CloseRemoveConn, CallLocals, ClosePc
    <3>2. CASE UNCHANGED <<conns, recycles>>
      BY <3>1, <3>2 DEF Recycled, Online
    <3>3. CASE /\ conns[arg[t]] # None /\ recycles' = recycles \cup {conns[arg[t]]}
               /\ conns' = [conns EXCEPT ![arg[t]] = None]
      <4>1. conns[arg[t]] \in Conns /\ \A h \in Handles : conns[h] = conns[arg[t]] => h = arg[t]
        BY <3>1, <3>3 DEF UniqueHandle, TypeOK
      <4>2. \A h \in Handles : conns'[h] = IF h = arg[t] THEN None ELSE conns[h]
        BY <3>1, <3>3 DEF TypeOK
      <4>3. \A c \in recycles' : ~Online(c)'
        BY <3>3, <4>1, <4>2 DEF Recycled, Online, TypeOK
      <4>4. \A k \in Loops : \A e \in batch[k] :
              e.conn \in recycles' \/ \E h \in Handles : conns'[h] = e.conn
        BY <3>3, <4>1, <4>2 DEF Recycled, Online
      <4>5. QED
        BY <3>1, <4>3, <4>4 DEF Recycled, Online
    <3>4. QED
      BY <2>2, <3>2, <3>3 DEF CloseRemoveConn
  <2>3. CASE ConnCloseState(t) \/ ConnCloseSocket(t)
    BY <2>3, LoopsAreThreads
      DEF ConnCloseState, ConnCloseSocket, CloseFds, TypeOK, Recycled, Online,
          Goto
  <2>4. QED
    BY <1>7, <2>1, <2>2, <2>3 DEF CloseStep
<1>8. ASSUME NEW t \in Threads, StatusStep(t) PROVE  Recycled'
  BY <1>8, LoopsAreThreads
    DEF StatusStep, StatusRead, StatusReturn, Home, TypeOK, Recycled, Online,
        Goto
<1>9. ASSUME NEW t \in Threads, CallRelease(t) PROVE  Recycled'
  BY <1>9, LoopsAreThreads
    DEF CallRelease, Release, Destroy, CloseFds, CallEnd, TypeOK, Recycled,
        Online, Goto
<1>10. ASSUME NEW l \in Loops, RoundStep(l) PROVE  Recycled'
  <2>1. CASE GetEvents(l)
    <3>1. pc[l] = "wait" /\ UNCHANGED <<conns, recycles>>
      BY <2>1 DEF GetEvents
    <3>2. \A k \in Loops : \A e \in batch'[k] :
            e \in batch[k] \/ \E f \in Fds : reg[f] # NoReg /\ e.conn = reg[f].ptr
      BY <2>1 DEF GetEvents, Ready, TypeOK
    <3>3. \A f \in Fds : reg[f] # NoReg => Online(reg[f].ptr)
      BY <3>1 DEF OneLoop, Registered
    <3>4. QED
      BY <3>1, <3>2, <3>3 DEF Recycled, Online
  <2>2. ASSUME NEW e \in batch[l], NextEvent(l, e)
        PROVE  Recycled'
    BY <2>2, LoopsAreThreads
      DEF NextEvent, AddRef, TypeOK, Recycled, Online, Goto
  <2>3. CASE ReleaseEvent(l) \/ CallbackReturn(l)
    BY <2>3, LoopsAreThreads
      DEF ReleaseEvent, Release, Destroy, CloseFds, CallbackReturn, TypeOK,
          Recycled, Online, Goto
  <2>4. QED
    BY <1>10, <2>1, <2>2, <2>3 DEF RoundStep
<1>11. ASSUME NEW l \in Loops, ReadStep(l) PROVE  Recycled'
  BY <1>11, LoopsAreThreads
    DEF ReadStep, ReadSkip, ReadBegin, ReadData, ReadBroken, ReadDone, ReadMore,
        ReadClosed, BeginClose, Callback, TypeOK, Recycled, Online, Goto
<1>12. ASSUME NEW l \in Loops, WriteStep(l) PROVE  Recycled'
  BY SMTT(30), <1>12, LoopsAreThreads
    DEF WriteStep, WriteSkip, WriteOutcome, WriteConnected, OnConnect,
        WriteFailed, WriteClosed, WriteBegin, WriteSome, WriteAll,
        WriteSetEvent, Callback, BeginClose, Lock, CtlMod, TypeOK, Recycled,
        Online, Goto
<1>13. ASSUME NEW l \in Loops, TimeStep(l) PROVE  Recycled'
  <2>1. CASE TimeSkip(l) \/ CheckTimeout(l) \/ TimeoutClose(l)
             \/ TimeoutClosed(l) \/ Clear(l)
    BY <2>1, LoopsAreThreads
      DEF TimeSkip, CheckTimeout, TimeoutClose, BeginClose, TimeoutClosed,
          Callback, Clear, Release, Destroy, CloseFds, OneLoop, LoopIdle,
          Within, TimePc, TypeOK, Recycled, Online, Goto
  <2>2. QED
    BY <1>13, <2>1 DEF TimeStep
<1>14. ASSUME NEW c \in Conns, NetStep(c)
      PROVE  Recycled'
  BY <1>14, LoopsAreThreads DEF NetStep, TypeOK, Recycled, Online, Goto
<1>15. ASSUME NEW c \in Conns, Tick(c)
      PROVE  Recycled'
  BY <1>15, LoopsAreThreads DEF Tick, TypeOK, Recycled, Online, Goto
<1>16. CASE UNCHANGED vars
  BY <1>16, LoopsAreThreads DEF TypeOK, Recycled, Online, Goto
<1>17. QED
  BY <1>1, <1>2, <1>3, <1>4, <1>5, <1>6, <1>7, <1>8, <1>9, <1>10, <1>11, <1>12,
     <1>13, <1>14, <1>15, <1>16
    DEF Next, ApiCall, CallStep, LoopStep


=============================================================================
