---------------------------- MODULE NetWorkEpoll ----------------------------
(***************************************************************************)
(* The second half of the proof that RefInv (NetWorkRefs) is inductive:    *)
(* sockets, descriptors and the epoll set; and what follows from it about  *)
(* reference counts, events and wake-ups.                                  *)
(***************************************************************************)
EXTENDS NetWorkRefs

USE ThreadsAssumption, NumbersAssumption
USE DEF makeVars, frameVars, callVars, roundVars, loopVars, refVars, fieldVars,
        dataVars, connVars, tableVars, sockVars, netVars, closeVars, histVars,
        sharedVars, vars

\* set_event re-arms a descriptor for the connection that it is registered for.
LEMMA CtlModKeeps ==
  ASSUME RefInv, NEW t \in Threads, pc[t] \in CtlPc, TypeInv, NEW w \in BOOLEAN,
         CtlMod(tfd[t], Target(t), w)
  PROVE  \A f \in Fds : /\ reg'[f].ptr = reg[f].ptr
                        /\ reg'[f] = NoReg <=> reg[f] = NoReg
                        /\ reg'[f] # reg[f] => reg[f] # NoReg /\ f = tfd[t]
                                /\ reg[f].ptr = Target(t) /\ reg'[f].w = w
<1> USE DEF RefInv, TypeInv
<1>1. ASSUME NEW f \in Fds, f = tfd[t], reg[f] # NoReg
      PROVE  reg[f].ptr = Target(t)
  <2>1. reg[f].ptr \in Conns /\ fd[reg[f].ptr] = f /\ f # NoFd
    BY <1>1 DEF Registered, TypeOK, Reg, NoFd
  <2>2. QED
    BY <1>1, <2>1 DEF Descriptors
<1>2. ASSUME NEW f \in Fds
      PROVE  /\ reg'[f].ptr = reg[f].ptr
             /\ reg'[f] = NoReg <=> reg[f] = NoReg
             /\ reg'[f] # reg[f] => reg[f] # NoReg /\ f = tfd[t]
                     /\ reg[f].ptr = Target(t) /\ reg'[f].w = w
  <2>1. CASE f = tfd[t] /\ reg[f] # NoReg
    <3>1. reg'[f] = [ptr |-> Target(t), w |-> w] /\ reg[f].ptr = Target(t)
      BY <1>1, <2>1 DEF CtlMod
    <3>2. reg[f].ptr \in Conns
      BY <2>1 DEF TypeOK, Reg
    <3>3. QED
      BY <2>1, <3>1, <3>2 DEF NoReg
  <2>2. CASE ~(f = tfd[t] /\ reg[f] # NoReg)
    BY <2>2 DEF CtlMod
  <2>3. QED
    BY <2>1, <2>2
<1>3. QED
  BY <1>2

\* No event carries the handle of a connection that is not yet in the epoll set.
LEMMA AddHandle ==
  ASSUME TypeInv, CloseInv, RefInv, NEW u \in Threads, pc[u] \in AddPc
  PROVE  \A l \in Loops : pc[l] \in EventPc =>
           cur[l].conn # new[u] /\ handle[cur[l].conn] # handle[new[u]]
<1> USE DEF TypeInv, CloseInv, RefInv
<1>1. ASSUME NEW l \in Loops, pc[l] \in EventPc
      PROVE  cur[l].conn # new[u] /\ handle[cur[l].conn] # handle[new[u]]
  <2>1. cur[l].conn # new[u] /\ cur[l].conn \in Conns /\ handle[cur[l].conn] # 0
    BY <1>1 DEF NotYet, LoopLocals, Event, Handles
  <2>2. new[u] \in Conns
    BY DEF ConnectLocals, AddPc, ConnectPc
  <2>3. QED
    BY <2>1, <2>2 DEF UniqueHandle
<1>2. QED
  BY <1>1

\* The application can close it only after the loop did.
LEMMA KnownClosed ==
  ASSUME TypeInv, CloseInv, RefInv, NEW u \in Threads, pc[u] \in AddPc,
         handle[new[u]] \in Known
  PROVE  conns[handle[new[u]]] = None
<1> USE DEF TypeInv, CloseInv, RefInv
<1>1. new[u] \in Conns /\ handle[new[u]] \in Handles
  BY DEF ConnectLocals, AddPc, ConnectPc
<1>2. told[handle[new[u]]] # "none"
  BY <1>1 DEF Known, UniqueHandle, Handles
<1>3. told[handle[new[u]]] = "closed"
  BY <1>1, <1>2 DEF NotYet, TypeOK
<1>4. QED
  BY <1>1, <1>3 DEF Reported

\* A step keeps a connection between addconn and add_event unreported,
\* unregistered and idle.
LEMMA NotYetStep ==
  ASSUME OneConnector, TypeInv, CloseInv, RefInv, [Next]_vars
  PROVE  NotYet'
<1> USE DEF TypeInv, CloseInv, RefInv
<1>a. \A t, u \in Threads : pc[t] \in ConnectPc /\ pc[u] \in ConnectPc => t = u
  BY OneSetup
<1>1. ASSUME NEW t \in Threads, NEW c \in Conns, ConnectNew(t, c)
      PROVE  NotYet'
  BY <1>1, LoopsAreThreads, <1>a
    DEF ConnectNew, CanCall, TypeOK, NotYet, AddPc, ClosePc, Goto, ConnectPc
<1>2. ASSUME NEW t \in Threads, NEW h \in Handles, SendCall(t, h)
      PROVE  NotYet'
  BY <1>2, LoopsAreThreads, <1>a
    DEF SendCall, AddRef, CanCall, Home, TypeOK, NotYet, AddPc, ClosePc, Goto,
        ConnectPc
<1>3. ASSUME NEW t \in Threads, NEW h \in Handles, CloseCall(t, h)
      PROVE  NotYet'
  <2>1. /\ \A u \in Threads : u # t => pc'[u] = pc[u] /\ arg'[u] = arg[u] /\ ret'[u] = ret[u]
        /\ pc'[t] = "k_get" /\ arg'[t] = h /\ h \in Known
        /\ UNCHANGED <<new, handle, told, cur, batch, reg, pending, state, conns>>
    BY <1>3, LoopsAreThreads DEF CloseCall, BeginClose, TypeOK, AddPc, Goto
  <2>2. ASSUME NEW u \in Threads, pc'[u] \in AddPc
        PROVE  /\ told'[handle'[new'[u]]] # "connected"
               /\ \A k \in Loops :
                    cur'[k].conn # new'[u] /\ \A e \in batch'[k] : e.conn # new'[u]
               /\ \A f \in Fds : reg'[f].ptr # new'[u]
               /\ ~pending'[new'[u]] /\ state'[new'[u]] # "CONNECTED"
               /\ \A v \in Threads :
                    pc'[v] \in ClosePc /\ arg'[v] = handle'[new'[u]] =>
                      \/ v \in Loops /\ ret'[v] = "t_closed"
                      \/ pc'[v] = "k_get" /\ conns'[arg'[v]] = None
    <3>1. pc[u] \in AddPc /\ new[u] \in Conns /\ handle[new[u]] \in Handles
      BY <2>1, <2>2 DEF AddPc, ConnectLocals, ConnectPc
    <3>2. /\ told'[handle[new[u]]] # "connected"
          /\ \A k \in Loops :
               cur'[k].conn # new[u] /\ \A e \in batch'[k] : e.conn # new[u]
      BY <2>1, <3>1 DEF NotYet
    <3>3. /\ \A f \in Fds : reg'[f].ptr # new[u]
          /\ ~pending'[new[u]] /\ state'[new[u]] # "CONNECTED"
      BY <2>1, <3>1 DEF NotYet, NoReg
    <3>4. \A v \in Threads :
            pc'[v] \in ClosePc /\ arg'[v] = handle[new[u]] =>
              \/ v \in Loops /\ ret'[v] = "t_closed"
              \/ pc'[v] = "k_get" /\ conns'[arg'[v]] = None
      BY <2>1, <3>1, KnownClosed DEF NotYet
    <3>5. QED
      BY <2>1, <3>2, <3>3, <3>4
  <2>3. QED
    BY <2>2 DEF NotYet
<1>4. ASSUME NEW t \in Threads, NEW h \in Handles, StatusCall(t, h)
      PROVE  NotYet'
  <2>1. /\ \A u \in Threads : u # t => pc'[u] = pc[u] /\ ret'[u] = ret[u]
        /\ pc'[t] \notin AddPc \cup ClosePc
        /\ UNCHANGED <<new, handle, arg, told, cur, batch, reg, pending, state, conns>>
    BY <1>4, LoopsAreThreads DEF StatusCall, ClosePc, TypeOK, AddPc, Goto
  <2>2. ASSUME NEW u \in Threads, pc'[u] \in AddPc
        PROVE  /\ told'[handle'[new'[u]]] # "connected"
               /\ \A k \in Loops :
                    cur'[k].conn # new'[u] /\ \A e \in batch'[k] : e.conn # new'[u]
               /\ \A f \in Fds : reg'[f].ptr # new'[u]
               /\ ~pending'[new'[u]] /\ state'[new'[u]] # "CONNECTED"
               /\ \A v \in Threads :
                    pc'[v] \in ClosePc /\ arg'[v] = handle'[new'[u]] =>
                      \/ v \in Loops /\ ret'[v] = "t_closed"
                      \/ pc'[v] = "k_get" /\ conns'[arg'[v]] = None
    <3>1. pc[u] \in AddPc /\ new[u] \in Conns /\ handle[new[u]] \in Handles
      BY <2>1, <2>2 DEF AddPc, ConnectLocals, ConnectPc
    <3>2. /\ told'[handle[new[u]]] # "connected"
          /\ \A k \in Loops :
               cur'[k].conn # new[u] /\ \A e \in batch'[k] : e.conn # new[u]
      BY <2>1, <3>1 DEF NotYet
    <3>3. /\ \A f \in Fds : reg'[f].ptr # new[u]
          /\ ~pending'[new[u]] /\ state'[new[u]] # "CONNECTED"
      BY <2>1, <3>1 DEF NotYet, NoReg
    <3>4. \A v \in Threads :
            pc'[v] \in ClosePc /\ arg'[v] = handle[new[u]] =>
              \/ v \in Loops /\ ret'[v] = "t_closed"
              \/ pc'[v] = "k_get" /\ conns'[arg'[v]] = None
      BY <2>1, <3>1 DEF NotYet
    <3>5. QED
      BY <2>1, <3>2, <3>3, <3>4
  <2>3. QED
    BY <2>2 DEF NotYet
<1>5. ASSUME NEW t \in Threads, ConnectStep(t) PROVE  NotYet'
  <2>1. CASE MakeHandleStore(t) \/ MakeHandleCheck(t) \/ MakeHandleNext(t)
             \/ MakeHandleReturn(t) \/ ConnectSocket(t) \/ ConnectFail(t)
    BY <2>1, LoopsAreThreads, <1>a
      DEF MakeHandleStore, NextHandle, ConnectPc, MakeHandleCheck, AddRef,
          MakeHandleNext, Release, Destroy, CloseFds, MakeHandleReturn,
          ConnectSocket, ConnectFail, Delete, Home, TypeOK, NotYet, AddPc,
          ClosePc, Goto
  <2>2. CASE AddConn(t)
    BY <2>2, LoopsAreThreads, <1>a, NewHandle
      DEF AddConn, TypeOK, NotYet, AddPc, ClosePc, Goto, ConnectPc, Private,
          Unused, Creating, SetupPc
  <2>3. CASE AddConnTaken(t) \/ AddConnLog(t) \/ AddEventFd(t)
             \/ AddEventCtl(t) \/ ConnectReturn(t)
    BY <2>3, LoopsAreThreads, <1>a
      DEF AddConnTaken, Delete, Destroy, CloseFds, ConnectPc, AddConnLog, Home,
          AddEventFd, AddEventCtl, CtlAdd, ConnectReturn, TypeOK, NotYet, AddPc,
          ClosePc, Goto
  <2>4. QED
    BY <1>5, <2>1, <2>2, <2>3 DEF ConnectStep
<1>6. ASSUME NEW t \in Threads, SendStep(t) PROVE  NotYet'
  <2>1. CASE DeliverRefused(t)
    BY <2>1, LoopsAreThreads, <1>a
      DEF DeliverRefused, TypeOK, NotYet, AddPc, ClosePc, Goto, ConnectPc
  <2>2. CASE DeliverData(t)
    BY <2>2, LoopsAreThreads, <1>a
      DEF DeliverData, Lock, TypeOK, NotYet, AddPc, ClosePc, Goto, ConnectPc
  <2>3. CASE DeliverSetEvent(t)
    <3>1. /\ pc' = [pc EXCEPT ![t] = "rel"]
          /\ \A f \in Fds : reg'[f].ptr = reg[f].ptr
          /\ UNCHANGED <<new, handle, arg, ret, told, cur, batch, pending, state, conns>>
      BY <2>3, CtlModKeeps, LoopsAreThreads
        DEF DeliverSetEvent, CtlPc, Target, TypeOK, AddPc, Goto
    <3>2. ASSUME NEW u \in Threads, pc'[u] \in AddPc
          PROVE  /\ told'[handle'[new'[u]]] # "connected"
                 /\ \A k \in Loops :
                      cur'[k].conn # new'[u] /\ \A e \in batch'[k] : e.conn # new'[u]
                 /\ \A f \in Fds : reg'[f].ptr # new'[u]
                 /\ ~pending'[new'[u]] /\ state'[new'[u]] # "CONNECTED"
                 /\ \A v \in Threads :
                      pc'[v] \in ClosePc /\ arg'[v] = handle'[new'[u]] =>
                        \/ v \in Loops /\ ret'[v] = "t_closed"
                        \/ pc'[v] = "k_get" /\ conns'[arg'[v]] = None
      <4>1. pc[u] \in AddPc /\ new[u] \in Conns /\ handle[new[u]] \in Handles
        BY <3>1, <3>2 DEF AddPc, ConnectLocals, ConnectPc
      <4>2. /\ told'[handle[new[u]]] # "connected"
            /\ \A k \in Loops :
                 cur'[k].conn # new[u] /\ \A e \in batch'[k] : e.conn # new[u]
        BY <3>1, <4>1 DEF NotYet
      <4>3. /\ \A f \in Fds : reg'[f].ptr # new[u]
            /\ ~pending'[new[u]] /\ state'[new[u]] # "CONNECTED"
        BY <3>1, <4>1 DEF NotYet, NoReg
      <4>4. \A v \in Threads :
              pc'[v] \in ClosePc /\ arg'[v] = handle[new[u]] =>
                \/ v \in Loops /\ ret'[v] = "t_closed"
                \/ pc'[v] = "k_get" /\ conns'[arg'[v]] = None
        BY <3>1, <4>1 DEF NotYet, ClosePc
      <4>5. QED
        BY <3>1, <4>2, <4>3, <4>4
    <3>3. QED
      BY <3>2 DEF NotYet
  <2>4. QED
    BY <1>6, <2>1, <2>2, <2>3 DEF SendStep
<1>7. ASSUME NEW t \in Threads, CloseStep(t) PROVE  NotYet'
  <2>1. CASE CloseGet(t)
    <3>1. /\ pc[t] = "k_get" /\ \A u \in Threads : u # t => pc'[u] = pc[u] /\ arg'[u] = arg[u] /\ ret'[u] = ret[u]
          /\ pc'[t] \notin AddPc
          /\ pc'[t] \in ClosePc => conns[arg[t]] # None /\ arg'[t] = arg[t] /\ ret'[t] = ret[t]
          /\ UNCHANGED <<new, handle, told, cur, batch, reg, pending, state, conns>>
      <4>1. CASE pc' = [pc EXCEPT ![t] = "k_fd"] /\ UNCHANGED <<arg, ret>> /\ conns[arg[t]] # None
        BY <2>1, <4>1 DEF CloseGet, TypeOK, AddPc
      <4>2. CASE CallEnd(t)
        BY SMTT(30), <2>1, <4>2 DEF CloseGet, CallEnd, Goto, TypeOK, AddPc, ClosePc
      <4>3. QED
        BY <2>1, <4>1, <4>2 DEF CloseGet, Goto
    <3>2. ASSUME NEW u \in Threads, pc'[u] \in AddPc
          PROVE  /\ told'[handle'[new'[u]]] # "connected"
                 /\ \A k \in Loops :
                      cur'[k].conn # new'[u] /\ \A e \in batch'[k] : e.conn # new'[u]
                 /\ \A f \in Fds : reg'[f].ptr # new'[u]
                 /\ ~pending'[new'[u]] /\ state'[new'[u]] # "CONNECTED"
                 /\ \A v \in Threads :
                      pc'[v] \in ClosePc /\ arg'[v] = handle'[new'[u]] =>
                        \/ v \in Loops /\ ret'[v] = "t_closed"
                        \/ pc'[v] = "k_get" /\ conns'[arg'[v]] = None
      <4>1. pc[u] \in AddPc /\ new[u] \in Conns /\ handle[new[u]] \in Handles
        BY <3>1, <3>2 DEF AddPc, ConnectLocals, ConnectPc
      <4>2. /\ told'[handle[new[u]]] # "connected"
            /\ \A k \in Loops :
                 cur'[k].conn # new[u] /\ \A e \in batch'[k] : e.conn # new[u]
        BY <3>1, <4>1 DEF NotYet
      <4>3. /\ \A f \in Fds : reg'[f].ptr # new[u]
            /\ ~pending'[new[u]] /\ state'[new[u]] # "CONNECTED"
        BY <3>1, <4>1 DEF NotYet, NoReg
      <4>4. \A v \in Threads :
              pc'[v] \in ClosePc /\ arg'[v] = handle[new[u]] =>
                \/ v \in Loops /\ ret'[v] = "t_closed"
                \/ pc'[v] = "k_get" /\ conns'[arg'[v]] = None
        BY <3>1, <4>1 DEF NotYet, ClosePc
      <4>5. QED
        BY <3>1, <4>2, <4>3, <4>4
    <3>3. QED
      BY <3>2 DEF NotYet
  <2>2. CASE CloseFd(t)
    BY <2>2, LoopsAreThreads, <1>a
      DEF CloseFd, TypeOK, NotYet, AddPc, ClosePc, Goto, ConnectPc
  <2>3. CASE CloseRemoveEvent(t)
    <3>1. /\ pc[t] = "k_del" /\ pc' = [pc EXCEPT ![t] = "k_remove"]
          /\ \A f \in Fds : reg'[f] \in {reg[f], NoReg}
          /\ UNCHANGED <<new, handle, arg, ret, told, cur, batch, pending, state, conns>>
      BY <2>3, LoopsAreThreads DEF CloseRemoveEvent, CtlDel, TypeOK, AddPc, Goto
    <3>2. ASSUME NEW u \in Threads, pc'[u] \in AddPc
          PROVE  /\ told'[handle'[new'[u]]] # "connected"
                 /\ \A k \in Loops :
                      cur'[k].conn # new'[u] /\ \A e \in batch'[k] : e.conn # new'[u]
                 /\ \A f \in Fds : reg'[f].ptr # new'[u]
                 /\ ~pending'[new'[u]] /\ state'[new'[u]] # "CONNECTED"
                 /\ \A v \in Threads :
                      pc'[v] \in ClosePc /\ arg'[v] = handle'[new'[u]] =>
                        \/ v \in Loops /\ ret'[v] = "t_closed"
                        \/ pc'[v] = "k_get" /\ conns'[arg'[v]] = None
      <4>1. pc[u] \in AddPc /\ new[u] \in Conns /\ handle[new[u]] \in Handles
        BY <3>1, <3>2 DEF AddPc, ConnectLocals, ConnectPc
      <4>2. /\ told'[handle[new[u]]] # "connected"
            /\ \A k \in Loops :
                 cur'[k].conn # new[u] /\ \A e \in batch'[k] : e.conn # new[u]
        BY <3>1, <4>1 DEF NotYet
      <4>3. /\ \A f \in Fds : reg'[f].ptr # new[u]
            /\ ~pending'[new[u]] /\ state'[new[u]] # "CONNECTED"
        BY <3>1, <4>1 DEF NotYet, NoReg
      <4>4. \A v \in Threads :
              pc'[v] \in ClosePc /\ arg'[v] = handle[new[u]] =>
                \/ v \in Loops /\ ret'[v] = "t_closed"
                \/ pc'[v] = "k_get" /\ conns'[arg'[v]] = None
        BY <3>1, <4>1 DEF NotYet, TypeOK, ClosePc
      <4>5. QED
        BY <3>1, <4>2, <4>3, <4>4
    <3>3. QED
      BY <3>2 DEF NotYet
  <2>4. CASE CloseRemoveConn(t)
    <3>1. /\ pc[t] = "k_remove" /\ pc'[t] \in {"k_state", "rel"}
          /\ \A u \in Threads : u # t => pc'[u] = pc[u]
          /\ \A h \in Handles : conns[h] = None => conns'[h] = None
          /\ UNCHANGED <<new, handle, arg, ret, told, cur, batch, reg, pending, state>>
      BY <2>4, LoopsAreThreads
        DEF CloseRemoveConn, AfterRemove, TypeOK, AddPc, Goto
    <3>2. ASSUME NEW u \in Threads, pc'[u] \in AddPc
          PROVE  /\ told'[handle'[new'[u]]] # "connected"
                 /\ \A k \in Loops :
                      cur'[k].conn # new'[u] /\ \A e \in batch'[k] : e.conn # new'[u]
                 /\ \A f \in Fds : reg'[f].ptr # new'[u]
                 /\ ~pending'[new'[u]] /\ state'[new'[u]] # "CONNECTED"
                 /\ \A v \in Threads :
                      pc'[v] \in ClosePc /\ arg'[v] = handle'[new'[u]] =>
                        \/ v \in Loops /\ ret'[v] = "t_closed"
                        \/ pc'[v] = "k_get" /\ conns'[arg'[v]] = None
      <4>1. pc[u] \in AddPc /\ new[u] \in Conns /\ handle[new[u]] \in Handles
        BY <3>1, <3>2 DEF AddPc, ConnectLocals, ConnectPc
      <4>2. /\ told'[handle[new[u]]] # "connected"
            /\ \A k \in Loops :
                 cur'[k].conn # new[u] /\ \A e \in batch'[k] : e.conn # new[u]
        BY <3>1, <4>1 DEF NotYet
      <4>3. /\ \A f \in Fds : reg'[f].ptr # new[u]
            /\ ~pending'[new[u]] /\ state'[new[u]] # "CONNECTED"
        BY <3>1, <4>1 DEF NotYet, NoReg
      <4>4. \A v \in Threads :
              pc'[v] \in ClosePc /\ arg'[v] = handle[new[u]] =>
                \/ v \in Loops /\ ret'[v] = "t_closed"
                \/ pc'[v] = "k_get" /\ conns'[arg'[v]] = None
        BY <3>1, <4>1 DEF NotYet, ClosePc
      <4>5. QED
        BY <3>1, <4>2, <4>3, <4>4
    <3>3. QED
      BY <3>2 DEF NotYet
  <2>5. CASE ConnCloseState(t)
    BY <2>5, LoopsAreThreads, <1>a
      DEF ConnCloseState, TypeOK, NotYet, AddPc, ClosePc, Goto, ConnectPc
  <2>6. CASE ConnCloseSocket(t)
    <3>1. /\ pc' = [pc EXCEPT ![t] = "rel"]
          /\ \A f \in Fds : reg'[f] \in {reg[f], NoReg}
          /\ UNCHANGED <<new, handle, arg, ret, told, cur, batch, pending, state, conns>>
      BY <2>6, LoopsAreThreads
        DEF ConnCloseSocket, CloseFds, TypeOK, AddPc, Goto
    <3>2. ASSUME NEW u \in Threads, pc'[u] \in AddPc
          PROVE  /\ told'[handle'[new'[u]]] # "connected"
                 /\ \A k \in Loops :
                      cur'[k].conn # new'[u] /\ \A e \in batch'[k] : e.conn # new'[u]
                 /\ \A f \in Fds : reg'[f].ptr # new'[u]
                 /\ ~pending'[new'[u]] /\ state'[new'[u]] # "CONNECTED"
                 /\ \A v \in Threads :
                      pc'[v] \in ClosePc /\ arg'[v] = handle'[new'[u]] =>
                        \/ v \in Loops /\ ret'[v] = "t_closed"
                        \/ pc'[v] = "k_get" /\ conns'[arg'[v]] = None
      <4>1. pc[u] \in AddPc /\ new[u] \in Conns /\ handle[new[u]] \in Handles
        BY <3>1, <3>2 DEF AddPc, ConnectLocals, ConnectPc
      <4>2. /\ told'[handle[new[u]]] # "connected"
            /\ \A k \in Loops :
                 cur'[k].conn # new[u] /\ \A e \in batch'[k] : e.conn # new[u]
        BY <3>1, <4>1 DEF NotYet
      <4>3. /\ \A f \in Fds : reg'[f].ptr # new[u]
            /\ ~pending'[new[u]] /\ state'[new[u]] # "CONNECTED"
        BY <3>1, <4>1 DEF NotYet, NoReg
      <4>4. \A v \in Threads :
              pc'[v] \in ClosePc /\ arg'[v] = handle[new[u]] =>
                \/ v \in Loops /\ ret'[v] = "t_closed"
                \/ pc'[v] = "k_get" /\ conns'[arg'[v]] = None
        BY <3>1, <4>1 DEF NotYet, ClosePc
      <4>5. QED
        BY <3>1, <4>2, <4>3, <4>4
    <3>3. QED
      BY <3>2 DEF NotYet
  <2>7. QED
    BY <1>7, <2>1, <2>2, <2>3, <2>4, <2>5, <2>6 DEF CloseStep
<1>8. ASSUME NEW t \in Threads, StatusStep(t) PROVE  NotYet'
  <2>1. CASE StatusRead(t)
    BY <2>1, LoopsAreThreads, <1>a
      DEF StatusRead, TypeOK, NotYet, AddPc, ClosePc, Goto, ConnectPc
  <2>2. CASE StatusReturn(t)
    BY <2>2, LoopsAreThreads, <1>a
      DEF StatusReturn, Home, TypeOK, NotYet, AddPc, ClosePc, Goto, ConnectPc
  <2>3. QED
    BY <1>8, <2>1, <2>2 DEF StatusStep
<1>9. ASSUME NEW t \in Threads, CallRelease(t) PROVE  NotYet'
  <2>1. /\ \A c \in Conns : pending'[c] => pending[c]
        /\ \A f \in Fds : reg'[f] \in {reg[f], NoReg}
        /\ \A u \in Threads : u # t => pc'[u] = pc[u] /\ arg'[u] = arg[u] /\ ret'[u] = ret[u]
        /\ pc'[t] \notin AddPc \cup ClosePc
        /\ UNCHANGED <<new, handle, told, cur, batch, state, conns>>
    BY ZenonT(60), <1>9, LoopsAreThreads
      DEF CallRelease, CallEnd, Release, Destroy, CloseFds, ClosePc, TypeOK,
          AddPc, Goto
  <2>2. ASSUME NEW u \in Threads, pc'[u] \in AddPc
        PROVE  /\ told'[handle'[new'[u]]] # "connected"
               /\ \A k \in Loops :
                    cur'[k].conn # new'[u] /\ \A e \in batch'[k] : e.conn # new'[u]
               /\ \A f \in Fds : reg'[f].ptr # new'[u]
               /\ ~pending'[new'[u]] /\ state'[new'[u]] # "CONNECTED"
               /\ \A v \in Threads :
                    pc'[v] \in ClosePc /\ arg'[v] = handle'[new'[u]] =>
                      \/ v \in Loops /\ ret'[v] = "t_closed"
                      \/ pc'[v] = "k_get" /\ conns'[arg'[v]] = None
    <3>1. pc[u] \in AddPc /\ new[u] \in Conns /\ handle[new[u]] \in Handles
      BY <2>1, <2>2 DEF AddPc, ConnectLocals, ConnectPc
    <3>2. /\ told'[handle[new[u]]] # "connected"
          /\ \A k \in Loops :
               cur'[k].conn # new[u] /\ \A e \in batch'[k] : e.conn # new[u]
      BY <2>1, <3>1 DEF NotYet
    <3>3. /\ \A f \in Fds : reg'[f].ptr # new[u]
          /\ ~pending'[new[u]] /\ state'[new[u]] # "CONNECTED"
      BY <2>1, <3>1 DEF NotYet, NoReg
    <3>4. \A v \in Threads :
            pc'[v] \in ClosePc /\ arg'[v] = handle[new[u]] =>
              \/ v \in Loops /\ ret'[v] = "t_closed"
              \/ pc'[v] = "k_get" /\ conns'[arg'[v]] = None
      BY <2>1, <3>1 DEF NotYet
    <3>5. QED
      BY <2>1, <3>2, <3>3, <3>4
  <2>3. QED
    BY <2>2 DEF NotYet
<1>10. ASSUME NEW l \in Loops, RoundStep(l) PROVE  NotYet'
  <2>1. CASE GetEvents(l)
    <3>1. /\ pc[l] = "wait" /\ pc' = [pc EXCEPT ![l] = "next"]
          /\ \A k \in Loops : \A e \in batch'[k] :
               e \in batch[k] \/ \E f \in Fds : e.conn = reg[f].ptr
          /\ UNCHANGED <<new, handle, arg, ret, told, cur, reg, pending, state, conns>>
      BY <2>1, LoopsAreThreads DEF GetEvents, Ready, TypeOK, AddPc, Goto
    <3>2. ASSUME NEW u \in Threads, pc'[u] \in AddPc
          PROVE  /\ told'[handle'[new'[u]]] # "connected"
                 /\ \A k \in Loops :
                      cur'[k].conn # new'[u] /\ \A e \in batch'[k] : e.conn # new'[u]
                 /\ \A f \in Fds : reg'[f].ptr # new'[u]
                 /\ ~pending'[new'[u]] /\ state'[new'[u]] # "CONNECTED"
                 /\ \A v \in Threads :
                      pc'[v] \in ClosePc /\ arg'[v] = handle'[new'[u]] =>
                        \/ v \in Loops /\ ret'[v] = "t_closed"
                        \/ pc'[v] = "k_get" /\ conns'[arg'[v]] = None
      <4>1. pc[u] \in AddPc /\ new[u] \in Conns /\ handle[new[u]] \in Handles
        BY <3>1, <3>2 DEF AddPc, ConnectLocals, ConnectPc
      <4>2. /\ told'[handle[new[u]]] # "connected"
            /\ \A k \in Loops :
                 cur'[k].conn # new[u] /\ \A e \in batch'[k] : e.conn # new[u]
        BY <3>1, <4>1 DEF NotYet
      <4>3. /\ \A f \in Fds : reg'[f].ptr # new[u]
            /\ ~pending'[new[u]] /\ state'[new[u]] # "CONNECTED"
        BY <3>1, <4>1 DEF NotYet, NoReg
      <4>4. \A v \in Threads :
              pc'[v] \in ClosePc /\ arg'[v] = handle[new[u]] =>
                \/ v \in Loops /\ ret'[v] = "t_closed"
                \/ pc'[v] = "k_get" /\ conns'[arg'[v]] = None
        BY <3>1, <4>1 DEF NotYet, ClosePc
      <4>5. QED
        BY <3>1, <4>2, <4>3, <4>4
    <3>3. QED
      BY <3>2 DEF NotYet
  <2>2. ASSUME NEW e \in batch[l], NextEvent(l, e)
        PROVE  NotYet'
    BY <2>2, LoopsAreThreads, <1>a
      DEF NextEvent, AddRef, TypeOK, NotYet, AddPc, ClosePc, Goto, ConnectPc
  <2>3. CASE ReleaseEvent(l)
    <3>1. /\ \A c \in Conns : pending'[c] => pending[c]
          /\ \A f \in Fds : reg'[f] \in {reg[f], NoReg}
          /\ pc[l] = "unref" /\ pc' = [pc EXCEPT ![l] = "next"]
          /\ \A k \in Loops : cur'[k].conn \in {cur[k].conn, None}
          /\ UNCHANGED <<new, handle, arg, ret, told, batch, state, conns>>
      BY <2>3, LoopsAreThreads
        DEF ReleaseEvent, NoEvent, Release, Destroy, CloseFds, TypeOK, AddPc,
            Goto
    <3>2. ASSUME NEW u \in Threads, pc'[u] \in AddPc
          PROVE  /\ told'[handle'[new'[u]]] # "connected"
                 /\ \A k \in Loops :
                      cur'[k].conn # new'[u] /\ \A e \in batch'[k] : e.conn # new'[u]
                 /\ \A f \in Fds : reg'[f].ptr # new'[u]
                 /\ ~pending'[new'[u]] /\ state'[new'[u]] # "CONNECTED"
                 /\ \A v \in Threads :
                      pc'[v] \in ClosePc /\ arg'[v] = handle'[new'[u]] =>
                        \/ v \in Loops /\ ret'[v] = "t_closed"
                        \/ pc'[v] = "k_get" /\ conns'[arg'[v]] = None
      <4>1. pc[u] \in AddPc /\ new[u] \in Conns /\ handle[new[u]] \in Handles
        BY <3>1, <3>2 DEF AddPc, ConnectLocals, ConnectPc
      <4>2. /\ told'[handle[new[u]]] # "connected"
            /\ \A k \in Loops :
                 cur'[k].conn # new[u] /\ \A e \in batch'[k] : e.conn # new[u]
        BY <3>1, <4>1 DEF NotYet
      <4>3. /\ \A f \in Fds : reg'[f].ptr # new[u]
            /\ ~pending'[new[u]] /\ state'[new[u]] # "CONNECTED"
        BY <3>1, <4>1 DEF NotYet, NoReg
      <4>4. \A v \in Threads :
              pc'[v] \in ClosePc /\ arg'[v] = handle[new[u]] =>
                \/ v \in Loops /\ ret'[v] = "t_closed"
                \/ pc'[v] = "k_get" /\ conns'[arg'[v]] = None
        BY <3>1, <4>1 DEF NotYet, ClosePc
      <4>5. QED
        BY <3>1, <4>2, <4>3, <4>4
    <3>3. QED
      BY <3>2 DEF NotYet
  <2>4. CASE CallbackReturn(l)
    <3>1. /\ \A u \in Threads : u # l => pc'[u] = pc[u]
          /\ pc'[l] \notin AddPc \cup ClosePc
          /\ UNCHANGED <<new, handle, arg, ret, told, cur, batch, reg, pending, state, conns>>
      BY <2>4, LoopsAreThreads DEF CallbackReturn, ClosePc, TypeOK, AddPc, Goto
    <3>2. ASSUME NEW u \in Threads, pc'[u] \in AddPc
          PROVE  /\ told'[handle'[new'[u]]] # "connected"
                 /\ \A k \in Loops :
                      cur'[k].conn # new'[u] /\ \A e \in batch'[k] : e.conn # new'[u]
                 /\ \A f \in Fds : reg'[f].ptr # new'[u]
                 /\ ~pending'[new'[u]] /\ state'[new'[u]] # "CONNECTED"
                 /\ \A v \in Threads :
                      pc'[v] \in ClosePc /\ arg'[v] = handle'[new'[u]] =>
                        \/ v \in Loops /\ ret'[v] = "t_closed"
                        \/ pc'[v] = "k_get" /\ conns'[arg'[v]] = None
      <4>1. pc[u] \in AddPc /\ new[u] \in Conns /\ handle[new[u]] \in Handles
        BY <3>1, <3>2 DEF AddPc, ConnectLocals, ConnectPc
      <4>2. /\ told'[handle[new[u]]] # "connected"
            /\ \A k \in Loops :
                 cur'[k].conn # new[u] /\ \A e \in batch'[k] : e.conn # new[u]
        BY <3>1, <4>1 DEF NotYet
      <4>3. /\ \A f \in Fds : reg'[f].ptr # new[u]
            /\ ~pending'[new[u]] /\ state'[new[u]] # "CONNECTED"
        BY <3>1, <4>1 DEF NotYet, NoReg
      <4>4. \A v \in Threads :
              pc'[v] \in ClosePc /\ arg'[v] = handle[new[u]] =>
                \/ v \in Loops /\ ret'[v] = "t_closed"
                \/ pc'[v] = "k_get" /\ conns'[arg'[v]] = None
        BY <3>1, <4>1 DEF NotYet
      <4>5. QED
        BY <3>1, <4>2, <4>3, <4>4
    <3>3. QED
      BY <3>2 DEF NotYet
  <2>5. QED
    BY <1>10, <2>1, <2>2, <2>3, <2>4 DEF RoundStep
<1>11. ASSUME NEW l \in Loops, ReadStep(l) PROVE  NotYet'
  <2>1. CASE ReadSkip(l) \/ ReadBegin(l) \/ ReadData(l)
    BY <2>1, LoopsAreThreads, <1>a
      DEF ReadSkip, ConnectPc, ReadBegin, ReadData, TypeOK, NotYet, AddPc,
          ClosePc, Goto
  <2>2. CASE ReadBroken(l)
    <3>1. /\ \A u \in Threads : u # l => pc'[u] = pc[u] /\ arg'[u] = arg[u] /\ ret'[u] = ret[u]
          /\ pc'[l] \notin AddPc /\ pc[l] \in EventPc
          /\ pc'[l] \in ClosePc => arg'[l] = handle[cur[l].conn]
          /\ UNCHANGED <<new, handle, told, cur, batch, reg, pending, state, conns>>
      BY <2>2, LoopsAreThreads
        DEF ReadBroken, BeginClose, ClosePc, EventPc, TypeOK, AddPc, Goto
    <3>2. ASSUME NEW u \in Threads, pc'[u] \in AddPc
          PROVE  /\ told'[handle'[new'[u]]] # "connected"
                 /\ \A k \in Loops :
                      cur'[k].conn # new'[u] /\ \A e \in batch'[k] : e.conn # new'[u]
                 /\ \A f \in Fds : reg'[f].ptr # new'[u]
                 /\ ~pending'[new'[u]] /\ state'[new'[u]] # "CONNECTED"
                 /\ \A v \in Threads :
                      pc'[v] \in ClosePc /\ arg'[v] = handle'[new'[u]] =>
                        \/ v \in Loops /\ ret'[v] = "t_closed"
                        \/ pc'[v] = "k_get" /\ conns'[arg'[v]] = None
      <4>1. pc[u] \in AddPc /\ new[u] \in Conns /\ handle[new[u]] \in Handles
        BY <3>1, <3>2 DEF AddPc, ConnectLocals, ConnectPc
      <4>2. /\ told'[handle[new[u]]] # "connected"
            /\ \A k \in Loops :
                 cur'[k].conn # new[u] /\ \A e \in batch'[k] : e.conn # new[u]
        BY <3>1, <4>1 DEF NotYet
      <4>3. /\ \A f \in Fds : reg'[f].ptr # new[u]
            /\ ~pending'[new[u]] /\ state'[new[u]] # "CONNECTED"
        BY <3>1, <4>1 DEF NotYet, NoReg
      <4>4. \A v \in Threads :
              pc'[v] \in ClosePc /\ arg'[v] = handle[new[u]] =>
                \/ v \in Loops /\ ret'[v] = "t_closed"
                \/ pc'[v] = "k_get" /\ conns'[arg'[v]] = None
        BY <3>1, <4>1, LoopHandles, AddHandle DEF NotYet
      <4>5. QED
        BY <3>1, <4>2, <4>3, <4>4
    <3>3. QED
      BY <3>2 DEF NotYet
  <2>3. CASE ReadDone(l)
    <3>1. /\ \A u \in Threads : u # l => pc'[u] = pc[u] /\ arg'[u] = arg[u] /\ ret'[u] = ret[u]
          /\ pc'[l] \notin AddPc /\ pc[l] \in EventPc
          /\ pc'[l] \in ClosePc => arg'[l] = handle[cur[l].conn]
          /\ UNCHANGED <<new, handle, told, cur, batch, reg, pending, state, conns>>
      BY <2>3, LoopsAreThreads
        DEF ReadDone, BeginClose, ClosePc, EventPc, TypeOK, AddPc, Goto
    <3>2. ASSUME NEW u \in Threads, pc'[u] \in AddPc
          PROVE  /\ told'[handle'[new'[u]]] # "connected"
                 /\ \A k \in Loops :
                      cur'[k].conn # new'[u] /\ \A e \in batch'[k] : e.conn # new'[u]
                 /\ \A f \in Fds : reg'[f].ptr # new'[u]
                 /\ ~pending'[new'[u]] /\ state'[new'[u]] # "CONNECTED"
                 /\ \A v \in Threads :
                      pc'[v] \in ClosePc /\ arg'[v] = handle'[new'[u]] =>
                        \/ v \in Loops /\ ret'[v] = "t_closed"
                        \/ pc'[v] = "k_get" /\ conns'[arg'[v]] = None
      <4>1. pc[u] \in AddPc /\ new[u] \in Conns /\ handle[new[u]] \in Handles
        BY <3>1, <3>2 DEF AddPc, ConnectLocals, ConnectPc
      <4>2. /\ told'[handle[new[u]]] # "connected"
            /\ \A k \in Loops :
                 cur'[k].conn # new[u] /\ \A e \in batch'[k] : e.conn # new[u]
        BY <3>1, <4>1 DEF NotYet
      <4>3. /\ \A f \in Fds : reg'[f].ptr # new[u]
            /\ ~pending'[new[u]] /\ state'[new[u]] # "CONNECTED"
        BY <3>1, <4>1 DEF NotYet, NoReg
      <4>4. \A v \in Threads :
              pc'[v] \in ClosePc /\ arg'[v] = handle[new[u]] =>
                \/ v \in Loops /\ ret'[v] = "t_closed"
                \/ pc'[v] = "k_get" /\ conns'[arg'[v]] = None
        BY <3>1, <4>1, LoopHandles, AddHandle DEF NotYet
      <4>5. QED
        BY <3>1, <4>2, <4>3, <4>4
    <3>3. QED
      BY <3>2 DEF NotYet
  <2>4. CASE ReadMore(l)
    BY <2>4, LoopsAreThreads, <1>a
      DEF ReadMore, TypeOK, NotYet, AddPc, ClosePc, Goto, ConnectPc
  <2>5. CASE ReadClosed(l)
    BY <2>5, LoopsAreThreads, <1>a
      DEF ReadClosed, Callback, TypeOK, NotYet, AddPc, ClosePc, Goto, ConnectPc
  <2>6. QED
    BY <1>11, <2>1, <2>2, <2>3, <2>4, <2>5 DEF ReadStep
<1>12. ASSUME NEW l \in Loops, WriteStep(l) PROVE  NotYet'
  <2>1. CASE WriteSkip(l) \/ WriteOutcome(l) \/ WriteConnected(l)
    <3>1. /\ \E label \in {"unref", "w_error", "w_connect"} : pc' = [pc EXCEPT ![l] = label]
          /\ UNCHANGED <<callVars, loopVars, sharedVars>>
      BY <2>1 DEF WriteSkip, WriteOutcome, WriteConnected, Goto
    <3>2. \A u \in Threads : \/ pc'[u] = pc[u]
                             \/ pc'[u] \notin AddPc \cup ClosePc
      BY <3>1, LoopsAreThreads DEF AddPc, ClosePc, TypeOK
    <3>3. QED
      BY <3>1, <3>2 DEF NotYet
  <2>2. CASE OnConnect(l)
    <3>1. /\ pc[l] \in EventPc /\ pc' = [pc EXCEPT ![l] = "cb"]
          /\ \A h \in Handles : h # handle[cur[l].conn] => told'[h] = told[h]
          /\ \A c \in Conns : c # cur[l].conn => state'[c] = state[c]
          /\ UNCHANGED <<new, handle, arg, ret, cur, batch, reg, pending, conns>>
      BY <2>2, LoopsAreThreads
        DEF OnConnect, Callback, EventPc, TypeOK, AddPc, Goto
    <3>2. ASSUME NEW u \in Threads, pc'[u] \in AddPc
          PROVE  /\ told'[handle'[new'[u]]] # "connected"
                 /\ \A k \in Loops :
                      cur'[k].conn # new'[u] /\ \A e \in batch'[k] : e.conn # new'[u]
                 /\ \A f \in Fds : reg'[f].ptr # new'[u]
                 /\ ~pending'[new'[u]] /\ state'[new'[u]] # "CONNECTED"
                 /\ \A v \in Threads :
                      pc'[v] \in ClosePc /\ arg'[v] = handle'[new'[u]] =>
                        \/ v \in Loops /\ ret'[v] = "t_closed"
                        \/ pc'[v] = "k_get" /\ conns'[arg'[v]] = None
      <4>1. pc[u] \in AddPc /\ new[u] \in Conns /\ handle[new[u]] \in Handles
        BY <3>1, <3>2 DEF AddPc, ConnectLocals, ConnectPc
      <4>2. /\ told'[handle[new[u]]] # "connected"
            /\ \A k \in Loops :
                 cur'[k].conn # new[u] /\ \A e \in batch'[k] : e.conn # new[u]
        BY <3>1, <4>1, AddHandle DEF NotYet
      <4>3. /\ \A f \in Fds : reg'[f].ptr # new[u]
            /\ ~pending'[new[u]] /\ state'[new[u]] # "CONNECTED"
        BY <3>1, <4>1, AddHandle DEF NotYet, NoReg
      <4>4. \A v \in Threads :
              pc'[v] \in ClosePc /\ arg'[v] = handle[new[u]] =>
                \/ v \in Loops /\ ret'[v] = "t_closed"
                \/ pc'[v] = "k_get" /\ conns'[arg'[v]] = None
        BY <3>1, <4>1 DEF NotYet, ClosePc
      <4>5. QED
        BY <3>1, <4>2, <4>3, <4>4
    <3>3. QED
      BY <3>2 DEF NotYet
  <2>3. CASE WriteFailed(l)
    <3>1. /\ \A u \in Threads : u # l => pc'[u] = pc[u] /\ arg'[u] = arg[u] /\ ret'[u] = ret[u]
          /\ pc'[l] \notin AddPc /\ pc[l] \in EventPc
          /\ pc'[l] \in ClosePc => arg'[l] = handle[cur[l].conn]
          /\ UNCHANGED <<new, handle, told, cur, batch, reg, pending, state, conns>>
      BY <2>3, LoopsAreThreads
        DEF WriteFailed, BeginClose, ClosePc, EventPc, TypeOK, AddPc, Goto
    <3>2. ASSUME NEW u \in Threads, pc'[u] \in AddPc
          PROVE  /\ told'[handle'[new'[u]]] # "connected"
                 /\ \A k \in Loops :
                      cur'[k].conn # new'[u] /\ \A e \in batch'[k] : e.conn # new'[u]
                 /\ \A f \in Fds : reg'[f].ptr # new'[u]
                 /\ ~pending'[new'[u]] /\ state'[new'[u]] # "CONNECTED"
                 /\ \A v \in Threads :
                      pc'[v] \in ClosePc /\ arg'[v] = handle'[new'[u]] =>
                        \/ v \in Loops /\ ret'[v] = "t_closed"
                        \/ pc'[v] = "k_get" /\ conns'[arg'[v]] = None
      <4>1. pc[u] \in AddPc /\ new[u] \in Conns /\ handle[new[u]] \in Handles
        BY <3>1, <3>2 DEF AddPc, ConnectLocals, ConnectPc
      <4>2. /\ told'[handle[new[u]]] # "connected"
            /\ \A k \in Loops :
                 cur'[k].conn # new[u] /\ \A e \in batch'[k] : e.conn # new[u]
        BY <3>1, <4>1 DEF NotYet
      <4>3. /\ \A f \in Fds : reg'[f].ptr # new[u]
            /\ ~pending'[new[u]] /\ state'[new[u]] # "CONNECTED"
        BY <3>1, <4>1 DEF NotYet, NoReg
      <4>4. \A v \in Threads :
              pc'[v] \in ClosePc /\ arg'[v] = handle[new[u]] =>
                \/ v \in Loops /\ ret'[v] = "t_closed"
                \/ pc'[v] = "k_get" /\ conns'[arg'[v]] = None
        BY <3>1, <4>1, LoopHandles, AddHandle DEF NotYet
      <4>5. QED
        BY <3>1, <4>2, <4>3, <4>4
    <3>3. QED
      BY <3>2 DEF NotYet
  <2>4. CASE WriteClosed(l)
    BY <2>4, LoopsAreThreads, <1>a
      DEF WriteClosed, Callback, TypeOK, NotYet, AddPc, ClosePc, Goto, ConnectPc
  <2>5. CASE WriteBegin(l)
    BY <2>5, LoopsAreThreads, <1>a
      DEF WriteBegin, TypeOK, NotYet, AddPc, ClosePc, Goto, ConnectPc
  <2>6. CASE WriteSome(l)
    BY <2>6, LoopsAreThreads, <1>a
      DEF WriteSome, TypeOK, NotYet, AddPc, ClosePc, Goto, ConnectPc
  <2>7. CASE WriteAll(l)
    BY <2>7, LoopsAreThreads, <1>a
      DEF WriteAll, Lock, TypeOK, NotYet, AddPc, ClosePc, Goto, ConnectPc
  <2>8. CASE WriteSetEvent(l)
    BY <2>8, LoopsAreThreads, <1>a
      DEF WriteSetEvent, CtlMod, TypeOK, NotYet, AddPc, ClosePc, Goto, ConnectPc
  <2>9. QED
    BY <1>12, <2>1, <2>2, <2>3, <2>4, <2>5, <2>6, <2>7, <2>8 DEF WriteStep
<1>13. ASSUME NEW l \in Loops, TimeStep(l) PROVE  NotYet'
  <2>1. CASE TimeSkip(l)
    BY <2>1, LoopsAreThreads, <1>a
      DEF TimeSkip, TypeOK, NotYet, AddPc, ClosePc, Goto, ConnectPc
  <2>2. CASE CheckTimeout(l)
    BY <2>2, LoopsAreThreads, <1>a
      DEF CheckTimeout, TypeOK, NotYet, AddPc, ClosePc, Goto, ConnectPc
  <2>3. CASE TimeoutClose(l)
    BY <2>3, LoopsAreThreads, <1>a
      DEF TimeoutClose, BeginClose, TypeOK, NotYet, AddPc, ClosePc, Goto,
          ConnectPc
  <2>4. CASE TimeoutClosed(l)
    BY <2>4, LoopsAreThreads, <1>a
      DEF TimeoutClosed, Callback, TypeOK, NotYet, AddPc, ClosePc, Goto,
          ConnectPc
  <2>5. CASE Clear(l)
    <3>1. /\ \A c \in Conns : pending'[c] => pending[c]
          /\ \A f \in Fds : reg'[f] \in {reg[f], NoReg}
          /\ pc' = [pc EXCEPT ![l] = "wait"]
          /\ UNCHANGED <<new, handle, arg, ret, told, cur, batch, state, conns>>
      BY <2>5, LoopsAreThreads
        DEF Clear, Release, Destroy, CloseFds, TypeOK, AddPc, Goto
    <3>2. ASSUME NEW u \in Threads, pc'[u] \in AddPc
          PROVE  /\ told'[handle'[new'[u]]] # "connected"
                 /\ \A k \in Loops :
                      cur'[k].conn # new'[u] /\ \A e \in batch'[k] : e.conn # new'[u]
                 /\ \A f \in Fds : reg'[f].ptr # new'[u]
                 /\ ~pending'[new'[u]] /\ state'[new'[u]] # "CONNECTED"
                 /\ \A v \in Threads :
                      pc'[v] \in ClosePc /\ arg'[v] = handle'[new'[u]] =>
                        \/ v \in Loops /\ ret'[v] = "t_closed"
                        \/ pc'[v] = "k_get" /\ conns'[arg'[v]] = None
      <4>1. pc[u] \in AddPc /\ new[u] \in Conns /\ handle[new[u]] \in Handles
        BY <3>1, <3>2 DEF AddPc, ConnectLocals, ConnectPc
      <4>2. /\ told'[handle[new[u]]] # "connected"
            /\ \A k \in Loops :
                 cur'[k].conn # new[u] /\ \A e \in batch'[k] : e.conn # new[u]
        BY <3>1, <4>1 DEF NotYet
      <4>3. /\ \A f \in Fds : reg'[f].ptr # new[u]
            /\ ~pending'[new[u]] /\ state'[new[u]] # "CONNECTED"
        BY <3>1, <4>1 DEF NotYet, NoReg
      <4>4. \A v \in Threads :
              pc'[v] \in ClosePc /\ arg'[v] = handle[new[u]] =>
                \/ v \in Loops /\ ret'[v] = "t_closed"
                \/ pc'[v] = "k_get" /\ conns'[arg'[v]] = None
        BY <3>1, <4>1 DEF NotYet, ClosePc
      <4>5. QED
        BY <3>1, <4>2, <4>3, <4>4
    <3>3. QED
      BY <3>2 DEF NotYet
  <2>6. QED
    BY <1>13, <2>1, <2>2, <2>3, <2>4, <2>5 DEF TimeStep
<1>14. ASSUME NEW c \in Conns, NetStep(c)
      PROVE  NotYet'
  BY <1>14, LoopsAreThreads, <1>a
    DEF NetStep, TypeOK, NotYet, AddPc, ClosePc, Goto, ConnectPc
<1>15. ASSUME NEW c \in Conns, Tick(c)
      PROVE  NotYet'
  BY <1>15, LoopsAreThreads, <1>a
    DEF Tick, TypeOK, NotYet, AddPc, ClosePc, Goto, ConnectPc
<1>16. CASE UNCHANGED vars
  BY <1>16, LoopsAreThreads, <1>a DEF TypeOK, NotYet, AddPc, ClosePc, Goto
<1>17. QED
  BY <1>1, <1>2, <1>3, <1>4, <1>5, <1>6, <1>7, <1>8, <1>9, <1>10, <1>11, <1>12,
     <1>13, <1>14, <1>15, <1>16
    DEF Next, ApiCall, CallStep, LoopStep

----------------------------------------------------------------------------
(* Sockets and descriptors.                                                *)

\* What is in the table after a step is alive after it.
LEMMA OnlineLiveNext ==
  ASSUME Counted', NEW c \in Conns, NEW h \in Handles, conns'[h] = c
  PROVE  life'[c] = "live"
<1>1. Membership'
  BY HeldMember, PTL
<1>2. c \in OwnedConns'
  BY DEF OwnedConns, Owned
<1>3. QED
  BY <1>1, <1>2 DEF Membership, Counted

\* A step keeps sockets to live connections, each to its own.
LEMMA SocketsStep ==
  ASSUME TypeInv, CloseInv, RefInv, [Next]_vars, Counted'
  PROVE  Sockets'
<1> USE DEF TypeInv, CloseInv, RefInv
<1>1. ASSUME NEW t \in Threads, NEW c \in Conns, ConnectNew(t, c)
      PROVE  Sockets'
  BY <1>1, LoopsAreThreads
    DEF ConnectNew, CanCall, TypeOK, Sockets, Online, Goto
<1>2. ASSUME NEW t \in Threads, NEW h \in Handles, SendCall(t, h)
      PROVE  Sockets'
  BY <1>2, LoopsAreThreads
    DEF SendCall, AddRef, CanCall, Home, TypeOK, Sockets, Online, Goto
<1>3. ASSUME NEW t \in Threads, NEW h \in Handles, CloseCall(t, h)
      PROVE  Sockets'
  BY <1>3, LoopsAreThreads
    DEF CloseCall, BeginClose, CanCall, Home, TypeOK, Sockets, Online, Goto
<1>4. ASSUME NEW t \in Threads, NEW h \in Handles, StatusCall(t, h)
      PROVE  Sockets'
  BY <1>4, LoopsAreThreads
    DEF StatusCall, AddRef, CanCall, TypeOK, Sockets, Online, Goto
<1>5. ASSUME NEW t \in Threads, ConnectStep(t) PROVE  Sockets'
  <2>1. CASE MakeHandleStore(t) \/ MakeHandleCheck(t)
    BY <2>1, LoopsAreThreads
      DEF MakeHandleStore, NextHandle, MakeHandleCheck, AddRef, TypeOK, Sockets,
          Online, Goto
  <2>2. CASE MakeHandleNext(t)
    <3>1. /\ \A c \in Conns :
               \/ fd'[c] = fd[c] /\ life'[c] = life[c]
               \/ fd'[c] = NoFd /\ life'[c] = "freed"
          /\ UNCHANGED <<spent, conns>>
      BY <2>2 DEF MakeHandleNext, Release, Destroy, CloseFds, TypeOK
    <3>2. \A c \in Conns : life'[c] = "freed" => ~Online(c)'
      BY OnlineLiveNext DEF Online
    <3>3. QED
      BY <3>1, <3>2 DEF Sockets, Online
  <2>3. CASE MakeHandleReturn(t)
    BY <2>3, LoopsAreThreads DEF MakeHandleReturn, TypeOK, Sockets, Online, Goto
  <2>4. CASE ConnectSocket(t)
    <3>1. /\ Lowest(FreeFds) \in FreeFds /\ FreeFds \subseteq Fds
          /\ FreeFds \cap OpenFds = {}
      BY <2>4, LowestType DEF ConnectSocket, FreeFds
    <3>2. /\ new[t] \in Conns /\ ~Online(new[t]) /\ life[new[t]] = "live"
      BY <2>4, DeadUnused
        DEF ConnectSocket, ConnectLocals, ConnectPc, Private, Creating, Unused
    <3>3. /\ fd' = [fd EXCEPT ![new[t]] = Lowest(FreeFds)]
          /\ spent' = spent \cup {Lowest(FreeFds)}
          /\ UNCHANGED <<conns, life>>
      BY <2>4 DEF ConnectSocket
    <3>4. \A c \in Conns : fd[c] # Lowest(FreeFds)
      BY <3>1 DEF OpenFds, NoFd
    <3>5. QED
      BY <3>1, <3>2, <3>3, <3>4 DEF Sockets, Online, TypeOK
  <2>5. CASE ConnectFail(t)
    <3>1. /\ \A c \in Conns :
               \/ fd'[c] = fd[c] /\ life'[c] = life[c]
               \/ fd'[c] = NoFd /\ life'[c] = "freed"
          /\ UNCHANGED <<spent, conns>>
      BY <2>5 DEF ConnectFail, Delete, Destroy, CloseFds, TypeOK
    <3>2. \A c \in Conns : life'[c] = "freed" => ~Online(c)'
      BY OnlineLiveNext DEF Online
    <3>3. QED
      BY <3>1, <3>2 DEF Sockets, Online
  <2>6. CASE AddConn(t)
    BY <2>6, LoopsAreThreads
      DEF AddConn, TypeOK, Sockets, Online, Goto, Private, Creating,
          ConnectLocals, ConnectPc
  <2>7. CASE AddConnTaken(t)
    <3>1. /\ \A c \in Conns :
               \/ fd'[c] = fd[c] /\ life'[c] = life[c]
               \/ fd'[c] = NoFd /\ life'[c] = "freed"
          /\ UNCHANGED <<spent, conns>>
      BY <2>7 DEF AddConnTaken, Delete, Destroy, CloseFds, TypeOK
    <3>2. \A c \in Conns : life'[c] = "freed" => ~Online(c)'
      BY OnlineLiveNext DEF Online
    <3>3. QED
      BY <3>1, <3>2 DEF Sockets, Online
  <2>8. CASE AddConnLog(t) \/ AddEventFd(t) \/ AddEventCtl(t)
             \/ ConnectReturn(t)
    BY <2>8, LoopsAreThreads
      DEF AddConnLog, Home, AddEventFd, AddEventCtl, CtlAdd, ConnectReturn,
          TypeOK, Sockets, Online, Goto
  <2>9. QED
    BY <1>5, <2>1, <2>2, <2>3, <2>4, <2>5, <2>6, <2>7, <2>8 DEF ConnectStep
<1>6. ASSUME NEW t \in Threads, SendStep(t) PROVE  Sockets'
  BY <1>6, LoopsAreThreads
    DEF SendStep, DeliverRefused, DeliverData, DeliverSetEvent, Lock, CtlMod,
        TypeOK, Sockets, Online, Goto
<1>7. ASSUME NEW t \in Threads, CloseStep(t) PROVE  Sockets'
  <2>1. CASE CloseGet(t) \/ CloseFd(t) \/ CloseRemoveEvent(t)
             \/ CloseRemoveConn(t) \/ ConnCloseState(t)
    BY <2>1, LoopsAreThreads
      DEF CloseGet, AddRef, CallEnd, CloseFd, CloseRemoveEvent, CtlDel,
          CloseRemoveConn, AfterRemove, ConnCloseState, TypeOK, Sockets, Online,
          Goto
  <2>2. CASE ConnCloseSocket(t)
    <3>1. ptr[t] \in Conns /\ ~Online(ptr[t])
      BY <2>2
        DEF ConnCloseSocket, CallLocals, PtrPc, ClosePc, Locals, OneCloser,
            Online
    <3>2. /\ fd' = [c \in Conns |-> IF c = ptr[t] THEN NoFd ELSE fd[c]]
          /\ UNCHANGED <<conns, life, spent>>
      BY <2>2 DEF ConnCloseSocket, CloseFds
    <3>3. QED
      BY <3>1, <3>2 DEF Sockets, Online
  <2>3. QED
    BY <1>7, <2>1, <2>2 DEF CloseStep
<1>8. ASSUME NEW t \in Threads, StatusStep(t) PROVE  Sockets'
  BY <1>8, LoopsAreThreads
    DEF StatusStep, StatusRead, StatusReturn, Home, TypeOK, Sockets, Online,
        Goto
<1>9. ASSUME NEW t \in Threads, CallRelease(t) PROVE  Sockets'
  <2>1. /\ \A c \in Conns :
             \/ fd'[c] = fd[c] /\ life'[c] = life[c]
             \/ fd'[c] = NoFd /\ life'[c] = "freed"
        /\ UNCHANGED <<spent, conns>>
    BY <1>9 DEF CallRelease, Release, Destroy, CloseFds, TypeOK
  <2>2. \A c \in Conns : life'[c] = "freed" => ~Online(c)'
    BY OnlineLiveNext DEF Online
  <2>3. QED
    BY <2>1, <2>2 DEF Sockets, Online
<1>10. ASSUME NEW l \in Loops, RoundStep(l) PROVE  Sockets'
  <2>1. CASE GetEvents(l)
    BY <2>1, LoopsAreThreads DEF GetEvents, TypeOK, Sockets, Online, Goto
  <2>2. ASSUME NEW e \in batch[l], NextEvent(l, e)
        PROVE  Sockets'
    BY <2>2, LoopsAreThreads
      DEF NextEvent, AddRef, TypeOK, Sockets, Online, Goto
  <2>3. CASE ReleaseEvent(l)
    <3>1. /\ \A c \in Conns :
               \/ fd'[c] = fd[c] /\ life'[c] = life[c]
               \/ fd'[c] = NoFd /\ life'[c] = "freed"
          /\ UNCHANGED <<spent, conns>>
      BY <2>3 DEF ReleaseEvent, Release, Destroy, CloseFds, TypeOK
    <3>2. \A c \in Conns : life'[c] = "freed" => ~Online(c)'
      BY OnlineLiveNext DEF Online
    <3>3. QED
      BY <3>1, <3>2 DEF Sockets, Online
  <2>4. CASE CallbackReturn(l)
    BY <2>4, LoopsAreThreads DEF CallbackReturn, TypeOK, Sockets, Online, Goto
  <2>5. QED
    BY <1>10, <2>1, <2>2, <2>3, <2>4 DEF RoundStep
<1>11. ASSUME NEW l \in Loops, ReadStep(l) PROVE  Sockets'
  BY <1>11, LoopsAreThreads
    DEF ReadStep, ReadSkip, ReadBegin, ReadData, ReadBroken, ReadDone, ReadMore,
        ReadClosed, BeginClose, Callback, TypeOK, Sockets, Online, Goto
<1>12. ASSUME NEW l \in Loops, WriteStep(l) PROVE  Sockets'
  BY <1>12, LoopsAreThreads
    DEF WriteStep, WriteSkip, WriteOutcome, WriteConnected, OnConnect,
        WriteFailed, WriteClosed, WriteBegin, WriteSome, WriteAll,
        WriteSetEvent, Callback, BeginClose, Lock, CtlMod, TypeOK, Sockets,
        Online, Goto
<1>13. ASSUME NEW l \in Loops, TimeStep(l) PROVE  Sockets'
  <2>1. CASE TimeSkip(l) \/ CheckTimeout(l) \/ TimeoutClose(l)
             \/ TimeoutClosed(l)
    BY <2>1, LoopsAreThreads
      DEF TimeSkip, CheckTimeout, TimeoutClose, BeginClose, TimeoutClosed,
          Callback, TypeOK, Sockets, Online, Goto
  <2>2. CASE Clear(l)
    <3>1. /\ \A c \in Conns :
               \/ fd'[c] = fd[c] /\ life'[c] = life[c]
               \/ fd'[c] = NoFd /\ life'[c] = "freed"
          /\ UNCHANGED <<spent, conns>>
      BY <2>2 DEF Clear, Release, Destroy, CloseFds, TypeOK
    <3>2. \A c \in Conns : life'[c] = "freed" => ~Online(c)'
      BY OnlineLiveNext DEF Online
    <3>3. QED
      BY <3>1, <3>2 DEF Sockets, Online
  <2>3. QED
    BY <1>13, <2>1, <2>2 DEF TimeStep
<1>14. ASSUME NEW c \in Conns, NetStep(c)
      PROVE  Sockets'
  BY <1>14, LoopsAreThreads DEF NetStep, TypeOK, Sockets, Online, Goto
<1>15. ASSUME NEW c \in Conns, Tick(c)
      PROVE  Sockets'
  BY <1>15, LoopsAreThreads DEF Tick, TypeOK, Sockets, Online, Goto
<1>16. CASE UNCHANGED vars
  BY <1>16, LoopsAreThreads DEF TypeOK, Sockets, Online, Goto
<1>17. QED
  BY <1>1, <1>2, <1>3, <1>4, <1>5, <1>6, <1>7, <1>8, <1>9, <1>10, <1>11, <1>12,
     <1>13, <1>14, <1>15, <1>16
    DEF Next, ApiCall, CallStep, LoopStep

LEMMA FreeSubset == FreeFds \in SUBSET Nat /\ FreeFds \subseteq Fds
  BY DEF FreeFds

\* A socket stays where it is.
LEMMA AttachedKept ==
  ASSUME RefInv, UNCHANGED conns,
         \A c \in Conns : fd'[c] # NoFd => fd[c] # NoFd,
         \A u \in Threads : pc[u] = "c_add" => pc'[u] = pc[u] /\ new'[u] = new[u],
         \A u \in Threads : pc[u] \in {"k_state", "k_sock"} =>
           pc'[u] \in {"k_state", "k_sock"} /\ ptr'[u] = ptr[u]
  PROVE  Attached'
<1>1. ASSUME NEW c \in Conns, fd'[c] # NoFd
      PROVE  \/ Online(c)
             \/ \E t \in Threads : \/ pc'[t] = "c_add" /\ new'[t] = c
                                   \/ pc'[t] \in {"k_state", "k_sock"} /\ ptr'[t] = c
  BY <1>1 DEF RefInv, Attached
<1>2. ASSUME NEW c \in Conns PROVE Online(c)' <=> Online(c)
  BY DEF Online
<1>3. QED
  BY <1>1, <1>2 DEF Attached

\* A step keeps track of who will close a socket.
LEMMA AttachedStep ==
  ASSUME TypeInv, CloseInv, RefInv, [Next]_vars
  PROVE  Attached'
<1> USE DEF TypeInv, CloseInv, RefInv
<1>1. ASSUME NEW t \in Threads, NEW n \in Conns, ConnectNew(t, n)
      PROVE  Attached'
  <2>1. /\ UNCHANGED conns
        /\ \A c \in Conns : fd'[c] # NoFd => fd[c] # NoFd
        /\ \A u \in Threads : pc[u] = "c_add" => pc'[u] = pc[u] /\ new'[u] = new[u]
        /\ \A u \in Threads : pc[u] \in {"k_state", "k_sock"} =>
             pc'[u] \in {"k_state", "k_sock"} /\ ptr'[u] = ptr[u]
    BY <1>1 DEF ConnectNew, CanCall, TypeOK, Goto
  <2>2. QED
    BY <2>1, AttachedKept
<1>2. ASSUME NEW t \in Threads, NEW h \in Handles, SendCall(t, h)
      PROVE  Attached'
  <2>1. /\ UNCHANGED conns
        /\ \A c \in Conns : fd'[c] # NoFd => fd[c] # NoFd
        /\ \A u \in Threads : pc[u] = "c_add" => pc'[u] = pc[u] /\ new'[u] = new[u]
        /\ \A u \in Threads : pc[u] \in {"k_state", "k_sock"} =>
             pc'[u] \in {"k_state", "k_sock"} /\ ptr'[u] = ptr[u]
    BY <1>2 DEF SendCall, AddRef, CanCall, Home, TypeOK, Goto
  <2>2. QED
    BY <2>1, AttachedKept
<1>3. ASSUME NEW t \in Threads, NEW h \in Handles, CloseCall(t, h)
      PROVE  Attached'
  <2>1. /\ UNCHANGED conns
        /\ \A c \in Conns : fd'[c] # NoFd => fd[c] # NoFd
        /\ \A u \in Threads : pc[u] = "c_add" => pc'[u] = pc[u] /\ new'[u] = new[u]
        /\ \A u \in Threads : pc[u] \in {"k_state", "k_sock"} =>
             pc'[u] \in {"k_state", "k_sock"} /\ ptr'[u] = ptr[u]
    BY <1>3 DEF CloseCall, BeginClose, CanCall, Home, TypeOK, Goto
  <2>2. QED
    BY <2>1, AttachedKept
<1>4. ASSUME NEW t \in Threads, NEW h \in Handles, StatusCall(t, h)
      PROVE  Attached'
  <2>1. /\ UNCHANGED conns
        /\ \A c \in Conns : fd'[c] # NoFd => fd[c] # NoFd
        /\ \A u \in Threads : pc[u] = "c_add" => pc'[u] = pc[u] /\ new'[u] = new[u]
        /\ \A u \in Threads : pc[u] \in {"k_state", "k_sock"} =>
             pc'[u] \in {"k_state", "k_sock"} /\ ptr'[u] = ptr[u]
    BY <1>4 DEF StatusCall, AddRef, CanCall, TypeOK, Goto
  <2>2. QED
    BY <2>1, AttachedKept
<1>5. ASSUME NEW t \in Threads, ConnectStep(t) PROVE  Attached'
  <2>1. CASE MakeHandleStore(t) \/ MakeHandleCheck(t)
    <3>1. /\ UNCHANGED conns
          /\ \A c \in Conns : fd'[c] # NoFd => fd[c] # NoFd
          /\ \A u \in Threads : pc[u] = "c_add" => pc'[u] = pc[u] /\ new'[u] = new[u]
          /\ \A u \in Threads : pc[u] \in {"k_state", "k_sock"} =>
               pc'[u] \in {"k_state", "k_sock"} /\ ptr'[u] = ptr[u]
      BY <2>1
        DEF MakeHandleStore, NextHandle, MakeHandleCheck, AddRef, TypeOK, Goto
    <3>2. QED
      BY <3>1, AttachedKept
  <2>2. CASE MakeHandleNext(t)
    <3>1. /\ UNCHANGED conns
          /\ \A c \in Conns : fd'[c] # NoFd => fd[c] # NoFd
          /\ \A u \in Threads : pc[u] = "c_add" => pc'[u] = pc[u] /\ new'[u] = new[u]
          /\ \A u \in Threads : pc[u] \in {"k_state", "k_sock"} =>
               pc'[u] \in {"k_state", "k_sock"} /\ ptr'[u] = ptr[u]
      BY <2>2
        DEF MakeHandleNext, NextHandle, Release, Destroy, CloseFds, TypeOK, Goto
    <3>2. QED
      BY <3>1, AttachedKept
  <2>3. CASE MakeHandleReturn(t)
    <3>1. /\ UNCHANGED conns
          /\ \A c \in Conns : fd'[c] # NoFd => fd[c] # NoFd
          /\ \A u \in Threads : pc[u] = "c_add" => pc'[u] = pc[u] /\ new'[u] = new[u]
          /\ \A u \in Threads : pc[u] \in {"k_state", "k_sock"} =>
               pc'[u] \in {"k_state", "k_sock"} /\ ptr'[u] = ptr[u]
      BY <2>3 DEF MakeHandleReturn, TypeOK, Goto
    <3>2. QED
      BY <3>1, AttachedKept
  <2>4. CASE ConnectSocket(t)
    <3>1. /\ pc[t] = "c_connect" /\ pc' = [pc EXCEPT ![t] = "c_add"]
          /\ \E f \in Fds \cup {NoFd} : fd' = [fd EXCEPT ![new[t]] = f]
          /\ UNCHANGED <<conns, new, ptr>>
      BY <2>4, LowestType, FreeSubset DEF ConnectSocket, FreeFds, Goto
    <3>2. ASSUME NEW c \in Conns, fd'[c] # NoFd
          PROVE  \/ \E h \in Handles : conns'[h] = c
                 \/ \E u \in Threads : \/ pc'[u] = "c_add" /\ new'[u] = c
                                       \/ pc'[u] \in {"k_state", "k_sock"} /\ ptr'[u] = c
      <4>1. CASE c = new[t]
        BY <3>1, <4>1 DEF TypeOK
      <4>2. CASE c # new[t]
        BY SMTT(30), <3>1, <3>2, <4>2 DEF TypeOK, Attached, Online
      <4>3. QED
        BY <4>1, <4>2
    <3>3. QED
      BY <3>2 DEF Attached, Online
  <2>5. CASE ConnectFail(t)
    <3>1. /\ UNCHANGED conns
          /\ \A c \in Conns : fd'[c] # NoFd => fd[c] # NoFd
          /\ \A u \in Threads : pc[u] = "c_add" => pc'[u] = pc[u] /\ new'[u] = new[u]
          /\ \A u \in Threads : pc[u] \in {"k_state", "k_sock"} =>
               pc'[u] \in {"k_state", "k_sock"} /\ ptr'[u] = ptr[u]
      BY <2>5 DEF ConnectFail, Delete, Destroy, CloseFds, Home, TypeOK, Goto
    <3>2. QED
      BY <3>1, AttachedKept
  <2>6. CASE AddConn(t)
    <3>1. /\ pc[t] = "c_add" /\ pc' = [pc EXCEPT ![t] = "c_getfd"]
          /\ conns[handle[new[t]]] = None
          /\ conns' = [conns EXCEPT ![handle[new[t]]] = new[t]]
          /\ UNCHANGED <<fd, new, ptr>>
      BY <2>6 DEF AddConn, Goto
    <3>2. ASSUME NEW c \in Conns, fd'[c] # NoFd
          PROVE  \/ \E h \in Handles : conns'[h] = c
                 \/ \E u \in Threads : \/ pc'[u] = "c_add" /\ new'[u] = c
                                       \/ pc'[u] \in {"k_state", "k_sock"} /\ ptr'[u] = c
      <4>1. handle[new[t]] \in Handles
        BY <3>1 DEF ConnectLocals
      <4>2. CASE c = new[t]
        BY <3>1, <4>1, <4>2 DEF TypeOK
      <4>3. CASE c # new[t]
        BY <3>1, <3>2, <4>1, <4>3 DEF TypeOK, Attached, Online
      <4>4. QED
        BY <4>2, <4>3
    <3>3. QED
      BY <3>2 DEF Attached, Online
  <2>7. CASE AddConnTaken(t)
    <3>1. /\ pc[t] = "c_add" /\ pc' = [pc EXCEPT ![t] = "c_dup"]
          /\ fd' = [c \in Conns |-> IF c \in {new[t]} THEN NoFd ELSE fd[c]]
          /\ UNCHANGED <<conns, new, ptr>>
      BY <2>7 DEF AddConnTaken, Delete, Destroy, CloseFds, Goto
    <3>2. ASSUME NEW c \in Conns, fd'[c] # NoFd
          PROVE  \/ \E h \in Handles : conns'[h] = c
                 \/ \E u \in Threads : \/ pc'[u] = "c_add" /\ new'[u] = c
                                       \/ pc'[u] \in {"k_state", "k_sock"} /\ ptr'[u] = c
      BY <3>1, <3>2 DEF TypeOK, Attached, Online
    <3>3. QED
      BY <3>2 DEF Attached, Online
  <2>8. CASE AddConnLog(t) \/ AddEventFd(t) \/ AddEventCtl(t)
             \/ ConnectReturn(t)
    <3>1. /\ UNCHANGED conns
          /\ \A c \in Conns : fd'[c] # NoFd => fd[c] # NoFd
          /\ \A u \in Threads : pc[u] = "c_add" => pc'[u] = pc[u] /\ new'[u] = new[u]
          /\ \A u \in Threads : pc[u] \in {"k_state", "k_sock"} =>
               pc'[u] \in {"k_state", "k_sock"} /\ ptr'[u] = ptr[u]
      BY <2>8
        DEF AddConnLog, Home, AddEventFd, AddEventCtl, CtlAdd, ConnectReturn,
            TypeOK, Goto
    <3>2. QED
      BY <3>1, AttachedKept
  <2>9. QED
    BY <1>5, <2>1, <2>2, <2>3, <2>4, <2>5, <2>6, <2>7, <2>8 DEF ConnectStep
<1>6. ASSUME NEW t \in Threads, SendStep(t) PROVE  Attached'
  <2>1. CASE DeliverRefused(t) \/ DeliverData(t)
    <3>1. /\ UNCHANGED conns
          /\ \A c \in Conns : fd'[c] # NoFd => fd[c] # NoFd
          /\ \A u \in Threads : pc[u] = "c_add" => pc'[u] = pc[u] /\ new'[u] = new[u]
          /\ \A u \in Threads : pc[u] \in {"k_state", "k_sock"} =>
               pc'[u] \in {"k_state", "k_sock"} /\ ptr'[u] = ptr[u]
      BY <2>1 DEF DeliverRefused, DeliverData, Lock, TypeOK, Goto
    <3>2. QED
      BY <3>1, AttachedKept
  <2>2. CASE DeliverSetEvent(t)
    <3>1. /\ UNCHANGED conns
          /\ \A c \in Conns : fd'[c] # NoFd => fd[c] # NoFd
          /\ \A u \in Threads : pc[u] = "c_add" => pc'[u] = pc[u] /\ new'[u] = new[u]
          /\ \A u \in Threads : pc[u] \in {"k_state", "k_sock"} =>
               pc'[u] \in {"k_state", "k_sock"} /\ ptr'[u] = ptr[u]
      BY <2>2 DEF DeliverSetEvent, CtlMod, TypeOK, Goto
    <3>2. QED
      BY <3>1, AttachedKept
  <2>3. QED
    BY <1>6, <2>1, <2>2 DEF SendStep
<1>7. ASSUME NEW t \in Threads, CloseStep(t) PROVE  Attached'
  <2>1. CASE CloseGet(t) \/ CloseFd(t) \/ CloseRemoveEvent(t)
    <3>1. /\ UNCHANGED conns
          /\ \A c \in Conns : fd'[c] # NoFd => fd[c] # NoFd
          /\ \A u \in Threads : pc[u] = "c_add" => pc'[u] = pc[u] /\ new'[u] = new[u]
          /\ \A u \in Threads : pc[u] \in {"k_state", "k_sock"} =>
               pc'[u] \in {"k_state", "k_sock"} /\ ptr'[u] = ptr[u]
      BY <2>1
        DEF CloseGet, AddRef, CallEnd, CloseFd, CloseRemoveEvent, CtlDel,
            TypeOK, Goto
    <3>2. QED
      BY <3>1, AttachedKept
  <2>2. CASE CloseRemoveConn(t)
    <3>1. /\ pc[t] = "k_remove" /\ pc' = [pc EXCEPT ![t] = AfterRemove(conns[arg[t]] # None)]
          /\ conns' = [conns EXCEPT ![arg[t]] = None] \/ UNCHANGED conns
          /\ conns[arg[t]] # None \/ UNCHANGED conns
          /\ UNCHANGED <<fd, new, ptr>>
      BY <2>2 DEF CloseRemoveConn, Goto
    <3>2. arg[t] \in Handles /\ handle[ptr[t]] = arg[t] /\ ptr[t] \in Conns
      BY <3>1 DEF CallLocals, PtrPc, ClosePc, OneCloser, KillPc
    <3>3. conns[arg[t]] # None => conns[arg[t]] = ptr[t]
      BY <3>2 DEF UniqueHandle, TypeOK, Handles
    <3>4. ASSUME NEW c \in Conns, fd'[c] # NoFd
          PROVE  \/ \E h \in Handles : conns'[h] = c
                 \/ \E u \in Threads : \/ pc'[u] = "c_add" /\ new'[u] = c
                                       \/ pc'[u] \in {"k_state", "k_sock"} /\ ptr'[u] = c
      <4>1. CASE conns[arg[t]] # None /\ c = ptr[t]
        <5>1. pc'[t] = "k_state" /\ ptr'[t] = c
          BY <3>1, <4>1 DEF TypeOK, AfterRemove
        <5>2. QED
          BY <5>1
      <4>2. CASE ~(conns[arg[t]] # None /\ c = ptr[t])
        BY <3>1, <3>2, <3>3, <3>4, <4>2
          DEF TypeOK, Attached, Online, AfterRemove
      <4>3. QED
        BY <4>1, <4>2
    <3>5. QED
      BY <3>4 DEF Attached, Online
  <2>3. CASE ConnCloseState(t)
    <3>1. /\ UNCHANGED conns
          /\ \A c \in Conns : fd'[c] # NoFd => fd[c] # NoFd
          /\ \A u \in Threads : pc[u] = "c_add" => pc'[u] = pc[u] /\ new'[u] = new[u]
          /\ \A u \in Threads : pc[u] \in {"k_state", "k_sock"} =>
               pc'[u] \in {"k_state", "k_sock"} /\ ptr'[u] = ptr[u]
      BY <2>3 DEF ConnCloseState, TypeOK, Goto
    <3>2. QED
      BY <3>1, AttachedKept
  <2>4. CASE ConnCloseSocket(t)
    <3>1. /\ pc[t] = "k_sock" /\ pc' = [pc EXCEPT ![t] = "rel"]
          /\ fd' = [c \in Conns |-> IF c \in {ptr[t]} THEN NoFd ELSE fd[c]]
          /\ UNCHANGED <<conns, new, ptr>>
      BY <2>4 DEF ConnCloseSocket, CloseFds, Goto
    <3>2. ASSUME NEW c \in Conns, fd'[c] # NoFd
          PROVE  \/ \E h \in Handles : conns'[h] = c
                 \/ \E u \in Threads : \/ pc'[u] = "c_add" /\ new'[u] = c
                                       \/ pc'[u] \in {"k_state", "k_sock"} /\ ptr'[u] = c
      BY <3>1, <3>2 DEF TypeOK, Attached, Online
    <3>3. QED
      BY <3>2 DEF Attached, Online
  <2>5. QED
    BY <1>7, <2>1, <2>2, <2>3, <2>4 DEF CloseStep
<1>8. ASSUME NEW t \in Threads, StatusStep(t) PROVE  Attached'
  <2>1. CASE StatusRead(t) \/ StatusReturn(t)
    <3>1. /\ UNCHANGED conns
          /\ \A c \in Conns : fd'[c] # NoFd => fd[c] # NoFd
          /\ \A u \in Threads : pc[u] = "c_add" => pc'[u] = pc[u] /\ new'[u] = new[u]
          /\ \A u \in Threads : pc[u] \in {"k_state", "k_sock"} =>
               pc'[u] \in {"k_state", "k_sock"} /\ ptr'[u] = ptr[u]
      BY <2>1 DEF StatusRead, StatusReturn, Home, TypeOK, Goto
    <3>2. QED
      BY <3>1, AttachedKept
  <2>2. QED
    BY <1>8, <2>1 DEF StatusStep
<1>9. ASSUME NEW t \in Threads, CallRelease(t) PROVE  Attached'
  <2>1. /\ UNCHANGED conns
        /\ \A c \in Conns : fd'[c] # NoFd => fd[c] # NoFd
        /\ \A u \in Threads : pc[u] = "c_add" => pc'[u] = pc[u] /\ new'[u] = new[u]
        /\ \A u \in Threads : pc[u] \in {"k_state", "k_sock"} =>
             pc'[u] \in {"k_state", "k_sock"} /\ ptr'[u] = ptr[u]
    BY <1>9 DEF CallRelease, Release, Destroy, CloseFds, CallEnd, TypeOK, Goto
  <2>2. QED
    BY <2>1, AttachedKept
<1>10. ASSUME NEW l \in Loops, RoundStep(l) PROVE  Attached'
  <2>1. CASE GetEvents(l)
    <3>1. /\ UNCHANGED conns
          /\ \A c \in Conns : fd'[c] # NoFd => fd[c] # NoFd
          /\ \A u \in Threads : pc[u] = "c_add" => pc'[u] = pc[u] /\ new'[u] = new[u]
          /\ \A u \in Threads : pc[u] \in {"k_state", "k_sock"} =>
               pc'[u] \in {"k_state", "k_sock"} /\ ptr'[u] = ptr[u]
      BY <2>1, LoopsAreThreads DEF GetEvents, TypeOK, Goto
    <3>2. QED
      BY <3>1, AttachedKept
  <2>2. ASSUME NEW e \in batch[l], NextEvent(l, e)
        PROVE  Attached'
    <3>1. /\ UNCHANGED conns
          /\ \A c \in Conns : fd'[c] # NoFd => fd[c] # NoFd
          /\ \A u \in Threads : pc[u] = "c_add" => pc'[u] = pc[u] /\ new'[u] = new[u]
          /\ \A u \in Threads : pc[u] \in {"k_state", "k_sock"} =>
               pc'[u] \in {"k_state", "k_sock"} /\ ptr'[u] = ptr[u]
      BY <2>2, LoopsAreThreads DEF NextEvent, AddRef, TypeOK, Goto
    <3>2. QED
      BY <3>1, AttachedKept
  <2>3. CASE ReleaseEvent(l)
    <3>1. /\ UNCHANGED conns
          /\ \A c \in Conns : fd'[c] # NoFd => fd[c] # NoFd
          /\ \A u \in Threads : pc[u] = "c_add" => pc'[u] = pc[u] /\ new'[u] = new[u]
          /\ \A u \in Threads : pc[u] \in {"k_state", "k_sock"} =>
               pc'[u] \in {"k_state", "k_sock"} /\ ptr'[u] = ptr[u]
      BY <2>3, LoopsAreThreads
        DEF ReleaseEvent, Release, Destroy, CloseFds, TypeOK, Goto
    <3>2. QED
      BY <3>1, AttachedKept
  <2>4. CASE CallbackReturn(l)
    <3>1. /\ UNCHANGED conns
          /\ \A c \in Conns : fd'[c] # NoFd => fd[c] # NoFd
          /\ \A u \in Threads : pc[u] = "c_add" => pc'[u] = pc[u] /\ new'[u] = new[u]
          /\ \A u \in Threads : pc[u] \in {"k_state", "k_sock"} =>
               pc'[u] \in {"k_state", "k_sock"} /\ ptr'[u] = ptr[u]
      BY <2>4, LoopsAreThreads DEF CallbackReturn, TypeOK, Goto
    <3>2. QED
      BY <3>1, AttachedKept
  <2>5. QED
    BY <1>10, <2>1, <2>2, <2>3, <2>4 DEF RoundStep
<1>11. ASSUME NEW l \in Loops, ReadStep(l) PROVE  Attached'
  <2>1. CASE ReadSkip(l) \/ ReadBegin(l) \/ ReadData(l) \/ ReadBroken(l)
             \/ ReadDone(l) \/ ReadMore(l)
    <3>1. /\ UNCHANGED conns
          /\ \A c \in Conns : fd'[c] # NoFd => fd[c] # NoFd
          /\ \A u \in Threads : pc[u] = "c_add" => pc'[u] = pc[u] /\ new'[u] = new[u]
          /\ \A u \in Threads : pc[u] \in {"k_state", "k_sock"} =>
               pc'[u] \in {"k_state", "k_sock"} /\ ptr'[u] = ptr[u]
      BY <2>1, LoopsAreThreads
        DEF ReadSkip, ReadBegin, ReadData, ReadBroken, BeginClose, ReadDone,
            ReadMore, TypeOK, Goto
    <3>2. QED
      BY <3>1, AttachedKept
  <2>2. CASE ReadClosed(l)
    <3>1. /\ UNCHANGED conns
          /\ \A c \in Conns : fd'[c] # NoFd => fd[c] # NoFd
          /\ \A u \in Threads : pc[u] = "c_add" => pc'[u] = pc[u] /\ new'[u] = new[u]
          /\ \A u \in Threads : pc[u] \in {"k_state", "k_sock"} =>
               pc'[u] \in {"k_state", "k_sock"} /\ ptr'[u] = ptr[u]
      BY <2>2, LoopsAreThreads DEF ReadClosed, Callback, TypeOK, Goto
    <3>2. QED
      BY <3>1, AttachedKept
  <2>3. QED
    BY <1>11, <2>1, <2>2 DEF ReadStep
<1>12. ASSUME NEW l \in Loops, WriteStep(l) PROVE  Attached'
  <2>1. CASE WriteSkip(l) \/ WriteOutcome(l) \/ WriteConnected(l)
             \/ OnConnect(l) \/ WriteFailed(l) \/ WriteClosed(l)
    <3>1. /\ UNCHANGED conns
          /\ \A c \in Conns : fd'[c] # NoFd => fd[c] # NoFd
          /\ \A u \in Threads : pc[u] = "c_add" => pc'[u] = pc[u] /\ new'[u] = new[u]
          /\ \A u \in Threads : pc[u] \in {"k_state", "k_sock"} =>
               pc'[u] \in {"k_state", "k_sock"} /\ ptr'[u] = ptr[u]
      BY <2>1, LoopsAreThreads
        DEF WriteSkip, WriteOutcome, WriteConnected, OnConnect, Callback,
            WriteFailed, BeginClose, WriteClosed, TypeOK, Goto
    <3>2. QED
      BY <3>1, AttachedKept
  <2>2. CASE WriteBegin(l) \/ WriteSome(l) \/ WriteAll(l)
    <3>1. /\ UNCHANGED conns
          /\ \A c \in Conns : fd'[c] # NoFd => fd[c] # NoFd
          /\ \A u \in Threads : pc[u] = "c_add" => pc'[u] = pc[u] /\ new'[u] = new[u]
          /\ \A u \in Threads : pc[u] \in {"k_state", "k_sock"} =>
               pc'[u] \in {"k_state", "k_sock"} /\ ptr'[u] = ptr[u]
      BY <2>2, LoopsAreThreads
        DEF WriteBegin, WriteSome, WriteAll, Lock, TypeOK, Goto
    <3>2. QED
      BY <3>1, AttachedKept
  <2>3. CASE WriteSetEvent(l)
    <3>1. /\ UNCHANGED conns
          /\ \A c \in Conns : fd'[c] # NoFd => fd[c] # NoFd
          /\ \A u \in Threads : pc[u] = "c_add" => pc'[u] = pc[u] /\ new'[u] = new[u]
          /\ \A u \in Threads : pc[u] \in {"k_state", "k_sock"} =>
               pc'[u] \in {"k_state", "k_sock"} /\ ptr'[u] = ptr[u]
      BY <2>3, LoopsAreThreads DEF WriteSetEvent, CtlMod, TypeOK, Goto
    <3>2. QED
      BY <3>1, AttachedKept
  <2>4. QED
    BY <1>12, <2>1, <2>2, <2>3 DEF WriteStep
<1>13. ASSUME NEW l \in Loops, TimeStep(l) PROVE  Attached'
  <2>1. CASE TimeSkip(l) \/ CheckTimeout(l) \/ TimeoutClose(l)
             \/ TimeoutClosed(l)
    <3>1. /\ UNCHANGED conns
          /\ \A c \in Conns : fd'[c] # NoFd => fd[c] # NoFd
          /\ \A u \in Threads : pc[u] = "c_add" => pc'[u] = pc[u] /\ new'[u] = new[u]
          /\ \A u \in Threads : pc[u] \in {"k_state", "k_sock"} =>
               pc'[u] \in {"k_state", "k_sock"} /\ ptr'[u] = ptr[u]
      BY <2>1, LoopsAreThreads
        DEF TimeSkip, CheckTimeout, TimeoutClose, BeginClose, TimeoutClosed,
            Callback, TypeOK, Goto
    <3>2. QED
      BY <3>1, AttachedKept
  <2>2. CASE Clear(l)
    <3>1. /\ UNCHANGED conns
          /\ \A c \in Conns : fd'[c] # NoFd => fd[c] # NoFd
          /\ \A u \in Threads : pc[u] = "c_add" => pc'[u] = pc[u] /\ new'[u] = new[u]
          /\ \A u \in Threads : pc[u] \in {"k_state", "k_sock"} =>
               pc'[u] \in {"k_state", "k_sock"} /\ ptr'[u] = ptr[u]
      BY <2>2, LoopsAreThreads
        DEF Clear, Release, Destroy, CloseFds, TypeOK, Goto
    <3>2. QED
      BY <3>1, AttachedKept
  <2>3. QED
    BY <1>13, <2>1, <2>2 DEF TimeStep
<1>14. ASSUME NEW n \in Conns, NetStep(n)
      PROVE  Attached'
  <2>1. /\ UNCHANGED conns
        /\ \A c \in Conns : fd'[c] # NoFd => fd[c] # NoFd
        /\ \A u \in Threads : pc[u] = "c_add" => pc'[u] = pc[u] /\ new'[u] = new[u]
        /\ \A u \in Threads : pc[u] \in {"k_state", "k_sock"} =>
             pc'[u] \in {"k_state", "k_sock"} /\ ptr'[u] = ptr[u]
    BY <1>14 DEF NetStep, TypeOK, Goto
  <2>2. QED
    BY <2>1, AttachedKept
<1>15. ASSUME NEW n \in Conns, Tick(n)
      PROVE  Attached'
  <2>1. /\ UNCHANGED conns
        /\ \A c \in Conns : fd'[c] # NoFd => fd[c] # NoFd
        /\ \A u \in Threads : pc[u] = "c_add" => pc'[u] = pc[u] /\ new'[u] = new[u]
        /\ \A u \in Threads : pc[u] \in {"k_state", "k_sock"} =>
             pc'[u] \in {"k_state", "k_sock"} /\ ptr'[u] = ptr[u]
    BY <1>15 DEF Tick, TypeOK, Goto
  <2>2. QED
    BY <2>1, AttachedKept
<1>16. CASE UNCHANGED vars
  BY <1>16 DEF Attached, Online
<1>17. QED
  BY <1>1, <1>2, <1>3, <1>4, <1>5, <1>6, <1>7, <1>8, <1>9, <1>10, <1>11, <1>12,
     <1>13, <1>14, <1>15, <1>16
    DEF Next, ApiCall, CallStep, LoopStep

\* Who is where, at a descriptor it has read.
LEMMA TargetType ==
  ASSUME TypeInv, RefInv
  PROVE  \A t \in Threads : pc[t] \in CtlPc =>
           /\ Target(t) \in Conns
           /\ pc[t] = "w_ctl" => t \in Loops
<1> USE DEF TypeInv, RefInv
<1>1. ASSUME NEW t \in Threads, pc[t] = "w_ctl"
      PROVE  t \in Loops /\ cur[t].conn \in Conns
  BY <1>1 DEF Places, LoopPc, LoopLocals, EventPc, Event
<1>2. QED
  BY <1>1
    DEF Target, CtlPc, ConnectLocals, ConnectPc, CallLocals, PtrPc, SendPc,
        ClosePc

\* A thread that is about to call epoll_ctl keeps its descriptor while sockets
\* are only closed.
LEMMA DescriptorsKept ==
  ASSUME TypeInv, RefInv, UNCHANGED <<tfd, spent>>,
         \A c \in Conns : fd'[c] \in {fd[c], NoFd},
         \A u \in Threads : pc'[u] \in CtlPc <=> pc[u] \in CtlPc,
         \A u \in Threads : pc[u] \in CtlPc =>
           /\ pc'[u] = pc[u] /\ ptr'[u] = ptr[u] /\ new'[u] = new[u]
           /\ u \in Loops => cur'[u] = cur[u]
  PROVE  Descriptors'
<1> USE DEF TypeInv, RefInv
<1>1. ASSUME NEW u \in Threads
      PROVE  /\ tfd'[u] # NoFd => pc'[u] \in CtlPc /\ tfd'[u] \in spent'
             /\ pc'[u] \in CtlPc => fd'[Target(u)'] \in {tfd'[u], NoFd}
             /\ \A c \in Conns : tfd'[u] # NoFd /\ fd'[c] = tfd'[u] => c = Target(u)'
  <2>1. CASE pc[u] \in CtlPc
    <3>1. Target(u)' = Target(u) /\ Target(u) \in Conns
      BY <2>1, TargetType DEF Target
    <3>2. QED
      BY <2>1, <3>1 DEF Descriptors
  <2>2. CASE pc[u] \notin CtlPc
    BY <2>2 DEF Descriptors
  <2>3. QED
    BY <2>1, <2>2
<1>2. QED
  BY <1>1 DEF Descriptors

\* A thread reads the descriptor of its connection.
LEMMA DescriptorRead ==
  ASSUME TypeInv, RefInv, UNCHANGED <<spent, fd, ptr, new, cur>>,
         NEW t \in Threads, pc[t] \notin CtlPc, pc'[t] \in CtlPc,
         Target(t)' \in Conns, tfd' = [tfd EXCEPT ![t] = fd[Target(t)']],
         \A u \in Threads : u # t => pc'[u] = pc[u]
  PROVE  Descriptors'
<1> USE DEF TypeInv, RefInv
<1>1. tfd'[t] = fd[Target(t)'] /\ \A u \in Threads : u # t => tfd'[u] = tfd[u]
  BY DEF TypeOK
<1>2. ASSUME NEW u \in Threads
      PROVE  /\ tfd'[u] # NoFd => pc'[u] \in CtlPc /\ tfd'[u] \in spent'
             /\ pc'[u] \in CtlPc => fd'[Target(u)'] \in {tfd'[u], NoFd}
             /\ \A c \in Conns : tfd'[u] # NoFd /\ fd'[c] = tfd'[u] => c = Target(u)'
  <2>1. CASE u = t
    BY <1>1, <2>1 DEF Sockets
  <2>2. CASE u # t
    <3>1. Target(u)' = Target(u)
      BY <2>2 DEF Target
    <3>2. QED
      BY <1>1, <2>2, <3>1 DEF Descriptors
  <2>3. QED
    BY <2>1, <2>2
<1>3. QED
  BY <1>2 DEF Descriptors

\* It is done with it.
LEMMA DescriptorDone ==
  ASSUME TypeInv, RefInv, UNCHANGED <<spent, fd, ptr, new, cur>>,
         NEW t \in Threads, pc'[t] \notin CtlPc,
         tfd' = [tfd EXCEPT ![t] = NoFd],
         \A u \in Threads : u # t => pc'[u] = pc[u]
  PROVE  Descriptors'
<1> USE DEF TypeInv, RefInv
<1>1. tfd'[t] = NoFd /\ \A u \in Threads : u # t => tfd'[u] = tfd[u]
  BY DEF TypeOK
<1>2. ASSUME NEW u \in Threads
      PROVE  /\ tfd'[u] # NoFd => pc'[u] \in CtlPc /\ tfd'[u] \in spent'
             /\ pc'[u] \in CtlPc => fd'[Target(u)'] \in {tfd'[u], NoFd}
             /\ \A c \in Conns : tfd'[u] # NoFd /\ fd'[c] = tfd'[u] => c = Target(u)'
  <2>1. CASE u = t
    BY <1>1, <2>1
  <2>2. CASE u # t
    <3>1. Target(u)' = Target(u)
      BY <2>2 DEF Target
    <3>2. QED
      BY <1>1, <2>2, <3>1 DEF Descriptors
  <2>3. QED
    BY <2>1, <2>2
<1>3. QED
  BY <1>2 DEF Descriptors

\* A step keeps a descriptor that was read before an epoll_ctl either the
\* connection's or nobody's.
LEMMA DescriptorsStep ==
  ASSUME OneConnector, NoReuse, TypeInv, CloseInv, RefInv, [Next]_vars
  PROVE  Descriptors'
<1> USE DEF TypeInv, CloseInv, RefInv
<1>1. ASSUME NEW t \in Threads, NEW n \in Conns, ConnectNew(t, n)
      PROVE  Descriptors'
  <2>1. /\ UNCHANGED <<tfd, spent>>
        /\ \A c \in Conns : fd'[c] \in {fd[c], NoFd}
        /\ \A u \in Threads : pc'[u] \in CtlPc <=> pc[u] \in CtlPc
        /\ \A u \in Threads : pc[u] \in CtlPc =>
             /\ pc'[u] = pc[u] /\ ptr'[u] = ptr[u] /\ new'[u] = new[u]
             /\ u \in Loops => cur'[u] = cur[u]
    BY <1>1 DEF ConnectNew, CanCall, TypeOK, CtlPc, Goto
  <2>2. QED
    BY <2>1, DescriptorsKept
<1>2. ASSUME NEW t \in Threads, NEW h \in Handles, SendCall(t, h)
      PROVE  Descriptors'
  <2>1. /\ UNCHANGED <<tfd, spent>>
        /\ \A c \in Conns : fd'[c] \in {fd[c], NoFd}
        /\ \A u \in Threads : pc'[u] \in CtlPc <=> pc[u] \in CtlPc
        /\ \A u \in Threads : pc[u] \in CtlPc =>
             /\ pc'[u] = pc[u] /\ ptr'[u] = ptr[u] /\ new'[u] = new[u]
             /\ u \in Loops => cur'[u] = cur[u]
    BY <1>2 DEF SendCall, AddRef, CanCall, Home, TypeOK, CtlPc, Goto
  <2>2. QED
    BY <2>1, DescriptorsKept
<1>3. ASSUME NEW t \in Threads, NEW h \in Handles, CloseCall(t, h)
      PROVE  Descriptors'
  <2>1. /\ UNCHANGED <<tfd, spent>>
        /\ \A c \in Conns : fd'[c] \in {fd[c], NoFd}
        /\ \A u \in Threads : pc'[u] \in CtlPc <=> pc[u] \in CtlPc
        /\ \A u \in Threads : pc[u] \in CtlPc =>
             /\ pc'[u] = pc[u] /\ ptr'[u] = ptr[u] /\ new'[u] = new[u]
             /\ u \in Loops => cur'[u] = cur[u]
    BY <1>3 DEF CloseCall, BeginClose, CanCall, Home, TypeOK, CtlPc, Goto
  <2>2. QED
    BY <2>1, DescriptorsKept
<1>4. ASSUME NEW t \in Threads, NEW h \in Handles, StatusCall(t, h)
      PROVE  Descriptors'
  <2>1. /\ UNCHANGED <<tfd, spent>>
        /\ \A c \in Conns : fd'[c] \in {fd[c], NoFd}
        /\ \A u \in Threads : pc'[u] \in CtlPc <=> pc[u] \in CtlPc
        /\ \A u \in Threads : pc[u] \in CtlPc =>
             /\ pc'[u] = pc[u] /\ ptr'[u] = ptr[u] /\ new'[u] = new[u]
             /\ u \in Loops => cur'[u] = cur[u]
    BY <1>4 DEF StatusCall, AddRef, CanCall, TypeOK, CtlPc, Goto
  <2>2. QED
    BY <2>1, DescriptorsKept
<1>5. ASSUME NEW t \in Threads, ConnectStep(t) PROVE  Descriptors'
  <2>1. CASE MakeHandleStore(t) \/ MakeHandleCheck(t)
    <3>1. /\ UNCHANGED <<tfd, spent>>
          /\ \A c \in Conns : fd'[c] \in {fd[c], NoFd}
          /\ \A u \in Threads : pc'[u] \in CtlPc <=> pc[u] \in CtlPc
          /\ \A u \in Threads : pc[u] \in CtlPc =>
               /\ pc'[u] = pc[u] /\ ptr'[u] = ptr[u] /\ new'[u] = new[u]
               /\ u \in Loops => cur'[u] = cur[u]
      BY <2>1
        DEF MakeHandleStore, NextHandle, MakeHandleCheck, AddRef, TypeOK, CtlPc,
            Goto
    <3>2. QED
      BY <3>1, DescriptorsKept
  <2>2. CASE MakeHandleNext(t)
    <3>1. /\ UNCHANGED <<tfd, spent>>
          /\ \A c \in Conns : fd'[c] \in {fd[c], NoFd}
          /\ \A u \in Threads : pc'[u] \in CtlPc <=> pc[u] \in CtlPc
          /\ \A u \in Threads : pc[u] \in CtlPc =>
               /\ pc'[u] = pc[u] /\ ptr'[u] = ptr[u] /\ new'[u] = new[u]
               /\ u \in Loops => cur'[u] = cur[u]
      BY <2>2
        DEF MakeHandleNext, NextHandle, Release, Destroy, CloseFds, TypeOK,
            CtlPc, Goto
    <3>2. QED
      BY <3>1, DescriptorsKept
  <2>3. CASE MakeHandleReturn(t)
    <3>1. /\ UNCHANGED <<tfd, spent>>
          /\ \A c \in Conns : fd'[c] \in {fd[c], NoFd}
          /\ \A u \in Threads : pc'[u] \in CtlPc <=> pc[u] \in CtlPc
          /\ \A u \in Threads : pc[u] \in CtlPc =>
               /\ pc'[u] = pc[u] /\ ptr'[u] = ptr[u] /\ new'[u] = new[u]
               /\ u \in Loops => cur'[u] = cur[u]
      BY <2>3 DEF MakeHandleReturn, TypeOK, CtlPc, Goto
    <3>2. QED
      BY <3>1, DescriptorsKept
  <2>4. CASE ConnectSocket(t)
    <3>1. /\ Lowest(FreeFds) \in FreeFds /\ FreeFds \subseteq Fds
          /\ FreeFds \cap spent = {}
      BY <2>4, LowestType DEF ConnectSocket, FreeFds, NoReuse
    <3>2. /\ pc[t] = "c_connect" /\ pc' = [pc EXCEPT ![t] = "c_add"]
          /\ fd' = [fd EXCEPT ![new[t]] = Lowest(FreeFds)]
          /\ spent' = spent \cup {Lowest(FreeFds)}
          /\ UNCHANGED <<tfd, ptr, cur, new>>
      BY <2>4 DEF ConnectSocket, Goto
    <3>3. /\ new[t] \in Conns /\ Unused(new[t])
          /\ \A u \in Threads : pc[u] \in ConnectPc => u = t
      BY <3>2, OneSetup DEF ConnectLocals, ConnectPc, Private, Creating
    <3>4. ASSUME NEW u \in Threads
          PROVE  /\ tfd'[u] # NoFd => pc'[u] \in CtlPc /\ tfd'[u] \in spent'
                 /\ pc'[u] \in CtlPc => fd'[Target(u)'] \in {tfd'[u], NoFd}
                 /\ \A c \in Conns : tfd'[u] # NoFd /\ fd'[c] = tfd'[u] => c = Target(u)'
      <4>1. CASE pc[u] \in CtlPc
        <5>1. u # t /\ pc'[u] = pc[u] /\ Target(u)' = Target(u) /\ Target(u) \in Conns
          BY <3>2, <4>1, TargetType DEF Target, CtlPc, TypeOK
        <5>2. Target(u) # new[t]
          BY <3>3, <4>1, <5>1, TargetType DEF Target, ConnectPc, Unused
        <5>3. tfd[u] # NoFd => tfd[u] \in spent
          BY DEF Descriptors
        <5>4. tfd[u] # NoFd => tfd[u] # Lowest(FreeFds)
          BY <3>1, <5>3
        <5>5. \A c \in Conns : fd'[c] = IF c = new[t] THEN Lowest(FreeFds) ELSE fd[c]
          BY <3>2 DEF TypeOK
        <5>6. QED
          BY <3>2, <3>3, <4>1, <5>1, <5>2, <5>4, <5>5 DEF Descriptors
      <4>2. CASE pc[u] \notin CtlPc
        BY <3>2, <4>2 DEF Descriptors, TypeOK, CtlPc
      <4>3. QED
        BY <4>1, <4>2
    <3>5. QED
      BY <3>4 DEF Descriptors
  <2>5. CASE ConnectFail(t)
    <3>1. /\ UNCHANGED <<tfd, spent>>
          /\ \A c \in Conns : fd'[c] \in {fd[c], NoFd}
          /\ \A u \in Threads : pc'[u] \in CtlPc <=> pc[u] \in CtlPc
          /\ \A u \in Threads : pc[u] \in CtlPc =>
               /\ pc'[u] = pc[u] /\ ptr'[u] = ptr[u] /\ new'[u] = new[u]
               /\ u \in Loops => cur'[u] = cur[u]
      BY <2>5
        DEF ConnectFail, Delete, Destroy, CloseFds, Home, TypeOK, CtlPc, Goto
    <3>2. QED
      BY <3>1, DescriptorsKept
  <2>6. CASE AddConn(t)
    <3>1. /\ UNCHANGED <<tfd, spent>>
          /\ \A c \in Conns : fd'[c] \in {fd[c], NoFd}
          /\ \A u \in Threads : pc'[u] \in CtlPc <=> pc[u] \in CtlPc
          /\ \A u \in Threads : pc[u] \in CtlPc =>
               /\ pc'[u] = pc[u] /\ ptr'[u] = ptr[u] /\ new'[u] = new[u]
               /\ u \in Loops => cur'[u] = cur[u]
      BY <2>6 DEF AddConn, TypeOK, CtlPc, Goto
    <3>2. QED
      BY <3>1, DescriptorsKept
  <2>7. CASE AddConnTaken(t)
    <3>1. /\ UNCHANGED <<tfd, spent>>
          /\ \A c \in Conns : fd'[c] \in {fd[c], NoFd}
          /\ \A u \in Threads : pc'[u] \in CtlPc <=> pc[u] \in CtlPc
          /\ \A u \in Threads : pc[u] \in CtlPc =>
               /\ pc'[u] = pc[u] /\ ptr'[u] = ptr[u] /\ new'[u] = new[u]
               /\ u \in Loops => cur'[u] = cur[u]
      BY <2>7 DEF AddConnTaken, Delete, Destroy, CloseFds, TypeOK, CtlPc, Goto
    <3>2. QED
      BY <3>1, DescriptorsKept
  <2>8. CASE AddConnLog(t)
    <3>1. /\ UNCHANGED <<tfd, spent>>
          /\ \A c \in Conns : fd'[c] \in {fd[c], NoFd}
          /\ \A u \in Threads : pc'[u] \in CtlPc <=> pc[u] \in CtlPc
          /\ \A u \in Threads : pc[u] \in CtlPc =>
               /\ pc'[u] = pc[u] /\ ptr'[u] = ptr[u] /\ new'[u] = new[u]
               /\ u \in Loops => cur'[u] = cur[u]
      BY <2>8 DEF AddConnLog, Home, TypeOK, CtlPc, Goto
    <3>2. QED
      BY <3>1, DescriptorsKept
  <2>9. CASE AddEventFd(t)
    <3>1. pc[t] \notin CtlPc /\ pc'[t] \in CtlPc /\ tfd' = [tfd EXCEPT ![t] = fd[Target(t)']] /\ Target(t)' \in Conns
      BY <2>9
        DEF AddEventFd, Target, CtlPc, TypeOK, Goto, ConnectLocals, ConnectPc
    <3>2. UNCHANGED <<spent, fd, ptr, new, cur>> /\ \A u \in Threads : u # t => pc'[u] = pc[u]
      BY <2>9 DEF AddEventFd, TypeOK, Goto
    <3>3. QED
      BY <3>1, <3>2, DescriptorRead
  <2>10. CASE AddEventCtl(t)
    <3>1. /\ UNCHANGED <<spent, fd, ptr, new, cur>> /\ pc'[t] \notin CtlPc
          /\ tfd' = [tfd EXCEPT ![t] = NoFd] /\ \A u \in Threads : u # t => pc'[u] = pc[u]
      BY <2>10 DEF AddEventCtl, CtlAdd, CtlPc, TypeOK, Goto
    <3>2. QED
      BY <3>1, DescriptorDone
  <2>11. CASE ConnectReturn(t)
    <3>1. /\ UNCHANGED <<tfd, spent>>
          /\ \A c \in Conns : fd'[c] \in {fd[c], NoFd}
          /\ \A u \in Threads : pc'[u] \in CtlPc <=> pc[u] \in CtlPc
          /\ \A u \in Threads : pc[u] \in CtlPc =>
               /\ pc'[u] = pc[u] /\ ptr'[u] = ptr[u] /\ new'[u] = new[u]
               /\ u \in Loops => cur'[u] = cur[u]
      BY <2>11 DEF ConnectReturn, Home, TypeOK, CtlPc, Goto
    <3>2. QED
      BY <3>1, DescriptorsKept
  <2>12. QED
    BY <1>5, <2>1, <2>2, <2>3, <2>4, <2>5, <2>6, <2>7, <2>8, <2>9, <2>10, <2>11
      DEF ConnectStep
<1>6. ASSUME NEW t \in Threads, SendStep(t) PROVE  Descriptors'
  <2>1. CASE DeliverRefused(t)
    <3>1. /\ UNCHANGED <<tfd, spent>>
          /\ \A c \in Conns : fd'[c] \in {fd[c], NoFd}
          /\ \A u \in Threads : pc'[u] \in CtlPc <=> pc[u] \in CtlPc
          /\ \A u \in Threads : pc[u] \in CtlPc =>
               /\ pc'[u] = pc[u] /\ ptr'[u] = ptr[u] /\ new'[u] = new[u]
               /\ u \in Loops => cur'[u] = cur[u]
      BY <2>1 DEF DeliverRefused, TypeOK, CtlPc, Goto
    <3>2. QED
      BY <3>1, DescriptorsKept
  <2>2. CASE DeliverData(t)
    <3>1. pc[t] \notin CtlPc /\ pc'[t] \in CtlPc /\ tfd' = [tfd EXCEPT ![t] = fd[Target(t)']] /\ Target(t)' \in Conns
      BY <2>2
        DEF DeliverData, Lock, Target, CtlPc, TypeOK, Goto, CallLocals, PtrPc,
            SendPc
    <3>2. UNCHANGED <<spent, fd, ptr, new, cur>> /\ \A u \in Threads : u # t => pc'[u] = pc[u]
      BY <2>2 DEF DeliverData, Lock, TypeOK, Goto
    <3>3. QED
      BY <3>1, <3>2, DescriptorRead
  <2>3. CASE DeliverSetEvent(t)
    <3>1. /\ UNCHANGED <<spent, fd, ptr, new, cur>> /\ pc'[t] \notin CtlPc
          /\ tfd' = [tfd EXCEPT ![t] = NoFd] /\ \A u \in Threads : u # t => pc'[u] = pc[u]
      BY <2>3 DEF DeliverSetEvent, CtlMod, CtlPc, TypeOK, Goto
    <3>2. QED
      BY <3>1, DescriptorDone
  <2>4. QED
    BY <1>6, <2>1, <2>2, <2>3 DEF SendStep
<1>7. ASSUME NEW t \in Threads, CloseStep(t) PROVE  Descriptors'
  <2>1. CASE CloseGet(t)
    <3>1. /\ UNCHANGED <<tfd, spent>>
          /\ \A c \in Conns : fd'[c] \in {fd[c], NoFd}
          /\ \A u \in Threads : pc'[u] \in CtlPc <=> pc[u] \in CtlPc
          /\ \A u \in Threads : pc[u] \in CtlPc =>
               /\ pc'[u] = pc[u] /\ ptr'[u] = ptr[u] /\ new'[u] = new[u]
               /\ u \in Loops => cur'[u] = cur[u]
      BY SMTT(30), <2>1 DEF CloseGet, AddRef, CallEnd, TypeOK, CtlPc, Goto
    <3>2. QED
      BY <3>1, DescriptorsKept
  <2>2. CASE CloseFd(t)
    <3>1. pc[t] \notin CtlPc /\ pc'[t] \in CtlPc /\ tfd' = [tfd EXCEPT ![t] = fd[Target(t)']] /\ Target(t)' \in Conns
      BY <2>2
        DEF CloseFd, Target, CtlPc, TypeOK, Goto, CallLocals, PtrPc, ClosePc
    <3>2. UNCHANGED <<spent, fd, ptr, new, cur>> /\ \A u \in Threads : u # t => pc'[u] = pc[u]
      BY <2>2 DEF CloseFd, TypeOK, Goto
    <3>3. QED
      BY <3>1, <3>2, DescriptorRead
  <2>3. CASE CloseRemoveEvent(t)
    <3>1. /\ UNCHANGED <<spent, fd, ptr, new, cur>> /\ pc'[t] \notin CtlPc
          /\ tfd' = [tfd EXCEPT ![t] = NoFd] /\ \A u \in Threads : u # t => pc'[u] = pc[u]
      BY <2>3 DEF CloseRemoveEvent, CtlDel, CtlPc, TypeOK, Goto
    <3>2. QED
      BY <3>1, DescriptorDone
  <2>4. CASE CloseRemoveConn(t) \/ ConnCloseState(t)
    <3>1. /\ UNCHANGED <<tfd, spent>>
          /\ \A c \in Conns : fd'[c] \in {fd[c], NoFd}
          /\ \A u \in Threads : pc'[u] \in CtlPc <=> pc[u] \in CtlPc
          /\ \A u \in Threads : pc[u] \in CtlPc =>
               /\ pc'[u] = pc[u] /\ ptr'[u] = ptr[u] /\ new'[u] = new[u]
               /\ u \in Loops => cur'[u] = cur[u]
      BY <2>4
        DEF CloseRemoveConn, AfterRemove, ConnCloseState, TypeOK, CtlPc, Goto
    <3>2. QED
      BY <3>1, DescriptorsKept
  <2>5. CASE ConnCloseSocket(t)
    <3>1. /\ UNCHANGED <<tfd, spent>>
          /\ \A c \in Conns : fd'[c] \in {fd[c], NoFd}
          /\ \A u \in Threads : pc'[u] \in CtlPc <=> pc[u] \in CtlPc
          /\ \A u \in Threads : pc[u] \in CtlPc =>
               /\ pc'[u] = pc[u] /\ ptr'[u] = ptr[u] /\ new'[u] = new[u]
               /\ u \in Loops => cur'[u] = cur[u]
      BY <2>5 DEF ConnCloseSocket, CloseFds, TypeOK, CtlPc, Goto
    <3>2. QED
      BY <3>1, DescriptorsKept
  <2>6. QED
    BY <1>7, <2>1, <2>2, <2>3, <2>4, <2>5 DEF CloseStep
<1>8. ASSUME NEW t \in Threads, StatusStep(t) PROVE  Descriptors'
  <2>1. CASE StatusRead(t) \/ StatusReturn(t)
    <3>1. /\ UNCHANGED <<tfd, spent>>
          /\ \A c \in Conns : fd'[c] \in {fd[c], NoFd}
          /\ \A u \in Threads : pc'[u] \in CtlPc <=> pc[u] \in CtlPc
          /\ \A u \in Threads : pc[u] \in CtlPc =>
               /\ pc'[u] = pc[u] /\ ptr'[u] = ptr[u] /\ new'[u] = new[u]
               /\ u \in Loops => cur'[u] = cur[u]
      BY <2>1 DEF StatusRead, StatusReturn, Home, TypeOK, CtlPc, Goto
    <3>2. QED
      BY <3>1, DescriptorsKept
  <2>2. QED
    BY <1>8, <2>1 DEF StatusStep
<1>9. ASSUME NEW t \in Threads, CallRelease(t) PROVE  Descriptors'
  <2>1. /\ UNCHANGED <<tfd, spent>>
        /\ \A c \in Conns : fd'[c] \in {fd[c], NoFd}
        /\ \A u \in Threads : pc'[u] \in CtlPc <=> pc[u] \in CtlPc
        /\ \A u \in Threads : pc[u] \in CtlPc =>
             /\ pc'[u] = pc[u] /\ ptr'[u] = ptr[u] /\ new'[u] = new[u]
             /\ u \in Loops => cur'[u] = cur[u]
    BY ZenonT(60), <1>9
      DEF CallRelease, Release, Destroy, CloseFds, CallEnd, TypeOK, CtlPc, Goto
  <2>2. QED
    BY <2>1, DescriptorsKept
<1>10. ASSUME NEW l \in Loops, RoundStep(l) PROVE  Descriptors'
  <2>1. CASE GetEvents(l)
    <3>1. /\ UNCHANGED <<tfd, spent>>
          /\ \A c \in Conns : fd'[c] \in {fd[c], NoFd}
          /\ \A u \in Threads : pc'[u] \in CtlPc <=> pc[u] \in CtlPc
          /\ \A u \in Threads : pc[u] \in CtlPc =>
               /\ pc'[u] = pc[u] /\ ptr'[u] = ptr[u] /\ new'[u] = new[u]
               /\ u \in Loops => cur'[u] = cur[u]
      BY <2>1, LoopsAreThreads DEF GetEvents, TypeOK, CtlPc, Goto
    <3>2. QED
      BY <3>1, DescriptorsKept
  <2>2. ASSUME NEW e \in batch[l], NextEvent(l, e)
        PROVE  Descriptors'
    <3>1. /\ UNCHANGED <<tfd, spent>>
          /\ \A c \in Conns : fd'[c] \in {fd[c], NoFd}
          /\ \A u \in Threads : pc'[u] \in CtlPc <=> pc[u] \in CtlPc
          /\ \A u \in Threads : pc[u] \in CtlPc =>
               /\ pc'[u] = pc[u] /\ ptr'[u] = ptr[u] /\ new'[u] = new[u]
               /\ u \in Loops => cur'[u] = cur[u]
      BY <2>2, LoopsAreThreads DEF NextEvent, AddRef, TypeOK, CtlPc, Goto
    <3>2. QED
      BY <3>1, DescriptorsKept
  <2>3. CASE ReleaseEvent(l)
    <3>1. /\ UNCHANGED <<tfd, spent>>
          /\ \A c \in Conns : fd'[c] \in {fd[c], NoFd}
          /\ \A u \in Threads : pc'[u] \in CtlPc <=> pc[u] \in CtlPc
          /\ \A u \in Threads : pc[u] \in CtlPc =>
               /\ pc'[u] = pc[u] /\ ptr'[u] = ptr[u] /\ new'[u] = new[u]
               /\ u \in Loops => cur'[u] = cur[u]
      BY <2>3, LoopsAreThreads
        DEF ReleaseEvent, Release, Destroy, CloseFds, TypeOK, CtlPc, Goto
    <3>2. QED
      BY <3>1, DescriptorsKept
  <2>4. CASE CallbackReturn(l)
    <3>1. /\ UNCHANGED <<tfd, spent>>
          /\ \A c \in Conns : fd'[c] \in {fd[c], NoFd}
          /\ \A u \in Threads : pc'[u] \in CtlPc <=> pc[u] \in CtlPc
          /\ \A u \in Threads : pc[u] \in CtlPc =>
               /\ pc'[u] = pc[u] /\ ptr'[u] = ptr[u] /\ new'[u] = new[u]
               /\ u \in Loops => cur'[u] = cur[u]
      BY ZenonT(60), <2>4, LoopsAreThreads DEF CallbackReturn, TypeOK, CtlPc, Goto
    <3>2. QED
      BY <3>1, DescriptorsKept
  <2>5. QED
    BY <1>10, <2>1, <2>2, <2>3, <2>4 DEF RoundStep
<1>11. ASSUME NEW l \in Loops, ReadStep(l) PROVE  Descriptors'
  <2>1. CASE ReadSkip(l) \/ ReadBegin(l) \/ ReadData(l) \/ ReadBroken(l)
             \/ ReadDone(l) \/ ReadMore(l)
    <3>1. /\ UNCHANGED <<tfd, spent>>
          /\ \A c \in Conns : fd'[c] \in {fd[c], NoFd}
          /\ \A u \in Threads : pc'[u] \in CtlPc <=> pc[u] \in CtlPc
          /\ \A u \in Threads : pc[u] \in CtlPc =>
               /\ pc'[u] = pc[u] /\ ptr'[u] = ptr[u] /\ new'[u] = new[u]
               /\ u \in Loops => cur'[u] = cur[u]
      BY <2>1, LoopsAreThreads
        DEF ReadSkip, ReadBegin, ReadData, ReadBroken, BeginClose, ReadDone,
            ReadMore, TypeOK, CtlPc, Goto
    <3>2. QED
      BY <3>1, DescriptorsKept
  <2>2. CASE ReadClosed(l)
    <3>1. /\ UNCHANGED <<tfd, spent>>
          /\ \A c \in Conns : fd'[c] \in {fd[c], NoFd}
          /\ \A u \in Threads : pc'[u] \in CtlPc <=> pc[u] \in CtlPc
          /\ \A u \in Threads : pc[u] \in CtlPc =>
               /\ pc'[u] = pc[u] /\ ptr'[u] = ptr[u] /\ new'[u] = new[u]
               /\ u \in Loops => cur'[u] = cur[u]
      BY <2>2, LoopsAreThreads DEF ReadClosed, Callback, TypeOK, CtlPc, Goto
    <3>2. QED
      BY <3>1, DescriptorsKept
  <2>3. QED
    BY <1>11, <2>1, <2>2 DEF ReadStep
<1>12. ASSUME NEW l \in Loops, WriteStep(l) PROVE  Descriptors'
  <2>1. CASE WriteSkip(l) \/ WriteOutcome(l) \/ WriteConnected(l)
             \/ OnConnect(l) \/ WriteFailed(l) \/ WriteClosed(l)
    <3>1. /\ UNCHANGED <<tfd, spent>>
          /\ \A c \in Conns : fd'[c] \in {fd[c], NoFd}
          /\ \A u \in Threads : pc'[u] \in CtlPc <=> pc[u] \in CtlPc
          /\ \A u \in Threads : pc[u] \in CtlPc =>
               /\ pc'[u] = pc[u] /\ ptr'[u] = ptr[u] /\ new'[u] = new[u]
               /\ u \in Loops => cur'[u] = cur[u]
      BY <2>1, LoopsAreThreads
        DEF WriteSkip, WriteOutcome, WriteConnected, OnConnect, Callback,
            WriteFailed, BeginClose, WriteClosed, TypeOK, CtlPc, Goto
    <3>2. QED
      BY <3>1, DescriptorsKept
  <2>2. CASE WriteBegin(l) \/ WriteSome(l)
    <3>1. /\ UNCHANGED <<tfd, spent>>
          /\ \A c \in Conns : fd'[c] \in {fd[c], NoFd}
          /\ \A u \in Threads : pc'[u] \in CtlPc <=> pc[u] \in CtlPc
          /\ \A u \in Threads : pc[u] \in CtlPc =>
               /\ pc'[u] = pc[u] /\ ptr'[u] = ptr[u] /\ new'[u] = new[u]
               /\ u \in Loops => cur'[u] = cur[u]
      BY <2>2, LoopsAreThreads DEF WriteBegin, WriteSome, TypeOK, CtlPc, Goto
    <3>2. QED
      BY <3>1, DescriptorsKept
  <2>3. CASE WriteAll(l)
    <3>1. pc[l] \notin CtlPc /\ pc'[l] \in CtlPc /\ tfd' = [tfd EXCEPT ![l] = fd[Target(l)']] /\ Target(l)' \in Conns
      BY <2>3, LoopsAreThreads
        DEF WriteAll, Lock, Target, CtlPc, TypeOK, Goto, LoopLocals, EventPc,
            Event
    <3>2. UNCHANGED <<spent, fd, ptr, new, cur>> /\ \A u \in Threads : u # l => pc'[u] = pc[u]
      BY <2>3, LoopsAreThreads DEF WriteAll, Lock, TypeOK, Goto
    <3>3. QED
      BY <3>1, <3>2, LoopsAreThreads, DescriptorRead
  <2>4. CASE WriteSetEvent(l)
    <3>1. /\ UNCHANGED <<spent, fd, ptr, new, cur>> /\ pc'[l] \notin CtlPc
          /\ tfd' = [tfd EXCEPT ![l] = NoFd] /\ \A u \in Threads : u # l => pc'[u] = pc[u]
      BY <2>4, LoopsAreThreads DEF WriteSetEvent, CtlMod, CtlPc, TypeOK, Goto
    <3>2. QED
      BY <3>1, LoopsAreThreads, DescriptorDone
  <2>5. QED
    BY <1>12, <2>1, <2>2, <2>3, <2>4 DEF WriteStep
<1>13. ASSUME NEW l \in Loops, TimeStep(l) PROVE  Descriptors'
  <2>1. CASE TimeSkip(l) \/ CheckTimeout(l) \/ TimeoutClose(l)
             \/ TimeoutClosed(l)
    <3>1. /\ UNCHANGED <<tfd, spent>>
          /\ \A c \in Conns : fd'[c] \in {fd[c], NoFd}
          /\ \A u \in Threads : pc'[u] \in CtlPc <=> pc[u] \in CtlPc
          /\ \A u \in Threads : pc[u] \in CtlPc =>
               /\ pc'[u] = pc[u] /\ ptr'[u] = ptr[u] /\ new'[u] = new[u]
               /\ u \in Loops => cur'[u] = cur[u]
      BY <2>1, LoopsAreThreads
        DEF TimeSkip, CheckTimeout, TimeoutClose, BeginClose, TimeoutClosed,
            Callback, TypeOK, CtlPc, Goto
    <3>2. QED
      BY <3>1, DescriptorsKept
  <2>2. CASE Clear(l)
    <3>1. /\ UNCHANGED <<tfd, spent>>
          /\ \A c \in Conns : fd'[c] \in {fd[c], NoFd}
          /\ \A u \in Threads : pc'[u] \in CtlPc <=> pc[u] \in CtlPc
          /\ \A u \in Threads : pc[u] \in CtlPc =>
               /\ pc'[u] = pc[u] /\ ptr'[u] = ptr[u] /\ new'[u] = new[u]
               /\ u \in Loops => cur'[u] = cur[u]
      BY <2>2, LoopsAreThreads
        DEF Clear, Release, Destroy, CloseFds, TypeOK, CtlPc, Goto
    <3>2. QED
      BY <3>1, DescriptorsKept
  <2>3. QED
    BY <1>13, <2>1, <2>2 DEF TimeStep
<1>14. ASSUME NEW n \in Conns, NetStep(n)
      PROVE  Descriptors'
  <2>1. /\ UNCHANGED <<tfd, spent>>
        /\ \A c \in Conns : fd'[c] \in {fd[c], NoFd}
        /\ \A u \in Threads : pc'[u] \in CtlPc <=> pc[u] \in CtlPc
        /\ \A u \in Threads : pc[u] \in CtlPc =>
             /\ pc'[u] = pc[u] /\ ptr'[u] = ptr[u] /\ new'[u] = new[u]
             /\ u \in Loops => cur'[u] = cur[u]
    BY <1>14 DEF NetStep, TypeOK, CtlPc, Goto
  <2>2. QED
    BY <2>1, DescriptorsKept
<1>15. ASSUME NEW n \in Conns, Tick(n)
      PROVE  Descriptors'
  <2>1. /\ UNCHANGED <<tfd, spent>>
        /\ \A c \in Conns : fd'[c] \in {fd[c], NoFd}
        /\ \A u \in Threads : pc'[u] \in CtlPc <=> pc[u] \in CtlPc
        /\ \A u \in Threads : pc[u] \in CtlPc =>
             /\ pc'[u] = pc[u] /\ ptr'[u] = ptr[u] /\ new'[u] = new[u]
             /\ u \in Loops => cur'[u] = cur[u]
    BY <1>15 DEF Tick, TypeOK, CtlPc, Goto
  <2>2. QED
    BY <2>1, DescriptorsKept
<1>16. CASE UNCHANGED vars
  BY <1>16 DEF Descriptors, Target
<1>17. QED
  BY <1>1, <1>2, <1>3, <1>4, <1>5, <1>6, <1>7, <1>8, <1>9, <1>10, <1>11, <1>12,
     <1>13, <1>14, <1>15, <1>16
    DEF Next, ApiCall, CallStep, LoopStep

----------------------------------------------------------------------------
(* The epoll set.                                                          *)

\* A registration names a connection.
LEMMA RegisteredPtr ==
  ASSUME TypeInv
  PROVE  \A f \in Fds : reg[f] # NoReg => reg[f].ptr \in Conns /\ reg[f].ptr # None
BY DEF TypeInv, TypeOK, Reg

\* The epoll set loses entries only, and nothing that they rest on changes.
LEMMA RegisteredKept ==
  ASSUME RefInv,
         \A f \in Fds : reg'[f] # NoReg =>
           /\ reg[f] # NoReg /\ reg'[f].ptr = reg[f].ptr
           /\ fd'[reg[f].ptr] = fd[reg[f].ptr],
         \A h \in Handles : conns[h] # None => conns'[h] = conns[h],
         \A f \in Fds : reg[f] # NoReg => reg[f].ptr # None,
         \A l \in Loops : pc[l] \in {"k_state", "k_sock"} =>
           pc'[l] \in {"k_state", "k_sock"} /\ ptr'[l] = ptr[l],
         \A u \in Threads : pc'[u] \in PastPc =>
           pc[u] \in PastPc /\ ptr'[u] = ptr[u] /\ ret'[u] = ret[u]
  PROVE  Registered'
<1>1. ASSUME NEW f \in Fds, reg'[f] # NoReg
      PROVE  /\ fd'[reg'[f].ptr] = f
             /\ \/ \E h \in Handles : conns'[h] = reg'[f].ptr
                \/ \E l \in Loops : pc'[l] \in {"k_state", "k_sock"} /\ ptr'[l] = reg'[f].ptr
             /\ \A t \in Threads :
                  pc'[t] \in PastPc /\ ptr'[t] = reg'[f].ptr => t \in Loops /\ ret'[t] = "t_closed"
  <2>1. reg[f] # NoReg /\ reg'[f].ptr = reg[f].ptr /\ fd'[reg[f].ptr] = fd[reg[f].ptr]
    BY <1>1
  <2>2. /\ fd[reg[f].ptr] = f
        /\ \/ \E h \in Handles : conns[h] = reg[f].ptr
           \/ \E l \in Loops : pc[l] \in {"k_state", "k_sock"} /\ ptr[l] = reg[f].ptr
        /\ \A t \in Threads :
             pc[t] \in PastPc /\ ptr[t] = reg[f].ptr => t \in Loops /\ ret[t] = "t_closed"
    BY <2>1 DEF RefInv, Registered, Online
  <2>3. reg[f].ptr # None
    BY <2>1
  <2>4. QED
    BY <2>1, <2>2, <2>3
<1>2. QED
  BY <1>1 DEF Registered, Online

\* A step keeps the epoll set to descriptors of connections that are online,
\* or being closed by the time-out.
LEMMA RegisteredStep ==
  ASSUME OneConnector, TypeInv, CloseInv, RefInv, [Next]_vars
  PROVE  Registered'
<1> USE DEF TypeInv, CloseInv, RefInv
<1>1. ASSUME NEW t \in Threads, NEW c \in Conns, ConnectNew(t, c)
      PROVE  Registered'
  <2>1. \A f \in Fds : reg'[f] # NoReg =>
          /\ reg[f] # NoReg /\ reg'[f].ptr = reg[f].ptr
          /\ fd'[reg[f].ptr] = fd[reg[f].ptr]
    BY <1>1 DEF ConnectNew, CanCall
  <2>2. /\ \A h \in Handles : conns[h] # None => conns'[h] = conns[h]
        /\ \A l1 \in Loops : pc[l1] \in {"k_state", "k_sock"} =>
             pc'[l1] \in {"k_state", "k_sock"} /\ ptr'[l1] = ptr[l1]
        /\ \A u \in Threads : pc'[u] \in PastPc =>
             pc[u] \in PastPc /\ ptr'[u] = ptr[u] /\ ret'[u] = ret[u]
    BY <1>1, LoopsAreThreads DEF ConnectNew, CanCall, TypeOK, PastPc, Goto
  <2>3. QED
    BY <2>1, <2>2, RegisteredPtr, RegisteredKept
<1>2. ASSUME NEW t \in Threads, NEW g \in Handles, SendCall(t, g)
      PROVE  Registered'
  <2>1. \A f \in Fds : reg'[f] # NoReg =>
          /\ reg[f] # NoReg /\ reg'[f].ptr = reg[f].ptr
          /\ fd'[reg[f].ptr] = fd[reg[f].ptr]
    BY <1>2 DEF SendCall, AddRef, CanCall, Home
  <2>2. /\ \A h \in Handles : conns[h] # None => conns'[h] = conns[h]
        /\ \A l1 \in Loops : pc[l1] \in {"k_state", "k_sock"} =>
             pc'[l1] \in {"k_state", "k_sock"} /\ ptr'[l1] = ptr[l1]
        /\ \A u \in Threads : pc'[u] \in PastPc =>
             pc[u] \in PastPc /\ ptr'[u] = ptr[u] /\ ret'[u] = ret[u]
    BY <1>2, LoopsAreThreads
      DEF SendCall, AddRef, CanCall, Home, TypeOK, PastPc, Goto
  <2>3. QED
    BY <2>1, <2>2, RegisteredPtr, RegisteredKept
<1>3. ASSUME NEW t \in Threads, NEW g \in Handles, CloseCall(t, g)
      PROVE  Registered'
  <2>1. \A f \in Fds : reg'[f] # NoReg =>
          /\ reg[f] # NoReg /\ reg'[f].ptr = reg[f].ptr
          /\ fd'[reg[f].ptr] = fd[reg[f].ptr]
    BY <1>3 DEF CloseCall, BeginClose, CanCall, Home
  <2>2. /\ \A h \in Handles : conns[h] # None => conns'[h] = conns[h]
        /\ \A l1 \in Loops : pc[l1] \in {"k_state", "k_sock"} =>
             pc'[l1] \in {"k_state", "k_sock"} /\ ptr'[l1] = ptr[l1]
        /\ \A u \in Threads : pc'[u] \in PastPc =>
             pc[u] \in PastPc /\ ptr'[u] = ptr[u] /\ ret'[u] = ret[u]
    BY <1>3, LoopsAreThreads
      DEF CloseCall, BeginClose, CanCall, Home, TypeOK, PastPc, Goto
  <2>3. QED
    BY <2>1, <2>2, RegisteredPtr, RegisteredKept
<1>4. ASSUME NEW t \in Threads, NEW g \in Handles, StatusCall(t, g)
      PROVE  Registered'
  <2>1. \A f \in Fds : reg'[f] # NoReg =>
          /\ reg[f] # NoReg /\ reg'[f].ptr = reg[f].ptr
          /\ fd'[reg[f].ptr] = fd[reg[f].ptr]
    BY <1>4 DEF StatusCall, AddRef, CanCall
  <2>2. /\ \A h \in Handles : conns[h] # None => conns'[h] = conns[h]
        /\ \A l1 \in Loops : pc[l1] \in {"k_state", "k_sock"} =>
             pc'[l1] \in {"k_state", "k_sock"} /\ ptr'[l1] = ptr[l1]
        /\ \A u \in Threads : pc'[u] \in PastPc =>
             pc[u] \in PastPc /\ ptr'[u] = ptr[u] /\ ret'[u] = ret[u]
    BY <1>4, LoopsAreThreads
      DEF StatusCall, AddRef, CanCall, TypeOK, PastPc, Goto
  <2>3. QED
    BY <2>1, <2>2, RegisteredPtr, RegisteredKept
<1>5. ASSUME NEW t \in Threads, ConnectStep(t) PROVE  Registered'
  <2>1. CASE MakeHandleStore(t) \/ MakeHandleCheck(t)
    <3>1. \A f \in Fds : reg'[f] # NoReg =>
            /\ reg[f] # NoReg /\ reg'[f].ptr = reg[f].ptr
            /\ fd'[reg[f].ptr] = fd[reg[f].ptr]
      BY <2>1 DEF MakeHandleStore, NextHandle, MakeHandleCheck, AddRef
    <3>2. /\ \A h \in Handles : conns[h] # None => conns'[h] = conns[h]
          /\ \A l1 \in Loops : pc[l1] \in {"k_state", "k_sock"} =>
               pc'[l1] \in {"k_state", "k_sock"} /\ ptr'[l1] = ptr[l1]
          /\ \A u \in Threads : pc'[u] \in PastPc =>
               pc[u] \in PastPc /\ ptr'[u] = ptr[u] /\ ret'[u] = ret[u]
      BY <2>1, LoopsAreThreads
        DEF MakeHandleStore, NextHandle, MakeHandleCheck, AddRef, TypeOK,
            PastPc, Goto
    <3>3. QED
      BY <3>1, <3>2, RegisteredPtr, RegisteredKept
  <2>2. CASE MakeHandleNext(t)
    <3>1. \A f \in Fds : reg'[f] # NoReg =>
            /\ reg[f] # NoReg /\ reg'[f].ptr = reg[f].ptr
            /\ fd'[reg[f].ptr] = fd[reg[f].ptr]
      BY <2>2
        DEF MakeHandleNext, NextHandle, Release, Destroy, CloseFds, TypeOK, Reg,
            Registered
    <3>2. /\ \A h \in Handles : conns[h] # None => conns'[h] = conns[h]
          /\ \A l1 \in Loops : pc[l1] \in {"k_state", "k_sock"} =>
               pc'[l1] \in {"k_state", "k_sock"} /\ ptr'[l1] = ptr[l1]
          /\ \A u \in Threads : pc'[u] \in PastPc =>
               pc[u] \in PastPc /\ ptr'[u] = ptr[u] /\ ret'[u] = ret[u]
      BY <2>2, LoopsAreThreads
        DEF MakeHandleNext, NextHandle, Release, Destroy, CloseFds, TypeOK,
            PastPc, Goto
    <3>3. QED
      BY <3>1, <3>2, RegisteredPtr, RegisteredKept
  <2>3. CASE MakeHandleReturn(t)
    <3>1. \A f \in Fds : reg'[f] # NoReg =>
            /\ reg[f] # NoReg /\ reg'[f].ptr = reg[f].ptr
            /\ fd'[reg[f].ptr] = fd[reg[f].ptr]
      BY <2>3 DEF MakeHandleReturn
    <3>2. /\ \A h \in Handles : conns[h] # None => conns'[h] = conns[h]
          /\ \A l1 \in Loops : pc[l1] \in {"k_state", "k_sock"} =>
               pc'[l1] \in {"k_state", "k_sock"} /\ ptr'[l1] = ptr[l1]
          /\ \A u \in Threads : pc'[u] \in PastPc =>
               pc[u] \in PastPc /\ ptr'[u] = ptr[u] /\ ret'[u] = ret[u]
      BY <2>3, LoopsAreThreads DEF MakeHandleReturn, TypeOK, PastPc, Goto
    <3>3. QED
      BY <3>1, <3>2, RegisteredPtr, RegisteredKept
  <2>4. CASE ConnectSocket(t)
    <3>1. \A f \in Fds : reg'[f] # NoReg =>
            /\ reg[f] # NoReg /\ reg'[f].ptr = reg[f].ptr
            /\ fd'[reg[f].ptr] = fd[reg[f].ptr]
      BY <2>4 DEF ConnectSocket, TypeOK, Reg, Private, Unused, Creating
    <3>2. /\ \A h \in Handles : conns[h] # None => conns'[h] = conns[h]
          /\ \A l1 \in Loops : pc[l1] \in {"k_state", "k_sock"} =>
               pc'[l1] \in {"k_state", "k_sock"} /\ ptr'[l1] = ptr[l1]
          /\ \A u \in Threads : pc'[u] \in PastPc =>
               pc[u] \in PastPc /\ ptr'[u] = ptr[u] /\ ret'[u] = ret[u]
      BY <2>4, LoopsAreThreads DEF ConnectSocket, TypeOK, PastPc, Goto
    <3>3. QED
      BY <3>1, <3>2, RegisteredPtr, RegisteredKept
  <2>5. CASE ConnectFail(t)
    <3>1. \A f \in Fds : reg'[f] # NoReg =>
            /\ reg[f] # NoReg /\ reg'[f].ptr = reg[f].ptr
            /\ fd'[reg[f].ptr] = fd[reg[f].ptr]
      BY <2>5
        DEF ConnectFail, Delete, Destroy, CloseFds, Home, TypeOK, Reg,
            Registered
    <3>2. /\ \A h \in Handles : conns[h] # None => conns'[h] = conns[h]
          /\ \A l1 \in Loops : pc[l1] \in {"k_state", "k_sock"} =>
               pc'[l1] \in {"k_state", "k_sock"} /\ ptr'[l1] = ptr[l1]
          /\ \A u \in Threads : pc'[u] \in PastPc =>
               pc[u] \in PastPc /\ ptr'[u] = ptr[u] /\ ret'[u] = ret[u]
      BY <2>5, LoopsAreThreads
        DEF ConnectFail, Delete, Destroy, CloseFds, Home, TypeOK, PastPc, Goto
    <3>3. QED
      BY <3>1, <3>2, RegisteredPtr, RegisteredKept
  <2>6. CASE AddConn(t)
    <3>1. \A f \in Fds : reg'[f] # NoReg =>
            /\ reg[f] # NoReg /\ reg'[f].ptr = reg[f].ptr
            /\ fd'[reg[f].ptr] = fd[reg[f].ptr]
      BY <2>6 DEF AddConn
    <3>2. /\ \A h \in Handles : conns[h] # None => conns'[h] = conns[h]
          /\ \A l1 \in Loops : pc[l1] \in {"k_state", "k_sock"} =>
               pc'[l1] \in {"k_state", "k_sock"} /\ ptr'[l1] = ptr[l1]
          /\ \A u \in Threads : pc'[u] \in PastPc =>
               pc[u] \in PastPc /\ ptr'[u] = ptr[u] /\ ret'[u] = ret[u]
      BY <2>6, LoopsAreThreads DEF AddConn, TypeOK, PastPc, Goto
    <3>3. QED
      BY <3>1, <3>2, RegisteredPtr, RegisteredKept
  <2>7. CASE AddConnTaken(t)
    <3>1. \A f \in Fds : reg'[f] # NoReg =>
            /\ reg[f] # NoReg /\ reg'[f].ptr = reg[f].ptr
            /\ fd'[reg[f].ptr] = fd[reg[f].ptr]
      BY <2>7
        DEF AddConnTaken, Delete, Destroy, CloseFds, TypeOK, Reg, Registered
    <3>2. /\ \A h \in Handles : conns[h] # None => conns'[h] = conns[h]
          /\ \A l1 \in Loops : pc[l1] \in {"k_state", "k_sock"} =>
               pc'[l1] \in {"k_state", "k_sock"} /\ ptr'[l1] = ptr[l1]
          /\ \A u \in Threads : pc'[u] \in PastPc =>
               pc[u] \in PastPc /\ ptr'[u] = ptr[u] /\ ret'[u] = ret[u]
      BY <2>7, LoopsAreThreads
        DEF AddConnTaken, Delete, Destroy, CloseFds, TypeOK, PastPc, Goto
    <3>3. QED
      BY <3>1, <3>2, RegisteredPtr, RegisteredKept
  <2>8. CASE AddConnLog(t) \/ AddEventFd(t)
    <3>1. \A f \in Fds : reg'[f] # NoReg =>
            /\ reg[f] # NoReg /\ reg'[f].ptr = reg[f].ptr
            /\ fd'[reg[f].ptr] = fd[reg[f].ptr]
      BY <2>8 DEF AddConnLog, Home, AddEventFd
    <3>2. /\ \A h \in Handles : conns[h] # None => conns'[h] = conns[h]
          /\ \A l1 \in Loops : pc[l1] \in {"k_state", "k_sock"} =>
               pc'[l1] \in {"k_state", "k_sock"} /\ ptr'[l1] = ptr[l1]
          /\ \A u \in Threads : pc'[u] \in PastPc =>
               pc[u] \in PastPc /\ ptr'[u] = ptr[u] /\ ret'[u] = ret[u]
      BY <2>8, LoopsAreThreads
        DEF AddConnLog, Home, AddEventFd, TypeOK, PastPc, Goto
    <3>3. QED
      BY <3>1, <3>2, RegisteredPtr, RegisteredKept
  <2>9. CASE AddEventCtl(t)
    <3>1. /\ pc[t] = "c_ctl" /\ pc' = [pc EXCEPT ![t] = "c_ret"]
          /\ CtlAdd(tfd[t], new[t])
          /\ UNCHANGED <<conns, ptr, ret, fd>>
      BY <2>9 DEF AddEventCtl, Goto
    <3>2. /\ new[t] \in Conns /\ handle[new[t]] \in Handles
          /\ \A u \in Threads : pc[u] \in ConnectPc => u = t
      BY <3>1, OneSetup DEF ConnectLocals, ConnectPc
    <3>3. tfd[t] \in OpenFds => tfd[t] # NoFd /\ fd[new[t]] = tfd[t]
      <4>1. ASSUME tfd[t] \in OpenFds
            PROVE  tfd[t] # NoFd /\ \E c \in Conns : fd[c] = tfd[t]
        BY <4>1 DEF OpenFds
      <4>2. QED
        BY <3>1, <4>1 DEF Descriptors, Target
    <3>4. ASSUME NEW u \in Threads, pc[u] \in PastPc, ptr[u] = new[t]
          PROVE  u \in Loops /\ ret[u] = "t_closed"
      <4>1. pc[u] \in ClosePc /\ pc[u] # "k_get" /\ arg[u] = handle[new[t]]
        BY <3>4 DEF PastPc, ClosePc, OneCloser, KillPc, Locals
      <4>2. QED
        BY <3>1, <4>1 DEF NotYet, AddPc
    <3>5. ASSUME fd[new[t]] # NoFd
          PROVE  \/ \E h \in Handles : conns[h] = new[t]
                 \/ \E l \in Loops : pc[l] \in {"k_state", "k_sock"} /\ ptr[l] = new[t]
      BY <3>1, <3>2, <3>4, <3>5 DEF Attached, Online, PastPc, ConnectPc
    <3>6. ASSUME NEW f \in Fds, reg'[f] # NoReg
          PROVE  /\ fd'[reg'[f].ptr] = f
                 /\ \/ \E h \in Handles : conns'[h] = reg'[f].ptr
                    \/ \E l \in Loops : pc'[l] \in {"k_state", "k_sock"} /\ ptr'[l] = reg'[f].ptr
                 /\ \A u \in Threads :
                      pc'[u] \in PastPc /\ ptr'[u] = reg'[f].ptr => u \in Loops /\ ret'[u] = "t_closed"
      <4>1. /\ \A u \in Threads : pc'[u] \in PastPc <=> pc[u] \in PastPc
            /\ \A l \in Loops : pc[l] \in {"k_state", "k_sock"} => pc'[l] = pc[l]
        BY <3>1, LoopsAreThreads DEF TypeOK, PastPc
      <4>2. CASE reg'[f] = reg[f]
        BY <3>1, <3>6, <4>1, <4>2 DEF Registered, Online
      <4>3. CASE reg'[f] # reg[f]
        <5>1. f = tfd[t] /\ f \in OpenFds /\ reg'[f].ptr = new[t]
          BY <3>1, <4>3 DEF CtlAdd
        <5>2. QED
          BY <3>1, <3>3, <3>4, <3>5, <4>1, <5>1
      <4>4. QED
        BY <4>2, <4>3
    <3>7. QED
      BY <3>6 DEF Registered, Online
  <2>10. CASE ConnectReturn(t)
    <3>1. \A f \in Fds : reg'[f] # NoReg =>
            /\ reg[f] # NoReg /\ reg'[f].ptr = reg[f].ptr
            /\ fd'[reg[f].ptr] = fd[reg[f].ptr]
      BY <2>10 DEF ConnectReturn, Home
    <3>2. /\ \A h \in Handles : conns[h] # None => conns'[h] = conns[h]
          /\ \A l1 \in Loops : pc[l1] \in {"k_state", "k_sock"} =>
               pc'[l1] \in {"k_state", "k_sock"} /\ ptr'[l1] = ptr[l1]
          /\ \A u \in Threads : pc'[u] \in PastPc =>
               pc[u] \in PastPc /\ ptr'[u] = ptr[u] /\ ret'[u] = ret[u]
      BY <2>10, LoopsAreThreads DEF ConnectReturn, Home, TypeOK, PastPc, Goto
    <3>3. QED
      BY <3>1, <3>2, RegisteredPtr, RegisteredKept
  <2>11. QED
    BY <1>5, <2>1, <2>2, <2>3, <2>4, <2>5, <2>6, <2>7, <2>8, <2>9, <2>10
      DEF ConnectStep
<1>6. ASSUME NEW t \in Threads, SendStep(t) PROVE  Registered'
  <2>1. CASE DeliverRefused(t) \/ DeliverData(t)
    <3>1. \A f \in Fds : reg'[f] # NoReg =>
            /\ reg[f] # NoReg /\ reg'[f].ptr = reg[f].ptr
            /\ fd'[reg[f].ptr] = fd[reg[f].ptr]
      BY <2>1 DEF DeliverRefused, DeliverData, Lock
    <3>2. /\ \A h \in Handles : conns[h] # None => conns'[h] = conns[h]
          /\ \A l1 \in Loops : pc[l1] \in {"k_state", "k_sock"} =>
               pc'[l1] \in {"k_state", "k_sock"} /\ ptr'[l1] = ptr[l1]
          /\ \A u \in Threads : pc'[u] \in PastPc =>
               pc[u] \in PastPc /\ ptr'[u] = ptr[u] /\ ret'[u] = ret[u]
      BY <2>1, LoopsAreThreads
        DEF DeliverRefused, DeliverData, Lock, TypeOK, PastPc, Goto
    <3>3. QED
      BY <3>1, <3>2, RegisteredPtr, RegisteredKept
  <2>2. CASE DeliverSetEvent(t)
    <3>1. \A f \in Fds : reg'[f] # NoReg =>
            /\ reg[f] # NoReg /\ reg'[f].ptr = reg[f].ptr
            /\ fd'[reg[f].ptr] = fd[reg[f].ptr]
      <4>1. pc[t] \in CtlPc /\ CtlMod(tfd[t], Target(t), TRUE) /\ UNCHANGED fd
        BY <2>2 DEF DeliverSetEvent, CtlPc, Target
      <4>2. QED
        BY <4>1, CtlModKeeps
    <3>2. /\ \A h \in Handles : conns[h] # None => conns'[h] = conns[h]
          /\ \A l1 \in Loops : pc[l1] \in {"k_state", "k_sock"} =>
               pc'[l1] \in {"k_state", "k_sock"} /\ ptr'[l1] = ptr[l1]
          /\ \A u \in Threads : pc'[u] \in PastPc =>
               pc[u] \in PastPc /\ ptr'[u] = ptr[u] /\ ret'[u] = ret[u]
      BY <2>2, LoopsAreThreads DEF DeliverSetEvent, CtlMod, TypeOK, PastPc, Goto
    <3>3. QED
      BY <3>1, <3>2, RegisteredPtr, RegisteredKept
  <2>3. QED
    BY <1>6, <2>1, <2>2 DEF SendStep
<1>7. ASSUME NEW t \in Threads, CloseStep(t) PROVE  Registered'
  <2>1. CASE CloseGet(t)
    <3>1. \/ pc' = [pc EXCEPT ![t] = "k_fd"] /\ UNCHANGED ret
          \/ pc' = [pc EXCEPT ![t] = ret[t]] /\ ret' = [ret EXCEPT ![t] = "idle"]
      BY <2>1 DEF CloseGet, CallEnd, Goto
    <3>2. /\ ptr' = [ptr EXCEPT ![t] = conns[arg[t]]] \/ UNCHANGED ptr
          /\ pc[t] = "k_get" /\ UNCHANGED <<conns, reg, fd>>
      BY <2>1 DEF CloseGet
    <3>3. /\ \A l \in Loops : pc[l] \in {"k_state", "k_sock"} =>
               pc'[l] \in {"k_state", "k_sock"} /\ ptr'[l] = ptr[l]
          /\ \A u \in Threads : pc'[u] \in PastPc =>
               pc[u] \in PastPc /\ ptr'[u] = ptr[u] /\ ret'[u] = ret[u]
      <4>1. \A u \in Threads : u # t => pc'[u] = pc[u] /\ ptr'[u] = ptr[u] /\ ret'[u] = ret[u]
        BY <3>1, <3>2 DEF TypeOK
      <4>2. pc'[t] \notin PastPc
        BY SMTT(30), <3>1 DEF TypeOK, PastPc
      <4>3. QED
        BY <3>2, <4>1, <4>2, LoopsAreThreads
    <3>4. QED
      BY <3>2, <3>3, RegisteredPtr, RegisteredKept
  <2>2. CASE CloseFd(t)
    <3>1. \A f \in Fds : reg'[f] # NoReg =>
            /\ reg[f] # NoReg /\ reg'[f].ptr = reg[f].ptr
            /\ fd'[reg[f].ptr] = fd[reg[f].ptr]
      BY <2>2 DEF CloseFd
    <3>2. /\ \A h \in Handles : conns[h] # None => conns'[h] = conns[h]
          /\ \A l1 \in Loops : pc[l1] \in {"k_state", "k_sock"} =>
               pc'[l1] \in {"k_state", "k_sock"} /\ ptr'[l1] = ptr[l1]
          /\ \A u \in Threads : pc'[u] \in PastPc =>
               pc[u] \in PastPc /\ ptr'[u] = ptr[u] /\ ret'[u] = ret[u]
      BY <2>2, LoopsAreThreads DEF CloseFd, TypeOK, PastPc, Goto
    <3>3. QED
      BY <3>1, <3>2, RegisteredPtr, RegisteredKept
  <2>3. CASE CloseRemoveEvent(t)
    <3>1. /\ pc[t] = "k_del" /\ pc' = [pc EXCEPT ![t] = "k_remove"]
          /\ reg' = [f \in Fds |-> IF f = tfd[t] THEN NoReg ELSE reg[f]]
          /\ UNCHANGED <<conns, ptr, ret, fd>>
      BY <2>3 DEF CloseRemoveEvent, CtlDel, Goto
    <3>2. ASSUME NEW f \in Fds, reg'[f] # NoReg
          PROVE  /\ fd'[reg'[f].ptr] = f
                 /\ \/ \E h \in Handles : conns'[h] = reg'[f].ptr
                    \/ \E l \in Loops : pc'[l] \in {"k_state", "k_sock"} /\ ptr'[l] = reg'[f].ptr
                 /\ \A u \in Threads :
                      pc'[u] \in PastPc /\ ptr'[u] = reg'[f].ptr => u \in Loops /\ ret'[u] = "t_closed"
      <4>1. reg[f] # NoReg /\ reg'[f] = reg[f] /\ tfd[t] # f
        BY <3>1, <3>2
      <4>2. fd[reg[f].ptr] = f /\ reg[f].ptr \in Conns
        BY <4>1, RegisteredPtr DEF Registered
      <4>3. fd[ptr[t]] \in {tfd[t], NoFd} /\ f # NoFd
        BY <3>1, RegisteredPtr DEF Descriptors, CtlPc, Target, NoFd
      <4>4. ptr[t] # reg[f].ptr
        BY <4>1, <4>2, <4>3
      <4>5. QED
        BY <3>1, <4>1, <4>2, <4>4, LoopsAreThreads
          DEF Registered, Online, TypeOK, PastPc
    <3>3. QED
      BY <3>2 DEF Registered, Online
  <2>4. CASE CloseRemoveConn(t)
    <3>1. /\ pc[t] = "k_remove" /\ pc' = [pc EXCEPT ![t] = AfterRemove(conns[arg[t]] # None)]
          /\ conns' = [conns EXCEPT ![arg[t]] = None] \/ UNCHANGED conns
          /\ conns[arg[t]] # None \/ UNCHANGED conns
          /\ UNCHANGED <<fd, reg, ptr, ret>>
      BY <2>4 DEF CloseRemoveConn, Goto
    <3>2. arg[t] \in Handles /\ handle[ptr[t]] = arg[t] /\ ptr[t] \in Conns
      BY <3>1 DEF CallLocals, PtrPc, ClosePc, OneCloser, KillPc
    <3>3. conns[arg[t]] # None => conns[arg[t]] = ptr[t]
      BY <3>2 DEF UniqueHandle, TypeOK, Handles
    <3>4. ASSUME NEW f \in Fds, reg'[f] # NoReg
          PROVE  /\ fd'[reg'[f].ptr] = f
                 /\ \/ \E h \in Handles : conns'[h] = reg'[f].ptr
                    \/ \E l \in Loops : pc'[l] \in {"k_state", "k_sock"} /\ ptr'[l] = reg'[f].ptr
                 /\ \A u \in Threads :
                      pc'[u] \in PastPc /\ ptr'[u] = reg'[f].ptr => u \in Loops /\ ret'[u] = "t_closed"
      <4>1. reg[f] # NoReg /\ reg'[f] = reg[f] /\ fd[reg[f].ptr] = f /\ reg[f].ptr \in Conns
        BY <3>1, <3>4, RegisteredPtr DEF Registered
      <4>2. \A u \in Threads : pc'[u] \in PastPc => pc[u] \in PastPc
        BY <3>1 DEF PastPc, TypeOK
      <4>3. \A u \in Threads : pc[u] \in PastPc /\ ptr[u] = reg[f].ptr => u \in Loops /\ ret[u] = "t_closed"
        BY <4>1 DEF Registered
      <4>4. CASE conns[arg[t]] # None /\ reg[f].ptr = ptr[t]
        <5>1. t \in Loops /\ pc'[t] = "k_state" /\ ptr'[t] = reg[f].ptr
          BY <3>1, <4>3, <4>4 DEF TypeOK, AfterRemove, PastPc
        <5>2. QED
          BY <3>1, <4>1, <4>2, <4>3, <5>1
      <4>5. CASE ~(conns[arg[t]] # None /\ reg[f].ptr = ptr[t])
        <5>1. \A h \in Handles : conns[h] = reg[f].ptr => conns'[h] = reg[f].ptr
          BY <3>1, <3>2, <3>3, <4>1, <4>5 DEF TypeOK
        <5>2. \A u \in Loops : pc[u] \in {"k_state", "k_sock"} => pc'[u] = pc[u]
          BY <3>1, LoopsAreThreads DEF TypeOK
        <5>3. \/ \E h \in Handles : conns[h] = reg[f].ptr
              \/ \E u \in Loops : pc[u] \in {"k_state", "k_sock"} /\ ptr[u] = reg[f].ptr
          BY <4>1, <3>4 DEF Registered, Online
        <5>4. QED
          BY <3>1, <4>1, <4>2, <4>3, <5>1, <5>2, <5>3
      <4>6. QED
        BY <4>4, <4>5
    <3>5. QED
      BY <3>4 DEF Registered, Online
  <2>5. CASE ConnCloseState(t)
    <3>1. \A f \in Fds : reg'[f] # NoReg =>
            /\ reg[f] # NoReg /\ reg'[f].ptr = reg[f].ptr
            /\ fd'[reg[f].ptr] = fd[reg[f].ptr]
      BY <2>5 DEF ConnCloseState
    <3>2. /\ \A h \in Handles : conns[h] # None => conns'[h] = conns[h]
          /\ \A l1 \in Loops : pc[l1] \in {"k_state", "k_sock"} =>
               pc'[l1] \in {"k_state", "k_sock"} /\ ptr'[l1] = ptr[l1]
          /\ \A u \in Threads : pc'[u] \in PastPc =>
               pc[u] \in PastPc /\ ptr'[u] = ptr[u] /\ ret'[u] = ret[u]
      BY <2>5, LoopsAreThreads DEF ConnCloseState, TypeOK, PastPc, Goto
    <3>3. QED
      BY <3>1, <3>2, RegisteredPtr, RegisteredKept
  <2>6. CASE ConnCloseSocket(t)
    <3>1. /\ pc[t] = "k_sock" /\ pc' = [pc EXCEPT ![t] = "rel"]
          /\ fd' = [c \in Conns |-> IF c \in {ptr[t]} THEN NoFd ELSE fd[c]]
          /\ reg' = [f \in Fds |-> IF \E c \in {ptr[t]} : fd[c] = f THEN NoReg ELSE reg[f]]
          /\ UNCHANGED <<conns, ptr, ret>>
      BY <2>6 DEF ConnCloseSocket, CloseFds, Goto
    <3>2. ASSUME NEW f \in Fds, reg'[f] # NoReg
          PROVE  /\ fd'[reg'[f].ptr] = f
                 /\ \/ \E h \in Handles : conns'[h] = reg'[f].ptr
                    \/ \E l \in Loops : pc'[l] \in {"k_state", "k_sock"} /\ ptr'[l] = reg'[f].ptr
                 /\ \A u \in Threads :
                      pc'[u] \in PastPc /\ ptr'[u] = reg'[f].ptr => u \in Loops /\ ret'[u] = "t_closed"
      <4>1. reg[f] # NoReg /\ reg'[f] = reg[f] /\ fd[ptr[t]] # f
        BY <3>1, <3>2
      <4>2. fd[reg[f].ptr] = f /\ reg[f].ptr \in Conns
        BY <4>1, RegisteredPtr DEF Registered
      <4>3. ptr[t] # reg[f].ptr
        BY <4>1, <4>2
      <4>4. QED
        BY <3>1, <4>1, <4>2, <4>3, LoopsAreThreads
          DEF Registered, Online, TypeOK, PastPc
    <3>3. QED
      BY <3>2 DEF Registered, Online
  <2>7. QED
    BY <1>7, <2>1, <2>2, <2>3, <2>4, <2>5, <2>6 DEF CloseStep
<1>8. ASSUME NEW t \in Threads, StatusStep(t) PROVE  Registered'
  <2>1. CASE StatusRead(t) \/ StatusReturn(t)
    <3>1. \A f \in Fds : reg'[f] # NoReg =>
            /\ reg[f] # NoReg /\ reg'[f].ptr = reg[f].ptr
            /\ fd'[reg[f].ptr] = fd[reg[f].ptr]
      BY <2>1 DEF StatusRead, StatusReturn, Home
    <3>2. /\ \A h \in Handles : conns[h] # None => conns'[h] = conns[h]
          /\ \A l1 \in Loops : pc[l1] \in {"k_state", "k_sock"} =>
               pc'[l1] \in {"k_state", "k_sock"} /\ ptr'[l1] = ptr[l1]
          /\ \A u \in Threads : pc'[u] \in PastPc =>
               pc[u] \in PastPc /\ ptr'[u] = ptr[u] /\ ret'[u] = ret[u]
      BY <2>1, LoopsAreThreads
        DEF StatusRead, StatusReturn, Home, TypeOK, PastPc, Goto
    <3>3. QED
      BY <3>1, <3>2, RegisteredPtr, RegisteredKept
  <2>2. QED
    BY <1>8, <2>1 DEF StatusStep
<1>9. ASSUME NEW t \in Threads, CallRelease(t) PROVE  Registered'
  <2>1. \A f \in Fds : reg'[f] # NoReg =>
          /\ reg[f] # NoReg /\ reg'[f].ptr = reg[f].ptr
          /\ fd'[reg[f].ptr] = fd[reg[f].ptr]
    BY <1>9
      DEF CallRelease, Release, Destroy, CloseFds, CallEnd, TypeOK, Reg,
          Registered
  <2>2. /\ \A h \in Handles : conns[h] # None => conns'[h] = conns[h]
        /\ \A l1 \in Loops : pc[l1] \in {"k_state", "k_sock"} =>
             pc'[l1] \in {"k_state", "k_sock"} /\ ptr'[l1] = ptr[l1]
        /\ \A u \in Threads : pc'[u] \in PastPc =>
             pc[u] \in PastPc /\ ptr'[u] = ptr[u] /\ ret'[u] = ret[u]
    BY ZenonT(60), <1>9, LoopsAreThreads
      DEF CallRelease, Release, Destroy, CloseFds, CallEnd, TypeOK, PastPc, Goto
  <2>3. QED
    BY <2>1, <2>2, RegisteredPtr, RegisteredKept
<1>10. ASSUME NEW l \in Loops, RoundStep(l) PROVE  Registered'
  <2>1. CASE GetEvents(l)
    <3>1. \A f \in Fds : reg'[f] # NoReg =>
            /\ reg[f] # NoReg /\ reg'[f].ptr = reg[f].ptr
            /\ fd'[reg[f].ptr] = fd[reg[f].ptr]
      BY <2>1, LoopsAreThreads DEF GetEvents
    <3>2. /\ \A h \in Handles : conns[h] # None => conns'[h] = conns[h]
          /\ \A l1 \in Loops : pc[l1] \in {"k_state", "k_sock"} =>
               pc'[l1] \in {"k_state", "k_sock"} /\ ptr'[l1] = ptr[l1]
          /\ \A u \in Threads : pc'[u] \in PastPc =>
               pc[u] \in PastPc /\ ptr'[u] = ptr[u] /\ ret'[u] = ret[u]
      BY <2>1, LoopsAreThreads DEF GetEvents, TypeOK, PastPc, Goto
    <3>3. QED
      BY <3>1, <3>2, RegisteredPtr, RegisteredKept
  <2>2. ASSUME NEW e \in batch[l], NextEvent(l, e)
        PROVE  Registered'
    <3>1. \A f \in Fds : reg'[f] # NoReg =>
            /\ reg[f] # NoReg /\ reg'[f].ptr = reg[f].ptr
            /\ fd'[reg[f].ptr] = fd[reg[f].ptr]
      BY <2>2, LoopsAreThreads DEF NextEvent, AddRef
    <3>2. /\ \A h \in Handles : conns[h] # None => conns'[h] = conns[h]
          /\ \A l1 \in Loops : pc[l1] \in {"k_state", "k_sock"} =>
               pc'[l1] \in {"k_state", "k_sock"} /\ ptr'[l1] = ptr[l1]
          /\ \A u \in Threads : pc'[u] \in PastPc =>
               pc[u] \in PastPc /\ ptr'[u] = ptr[u] /\ ret'[u] = ret[u]
      BY <2>2, LoopsAreThreads DEF NextEvent, AddRef, TypeOK, PastPc, Goto
    <3>3. QED
      BY <3>1, <3>2, RegisteredPtr, RegisteredKept
  <2>3. CASE ReleaseEvent(l)
    <3>1. \A f \in Fds : reg'[f] # NoReg =>
            /\ reg[f] # NoReg /\ reg'[f].ptr = reg[f].ptr
            /\ fd'[reg[f].ptr] = fd[reg[f].ptr]
      BY <2>3, LoopsAreThreads
        DEF ReleaseEvent, Release, Destroy, CloseFds, TypeOK, Reg, Registered
    <3>2. /\ \A h \in Handles : conns[h] # None => conns'[h] = conns[h]
          /\ \A l1 \in Loops : pc[l1] \in {"k_state", "k_sock"} =>
               pc'[l1] \in {"k_state", "k_sock"} /\ ptr'[l1] = ptr[l1]
          /\ \A u \in Threads : pc'[u] \in PastPc =>
               pc[u] \in PastPc /\ ptr'[u] = ptr[u] /\ ret'[u] = ret[u]
      BY <2>3, LoopsAreThreads
        DEF ReleaseEvent, Release, Destroy, CloseFds, TypeOK, PastPc, Goto
    <3>3. QED
      BY <3>1, <3>2, RegisteredPtr, RegisteredKept
  <2>4. CASE CallbackReturn(l)
    <3>1. \A f \in Fds : reg'[f] # NoReg =>
            /\ reg[f] # NoReg /\ reg'[f].ptr = reg[f].ptr
            /\ fd'[reg[f].ptr] = fd[reg[f].ptr]
      BY <2>4, LoopsAreThreads DEF CallbackReturn
    <3>2. /\ \A h \in Handles : conns[h] # None => conns'[h] = conns[h]
          /\ \A l1 \in Loops : pc[l1] \in {"k_state", "k_sock"} =>
               pc'[l1] \in {"k_state", "k_sock"} /\ ptr'[l1] = ptr[l1]
          /\ \A u \in Threads : pc'[u] \in PastPc =>
               pc[u] \in PastPc /\ ptr'[u] = ptr[u] /\ ret'[u] = ret[u]
      BY SMTT(30), <2>4, LoopsAreThreads DEF CallbackReturn, TypeOK, PastPc, Goto
    <3>3. QED
      BY <3>1, <3>2, RegisteredPtr, RegisteredKept
  <2>5. QED
    BY <1>10, <2>1, <2>2, <2>3, <2>4 DEF RoundStep
<1>11. ASSUME NEW l \in Loops, ReadStep(l) PROVE  Registered'
  <2>1. CASE ReadSkip(l) \/ ReadBegin(l) \/ ReadData(l) \/ ReadBroken(l)
             \/ ReadDone(l) \/ ReadMore(l)
    <3>1. \A f \in Fds : reg'[f] # NoReg =>
            /\ reg[f] # NoReg /\ reg'[f].ptr = reg[f].ptr
            /\ fd'[reg[f].ptr] = fd[reg[f].ptr]
      BY <2>1, LoopsAreThreads
        DEF ReadSkip, ReadBegin, ReadData, ReadBroken, BeginClose, ReadDone,
            ReadMore
    <3>2. /\ \A h \in Handles : conns[h] # None => conns'[h] = conns[h]
          /\ \A l1 \in Loops : pc[l1] \in {"k_state", "k_sock"} =>
               pc'[l1] \in {"k_state", "k_sock"} /\ ptr'[l1] = ptr[l1]
          /\ \A u \in Threads : pc'[u] \in PastPc =>
               pc[u] \in PastPc /\ ptr'[u] = ptr[u] /\ ret'[u] = ret[u]
      BY <2>1, LoopsAreThreads
        DEF ReadSkip, ReadBegin, ReadData, ReadBroken, BeginClose, ReadDone,
            ReadMore, TypeOK, PastPc, Goto
    <3>3. QED
      BY <3>1, <3>2, RegisteredPtr, RegisteredKept
  <2>2. CASE ReadClosed(l)
    <3>1. \A f \in Fds : reg'[f] # NoReg =>
            /\ reg[f] # NoReg /\ reg'[f].ptr = reg[f].ptr
            /\ fd'[reg[f].ptr] = fd[reg[f].ptr]
      BY <2>2, LoopsAreThreads DEF ReadClosed, Callback
    <3>2. /\ \A h \in Handles : conns[h] # None => conns'[h] = conns[h]
          /\ \A l1 \in Loops : pc[l1] \in {"k_state", "k_sock"} =>
               pc'[l1] \in {"k_state", "k_sock"} /\ ptr'[l1] = ptr[l1]
          /\ \A u \in Threads : pc'[u] \in PastPc =>
               pc[u] \in PastPc /\ ptr'[u] = ptr[u] /\ ret'[u] = ret[u]
      BY <2>2, LoopsAreThreads DEF ReadClosed, Callback, TypeOK, PastPc, Goto
    <3>3. QED
      BY <3>1, <3>2, RegisteredPtr, RegisteredKept
  <2>3. QED
    BY <1>11, <2>1, <2>2 DEF ReadStep
<1>12. ASSUME NEW l \in Loops, WriteStep(l) PROVE  Registered'
  <2>1. CASE WriteSkip(l) \/ WriteOutcome(l) \/ WriteConnected(l)
             \/ OnConnect(l) \/ WriteFailed(l) \/ WriteClosed(l)
    <3>1. \A f \in Fds : reg'[f] # NoReg =>
            /\ reg[f] # NoReg /\ reg'[f].ptr = reg[f].ptr
            /\ fd'[reg[f].ptr] = fd[reg[f].ptr]
      BY <2>1, LoopsAreThreads
        DEF WriteSkip, WriteOutcome, WriteConnected, OnConnect, Callback,
            WriteFailed, BeginClose, WriteClosed
    <3>2. /\ \A h \in Handles : conns[h] # None => conns'[h] = conns[h]
          /\ \A l1 \in Loops : pc[l1] \in {"k_state", "k_sock"} =>
               pc'[l1] \in {"k_state", "k_sock"} /\ ptr'[l1] = ptr[l1]
          /\ \A u \in Threads : pc'[u] \in PastPc =>
               pc[u] \in PastPc /\ ptr'[u] = ptr[u] /\ ret'[u] = ret[u]
      BY <2>1, LoopsAreThreads
        DEF WriteSkip, WriteOutcome, WriteConnected, OnConnect, Callback,
            WriteFailed, BeginClose, WriteClosed, TypeOK, PastPc, Goto
    <3>3. QED
      BY <3>1, <3>2, RegisteredPtr, RegisteredKept
  <2>2. CASE WriteBegin(l) \/ WriteSome(l) \/ WriteAll(l)
    <3>1. \A f \in Fds : reg'[f] # NoReg =>
            /\ reg[f] # NoReg /\ reg'[f].ptr = reg[f].ptr
            /\ fd'[reg[f].ptr] = fd[reg[f].ptr]
      BY <2>2, LoopsAreThreads DEF WriteBegin, WriteSome, WriteAll, Lock
    <3>2. /\ \A h \in Handles : conns[h] # None => conns'[h] = conns[h]
          /\ \A l1 \in Loops : pc[l1] \in {"k_state", "k_sock"} =>
               pc'[l1] \in {"k_state", "k_sock"} /\ ptr'[l1] = ptr[l1]
          /\ \A u \in Threads : pc'[u] \in PastPc =>
               pc[u] \in PastPc /\ ptr'[u] = ptr[u] /\ ret'[u] = ret[u]
      BY <2>2, LoopsAreThreads
        DEF WriteBegin, WriteSome, WriteAll, Lock, TypeOK, PastPc, Goto
    <3>3. QED
      BY <3>1, <3>2, RegisteredPtr, RegisteredKept
  <2>3. CASE WriteSetEvent(l)
    <3>1. \A f \in Fds : reg'[f] # NoReg =>
            /\ reg[f] # NoReg /\ reg'[f].ptr = reg[f].ptr
            /\ fd'[reg[f].ptr] = fd[reg[f].ptr]
      <4>1. pc[l] \in CtlPc /\ CtlMod(tfd[l], Target(l), FALSE) /\ UNCHANGED fd
        BY <2>3, LoopsAreThreads DEF WriteSetEvent, CtlPc, Target
      <4>2. QED
        BY <4>1, CtlModKeeps, LoopsAreThreads
    <3>2. /\ \A h \in Handles : conns[h] # None => conns'[h] = conns[h]
          /\ \A l1 \in Loops : pc[l1] \in {"k_state", "k_sock"} =>
               pc'[l1] \in {"k_state", "k_sock"} /\ ptr'[l1] = ptr[l1]
          /\ \A u \in Threads : pc'[u] \in PastPc =>
               pc[u] \in PastPc /\ ptr'[u] = ptr[u] /\ ret'[u] = ret[u]
      BY <2>3, LoopsAreThreads DEF WriteSetEvent, CtlMod, TypeOK, PastPc, Goto
    <3>3. QED
      BY <3>1, <3>2, RegisteredPtr, RegisteredKept
  <2>4. QED
    BY <1>12, <2>1, <2>2, <2>3 DEF WriteStep
<1>13. ASSUME NEW l \in Loops, TimeStep(l) PROVE  Registered'
  <2>1. CASE TimeSkip(l) \/ CheckTimeout(l) \/ TimeoutClose(l)
             \/ TimeoutClosed(l)
    <3>1. \A f \in Fds : reg'[f] # NoReg =>
            /\ reg[f] # NoReg /\ reg'[f].ptr = reg[f].ptr
            /\ fd'[reg[f].ptr] = fd[reg[f].ptr]
      BY <2>1, LoopsAreThreads
        DEF TimeSkip, CheckTimeout, TimeoutClose, BeginClose, TimeoutClosed,
            Callback
    <3>2. /\ \A h \in Handles : conns[h] # None => conns'[h] = conns[h]
          /\ \A l1 \in Loops : pc[l1] \in {"k_state", "k_sock"} =>
               pc'[l1] \in {"k_state", "k_sock"} /\ ptr'[l1] = ptr[l1]
          /\ \A u \in Threads : pc'[u] \in PastPc =>
               pc[u] \in PastPc /\ ptr'[u] = ptr[u] /\ ret'[u] = ret[u]
      BY <2>1, LoopsAreThreads
        DEF TimeSkip, CheckTimeout, TimeoutClose, BeginClose, TimeoutClosed,
            Callback, TypeOK, PastPc, Goto
    <3>3. QED
      BY <3>1, <3>2, RegisteredPtr, RegisteredKept
  <2>2. CASE Clear(l)
    <3>1. \A f \in Fds : reg'[f] # NoReg =>
            /\ reg[f] # NoReg /\ reg'[f].ptr = reg[f].ptr
            /\ fd'[reg[f].ptr] = fd[reg[f].ptr]
      BY <2>2, LoopsAreThreads
        DEF Clear, Release, Destroy, CloseFds, TypeOK, Reg, Registered
    <3>2. /\ \A h \in Handles : conns[h] # None => conns'[h] = conns[h]
          /\ \A l1 \in Loops : pc[l1] \in {"k_state", "k_sock"} =>
               pc'[l1] \in {"k_state", "k_sock"} /\ ptr'[l1] = ptr[l1]
          /\ \A u \in Threads : pc'[u] \in PastPc =>
               pc[u] \in PastPc /\ ptr'[u] = ptr[u] /\ ret'[u] = ret[u]
      BY <2>2, LoopsAreThreads
        DEF Clear, Release, Destroy, CloseFds, TypeOK, PastPc, Goto
    <3>3. QED
      BY <3>1, <3>2, RegisteredPtr, RegisteredKept
  <2>3. QED
    BY <1>13, <2>1, <2>2 DEF TimeStep
<1>14. ASSUME NEW c \in Conns, NetStep(c)
      PROVE  Registered'
  <2>1. \A f \in Fds : reg'[f] # NoReg =>
          /\ reg[f] # NoReg /\ reg'[f].ptr = reg[f].ptr
          /\ fd'[reg[f].ptr] = fd[reg[f].ptr]
    BY <1>14 DEF NetStep
  <2>2. /\ \A h \in Handles : conns[h] # None => conns'[h] = conns[h]
        /\ \A l1 \in Loops : pc[l1] \in {"k_state", "k_sock"} =>
             pc'[l1] \in {"k_state", "k_sock"} /\ ptr'[l1] = ptr[l1]
        /\ \A u \in Threads : pc'[u] \in PastPc =>
             pc[u] \in PastPc /\ ptr'[u] = ptr[u] /\ ret'[u] = ret[u]
    BY <1>14, LoopsAreThreads DEF NetStep, TypeOK, PastPc, Goto
  <2>3. QED
    BY <2>1, <2>2, RegisteredPtr, RegisteredKept
<1>15. ASSUME NEW c \in Conns, Tick(c)
      PROVE  Registered'
  <2>1. \A f \in Fds : reg'[f] # NoReg =>
          /\ reg[f] # NoReg /\ reg'[f].ptr = reg[f].ptr
          /\ fd'[reg[f].ptr] = fd[reg[f].ptr]
    BY <1>15 DEF Tick
  <2>2. /\ \A h \in Handles : conns[h] # None => conns'[h] = conns[h]
        /\ \A l1 \in Loops : pc[l1] \in {"k_state", "k_sock"} =>
             pc'[l1] \in {"k_state", "k_sock"} /\ ptr'[l1] = ptr[l1]
        /\ \A u \in Threads : pc'[u] \in PastPc =>
             pc[u] \in PastPc /\ ptr'[u] = ptr[u] /\ ret'[u] = ret[u]
    BY <1>15, LoopsAreThreads DEF Tick, TypeOK, PastPc, Goto
  <2>3. QED
    BY <2>1, <2>2, RegisteredPtr, RegisteredKept
<1>16. CASE UNCHANGED vars
  BY <1>16 DEF Registered, Online
<1>17. QED
  BY <1>1, <1>2, <1>3, <1>4, <1>5, <1>6, <1>7, <1>8, <1>9, <1>10, <1>11, <1>12,
     <1>13, <1>14, <1>15, <1>16
    DEF Next, ApiCall, CallStep, LoopStep

\* The loop handles an event of a connection.
LEMMA EventConn ==
  ASSUME TypeInv
  PROVE  \A l \in Loops : pc[l] = "w_ctl" => cur[l].conn \in Conns
BY DEF TypeInv, LoopLocals, EventPc, Event

\* What a step must keep for a connection to stay watched.
LEMMA WatchingKept ==
  ASSUME RefInv,
         \A c \in Conns, h \in Handles : conns'[h] = c =>
           /\ \E k \in Handles : conns[k] = c
           /\ fd'[c] = fd[c] /\ reg'[fd[c]].ptr = reg[fd[c]].ptr,
         \A u \in Threads : pc[u] \in AddPc => pc'[u] \in AddPc /\ new'[u] = new[u],
         \A u \in Threads : pc[u] = "k_remove" => pc'[u] = pc[u] /\ ptr'[u] = ptr[u]
  PROVE  Watching'
<1>1. ASSUME NEW c \in Conns, \E h \in Handles : conns'[h] = c,
             \A t \in Threads : pc'[t] \in AddPc => new'[t] # c,
             \A t \in Threads : pc'[t] = "k_remove" => ptr'[t] # c
      PROVE  reg'[fd'[c]].ptr = c
  <2>1. /\ \E h \in Handles : conns[h] = c
        /\ \A t \in Threads : pc[t] \in AddPc => new[t] # c
        /\ \A t \in Threads : pc[t] = "k_remove" => ptr[t] # c
    BY <1>1
  <2>2. reg[fd[c]].ptr = c
    BY <2>1 DEF RefInv, Watching, Online
  <2>3. fd'[c] = fd[c] /\ reg'[fd[c]].ptr = reg[fd[c]].ptr
    BY <1>1
  <2>4. QED
    BY <2>2, <2>3
<1>2. QED
  BY <1>1 DEF Watching, Online

\* A step away from every mutex.
LEMMA ArmsKept ==
  ASSUME TypeInv, RefInv, UNCHANGED mtx,
         \A c \in Conns : pending'[c] => pending[c],
         \A f \in Fds : reg'[f] # NoReg => reg'[f] = reg[f] \/ reg'[f].w,
         \A u \in Threads : pc'[u] = "s_ctl" => pc[u] = "s_ctl" /\ ptr'[u] = ptr[u],
         \A l \in Loops : pc'[l] = "w_ctl" => pc[l] = "w_ctl" /\ cur'[l] = cur[l]
  PROVE  Arms'
<1>1. \A t \in Threads : pc'[t] = "s_ctl" => mtx'[ptr'[t]] = t
  BY DEF RefInv, Arms
<1>2. \A l \in Loops : pc'[l] = "w_ctl" =>
        mtx'[cur'[l].conn] = l /\ ~pending'[cur'[l].conn]
  BY EventConn DEF RefInv, Arms
<1>3. \A f \in Fds :
        reg'[f] # NoReg /\ pending'[reg'[f].ptr] /\ mtx'[reg'[f].ptr] = None => reg'[f].w
  BY RegisteredPtr DEF RefInv, Arms
<1>4. QED
  BY <1>1, <1>2, <1>3 DEF Arms

\* A registered connection stays so when others are released.
LEMMA ReleaseWatch ==
  ASSUME TypeInv, RefInv, Counted', NEW S \in SUBSET Conns, Destroy(S), UNCHANGED conns
  PROVE  \A c \in Conns, h \in Handles : conns'[h] = c =>
           /\ \E k \in Handles : conns[k] = c
           /\ fd'[c] = fd[c] /\ reg'[fd[c]].ptr = reg[fd[c]].ptr
<1>1. ASSUME NEW c \in Conns, NEW h \in Handles, conns'[h] = c
      PROVE  fd'[c] = fd[c] /\ reg'[fd[c]].ptr = reg[fd[c]].ptr
  <2>1. life'[c] = "live"
    BY <1>1, OnlineLiveNext
  <2>2. c \notin S
    BY <2>1 DEF Destroy
  <2>3. fd[c] # NoFd /\ fd[c] \in Fds
    BY <1>1 DEF RefInv, Sockets, Online, TypeInv, TypeOK
  <2>4. \A d \in S : fd[d] # fd[c]
    BY <2>2, <2>3 DEF RefInv, Sockets
  <2>5. QED
    BY <2>2, <2>3, <2>4 DEF Destroy, CloseFds
<1>2. QED
  BY <1>1
\* A step keeps the write interest armed for output that waits, and the
\* online connections watched.
LEMMA ArmingStep ==
  ASSUME OneConnector, TypeInv, CloseInv, RefInv, [Next]_vars, Counted'
  PROVE  Arms' /\ Watching'
<1> USE DEF TypeInv, CloseInv, RefInv
<1>1. ASSUME NEW t \in Threads, NEW n \in Conns, ConnectNew(t, n)
      PROVE  Arms' /\ Watching'
  <2>1. \A c \in Conns, h \in Handles : conns'[h] = c =>
          /\ \E k \in Handles : conns[k] = c
          /\ fd'[c] = fd[c] /\ reg'[fd[c]].ptr = reg[fd[c]].ptr
    BY <1>1 DEF ConnectNew, CanCall, Goto
  <2>2. /\ UNCHANGED mtx
        /\ \A c \in Conns : pending'[c] => pending[c]
        /\ \A f \in Fds : reg'[f] # NoReg => reg'[f] = reg[f] \/ reg'[f].w
        /\ \A u \in Threads : pc'[u] = "s_ctl" => pc[u] = "s_ctl" /\ ptr'[u] = ptr[u]
        /\ \A k \in Loops : pc'[k] = "w_ctl" => pc[k] = "w_ctl" /\ cur'[k] = cur[k]
    BY <1>1, LoopsAreThreads DEF ConnectNew, CanCall, TypeOK, Goto
  <2>3. Arms'
    BY <2>2, ArmsKept
  <2>4. /\ \A u \in Threads : pc[u] \in AddPc => pc'[u] \in AddPc /\ new'[u] = new[u]
        /\ \A u \in Threads : pc[u] = "k_remove" => pc'[u] = pc[u] /\ ptr'[u] = ptr[u]
    BY <1>1, LoopsAreThreads DEF ConnectNew, CanCall, TypeOK, AddPc, Goto
  <2>5. Watching'
    BY <2>1, <2>4, WatchingKept
  <2>6. QED
    BY <2>3, <2>5
<1>2. ASSUME NEW t \in Threads, NEW g \in Handles, SendCall(t, g)
      PROVE  Arms' /\ Watching'
  <2>1. \A c \in Conns, h \in Handles : conns'[h] = c =>
          /\ \E k \in Handles : conns[k] = c
          /\ fd'[c] = fd[c] /\ reg'[fd[c]].ptr = reg[fd[c]].ptr
    BY <1>2 DEF SendCall, AddRef, CanCall, Home, Goto
  <2>2. /\ UNCHANGED mtx
        /\ \A c \in Conns : pending'[c] => pending[c]
        /\ \A f \in Fds : reg'[f] # NoReg => reg'[f] = reg[f] \/ reg'[f].w
        /\ \A u \in Threads : pc'[u] = "s_ctl" => pc[u] = "s_ctl" /\ ptr'[u] = ptr[u]
        /\ \A k \in Loops : pc'[k] = "w_ctl" => pc[k] = "w_ctl" /\ cur'[k] = cur[k]
    BY <1>2, LoopsAreThreads DEF SendCall, AddRef, CanCall, Home, TypeOK, Goto
  <2>3. Arms'
    BY <2>2, ArmsKept
  <2>4. /\ \A u \in Threads : pc[u] \in AddPc => pc'[u] \in AddPc /\ new'[u] = new[u]
        /\ \A u \in Threads : pc[u] = "k_remove" => pc'[u] = pc[u] /\ ptr'[u] = ptr[u]
    BY <1>2, LoopsAreThreads
      DEF SendCall, AddRef, CanCall, Home, TypeOK, AddPc, Goto
  <2>5. Watching'
    BY <2>1, <2>4, WatchingKept
  <2>6. QED
    BY <2>3, <2>5
<1>3. ASSUME NEW t \in Threads, NEW g \in Handles, CloseCall(t, g)
      PROVE  Arms' /\ Watching'
  <2>1. \A c \in Conns, h \in Handles : conns'[h] = c =>
          /\ \E k \in Handles : conns[k] = c
          /\ fd'[c] = fd[c] /\ reg'[fd[c]].ptr = reg[fd[c]].ptr
    BY <1>3 DEF CloseCall, BeginClose, CanCall, Home, Goto
  <2>2. /\ UNCHANGED mtx
        /\ \A c \in Conns : pending'[c] => pending[c]
        /\ \A f \in Fds : reg'[f] # NoReg => reg'[f] = reg[f] \/ reg'[f].w
        /\ \A u \in Threads : pc'[u] = "s_ctl" => pc[u] = "s_ctl" /\ ptr'[u] = ptr[u]
        /\ \A k \in Loops : pc'[k] = "w_ctl" => pc[k] = "w_ctl" /\ cur'[k] = cur[k]
    BY <1>3, LoopsAreThreads
      DEF CloseCall, BeginClose, CanCall, Home, TypeOK, Goto
  <2>3. Arms'
    BY <2>2, ArmsKept
  <2>4. /\ \A u \in Threads : pc[u] \in AddPc => pc'[u] \in AddPc /\ new'[u] = new[u]
        /\ \A u \in Threads : pc[u] = "k_remove" => pc'[u] = pc[u] /\ ptr'[u] = ptr[u]
    BY <1>3, LoopsAreThreads
      DEF CloseCall, BeginClose, CanCall, Home, TypeOK, AddPc, Goto
  <2>5. Watching'
    BY <2>1, <2>4, WatchingKept
  <2>6. QED
    BY <2>3, <2>5
<1>4. ASSUME NEW t \in Threads, NEW g \in Handles, StatusCall(t, g)
      PROVE  Arms' /\ Watching'
  <2>1. \A c \in Conns, h \in Handles : conns'[h] = c =>
          /\ \E k \in Handles : conns[k] = c
          /\ fd'[c] = fd[c] /\ reg'[fd[c]].ptr = reg[fd[c]].ptr
    BY <1>4 DEF StatusCall, AddRef, CanCall, Goto
  <2>2. /\ UNCHANGED mtx
        /\ \A c \in Conns : pending'[c] => pending[c]
        /\ \A f \in Fds : reg'[f] # NoReg => reg'[f] = reg[f] \/ reg'[f].w
        /\ \A u \in Threads : pc'[u] = "s_ctl" => pc[u] = "s_ctl" /\ ptr'[u] = ptr[u]
        /\ \A k \in Loops : pc'[k] = "w_ctl" => pc[k] = "w_ctl" /\ cur'[k] = cur[k]
    BY <1>4, LoopsAreThreads DEF StatusCall, AddRef, CanCall, TypeOK, Goto
  <2>3. Arms'
    BY <2>2, ArmsKept
  <2>4. /\ \A u \in Threads : pc[u] \in AddPc => pc'[u] \in AddPc /\ new'[u] = new[u]
        /\ \A u \in Threads : pc[u] = "k_remove" => pc'[u] = pc[u] /\ ptr'[u] = ptr[u]
    BY <1>4, LoopsAreThreads
      DEF StatusCall, AddRef, CanCall, TypeOK, AddPc, Goto
  <2>5. Watching'
    BY <2>1, <2>4, WatchingKept
  <2>6. QED
    BY <2>3, <2>5
<1>5. ASSUME NEW t \in Threads, ConnectStep(t) PROVE  Arms' /\ Watching'
  <2>1. CASE MakeHandleStore(t) \/ MakeHandleCheck(t)
    <3>1. \A c \in Conns, h \in Handles : conns'[h] = c =>
            /\ \E k \in Handles : conns[k] = c
            /\ fd'[c] = fd[c] /\ reg'[fd[c]].ptr = reg[fd[c]].ptr
      BY <2>1 DEF MakeHandleStore, NextHandle, MakeHandleCheck, AddRef, Goto
    <3>2. /\ UNCHANGED mtx
          /\ \A c \in Conns : pending'[c] => pending[c]
          /\ \A f \in Fds : reg'[f] # NoReg => reg'[f] = reg[f] \/ reg'[f].w
          /\ \A u \in Threads : pc'[u] = "s_ctl" => pc[u] = "s_ctl" /\ ptr'[u] = ptr[u]
          /\ \A k \in Loops : pc'[k] = "w_ctl" => pc[k] = "w_ctl" /\ cur'[k] = cur[k]
      BY <2>1, LoopsAreThreads
        DEF MakeHandleStore, NextHandle, MakeHandleCheck, AddRef, TypeOK, Goto
    <3>3. Arms'
      BY <3>2, ArmsKept
    <3>4. /\ \A u \in Threads : pc[u] \in AddPc => pc'[u] \in AddPc /\ new'[u] = new[u]
          /\ \A u \in Threads : pc[u] = "k_remove" => pc'[u] = pc[u] /\ ptr'[u] = ptr[u]
      BY <2>1, LoopsAreThreads
        DEF MakeHandleStore, NextHandle, MakeHandleCheck, AddRef, TypeOK, AddPc,
            Goto
    <3>5. Watching'
      BY <3>1, <3>4, WatchingKept
    <3>6. QED
      BY <3>3, <3>5
  <2>2. CASE MakeHandleNext(t)
    <3>1. \A c \in Conns, h \in Handles : conns'[h] = c =>
            /\ \E k \in Handles : conns[k] = c
            /\ fd'[c] = fd[c] /\ reg'[fd[c]].ptr = reg[fd[c]].ptr
      <4>1. Destroy({c \in {ptr[t]} : ref[c] = 1}) /\ UNCHANGED conns
        BY <2>2 DEF MakeHandleNext, Release
      <4>2. {c \in {ptr[t]} : ref[c] = 1} \in SUBSET Conns
        BY <2>2 DEF MakeHandleNext, CallLocals, PtrPc
      <4>3. QED
        BY <4>1, <4>2, ReleaseWatch
    <3>2. /\ UNCHANGED mtx
          /\ \A c \in Conns : pending'[c] => pending[c]
          /\ \A f \in Fds : reg'[f] # NoReg => reg'[f] = reg[f] \/ reg'[f].w
          /\ \A u \in Threads : pc'[u] = "s_ctl" => pc[u] = "s_ctl" /\ ptr'[u] = ptr[u]
          /\ \A k \in Loops : pc'[k] = "w_ctl" => pc[k] = "w_ctl" /\ cur'[k] = cur[k]
      BY <2>2, LoopsAreThreads
        DEF MakeHandleNext, NextHandle, Release, Destroy, CloseFds, TypeOK, Goto
    <3>3. Arms'
      BY <3>2, ArmsKept
    <3>4. /\ \A u \in Threads : pc[u] \in AddPc => pc'[u] \in AddPc /\ new'[u] = new[u]
          /\ \A u \in Threads : pc[u] = "k_remove" => pc'[u] = pc[u] /\ ptr'[u] = ptr[u]
      BY <2>2, LoopsAreThreads
        DEF MakeHandleNext, NextHandle, Release, Destroy, CloseFds, TypeOK,
            AddPc, Goto
    <3>5. Watching'
      BY <3>1, <3>4, WatchingKept
    <3>6. QED
      BY <3>3, <3>5
  <2>3. CASE MakeHandleReturn(t)
    <3>1. \A c \in Conns, h \in Handles : conns'[h] = c =>
            /\ \E k \in Handles : conns[k] = c
            /\ fd'[c] = fd[c] /\ reg'[fd[c]].ptr = reg[fd[c]].ptr
      BY <2>3 DEF MakeHandleReturn, Goto
    <3>2. /\ UNCHANGED mtx
          /\ \A c \in Conns : pending'[c] => pending[c]
          /\ \A f \in Fds : reg'[f] # NoReg => reg'[f] = reg[f] \/ reg'[f].w
          /\ \A u \in Threads : pc'[u] = "s_ctl" => pc[u] = "s_ctl" /\ ptr'[u] = ptr[u]
          /\ \A k \in Loops : pc'[k] = "w_ctl" => pc[k] = "w_ctl" /\ cur'[k] = cur[k]
      BY <2>3, LoopsAreThreads DEF MakeHandleReturn, TypeOK, Goto
    <3>3. Arms'
      BY <3>2, ArmsKept
    <3>4. /\ \A u \in Threads : pc[u] \in AddPc => pc'[u] \in AddPc /\ new'[u] = new[u]
          /\ \A u \in Threads : pc[u] = "k_remove" => pc'[u] = pc[u] /\ ptr'[u] = ptr[u]
      BY <2>3, LoopsAreThreads DEF MakeHandleReturn, TypeOK, AddPc, Goto
    <3>5. Watching'
      BY <3>1, <3>4, WatchingKept
    <3>6. QED
      BY <3>3, <3>5
  <2>4. CASE ConnectSocket(t)
    <3>1. \A c \in Conns, h \in Handles : conns'[h] = c =>
            /\ \E k \in Handles : conns[k] = c
            /\ fd'[c] = fd[c] /\ reg'[fd[c]].ptr = reg[fd[c]].ptr
      BY <2>4 DEF ConnectSocket, Private, Unused, Online, Creating
    <3>2. /\ UNCHANGED mtx
          /\ \A c \in Conns : pending'[c] => pending[c]
          /\ \A f \in Fds : reg'[f] # NoReg => reg'[f] = reg[f] \/ reg'[f].w
          /\ \A u \in Threads : pc'[u] = "s_ctl" => pc[u] = "s_ctl" /\ ptr'[u] = ptr[u]
          /\ \A k \in Loops : pc'[k] = "w_ctl" => pc[k] = "w_ctl" /\ cur'[k] = cur[k]
      BY <2>4, LoopsAreThreads DEF ConnectSocket, TypeOK, Goto
    <3>3. Arms'
      BY <3>2, ArmsKept
    <3>4. /\ \A u \in Threads : pc[u] \in AddPc => pc'[u] \in AddPc /\ new'[u] = new[u]
          /\ \A u \in Threads : pc[u] = "k_remove" => pc'[u] = pc[u] /\ ptr'[u] = ptr[u]
      BY <2>4, LoopsAreThreads DEF ConnectSocket, TypeOK, AddPc, Goto
    <3>5. Watching'
      BY <3>1, <3>4, WatchingKept
    <3>6. QED
      BY <3>3, <3>5
  <2>5. CASE ConnectFail(t)
    <3>1. \A c \in Conns, h \in Handles : conns'[h] = c =>
            /\ \E k \in Handles : conns[k] = c
            /\ fd'[c] = fd[c] /\ reg'[fd[c]].ptr = reg[fd[c]].ptr
      <4>1. Destroy({new[t]}) /\ UNCHANGED conns
        BY <2>5 DEF ConnectFail, Delete
      <4>2. {new[t]} \in SUBSET Conns
        BY <2>5 DEF ConnectFail, ConnectLocals, ConnectPc
      <4>3. QED
        BY <4>1, <4>2, ReleaseWatch
    <3>2. /\ UNCHANGED mtx
          /\ \A c \in Conns : pending'[c] => pending[c]
          /\ \A f \in Fds : reg'[f] # NoReg => reg'[f] = reg[f] \/ reg'[f].w
          /\ \A u \in Threads : pc'[u] = "s_ctl" => pc[u] = "s_ctl" /\ ptr'[u] = ptr[u]
          /\ \A k \in Loops : pc'[k] = "w_ctl" => pc[k] = "w_ctl" /\ cur'[k] = cur[k]
      BY <2>5, LoopsAreThreads
        DEF ConnectFail, Delete, Destroy, CloseFds, Home, TypeOK, Goto
    <3>3. Arms'
      BY <3>2, ArmsKept
    <3>4. /\ \A u \in Threads : pc[u] \in AddPc => pc'[u] \in AddPc /\ new'[u] = new[u]
          /\ \A u \in Threads : pc[u] = "k_remove" => pc'[u] = pc[u] /\ ptr'[u] = ptr[u]
      BY <2>5, LoopsAreThreads
        DEF ConnectFail, Delete, Destroy, CloseFds, Home, TypeOK, AddPc, Goto
    <3>5. Watching'
      BY <3>1, <3>4, WatchingKept
    <3>6. QED
      BY <3>3, <3>5
  <2>6. CASE AddConn(t)
    <3>1. ASSUME NEW c \in Conns, \E h \in Handles : conns'[h] = c,
                 \A u \in Threads : pc'[u] \in AddPc => new'[u] # c,
                 \A u \in Threads : pc'[u] = "k_remove" => ptr'[u] # c
          PROVE  reg'[fd'[c]].ptr = c
      <4>1. /\ pc[t] = "c_add" /\ pc' = [pc EXCEPT ![t] = "c_getfd"]
            /\ conns' = [conns EXCEPT ![handle[new[t]]] = new[t]]
            /\ UNCHANGED <<fd, new, ptr, reg>>
        BY <2>6 DEF AddConn, Goto
      <4>2. c # new[t] /\ handle[new[t]] \in Handles
        BY <3>1, <4>1 DEF TypeOK, AddPc, ConnectLocals
      <4>3. /\ \A u \in Threads : pc[u] \in AddPc => new[u] # c
            /\ \A u \in Threads : pc[u] = "k_remove" => ptr[u] # c
        BY <3>1, <4>1 DEF TypeOK, AddPc
      <4>4. \E h \in Handles : conns[h] = c
        BY <3>1, <4>1, <4>2 DEF TypeOK
      <4>5. QED
        BY <4>1, <4>3, <4>4 DEF Watching, Online
    <3>5. Watching'
      BY <3>1 DEF Watching, Online
    <3>2. /\ UNCHANGED mtx
          /\ \A c \in Conns : pending'[c] => pending[c]
          /\ \A f \in Fds : reg'[f] # NoReg => reg'[f] = reg[f] \/ reg'[f].w
          /\ \A u \in Threads : pc'[u] = "s_ctl" => pc[u] = "s_ctl" /\ ptr'[u] = ptr[u]
          /\ \A k \in Loops : pc'[k] = "w_ctl" => pc[k] = "w_ctl" /\ cur'[k] = cur[k]
      BY <2>6, LoopsAreThreads DEF AddConn, TypeOK, Goto
    <3>3. Arms'
      BY <3>2, ArmsKept
    <3>6. QED
      BY <3>3, <3>5
  <2>7. CASE AddConnTaken(t)
    <3>1. \A c \in Conns, h \in Handles : conns'[h] = c =>
            /\ \E k \in Handles : conns[k] = c
            /\ fd'[c] = fd[c] /\ reg'[fd[c]].ptr = reg[fd[c]].ptr
      <4>1. Destroy({new[t]}) /\ UNCHANGED conns
        BY <2>7 DEF AddConnTaken, Delete
      <4>2. {new[t]} \in SUBSET Conns
        BY <2>7 DEF AddConnTaken, ConnectLocals, ConnectPc
      <4>3. QED
        BY <4>1, <4>2, ReleaseWatch
    <3>2. /\ UNCHANGED mtx
          /\ \A c \in Conns : pending'[c] => pending[c]
          /\ \A f \in Fds : reg'[f] # NoReg => reg'[f] = reg[f] \/ reg'[f].w
          /\ \A u \in Threads : pc'[u] = "s_ctl" => pc[u] = "s_ctl" /\ ptr'[u] = ptr[u]
          /\ \A k \in Loops : pc'[k] = "w_ctl" => pc[k] = "w_ctl" /\ cur'[k] = cur[k]
      BY <2>7, LoopsAreThreads
        DEF AddConnTaken, Delete, Destroy, CloseFds, TypeOK, Goto
    <3>3. Arms'
      BY <3>2, ArmsKept
    <3>4. /\ \A u \in Threads : pc[u] \in AddPc => pc'[u] \in AddPc /\ new'[u] = new[u]
          /\ \A u \in Threads : pc[u] = "k_remove" => pc'[u] = pc[u] /\ ptr'[u] = ptr[u]
      BY <2>7, LoopsAreThreads
        DEF AddConnTaken, Delete, Destroy, CloseFds, TypeOK, AddPc, Goto
    <3>5. Watching'
      BY <3>1, <3>4, WatchingKept
    <3>6. QED
      BY <3>3, <3>5
  <2>8. CASE AddConnLog(t) \/ AddEventFd(t)
    <3>1. \A c \in Conns, h \in Handles : conns'[h] = c =>
            /\ \E k \in Handles : conns[k] = c
            /\ fd'[c] = fd[c] /\ reg'[fd[c]].ptr = reg[fd[c]].ptr
      BY <2>8 DEF AddConnLog, Home, AddEventFd, Goto
    <3>2. /\ UNCHANGED mtx
          /\ \A c \in Conns : pending'[c] => pending[c]
          /\ \A f \in Fds : reg'[f] # NoReg => reg'[f] = reg[f] \/ reg'[f].w
          /\ \A u \in Threads : pc'[u] = "s_ctl" => pc[u] = "s_ctl" /\ ptr'[u] = ptr[u]
          /\ \A k \in Loops : pc'[k] = "w_ctl" => pc[k] = "w_ctl" /\ cur'[k] = cur[k]
      BY <2>8, LoopsAreThreads DEF AddConnLog, Home, AddEventFd, TypeOK, Goto
    <3>3. Arms'
      BY <3>2, ArmsKept
    <3>4. /\ \A u \in Threads : pc[u] \in AddPc => pc'[u] \in AddPc /\ new'[u] = new[u]
          /\ \A u \in Threads : pc[u] = "k_remove" => pc'[u] = pc[u] /\ ptr'[u] = ptr[u]
      BY <2>8, LoopsAreThreads
        DEF AddConnLog, Home, AddEventFd, TypeOK, AddPc, Goto
    <3>5. Watching'
      BY <3>1, <3>4, WatchingKept
    <3>6. QED
      BY <3>3, <3>5
  <2>9. CASE AddEventCtl(t)
    <3>1. ASSUME NEW c \in Conns, \E h \in Handles : conns'[h] = c,
                 \A u \in Threads : pc'[u] \in AddPc => new'[u] # c,
                 \A u \in Threads : pc'[u] = "k_remove" => ptr'[u] # c
          PROVE  reg'[fd'[c]].ptr = c
      <4>1. /\ pc[t] = "c_ctl" /\ pc' = [pc EXCEPT ![t] = "c_ret"]
            /\ CtlAdd(tfd[t], new[t])
            /\ UNCHANGED <<conns, fd, new, ptr>>
        BY <2>9 DEF AddEventCtl, Goto
      <4>2. fd[c] # NoFd /\ fd[c] \in Fds /\ fd[c] \in OpenFds
        BY <3>1, <4>1 DEF Sockets, Online, TypeOK, OpenFds
      <4>3. ASSUME reg[fd[c]] # NoReg
            PROVE  reg[fd[c]].ptr = c
        <5>1. reg[fd[c]].ptr \in Conns /\ fd[reg[fd[c]].ptr] = fd[c]
          BY <4>2, <4>3, RegisteredPtr DEF Registered
        <5>2. QED
          BY <4>2, <5>1 DEF Sockets
      <4>4. CASE c = new[t]
        <5>1. fd[c] = tfd[t]
          BY <4>1, <4>2, <4>4 DEF Descriptors, Target, CtlPc
        <5>2. QED
          BY <4>1, <4>2, <4>3, <4>4, <5>1 DEF CtlAdd
      <4>5. CASE c # new[t]
        <5>1. /\ \A u \in Threads : pc[u] \in AddPc => new[u] # c
              /\ \A u \in Threads : pc[u] = "k_remove" => ptr[u] # c
          BY <3>1, <4>1, <4>5 DEF TypeOK
        <5>2. reg[fd[c]].ptr = c
          BY <3>1, <4>1, <5>1 DEF Watching, Online
        <5>3. reg[fd[c]] # NoReg
          BY <5>2 DEF NoReg
        <5>4. QED
          BY <4>1, <4>2, <5>2, <5>3 DEF CtlAdd
      <4>6. QED
        BY <4>4, <4>5
    <3>5. Watching'
      BY <3>1 DEF Watching, Online
    <3>2. /\ UNCHANGED mtx
          /\ \A c \in Conns : pending'[c] => pending[c]
          /\ \A f \in Fds : reg'[f] # NoReg => reg'[f] = reg[f] \/ reg'[f].w
          /\ \A u \in Threads : pc'[u] = "s_ctl" => pc[u] = "s_ctl" /\ ptr'[u] = ptr[u]
          /\ \A k \in Loops : pc'[k] = "w_ctl" => pc[k] = "w_ctl" /\ cur'[k] = cur[k]
      BY <2>9, LoopsAreThreads DEF AddEventCtl, CtlAdd, TypeOK, Goto
    <3>3. Arms'
      BY <3>2, ArmsKept
    <3>6. QED
      BY <3>3, <3>5
  <2>10. CASE ConnectReturn(t)
    <3>1. \A c \in Conns, h \in Handles : conns'[h] = c =>
            /\ \E k \in Handles : conns[k] = c
            /\ fd'[c] = fd[c] /\ reg'[fd[c]].ptr = reg[fd[c]].ptr
      BY <2>10 DEF ConnectReturn, Home, Goto
    <3>2. /\ UNCHANGED mtx
          /\ \A c \in Conns : pending'[c] => pending[c]
          /\ \A f \in Fds : reg'[f] # NoReg => reg'[f] = reg[f] \/ reg'[f].w
          /\ \A u \in Threads : pc'[u] = "s_ctl" => pc[u] = "s_ctl" /\ ptr'[u] = ptr[u]
          /\ \A k \in Loops : pc'[k] = "w_ctl" => pc[k] = "w_ctl" /\ cur'[k] = cur[k]
      BY <2>10, LoopsAreThreads DEF ConnectReturn, Home, TypeOK, Goto
    <3>3. Arms'
      BY <3>2, ArmsKept
    <3>4. /\ \A u \in Threads : pc[u] \in AddPc => pc'[u] \in AddPc /\ new'[u] = new[u]
          /\ \A u \in Threads : pc[u] = "k_remove" => pc'[u] = pc[u] /\ ptr'[u] = ptr[u]
      BY <2>10, LoopsAreThreads DEF ConnectReturn, Home, TypeOK, AddPc, Goto
    <3>5. Watching'
      BY <3>1, <3>4, WatchingKept
    <3>6. QED
      BY <3>3, <3>5
  <2>11. QED
    BY <1>5, <2>1, <2>2, <2>3, <2>4, <2>5, <2>6, <2>7, <2>8, <2>9, <2>10
      DEF ConnectStep
<1>6. ASSUME NEW t \in Threads, SendStep(t) PROVE  Arms' /\ Watching'
  <2>1. CASE DeliverRefused(t)
    <3>1. \A c \in Conns, h \in Handles : conns'[h] = c =>
            /\ \E k \in Handles : conns[k] = c
            /\ fd'[c] = fd[c] /\ reg'[fd[c]].ptr = reg[fd[c]].ptr
      BY <2>1 DEF DeliverRefused, Goto
    <3>2. /\ UNCHANGED mtx
          /\ \A c \in Conns : pending'[c] => pending[c]
          /\ \A f \in Fds : reg'[f] # NoReg => reg'[f] = reg[f] \/ reg'[f].w
          /\ \A u \in Threads : pc'[u] = "s_ctl" => pc[u] = "s_ctl" /\ ptr'[u] = ptr[u]
          /\ \A k \in Loops : pc'[k] = "w_ctl" => pc[k] = "w_ctl" /\ cur'[k] = cur[k]
      BY <2>1, LoopsAreThreads DEF DeliverRefused, TypeOK, Goto
    <3>3. Arms'
      BY <3>2, ArmsKept
    <3>4. /\ \A u \in Threads : pc[u] \in AddPc => pc'[u] \in AddPc /\ new'[u] = new[u]
          /\ \A u \in Threads : pc[u] = "k_remove" => pc'[u] = pc[u] /\ ptr'[u] = ptr[u]
      BY <2>1, LoopsAreThreads DEF DeliverRefused, TypeOK, AddPc, Goto
    <3>5. Watching'
      BY <3>1, <3>4, WatchingKept
    <3>6. QED
      BY <3>3, <3>5
  <2>2. CASE DeliverData(t)
    <3>1. \A c \in Conns, h \in Handles : conns'[h] = c =>
            /\ \E k \in Handles : conns[k] = c
            /\ fd'[c] = fd[c] /\ reg'[fd[c]].ptr = reg[fd[c]].ptr
      BY <2>2 DEF DeliverData, Lock, Goto
    <3>2. /\ mtx[ptr[t]] = None /\ mtx' = [mtx EXCEPT ![ptr[t]] = t]
          /\ pending' = [pending EXCEPT ![ptr[t]] = TRUE]
          /\ pc' = [pc EXCEPT ![t] = "s_ctl"] /\ UNCHANGED <<reg, ptr, cur>>
          /\ ptr[t] \in Conns /\ t \in Threads
      BY <2>2, LoopsAreThreads
        DEF DeliverData, Lock, CallLocals, PtrPc, SendPc, Goto
    <3>3. Arms'
      <4>1. \A u \in Threads : pc'[u] = "s_ctl" => mtx'[ptr'[u]] = u
        BY <3>2 DEF Arms, TypeOK
      <4>2. \A k \in Loops : pc'[k] = "w_ctl" =>
              mtx'[cur'[k].conn] = k /\ ~pending'[cur'[k].conn]
        BY <3>2, LoopsAreThreads DEF Arms, TypeOK
      <4>3. \A f \in Fds :
              reg'[f] # NoReg /\ pending'[reg'[f].ptr] /\ mtx'[reg'[f].ptr] = None => reg'[f].w
        BY <3>2, RegisteredPtr DEF Arms, TypeOK
      <4>4. QED
        BY <4>1, <4>2, <4>3 DEF Arms
    <3>4. /\ \A u \in Threads : pc[u] \in AddPc => pc'[u] \in AddPc /\ new'[u] = new[u]
          /\ \A u \in Threads : pc[u] = "k_remove" => pc'[u] = pc[u] /\ ptr'[u] = ptr[u]
      BY <2>2, LoopsAreThreads DEF DeliverData, Lock, TypeOK, AddPc, Goto
    <3>5. Watching'
      BY <3>1, <3>4, WatchingKept
    <3>6. QED
      BY <3>3, <3>5
  <2>3. CASE DeliverSetEvent(t)
    <3>1. \A c \in Conns, h \in Handles : conns'[h] = c =>
            /\ \E k \in Handles : conns[k] = c
            /\ fd'[c] = fd[c] /\ reg'[fd[c]].ptr = reg[fd[c]].ptr
      <4>1. pc[t] \in CtlPc /\ CtlMod(tfd[t], Target(t), TRUE) /\ t \in Threads /\ UNCHANGED <<conns, fd>>
        BY <2>3, LoopsAreThreads DEF DeliverSetEvent, CtlPc, Target
      <4>2. \A f \in Fds : reg'[f].ptr = reg[f].ptr
        BY <4>1, CtlModKeeps
      <4>3. \A c \in Conns, h \in Handles : conns[h] = c => fd[c] \in Fds
        BY DEF Online, Sockets, TypeOK
      <4>4. QED
        BY <4>1, <4>2, <4>3
    <3>2. /\ mtx' = [mtx EXCEPT ![ptr[t]] = None] /\ pc[t] = "s_ctl" /\ pc[t] \in CtlPc
          /\ pc' = [pc EXCEPT ![t] = "rel"] /\ UNCHANGED <<pending, ptr, cur>>
          /\ ptr[t] \in Conns /\ t \in Threads /\ ptr[t] = Target(t)
          /\ CtlMod(tfd[t], Target(t), TRUE)
      BY <2>3, LoopsAreThreads
        DEF DeliverSetEvent, CallLocals, PtrPc, SendPc, CtlPc, Target, Goto
    <3>3. Arms'
      <4>1. \A u \in Threads : pc'[u] = "s_ctl" => mtx'[ptr'[u]] = u
        BY <3>2 DEF Arms, TypeOK
      <4>2. \A k \in Loops : pc'[k] = "w_ctl" =>
              mtx'[cur'[k].conn] = k /\ ~pending'[cur'[k].conn]
        BY <3>2, LoopsAreThreads DEF Arms, TypeOK
      <4>3. ASSUME NEW f \in Fds, reg'[f] # NoReg, pending'[reg'[f].ptr], mtx'[reg'[f].ptr] = None
            PROVE  reg'[f].w
        <5>1. /\ reg'[f].ptr = reg[f].ptr /\ reg[f] # NoReg /\ reg[f].ptr \in Conns
              /\ reg'[f] # reg[f] => reg[f].ptr = ptr[t]
          BY <3>2, <4>3, CtlModKeeps, RegisteredPtr
        <5>2. CASE reg[f].ptr = ptr[t]
          <6>1. f = tfd[t]
            BY <3>2, <5>1, <5>2 DEF Registered, Descriptors, NoFd
          <6>2. QED
            BY <5>1, <3>2, <6>1 DEF CtlMod
        <5>3. CASE reg[f].ptr # ptr[t]
          BY <3>2, <4>3, <5>1, <5>3 DEF Arms, TypeOK
        <5>4. QED
          BY <5>2, <5>3
      <4>4. QED
        BY <4>1, <4>2, <4>3 DEF Arms
    <3>4. /\ \A u \in Threads : pc[u] \in AddPc => pc'[u] \in AddPc /\ new'[u] = new[u]
          /\ \A u \in Threads : pc[u] = "k_remove" => pc'[u] = pc[u] /\ ptr'[u] = ptr[u]
      BY <2>3, LoopsAreThreads DEF DeliverSetEvent, CtlMod, TypeOK, AddPc, Goto
    <3>5. Watching'
      BY <3>1, <3>4, WatchingKept
    <3>6. QED
      BY <3>3, <3>5
  <2>4. QED
    BY <1>6, <2>1, <2>2, <2>3 DEF SendStep
<1>7. ASSUME NEW t \in Threads, CloseStep(t) PROVE  Arms' /\ Watching'
  <2>1. CASE CloseGet(t)
    <3>1. \A c \in Conns, h \in Handles : conns'[h] = c =>
            /\ \E k \in Handles : conns[k] = c
            /\ fd'[c] = fd[c] /\ reg'[fd[c]].ptr = reg[fd[c]].ptr
      BY <2>1 DEF CloseGet, AddRef, CallEnd, Goto
    <3>2. /\ UNCHANGED <<mtx, pending, reg, cur>>
          /\ \A u \in Threads : pc'[u] = "s_ctl" => pc[u] = "s_ctl" /\ ptr'[u] = ptr[u]
          /\ \A k \in Loops : pc'[k] = "w_ctl" => pc[k] = "w_ctl"
      <4>1. /\ \/ pc' = [pc EXCEPT ![t] = "k_fd"]
               \/ pc' = [pc EXCEPT ![t] = ret[t]]
            /\ \/ ptr' = [ptr EXCEPT ![t] = conns[arg[t]]]
               \/ UNCHANGED ptr
            /\ UNCHANGED <<mtx, pending, reg, cur>>
        BY <2>1 DEF CloseGet, CallEnd, Goto
      <4>2. pc'[t] \notin {"s_ctl", "w_ctl"} /\ \A u \in Threads : u # t => pc'[u] = pc[u] /\ ptr'[u] = ptr[u]
        BY <4>1 DEF TypeOK
      <4>3. QED
        BY <4>1, <4>2, LoopsAreThreads
    <3>3. Arms'
      BY <3>2, ArmsKept
    <3>4. /\ \A u \in Threads : pc[u] \in AddPc => pc'[u] \in AddPc /\ new'[u] = new[u]
          /\ \A u \in Threads : pc[u] = "k_remove" => pc'[u] = pc[u] /\ ptr'[u] = ptr[u]
      BY <2>1, LoopsAreThreads
        DEF CloseGet, AddRef, CallEnd, TypeOK, AddPc, Goto
    <3>5. Watching'
      BY <3>1, <3>4, WatchingKept
    <3>6. QED
      BY <3>3, <3>5
  <2>2. CASE CloseFd(t)
    <3>1. \A c \in Conns, h \in Handles : conns'[h] = c =>
            /\ \E k \in Handles : conns[k] = c
            /\ fd'[c] = fd[c] /\ reg'[fd[c]].ptr = reg[fd[c]].ptr
      BY <2>2 DEF CloseFd, Goto
    <3>2. /\ UNCHANGED mtx
          /\ \A c \in Conns : pending'[c] => pending[c]
          /\ \A f \in Fds : reg'[f] # NoReg => reg'[f] = reg[f] \/ reg'[f].w
          /\ \A u \in Threads : pc'[u] = "s_ctl" => pc[u] = "s_ctl" /\ ptr'[u] = ptr[u]
          /\ \A k \in Loops : pc'[k] = "w_ctl" => pc[k] = "w_ctl" /\ cur'[k] = cur[k]
      BY <2>2, LoopsAreThreads DEF CloseFd, TypeOK, Goto
    <3>3. Arms'
      BY <3>2, ArmsKept
    <3>4. /\ \A u \in Threads : pc[u] \in AddPc => pc'[u] \in AddPc /\ new'[u] = new[u]
          /\ \A u \in Threads : pc[u] = "k_remove" => pc'[u] = pc[u] /\ ptr'[u] = ptr[u]
      BY <2>2, LoopsAreThreads DEF CloseFd, TypeOK, AddPc, Goto
    <3>5. Watching'
      BY <3>1, <3>4, WatchingKept
    <3>6. QED
      BY <3>3, <3>5
  <2>3. CASE CloseRemoveEvent(t)
    <3>1. ASSUME NEW c \in Conns, \E h \in Handles : conns'[h] = c,
                 \A u \in Threads : pc'[u] \in AddPc => new'[u] # c,
                 \A u \in Threads : pc'[u] = "k_remove" => ptr'[u] # c
          PROVE  reg'[fd'[c]].ptr = c
      <4>1. /\ pc[t] = "k_del" /\ pc' = [pc EXCEPT ![t] = "k_remove"]
            /\ reg' = [f \in Fds |-> IF f = tfd[t] THEN NoReg ELSE reg[f]]
            /\ UNCHANGED <<conns, fd, new, ptr>>
        BY <2>3 DEF CloseRemoveEvent, CtlDel, Goto
      <4>2. c # ptr[t]
        BY <3>1, <4>1 DEF TypeOK
      <4>3. fd[c] # NoFd /\ fd[c] \in Fds
        BY <3>1, <4>1 DEF Sockets, Online, TypeOK
      <4>4. fd[c] # tfd[t]
        BY <4>1, <4>2, <4>3 DEF Descriptors, Target
      <4>5. /\ \A u \in Threads : pc[u] \in AddPc => new[u] # c
            /\ \A u \in Threads : pc[u] = "k_remove" => ptr[u] # c
        BY <3>1, <4>1 DEF TypeOK, AddPc
      <4>6. QED
        BY <3>1, <4>1, <4>3, <4>4, <4>5 DEF Watching, Online
    <3>5. Watching'
      BY <3>1 DEF Watching, Online
    <3>2. /\ UNCHANGED mtx
          /\ \A c \in Conns : pending'[c] => pending[c]
          /\ \A f \in Fds : reg'[f] # NoReg => reg'[f] = reg[f] \/ reg'[f].w
          /\ \A u \in Threads : pc'[u] = "s_ctl" => pc[u] = "s_ctl" /\ ptr'[u] = ptr[u]
          /\ \A k \in Loops : pc'[k] = "w_ctl" => pc[k] = "w_ctl" /\ cur'[k] = cur[k]
      BY <2>3, LoopsAreThreads DEF CloseRemoveEvent, CtlDel, TypeOK, Goto
    <3>3. Arms'
      BY <3>2, ArmsKept
    <3>6. QED
      BY <3>3, <3>5
  <2>4. CASE CloseRemoveConn(t)
    <3>1. ASSUME NEW c \in Conns, \E h \in Handles : conns'[h] = c,
                 \A u \in Threads : pc'[u] \in AddPc => new'[u] # c,
                 \A u \in Threads : pc'[u] = "k_remove" => ptr'[u] # c
          PROVE  reg'[fd'[c]].ptr = c
      <4>1. /\ pc[t] = "k_remove" /\ pc' = [pc EXCEPT ![t] = AfterRemove(conns[arg[t]] # None)]
            /\ \/ conns[arg[t]] = None /\ UNCHANGED conns
               \/ conns[arg[t]] # None /\ conns' = [conns EXCEPT ![arg[t]] = None]
            /\ UNCHANGED <<fd, reg, new, ptr>>
        BY <2>4 DEF CloseRemoveConn, Goto
      <4>2. arg[t] \in Handles /\ handle[ptr[t]] = arg[t] /\ ptr[t] \in Conns
        BY <4>1 DEF CallLocals, PtrPc, ClosePc, OneCloser, KillPc
      <4>3. PICK h \in Handles : conns'[h] = c
        BY <3>1
      <4>4. conns[h] = c /\ (conns[arg[t]] # None => h # arg[t])
        BY <4>1, <4>2, <4>3 DEF TypeOK
      <4>5. c # ptr[t]
        BY <4>2, <4>4 DEF UniqueHandle, TypeOK
      <4>6. /\ \A u \in Threads : pc[u] \in AddPc => new[u] # c
            /\ \A u \in Threads : pc[u] = "k_remove" => ptr[u] # c
        BY <3>1, <4>1, <4>5 DEF TypeOK, AddPc, AfterRemove
      <4>7. QED
        BY <4>1, <4>4, <4>6 DEF Watching, Online
    <3>5. Watching'
      BY <3>1 DEF Watching, Online
    <3>2. /\ UNCHANGED mtx
          /\ \A c \in Conns : pending'[c] => pending[c]
          /\ \A f \in Fds : reg'[f] # NoReg => reg'[f] = reg[f] \/ reg'[f].w
          /\ \A u \in Threads : pc'[u] = "s_ctl" => pc[u] = "s_ctl" /\ ptr'[u] = ptr[u]
          /\ \A k \in Loops : pc'[k] = "w_ctl" => pc[k] = "w_ctl" /\ cur'[k] = cur[k]
      BY <2>4, LoopsAreThreads DEF CloseRemoveConn, AfterRemove, TypeOK, Goto
    <3>3. Arms'
      BY <3>2, ArmsKept
    <3>6. QED
      BY <3>3, <3>5
  <2>5. CASE ConnCloseState(t)
    <3>1. \A c \in Conns, h \in Handles : conns'[h] = c =>
            /\ \E k \in Handles : conns[k] = c
            /\ fd'[c] = fd[c] /\ reg'[fd[c]].ptr = reg[fd[c]].ptr
      BY <2>5 DEF ConnCloseState, Goto
    <3>2. /\ UNCHANGED mtx
          /\ \A c \in Conns : pending'[c] => pending[c]
          /\ \A f \in Fds : reg'[f] # NoReg => reg'[f] = reg[f] \/ reg'[f].w
          /\ \A u \in Threads : pc'[u] = "s_ctl" => pc[u] = "s_ctl" /\ ptr'[u] = ptr[u]
          /\ \A k \in Loops : pc'[k] = "w_ctl" => pc[k] = "w_ctl" /\ cur'[k] = cur[k]
      BY <2>5, LoopsAreThreads DEF ConnCloseState, TypeOK, Goto
    <3>3. Arms'
      BY <3>2, ArmsKept
    <3>4. /\ \A u \in Threads : pc[u] \in AddPc => pc'[u] \in AddPc /\ new'[u] = new[u]
          /\ \A u \in Threads : pc[u] = "k_remove" => pc'[u] = pc[u] /\ ptr'[u] = ptr[u]
      BY <2>5, LoopsAreThreads DEF ConnCloseState, TypeOK, AddPc, Goto
    <3>5. Watching'
      BY <3>1, <3>4, WatchingKept
    <3>6. QED
      BY <3>3, <3>5
  <2>6. CASE ConnCloseSocket(t)
    <3>1. \A c \in Conns, h \in Handles : conns'[h] = c =>
            /\ \E k \in Handles : conns[k] = c
            /\ fd'[c] = fd[c] /\ reg'[fd[c]].ptr = reg[fd[c]].ptr
      <4>1. ptr[t] \in Conns /\ ~Online(ptr[t])
        BY <2>6
          DEF ConnCloseSocket, CallLocals, PtrPc, ClosePc, Locals, OneCloser,
              Online
      <4>2. /\ fd' = [c \in Conns |-> IF c \in {ptr[t]} THEN NoFd ELSE fd[c]]
            /\ reg' = [f \in Fds |-> IF \E c \in {ptr[t]} : fd[c] = f THEN NoReg ELSE reg[f]]
            /\ UNCHANGED conns
        BY <2>6 DEF ConnCloseSocket, CloseFds
      <4>3. \A c \in Conns, h \in Handles : conns[h] = c =>
              c # ptr[t] /\ fd[c] # fd[ptr[t]] /\ fd[c] \in Fds
        BY <4>1 DEF Online, Sockets, TypeOK
      <4>4. QED
        BY <4>2, <4>3
    <3>2. /\ UNCHANGED mtx
          /\ \A c \in Conns : pending'[c] => pending[c]
          /\ \A f \in Fds : reg'[f] # NoReg => reg'[f] = reg[f] \/ reg'[f].w
          /\ \A u \in Threads : pc'[u] = "s_ctl" => pc[u] = "s_ctl" /\ ptr'[u] = ptr[u]
          /\ \A k \in Loops : pc'[k] = "w_ctl" => pc[k] = "w_ctl" /\ cur'[k] = cur[k]
      BY <2>6, LoopsAreThreads DEF ConnCloseSocket, CloseFds, TypeOK, Goto
    <3>3. Arms'
      BY <3>2, ArmsKept
    <3>4. /\ \A u \in Threads : pc[u] \in AddPc => pc'[u] \in AddPc /\ new'[u] = new[u]
          /\ \A u \in Threads : pc[u] = "k_remove" => pc'[u] = pc[u] /\ ptr'[u] = ptr[u]
      BY <2>6, LoopsAreThreads
        DEF ConnCloseSocket, CloseFds, TypeOK, AddPc, Goto
    <3>5. Watching'
      BY <3>1, <3>4, WatchingKept
    <3>6. QED
      BY <3>3, <3>5
  <2>7. QED
    BY <1>7, <2>1, <2>2, <2>3, <2>4, <2>5, <2>6 DEF CloseStep
<1>8. ASSUME NEW t \in Threads, StatusStep(t) PROVE  Arms' /\ Watching'
  <2>1. CASE StatusRead(t) \/ StatusReturn(t)
    <3>1. \A c \in Conns, h \in Handles : conns'[h] = c =>
            /\ \E k \in Handles : conns[k] = c
            /\ fd'[c] = fd[c] /\ reg'[fd[c]].ptr = reg[fd[c]].ptr
      BY <2>1 DEF StatusRead, StatusReturn, Home, Goto
    <3>2. /\ UNCHANGED mtx
          /\ \A c \in Conns : pending'[c] => pending[c]
          /\ \A f \in Fds : reg'[f] # NoReg => reg'[f] = reg[f] \/ reg'[f].w
          /\ \A u \in Threads : pc'[u] = "s_ctl" => pc[u] = "s_ctl" /\ ptr'[u] = ptr[u]
          /\ \A k \in Loops : pc'[k] = "w_ctl" => pc[k] = "w_ctl" /\ cur'[k] = cur[k]
      BY <2>1, LoopsAreThreads DEF StatusRead, StatusReturn, Home, TypeOK, Goto
    <3>3. Arms'
      BY <3>2, ArmsKept
    <3>4. /\ \A u \in Threads : pc[u] \in AddPc => pc'[u] \in AddPc /\ new'[u] = new[u]
          /\ \A u \in Threads : pc[u] = "k_remove" => pc'[u] = pc[u] /\ ptr'[u] = ptr[u]
      BY <2>1, LoopsAreThreads
        DEF StatusRead, StatusReturn, Home, TypeOK, AddPc, Goto
    <3>5. Watching'
      BY <3>1, <3>4, WatchingKept
    <3>6. QED
      BY <3>3, <3>5
  <2>2. QED
    BY <1>8, <2>1 DEF StatusStep
<1>9. ASSUME NEW t \in Threads, CallRelease(t) PROVE  Arms' /\ Watching'
  <2>1. \A c \in Conns, h \in Handles : conns'[h] = c =>
          /\ \E k \in Handles : conns[k] = c
          /\ fd'[c] = fd[c] /\ reg'[fd[c]].ptr = reg[fd[c]].ptr
    <3>1. Destroy({c \in {ptr[t]} : ref[c] = 1}) /\ UNCHANGED conns
      BY <1>9 DEF CallRelease, Release
    <3>2. {c \in {ptr[t]} : ref[c] = 1} \in SUBSET Conns
      BY <1>9 DEF CallRelease, CallLocals, PtrPc
    <3>3. QED
      BY <3>1, <3>2, ReleaseWatch
  <2>2. /\ UNCHANGED mtx
        /\ \A c \in Conns : pending'[c] => pending[c]
        /\ \A f \in Fds : reg'[f] # NoReg => reg'[f] = reg[f] \/ reg'[f].w
        /\ \A u \in Threads : pc'[u] = "s_ctl" => pc[u] = "s_ctl" /\ ptr'[u] = ptr[u]
        /\ \A k \in Loops : pc'[k] = "w_ctl" => pc[k] = "w_ctl" /\ cur'[k] = cur[k]
    BY ZenonT(60), <1>9, LoopsAreThreads
      DEF CallRelease, Release, Destroy, CloseFds, CallEnd, TypeOK, Goto
  <2>3. Arms'
    BY <2>2, ArmsKept
  <2>4. /\ \A u \in Threads : pc[u] \in AddPc => pc'[u] \in AddPc /\ new'[u] = new[u]
        /\ \A u \in Threads : pc[u] = "k_remove" => pc'[u] = pc[u] /\ ptr'[u] = ptr[u]
    BY <1>9, LoopsAreThreads
      DEF CallRelease, Release, Destroy, CloseFds, CallEnd, TypeOK, AddPc, Goto
  <2>5. Watching'
    BY <2>1, <2>4, WatchingKept
  <2>6. QED
    BY <2>3, <2>5
<1>10. ASSUME NEW l \in Loops, RoundStep(l) PROVE  Arms' /\ Watching'
  <2>1. CASE GetEvents(l)
    <3>1. \A c \in Conns, h \in Handles : conns'[h] = c =>
            /\ \E k \in Handles : conns[k] = c
            /\ fd'[c] = fd[c] /\ reg'[fd[c]].ptr = reg[fd[c]].ptr
      BY <2>1, LoopsAreThreads DEF GetEvents, Goto
    <3>2. /\ UNCHANGED mtx
          /\ \A c \in Conns : pending'[c] => pending[c]
          /\ \A f \in Fds : reg'[f] # NoReg => reg'[f] = reg[f] \/ reg'[f].w
          /\ \A u \in Threads : pc'[u] = "s_ctl" => pc[u] = "s_ctl" /\ ptr'[u] = ptr[u]
          /\ \A k \in Loops : pc'[k] = "w_ctl" => pc[k] = "w_ctl" /\ cur'[k] = cur[k]
      BY <2>1, LoopsAreThreads DEF GetEvents, TypeOK, Goto
    <3>3. Arms'
      BY <3>2, ArmsKept
    <3>4. /\ \A u \in Threads : pc[u] \in AddPc => pc'[u] \in AddPc /\ new'[u] = new[u]
          /\ \A u \in Threads : pc[u] = "k_remove" => pc'[u] = pc[u] /\ ptr'[u] = ptr[u]
      BY <2>1, LoopsAreThreads DEF GetEvents, TypeOK, AddPc, Goto
    <3>5. Watching'
      BY <3>1, <3>4, WatchingKept
    <3>6. QED
      BY <3>3, <3>5
  <2>2. ASSUME NEW e \in batch[l], NextEvent(l, e)
        PROVE  Arms' /\ Watching'
    <3>1. \A c \in Conns, h \in Handles : conns'[h] = c =>
            /\ \E k \in Handles : conns[k] = c
            /\ fd'[c] = fd[c] /\ reg'[fd[c]].ptr = reg[fd[c]].ptr
      BY <2>2, LoopsAreThreads DEF NextEvent, AddRef, Goto
    <3>2. /\ UNCHANGED mtx
          /\ \A c \in Conns : pending'[c] => pending[c]
          /\ \A f \in Fds : reg'[f] # NoReg => reg'[f] = reg[f] \/ reg'[f].w
          /\ \A u \in Threads : pc'[u] = "s_ctl" => pc[u] = "s_ctl" /\ ptr'[u] = ptr[u]
          /\ \A k \in Loops : pc'[k] = "w_ctl" => pc[k] = "w_ctl" /\ cur'[k] = cur[k]
      BY <2>2, LoopsAreThreads DEF NextEvent, AddRef, TypeOK, Goto
    <3>3. Arms'
      BY <3>2, ArmsKept
    <3>4. /\ \A u \in Threads : pc[u] \in AddPc => pc'[u] \in AddPc /\ new'[u] = new[u]
          /\ \A u \in Threads : pc[u] = "k_remove" => pc'[u] = pc[u] /\ ptr'[u] = ptr[u]
      BY <2>2, LoopsAreThreads DEF NextEvent, AddRef, TypeOK, AddPc, Goto
    <3>5. Watching'
      BY <3>1, <3>4, WatchingKept
    <3>6. QED
      BY <3>3, <3>5
  <2>3. CASE ReleaseEvent(l)
    <3>1. \A c \in Conns, h \in Handles : conns'[h] = c =>
            /\ \E k \in Handles : conns[k] = c
            /\ fd'[c] = fd[c] /\ reg'[fd[c]].ptr = reg[fd[c]].ptr
      <4>1. Destroy({c \in {cur[l].conn} : ref[c] = 1}) /\ UNCHANGED conns
        BY <2>3 DEF ReleaseEvent, Release
      <4>2. {c \in {cur[l].conn} : ref[c] = 1} \in SUBSET Conns
        BY <2>3, LoopsAreThreads DEF ReleaseEvent, LoopLocals, EventPc, Event
      <4>3. QED
        BY <4>1, <4>2, ReleaseWatch
    <3>2. /\ UNCHANGED mtx
          /\ \A c \in Conns : pending'[c] => pending[c]
          /\ \A f \in Fds : reg'[f] # NoReg => reg'[f] = reg[f] \/ reg'[f].w
          /\ \A u \in Threads : pc'[u] = "s_ctl" => pc[u] = "s_ctl" /\ ptr'[u] = ptr[u]
          /\ \A k \in Loops : pc'[k] = "w_ctl" => pc[k] = "w_ctl" /\ cur'[k] = cur[k]
      BY <2>3, LoopsAreThreads
        DEF ReleaseEvent, Release, Destroy, CloseFds, TypeOK, Goto
    <3>3. Arms'
      BY <3>2, ArmsKept
    <3>4. /\ \A u \in Threads : pc[u] \in AddPc => pc'[u] \in AddPc /\ new'[u] = new[u]
          /\ \A u \in Threads : pc[u] = "k_remove" => pc'[u] = pc[u] /\ ptr'[u] = ptr[u]
      BY <2>3, LoopsAreThreads
        DEF ReleaseEvent, Release, Destroy, CloseFds, TypeOK, AddPc, Goto
    <3>5. Watching'
      BY <3>1, <3>4, WatchingKept
    <3>6. QED
      BY <3>3, <3>5
  <2>4. CASE CallbackReturn(l)
    <3>1. \A c \in Conns, h \in Handles : conns'[h] = c =>
            /\ \E k \in Handles : conns[k] = c
            /\ fd'[c] = fd[c] /\ reg'[fd[c]].ptr = reg[fd[c]].ptr
      BY <2>4, LoopsAreThreads DEF CallbackReturn, Goto
    <3>2. /\ UNCHANGED mtx
          /\ \A c \in Conns : pending'[c] => pending[c]
          /\ \A f \in Fds : reg'[f] # NoReg => reg'[f] = reg[f] \/ reg'[f].w
          /\ \A u \in Threads : pc'[u] = "s_ctl" => pc[u] = "s_ctl" /\ ptr'[u] = ptr[u]
          /\ \A k \in Loops : pc'[k] = "w_ctl" => pc[k] = "w_ctl" /\ cur'[k] = cur[k]
      BY <2>4, LoopsAreThreads DEF CallbackReturn, TypeOK, Goto
    <3>3. Arms'
      BY <3>2, ArmsKept
    <3>4. /\ \A u \in Threads : pc[u] \in AddPc => pc'[u] \in AddPc /\ new'[u] = new[u]
          /\ \A u \in Threads : pc[u] = "k_remove" => pc'[u] = pc[u] /\ ptr'[u] = ptr[u]
      BY <2>4, LoopsAreThreads DEF CallbackReturn, TypeOK, AddPc, Goto
    <3>5. Watching'
      BY <3>1, <3>4, WatchingKept
    <3>6. QED
      BY <3>3, <3>5
  <2>5. QED
    BY <1>10, <2>1, <2>2, <2>3, <2>4 DEF RoundStep
<1>11. ASSUME NEW l \in Loops, ReadStep(l) PROVE  Arms' /\ Watching'
  <2>1. CASE ReadSkip(l) \/ ReadBegin(l) \/ ReadData(l) \/ ReadBroken(l)
             \/ ReadDone(l) \/ ReadMore(l)
    <3>1. \A c \in Conns, h \in Handles : conns'[h] = c =>
            /\ \E k \in Handles : conns[k] = c
            /\ fd'[c] = fd[c] /\ reg'[fd[c]].ptr = reg[fd[c]].ptr
      BY <2>1, LoopsAreThreads
        DEF ReadSkip, ReadBegin, ReadData, ReadBroken, BeginClose, ReadDone,
            ReadMore, Goto
    <3>2. /\ UNCHANGED mtx
          /\ \A c \in Conns : pending'[c] => pending[c]
          /\ \A f \in Fds : reg'[f] # NoReg => reg'[f] = reg[f] \/ reg'[f].w
          /\ \A u \in Threads : pc'[u] = "s_ctl" => pc[u] = "s_ctl" /\ ptr'[u] = ptr[u]
          /\ \A k \in Loops : pc'[k] = "w_ctl" => pc[k] = "w_ctl" /\ cur'[k] = cur[k]
      BY <2>1, LoopsAreThreads
        DEF ReadSkip, ReadBegin, ReadData, ReadBroken, BeginClose, ReadDone,
            ReadMore, TypeOK, Goto
    <3>3. Arms'
      BY <3>2, ArmsKept
    <3>4. /\ \A u \in Threads : pc[u] \in AddPc => pc'[u] \in AddPc /\ new'[u] = new[u]
          /\ \A u \in Threads : pc[u] = "k_remove" => pc'[u] = pc[u] /\ ptr'[u] = ptr[u]
      BY <2>1, LoopsAreThreads
        DEF ReadSkip, ReadBegin, ReadData, ReadBroken, BeginClose, ReadDone,
            ReadMore, TypeOK, AddPc, Goto
    <3>5. Watching'
      BY <3>1, <3>4, WatchingKept
    <3>6. QED
      BY <3>3, <3>5
  <2>2. CASE ReadClosed(l)
    <3>1. \A c \in Conns, h \in Handles : conns'[h] = c =>
            /\ \E k \in Handles : conns[k] = c
            /\ fd'[c] = fd[c] /\ reg'[fd[c]].ptr = reg[fd[c]].ptr
      BY <2>2, LoopsAreThreads DEF ReadClosed, Callback, Goto
    <3>2. /\ UNCHANGED mtx
          /\ \A c \in Conns : pending'[c] => pending[c]
          /\ \A f \in Fds : reg'[f] # NoReg => reg'[f] = reg[f] \/ reg'[f].w
          /\ \A u \in Threads : pc'[u] = "s_ctl" => pc[u] = "s_ctl" /\ ptr'[u] = ptr[u]
          /\ \A k \in Loops : pc'[k] = "w_ctl" => pc[k] = "w_ctl" /\ cur'[k] = cur[k]
      BY <2>2, LoopsAreThreads DEF ReadClosed, Callback, TypeOK, Goto
    <3>3. Arms'
      BY <3>2, ArmsKept
    <3>4. /\ \A u \in Threads : pc[u] \in AddPc => pc'[u] \in AddPc /\ new'[u] = new[u]
          /\ \A u \in Threads : pc[u] = "k_remove" => pc'[u] = pc[u] /\ ptr'[u] = ptr[u]
      BY <2>2, LoopsAreThreads DEF ReadClosed, Callback, TypeOK, AddPc, Goto
    <3>5. Watching'
      BY <3>1, <3>4, WatchingKept
    <3>6. QED
      BY <3>3, <3>5
  <2>3. QED
    BY <1>11, <2>1, <2>2 DEF ReadStep
<1>12. ASSUME NEW l \in Loops, WriteStep(l) PROVE  Arms' /\ Watching'
  <2>1. CASE WriteSkip(l) \/ WriteOutcome(l) \/ WriteConnected(l)
             \/ OnConnect(l) \/ WriteFailed(l) \/ WriteClosed(l)
    <3>1. \A c \in Conns, h \in Handles : conns'[h] = c =>
            /\ \E k \in Handles : conns[k] = c
            /\ fd'[c] = fd[c] /\ reg'[fd[c]].ptr = reg[fd[c]].ptr
      BY <2>1, LoopsAreThreads
        DEF WriteSkip, WriteOutcome, WriteConnected, OnConnect, Callback,
            WriteFailed, BeginClose, WriteClosed, Goto
    <3>2. /\ UNCHANGED mtx
          /\ \A c \in Conns : pending'[c] => pending[c]
          /\ \A f \in Fds : reg'[f] # NoReg => reg'[f] = reg[f] \/ reg'[f].w
          /\ \A u \in Threads : pc'[u] = "s_ctl" => pc[u] = "s_ctl" /\ ptr'[u] = ptr[u]
          /\ \A k \in Loops : pc'[k] = "w_ctl" => pc[k] = "w_ctl" /\ cur'[k] = cur[k]
      BY <2>1, LoopsAreThreads
        DEF WriteSkip, WriteOutcome, WriteConnected, OnConnect, Callback,
            WriteFailed, BeginClose, WriteClosed, TypeOK, Goto
    <3>3. Arms'
      BY <3>2, ArmsKept
    <3>4. /\ \A u \in Threads : pc[u] \in AddPc => pc'[u] \in AddPc /\ new'[u] = new[u]
          /\ \A u \in Threads : pc[u] = "k_remove" => pc'[u] = pc[u] /\ ptr'[u] = ptr[u]
      BY <2>1, LoopsAreThreads
        DEF WriteSkip, WriteOutcome, WriteConnected, OnConnect, Callback,
            WriteFailed, BeginClose, WriteClosed, TypeOK, AddPc, Goto
    <3>5. Watching'
      BY <3>1, <3>4, WatchingKept
    <3>6. QED
      BY <3>3, <3>5
  <2>2. CASE WriteBegin(l) \/ WriteSome(l)
    <3>1. \A c \in Conns, h \in Handles : conns'[h] = c =>
            /\ \E k \in Handles : conns[k] = c
            /\ fd'[c] = fd[c] /\ reg'[fd[c]].ptr = reg[fd[c]].ptr
      BY <2>2, LoopsAreThreads DEF WriteBegin, WriteSome, Goto
    <3>2. /\ UNCHANGED mtx
          /\ \A c \in Conns : pending'[c] => pending[c]
          /\ \A f \in Fds : reg'[f] # NoReg => reg'[f] = reg[f] \/ reg'[f].w
          /\ \A u \in Threads : pc'[u] = "s_ctl" => pc[u] = "s_ctl" /\ ptr'[u] = ptr[u]
          /\ \A k \in Loops : pc'[k] = "w_ctl" => pc[k] = "w_ctl" /\ cur'[k] = cur[k]
      BY <2>2, LoopsAreThreads DEF WriteBegin, WriteSome, TypeOK, Goto
    <3>3. Arms'
      BY <3>2, ArmsKept
    <3>4. /\ \A u \in Threads : pc[u] \in AddPc => pc'[u] \in AddPc /\ new'[u] = new[u]
          /\ \A u \in Threads : pc[u] = "k_remove" => pc'[u] = pc[u] /\ ptr'[u] = ptr[u]
      BY <2>2, LoopsAreThreads DEF WriteBegin, WriteSome, TypeOK, AddPc, Goto
    <3>5. Watching'
      BY <3>1, <3>4, WatchingKept
    <3>6. QED
      BY <3>3, <3>5
  <2>3. CASE WriteAll(l)
    <3>1. \A c \in Conns, h \in Handles : conns'[h] = c =>
            /\ \E k \in Handles : conns[k] = c
            /\ fd'[c] = fd[c] /\ reg'[fd[c]].ptr = reg[fd[c]].ptr
      BY <2>3, LoopsAreThreads DEF WriteAll, Lock, Goto
    <3>2. /\ mtx[cur[l].conn] = None /\ mtx' = [mtx EXCEPT ![cur[l].conn] = l]
          /\ pending' = [pending EXCEPT ![cur[l].conn] = FALSE]
          /\ pc' = [pc EXCEPT ![l] = "w_ctl"] /\ UNCHANGED <<reg, ptr, cur>>
          /\ cur[l].conn \in Conns /\ l \in Threads
      BY <2>3, LoopsAreThreads
        DEF WriteAll, Lock, LoopLocals, EventPc, Event, Goto
    <3>3. Arms'
      <4>1. \A u \in Threads : pc'[u] = "s_ctl" => mtx'[ptr'[u]] = u
        BY <3>2 DEF Arms, TypeOK
      <4>2. \A k \in Loops : pc'[k] = "w_ctl" =>
              mtx'[cur'[k].conn] = k /\ ~pending'[cur'[k].conn]
        BY <3>2, LoopsAreThreads DEF Arms, TypeOK
      <4>3. \A f \in Fds :
              reg'[f] # NoReg /\ pending'[reg'[f].ptr] /\ mtx'[reg'[f].ptr] = None => reg'[f].w
        BY <3>2, RegisteredPtr DEF Arms, TypeOK
      <4>4. QED
        BY <4>1, <4>2, <4>3 DEF Arms
    <3>4. /\ \A u \in Threads : pc[u] \in AddPc => pc'[u] \in AddPc /\ new'[u] = new[u]
          /\ \A u \in Threads : pc[u] = "k_remove" => pc'[u] = pc[u] /\ ptr'[u] = ptr[u]
      BY <2>3, LoopsAreThreads DEF WriteAll, Lock, TypeOK, AddPc, Goto
    <3>5. Watching'
      BY <3>1, <3>4, WatchingKept
    <3>6. QED
      BY <3>3, <3>5
  <2>4. CASE WriteSetEvent(l)
    <3>1. \A c \in Conns, h \in Handles : conns'[h] = c =>
            /\ \E k \in Handles : conns[k] = c
            /\ fd'[c] = fd[c] /\ reg'[fd[c]].ptr = reg[fd[c]].ptr
      <4>1. pc[l] \in CtlPc /\ CtlMod(tfd[l], Target(l), FALSE) /\ l \in Threads /\ UNCHANGED <<conns, fd>>
        BY <2>4, LoopsAreThreads DEF WriteSetEvent, CtlPc, Target
      <4>2. \A f \in Fds : reg'[f].ptr = reg[f].ptr
        BY <4>1, CtlModKeeps
      <4>3. \A c \in Conns, h \in Handles : conns[h] = c => fd[c] \in Fds
        BY DEF Online, Sockets, TypeOK
      <4>4. QED
        BY <4>1, <4>2, <4>3
    <3>2. /\ mtx' = [mtx EXCEPT ![cur[l].conn] = None] /\ pc[l] = "w_ctl" /\ pc[l] \in CtlPc
          /\ pc' = [pc EXCEPT ![l] = "unref"] /\ UNCHANGED <<pending, ptr, cur>>
          /\ cur[l].conn \in Conns /\ l \in Threads /\ cur[l].conn = Target(l)
          /\ CtlMod(tfd[l], Target(l), FALSE)
      BY <2>4, LoopsAreThreads
        DEF WriteSetEvent, LoopLocals, EventPc, Event, CtlPc, Target, Goto
    <3>3. Arms'
      <4>1. \A u \in Threads : pc'[u] = "s_ctl" => mtx'[ptr'[u]] = u
        BY <3>2 DEF Arms, TypeOK
      <4>2. \A k \in Loops : pc'[k] = "w_ctl" =>
              mtx'[cur'[k].conn] = k /\ ~pending'[cur'[k].conn]
        BY <3>2, LoopsAreThreads DEF Arms, TypeOK
      <4>3. ASSUME NEW f \in Fds, reg'[f] # NoReg, pending'[reg'[f].ptr], mtx'[reg'[f].ptr] = None
            PROVE  reg'[f].w
        <5>1. /\ reg'[f].ptr = reg[f].ptr /\ reg[f] # NoReg /\ reg[f].ptr \in Conns
              /\ reg'[f] # reg[f] => reg[f].ptr = cur[l].conn
          BY ZenonT(60), <3>2, <4>3, CtlModKeeps, RegisteredPtr
        <5>2. CASE reg[f].ptr = cur[l].conn
          BY <3>2, <4>3, <5>1, <5>2 DEF Arms
        <5>3. CASE reg[f].ptr # cur[l].conn
          BY <3>2, <4>3, <5>1, <5>3 DEF Arms, TypeOK
        <5>4. QED
          BY <5>2, <5>3
      <4>4. QED
        BY <4>1, <4>2, <4>3 DEF Arms
    <3>4. /\ \A u \in Threads : pc[u] \in AddPc => pc'[u] \in AddPc /\ new'[u] = new[u]
          /\ \A u \in Threads : pc[u] = "k_remove" => pc'[u] = pc[u] /\ ptr'[u] = ptr[u]
      BY <2>4, LoopsAreThreads DEF WriteSetEvent, CtlMod, TypeOK, AddPc, Goto
    <3>5. Watching'
      BY <3>1, <3>4, WatchingKept
    <3>6. QED
      BY <3>3, <3>5
  <2>5. QED
    BY <1>12, <2>1, <2>2, <2>3, <2>4 DEF WriteStep
<1>13. ASSUME NEW l \in Loops, TimeStep(l) PROVE  Arms' /\ Watching'
  <2>1. CASE TimeSkip(l) \/ CheckTimeout(l) \/ TimeoutClose(l)
             \/ TimeoutClosed(l)
    <3>1. \A c \in Conns, h \in Handles : conns'[h] = c =>
            /\ \E k \in Handles : conns[k] = c
            /\ fd'[c] = fd[c] /\ reg'[fd[c]].ptr = reg[fd[c]].ptr
      BY <2>1, LoopsAreThreads
        DEF TimeSkip, CheckTimeout, TimeoutClose, BeginClose, TimeoutClosed,
            Callback, Goto
    <3>2. /\ UNCHANGED mtx
          /\ \A c \in Conns : pending'[c] => pending[c]
          /\ \A f \in Fds : reg'[f] # NoReg => reg'[f] = reg[f] \/ reg'[f].w
          /\ \A u \in Threads : pc'[u] = "s_ctl" => pc[u] = "s_ctl" /\ ptr'[u] = ptr[u]
          /\ \A k \in Loops : pc'[k] = "w_ctl" => pc[k] = "w_ctl" /\ cur'[k] = cur[k]
      BY <2>1, LoopsAreThreads
        DEF TimeSkip, CheckTimeout, TimeoutClose, BeginClose, TimeoutClosed,
            Callback, TypeOK, Goto
    <3>3. Arms'
      BY <3>2, ArmsKept
    <3>4. /\ \A u \in Threads : pc[u] \in AddPc => pc'[u] \in AddPc /\ new'[u] = new[u]
          /\ \A u \in Threads : pc[u] = "k_remove" => pc'[u] = pc[u] /\ ptr'[u] = ptr[u]
      BY <2>1, LoopsAreThreads
        DEF TimeSkip, CheckTimeout, TimeoutClose, BeginClose, TimeoutClosed,
            Callback, TypeOK, AddPc, Goto
    <3>5. Watching'
      BY <3>1, <3>4, WatchingKept
    <3>6. QED
      BY <3>3, <3>5
  <2>2. CASE Clear(l)
    <3>1. \A c \in Conns, h \in Handles : conns'[h] = c =>
            /\ \E k \in Handles : conns[k] = c
            /\ fd'[c] = fd[c] /\ reg'[fd[c]].ptr = reg[fd[c]].ptr
      <4>1. Destroy({c \in recycles : ref[c] = 1}) /\ UNCHANGED conns
        BY <2>2 DEF Clear, Release
      <4>2. {c \in recycles : ref[c] = 1} \in SUBSET Conns
        BY <2>2, LoopsAreThreads DEF Clear, TypeOK
      <4>3. QED
        BY <4>1, <4>2, ReleaseWatch
    <3>2. /\ UNCHANGED mtx
          /\ \A c \in Conns : pending'[c] => pending[c]
          /\ \A f \in Fds : reg'[f] # NoReg => reg'[f] = reg[f] \/ reg'[f].w
          /\ \A u \in Threads : pc'[u] = "s_ctl" => pc[u] = "s_ctl" /\ ptr'[u] = ptr[u]
          /\ \A k \in Loops : pc'[k] = "w_ctl" => pc[k] = "w_ctl" /\ cur'[k] = cur[k]
      BY <2>2, LoopsAreThreads
        DEF Clear, Release, Destroy, CloseFds, TypeOK, Goto
    <3>3. Arms'
      BY <3>2, ArmsKept
    <3>4. /\ \A u \in Threads : pc[u] \in AddPc => pc'[u] \in AddPc /\ new'[u] = new[u]
          /\ \A u \in Threads : pc[u] = "k_remove" => pc'[u] = pc[u] /\ ptr'[u] = ptr[u]
      BY <2>2, LoopsAreThreads
        DEF Clear, Release, Destroy, CloseFds, TypeOK, AddPc, Goto
    <3>5. Watching'
      BY <3>1, <3>4, WatchingKept
    <3>6. QED
      BY <3>3, <3>5
  <2>3. QED
    BY <1>13, <2>1, <2>2 DEF TimeStep
<1>14. ASSUME NEW n \in Conns, NetStep(n)
      PROVE  Arms' /\ Watching'
  <2>1. \A c \in Conns, h \in Handles : conns'[h] = c =>
          /\ \E k \in Handles : conns[k] = c
          /\ fd'[c] = fd[c] /\ reg'[fd[c]].ptr = reg[fd[c]].ptr
    BY <1>14 DEF NetStep, Goto
  <2>2. /\ UNCHANGED mtx
        /\ \A c \in Conns : pending'[c] => pending[c]
        /\ \A f \in Fds : reg'[f] # NoReg => reg'[f] = reg[f] \/ reg'[f].w
        /\ \A u \in Threads : pc'[u] = "s_ctl" => pc[u] = "s_ctl" /\ ptr'[u] = ptr[u]
        /\ \A k \in Loops : pc'[k] = "w_ctl" => pc[k] = "w_ctl" /\ cur'[k] = cur[k]
    BY <1>14, LoopsAreThreads DEF NetStep, TypeOK, Goto
  <2>3. Arms'
    BY <2>2, ArmsKept
  <2>4. /\ \A u \in Threads : pc[u] \in AddPc => pc'[u] \in AddPc /\ new'[u] = new[u]
        /\ \A u \in Threads : pc[u] = "k_remove" => pc'[u] = pc[u] /\ ptr'[u] = ptr[u]
    BY <1>14, LoopsAreThreads DEF NetStep, TypeOK, AddPc, Goto
  <2>5. Watching'
    BY <2>1, <2>4, WatchingKept
  <2>6. QED
    BY <2>3, <2>5
<1>15. ASSUME NEW n \in Conns, Tick(n)
      PROVE  Arms' /\ Watching'
  <2>1. \A c \in Conns, h \in Handles : conns'[h] = c =>
          /\ \E k \in Handles : conns[k] = c
          /\ fd'[c] = fd[c] /\ reg'[fd[c]].ptr = reg[fd[c]].ptr
    BY <1>15 DEF Tick, Goto
  <2>2. /\ UNCHANGED mtx
        /\ \A c \in Conns : pending'[c] => pending[c]
        /\ \A f \in Fds : reg'[f] # NoReg => reg'[f] = reg[f] \/ reg'[f].w
        /\ \A u \in Threads : pc'[u] = "s_ctl" => pc[u] = "s_ctl" /\ ptr'[u] = ptr[u]
        /\ \A k \in Loops : pc'[k] = "w_ctl" => pc[k] = "w_ctl" /\ cur'[k] = cur[k]
    BY <1>15, LoopsAreThreads DEF Tick, TypeOK, Goto
  <2>3. Arms'
    BY <2>2, ArmsKept
  <2>4. /\ \A u \in Threads : pc[u] \in AddPc => pc'[u] \in AddPc /\ new'[u] = new[u]
        /\ \A u \in Threads : pc[u] = "k_remove" => pc'[u] = pc[u] /\ ptr'[u] = ptr[u]
    BY <1>15, LoopsAreThreads DEF Tick, TypeOK, AddPc, Goto
  <2>5. Watching'
    BY <2>1, <2>4, WatchingKept
  <2>6. QED
    BY <2>3, <2>5
<1>16. CASE UNCHANGED vars
  BY <1>16 DEF Arms, Watching, Online
<1>17. QED
  BY <1>1, <1>2, <1>3, <1>4, <1>5, <1>6, <1>7, <1>8, <1>9, <1>10, <1>11, <1>12,
     <1>13, <1>14, <1>15, <1>16
    DEF Next, ApiCall, CallStep, LoopStep

----------------------------------------------------------------------------
(* The invariant.                                                          *)

\* Initially there is no connection, no call and no event.
LEMMA RefInvInit == Init => RefInv
<1> SUFFICES ASSUME Init PROVE RefInv
  OBVIOUS
<1>1. \A t \in Threads : pc[t] \in {"idle", "wait"} /\ (pc[t] = "wait" <=> t \in Loops)
  BY DEF Init, Threads
<1>2. Places /\ Locals /\ LoopIdle
  <2>1. Places
    BY <1>1 DEF Init, Places, LoopPc, EventPc, TimePc
  <2>2. Locals
    BY <1>1 DEF Init, Locals
  <2>3. LoopIdle
    BY <1>1, LoopsAreThreads
    DEF Init, LoopIdle, Within, EventPc, TimePc, OutPc
  <2>4. QED
    BY <2>1, <2>2, <2>3
<1>3. HandleUse /\ Private /\ Reported /\ NotYet
  <2>1. HandleUse
    BY DEF Init, HandleUse
  <2>2. Private
    BY <1>1 DEF Init, Private, Creating
  <2>3. Reported
    BY <1>1, LoopsAreThreads DEF Init, Reported
  <2>4. NotYet
    BY <1>1 DEF Init, NotYet, AddPc
  <2>5. QED
    BY <2>1, <2>2, <2>3, <2>4
<1>4. \A c \in Conns : Held[c] = {}
  <2>1. \A c \in Conns : ~Owned(c)
    BY <1>1 DEF Init, Owned, Creating
  <2>2. QED
    BY <2>1, HeldEmpty DEF Init, NoEvent
<1>5. Counted /\ Recycled
  BY <1>4, FS_EmptySet DEF Init, Counted, Recycled
<1>6. Sockets /\ Attached /\ Descriptors
  <2>1. Sockets /\ Attached
    BY DEF Init, Sockets, Attached, Online
  <2>2. Descriptors
    BY <1>1 DEF Init, Descriptors, CtlPc
  <2>3. QED
    BY <2>1, <2>2
<1>7. Registered /\ Arms /\ Watching
  <2>1. Registered
    BY DEF Init, Registered
  <2>2. Arms
    BY <1>1, LoopsAreThreads DEF Init, Arms
  <2>3. Watching
    BY DEF Init, Watching, Online
  <2>4. QED
    BY <2>1, <2>2, <2>3
<1>8. QED
  BY <1>2, <1>3, <1>5, <1>6, <1>7 DEF RefInv

\* RefInv is inductive, relative to TypeInv and CloseInv.
LEMMA RefInvStep ==
  ASSUME OneConnector, OneLoop, NoReuse
  PROVE  TypeInv /\ CloseInv /\ RefInv /\ [Next]_vars => RefInv'
<1> SUFFICES ASSUME TypeInv, CloseInv, RefInv, [Next]_vars PROVE RefInv'
  OBVIOUS
<1>1. Places' /\ Locals' /\ LoopIdle'
  BY PlacesStep, LocalsStep, LoopIdleStep
<1>2. HandleUse' /\ Private' /\ Reported' /\ NotYet'
  BY OneConnector, HandleUseStep, PrivateStep, ReportedStep, NotYetStep
<1>3. Counted' /\ Recycled'
  BY OneConnector, OneLoop, CountedStep, RecycledStep
<1>4. Sockets' /\ Attached' /\ Descriptors'
  BY <1>3, OneConnector, NoReuse, SocketsStep, AttachedStep, DescriptorsStep
<1>5. Registered' /\ Arms' /\ Watching'
  BY <1>3, OneConnector, RegisteredStep, ArmingStep
<1>6. QED
  BY <1>1, <1>2, <1>3, <1>4, <1>5 DEF RefInv

\* The invariant behind the theorems below.
THEOREM RefInvariant ==
  ASSUME OneConnector, OneLoop, NoReuse
  PROVE  Spec => []RefInv
<1>1. Init => RefInv
  BY RefInvInit
<1>2. TypeInv /\ CloseInv /\ RefInv /\ [Next]_vars => RefInv'
  BY OneConnector, OneLoop, NoReuse, RefInvStep
<1>3. QED
  BY <1>1, <1>2, OneConnector, TypeInvariant, CloseInvariant, PTL DEF Spec

\* The count of a live connection is the number of pointers to it that the
\* table, the calls under way and the event being handled hold, and a freed one
\* is held by nobody (ref.h, network.cpp: every getconn has its release).
THEOREM CountsAreExact ==
  ASSUME OneConnector, OneLoop, NoReuse
  PROVE  Spec => []RefCounted
<1>1. RefInv => RefCounted
  <2> SUFFICES ASSUME RefInv, NEW c \in Conns
               PROVE  /\ life[c] = "live" => ref[c] = Cardinality(Holders(c)) /\ ref[c] > 0
                      /\ life[c] = "freed" => Holders(c) = {}
    BY DEF RefCounted
  <2>1. Held[c] = Holders(c)
    BY DEF Held
  <2>2. IsFiniteSet(Held[c])
    BY HeldFinite
  <2>3. Cardinality(Held[c]) \in Nat /\ (Cardinality(Held[c]) = 0 <=> Held[c] = {})
    BY <2>2, FS_CardinalityType, FS_EmptySet
  <2>4. QED
    BY <2>1, <2>3 DEF RefInv, Counted
<1>2. QED
  BY <1>1, OneConnector, OneLoop, NoReuse, RefInvariant, PTL

\* A connection that epoll_wait named is alive until event_loop takes its own
\* reference: a close in between only moves it to _recycles (network.cpp,
\* event_loop and time_process; OnlineUser::removeconn and clear).
THEOREM EventsAreAlive ==
  ASSUME OneConnector, OneLoop, NoReuse
  PROVE  Spec => []BatchAlive
<1>1. TypeInv /\ RefInv => BatchAlive
  <2> SUFFICES ASSUME TypeInv, RefInv, NEW l \in Loops, NEW e \in batch[l]
               PROVE  life[e.conn] = "live"
    BY DEF BatchAlive
  <2>1. e.conn \in Conns
    BY DEF TypeInv, TypeOK, Event
  <2>2. ~Unused(e.conn)
    BY DEF Unused
  <2>3. QED
    BY <2>1, <2>2, DeadUnused
<1>2. QED
  BY <1>1, OneConnector, OneLoop, NoReuse, TypeInvariant, RefInvariant, PTL

\* An event names the connection that owns the descriptor (sockevent.cpp,
\* network.cpp: add_event, set_event and remove_event, and every ::close).
THEOREM EventsAreTrue ==
  ASSUME OneConnector, OneLoop, NoReuse
  PROVE  Spec => []RegistrationMatches
<1>1. RefInv => RegistrationMatches
  BY DEF RefInv, Registered, RegistrationMatches, NoReg
<1>2. QED
  BY <1>1, OneConnector, OneLoop, NoReuse, RefInvariant, PTL

\* No connection is online and forgotten by epoll: once its connect has
\* returned it is registered until a close begins.
THEOREM OnlineIsWatched ==
  ASSUME OneConnector, OneLoop, NoReuse
  PROVE  Spec => []Watched
<1>1. TypeInv /\ RefInv => Watched
  BY DEF TypeInv, TypeOK, ConnectLocals, ConnectPc, RefInv, Watched, Watching,
         Sockets, Online, Closing, AddPc
<1>2. QED
  BY <1>1, OneConnector, OneLoop, NoReuse, TypeInvariant, RefInvariant, PTL

\* No lost wake-up: output that waits on an online connection has its write
\* interest armed, whatever send, the loop and close do to it at the same time
\* (tcpconnection.cpp, deliver_data and write_data).
THEOREM OutputIsArmed ==
  ASSUME OneConnector, OneLoop, NoReuse
  PROVE  Spec => []OutputArmed
<1>1. TypeInv /\ RefInv => OutputArmed
  <2> SUFFICES ASSUME TypeInv, RefInv, NEW c \in Conns, pending[c], mtx[c] = None,
                      \E h \in Handles : conns[h] = c, ~Closing(c)
               PROVE  fd[c] # NoFd /\ reg[fd[c]].w
    BY DEF OutputArmed
  <2>1. fd[c] # NoFd /\ fd[c] \in Fds
    BY DEF TypeInv, TypeOK, RefInv, Sockets, Online
  <2>2. \A t \in Threads : pc[t] \in AddPc => new[t] # c
    BY DEF RefInv, NotYet
  <2>3. reg[fd[c]].ptr = c
    BY <2>2 DEF RefInv, Watching, Online, Closing
  <2>4. reg[fd[c]] # NoReg
    BY <2>3 DEF NoReg
  <2>5. QED
    BY <2>1, <2>3, <2>4 DEF RefInv, Arms
<1>2. QED
  BY <1>1, OneConnector, OneLoop, NoReuse, TypeInvariant, RefInvariant, PTL

=============================================================================
