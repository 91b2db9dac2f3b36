---------------------------- MODULE NetWorkTypes ----------------------------
(***************************************************************************)
(* The type invariant of NetWork, proved for every value of the constants: *)
(* any number of connections, threads, event loops and descriptors.        *)
(*                                                                         *)
(* TypeOK is not inductive: a thread in the middle of a call indexes the   *)
(* table and the connections with its locals.  TypeInv adds what the       *)
(* locals are at each place a thread can be.                               *)
(***************************************************************************)
EXTENDS NetWorkProps, TLAPS, WellFoundedInduction

USE ThreadsAssumption, NumbersAssumption
USE DEF makeVars, frameVars, callVars, roundVars, loopVars, refVars, fieldVars,
        dataVars, connVars, tableVars, sockVars, netVars, closeVars, histVars,
        sharedVars, vars

\* Where a call uses its pointer, where it has a return label, and where the
\* loop is outside any callback.
PtrPc == {"mh_next", "rel", "g_read"} \cup SendPc \cup (ClosePc \ {"k_get"})
RetPc == {"rel", "g_read"} \cup SendPc \cup ClosePc
OutPc == {"wait", "next"} \cup EventPc \cup TimePc

ConnectLocals ==
  \A t \in Threads :
    /\ pc[t] \in ConnectPc => new[t] \in Conns
    /\ pc[t] = "mh_store" => tmp[t] < MaxHandle
    /\ pc[t] \in {"mh_check", "mh_next", "mh_return"} => hseq \in Handles
    /\ pc[t] \in {"c_connect", "c_add", "c_getfd", "c_ctl"} =>
         handle[new[t]] \in Handles

CallLocals ==
  \A t \in Threads :
    /\ pc[t] \in ClosePc => arg[t] \in Handles
    /\ pc[t] \in PtrPc => ptr[t] \in Conns /\ handle[ptr[t]] \in Handles
    /\ pc[t] \notin RetPc => ret[t] = "idle"

LoopLocals ==
  \A l \in Loops :
    /\ pc[l] \in EventPc \/ ret[l] \in EventPc \/ cbret[l] \in EventPc =>
         cur[l] \in Event /\ handle[cur[l].conn] \in Handles
    /\ pc[l] \in OutPc \/ ret[l] \in OutPc => cbret[l] = "wait"
    /\ pc[l] = "t_closed" \/ ret[l] = "t_closed" => tlist[l] # {}

\* A connection that the table, the epoll set or a batch names has its handle.
Named ==
  /\ \A h \in Handles : conns[h] # None => handle[conns[h]] \in Handles
  /\ \A f \in Fds : reg[f] # NoReg => handle[reg[f].ptr] \in Handles
  /\ \A l \in Loops : \A e \in batch[l] : handle[e.conn] \in Handles

TypeInv == TypeOK /\ ConnectLocals /\ CallLocals /\ LoopLocals /\ Named

----------------------------------------------------------------------------

\* Lowest picks an element of its argument: what ConnectSocket and the
\* time-out actions rely on.
LEMMA LowestType ==
  ASSUME NEW S \in SUBSET Nat, S # {}
  PROVE  Lowest(S) \in S
<1> DEFINE R == OpToRel(<, Nat)
           Q == {ss \in Nat \X Nat : ss[1] < ss[2]}
<1>1. R = Q
  BY Zenon DEF OpToRel
<1>2. IsWellFoundedOn(Q, Nat)
  BY ONLY <1>1, NatLessThanWellFounded, Zenon
<1> HIDE DEF R
<1>3. PICK n \in S : \A m \in S : ~ (<<m, n>> \in Q)
  BY <1>2, WFMin DEF Q
<1>4. \A m \in S : n <= m
  <2> TAKE m \in S
  <2>1. m \in Nat /\ n \in Nat
    OBVIOUS
  <2>2. ~ (<<m, n>>[1] < <<m, n>>[2])
    BY <1>3, <2>1 DEF Q
  <2>3. QED
    BY <2>1, <2>2
<1>5. QED
  BY <1>4 DEF Lowest

\* A loop is a thread, so it can make the calls a thread makes.
LEMMA LoopsAreThreads == Loops \subseteq Threads
  BY DEF Threads

\* Every label an action goes to is a place of Pc.
LEMMA PcMembers ==
  {"idle", "rel", "mh_store", "mh_check", "mh_next", "mh_return", "c_connect",
   "c_add", "c_dup", "c_getfd", "c_ctl", "c_ret", "s_lock", "s_ctl", "k_get",
   "k_fd", "k_del", "k_remove", "k_state", "k_sock", "g_read", "g_ret", "wait",
   "next", "cb", "cb_done", "r_event", "r_read", "r_more", "r_closed",
   "w_event", "w_error", "w_connect", "w_closed", "w_lock", "w_ctl", "unref",
   "t_next", "t_closed"} \subseteq Pc
  BY DEF Pc, ConnectPc, SendPc, ClosePc, StatusPc, LoopPc, EventPc, TimePc

\* In the loop's own code, outside callbacks and calls, no return is pending.
LEMMA LoopAtHome ==
  ASSUME TypeInv
  PROVE  \A l \in Loops : pc[l] \in OutPc => ret[l] = "idle" /\ cbret[l] = "wait"
BY LoopsAreThreads
DEF TypeInv, CallLocals, LoopLocals, RetPc, SendPc, ClosePc, OutPc, EventPc, TimePc

\* A step keeps every variable in its type.
LEMMA TypeOKStep ==
  ASSUME TypeInv, [Next]_vars
  PROVE  TypeOK'
<1> USE DEF TypeInv
<1>1. ASSUME NEW t \in Threads, NEW c \in Conns, ConnectNew(t, c)
      PROVE  TypeOK'
  BY <1>1, PcMembers DEF ConnectNew, TypeOK, Goto
<1>2. ASSUME NEW t \in Threads, NEW h \in Handles, SendCall(t, h)
      PROVE  TypeOK'
  BY <1>2, PcMembers DEF SendCall, AddRef, CanCall, Home, TypeOK, Goto
<1>3. ASSUME NEW t \in Threads, NEW h \in Handles, CloseCall(t, h)
      PROVE  TypeOK'
  <2>1. Home(t) \in {"idle", "cb_done"}
    BY DEF Home
  <2>2. arg' \in [Threads -> 0 .. MaxHandle]
    BY <1>3 DEF CloseCall, BeginClose, TypeOK, Handles
  <2>3. QED
    BY <1>3, <2>1, <2>2, PcMembers DEF CloseCall, BeginClose, TypeOK, Goto
<1>4. ASSUME NEW t \in Threads, NEW h \in Handles, StatusCall(t, h)
      PROVE  TypeOK'
  <2>1. res' \in [Threads -> {"none", "INVALID_HANDLE"} \cup State]
    BY <1>4 DEF StatusCall, TypeOK
  <2>2. /\ ptr' \in [Threads -> Conns \cup {None}]
        /\ ref' \in [Conns -> Int]
    BY <1>4 DEF StatusCall, AddRef, TypeOK
  <2>3. ret' \in [Threads -> {"idle", "cb_done", "g_ret", "r_closed",
                              "w_closed", "t_closed"}]
    BY <1>4 DEF StatusCall, TypeOK
  <2>4. pc' \in [Threads -> Pc]
    BY <1>4, PcMembers DEF StatusCall, TypeOK, Goto
  <2>5. QED
    BY <1>4, <2>1, <2>2, <2>3, <2>4 DEF StatusCall, TypeOK
<1>5. ASSUME NEW t \in Threads, ConnectStep(t) PROVE  TypeOK'
  <2>1. CASE MakeHandleStore(t)
    BY <2>1, PcMembers
      DEF MakeHandleStore, ConnectLocals, NextHandle, Handles, TypeOK, Goto
  <2>2. CASE MakeHandleCheck(t)
    <3>1. hseq \in Handles
      BY <2>2 DEF MakeHandleCheck, ConnectLocals
    <3>2. /\ ptr' \in [Threads -> Conns \cup {None}]
          /\ ref' \in [Conns -> Int]
      BY <2>2, <3>1 DEF MakeHandleCheck, AddRef, TypeOK
    <3>3. pc' \in [Threads -> Pc]
      BY <2>2, PcMembers DEF MakeHandleCheck, TypeOK, Goto
    <3>4. QED
      BY <2>2, <3>2, <3>3 DEF MakeHandleCheck, TypeOK
  <2>3. CASE MakeHandleNext(t)
    BY <2>3, PcMembers
      DEF MakeHandleNext, ConnectLocals, CallLocals, PtrPc, NextHandle,
          Release, Destroy, CloseFds, Handles, TypeOK, Goto
  <2>4. CASE MakeHandleReturn(t)
    BY <2>4, PcMembers
      DEF MakeHandleReturn, ConnectLocals, ConnectPc, Handles, TypeOK, Goto
  <2>5. CASE ConnectSocket(t)
    <3>1. Lowest(FreeFds) \in Fds
      BY <2>5, LowestType DEF ConnectSocket, FreeFds
    <3>2. new[t] \in Conns
      BY <2>5 DEF ConnectSocket, ConnectLocals, ConnectPc
    <3>3. /\ fd' \in [Conns -> Fds \cup {NoFd}]
          /\ spent' \subseteq Fds
      BY <2>5, <3>1, <3>2 DEF ConnectSocket, TypeOK
    <3>4. /\ state' \in [Conns -> State]
          /\ idle' \in [Conns -> 0 .. 2]
          /\ net' \in [Conns -> {"none", "syn", "up", "down", "refused"}]
      BY <2>5, <3>2 DEF ConnectSocket, TypeOK, State
    <3>5. QED
      BY <2>5, <3>3, <3>4, PcMembers DEF ConnectSocket, TypeOK, Goto
  <2>6. CASE ConnectFail(t)
    BY <2>6, PcMembers
      DEF ConnectFail, ConnectLocals, ConnectPc, Delete, Destroy, CloseFds,
          State, Home, TypeOK, Goto
  <2>7. CASE AddConn(t)
    BY <2>7, PcMembers DEF AddConn, ConnectLocals, ConnectPc, TypeOK, Goto
  <2>8. CASE AddConnTaken(t)
    BY <2>8, PcMembers
      DEF AddConnTaken, ConnectLocals, ConnectPc, Delete, Destroy, CloseFds,
          TypeOK, Goto
  <2>9. CASE AddConnLog(t)
    BY <2>9, PcMembers DEF AddConnLog, Home, TypeOK, Goto
  <2>10. CASE AddEventFd(t)
    BY <2>10, PcMembers DEF AddEventFd, ConnectLocals, ConnectPc, TypeOK, Goto
  <2>11. CASE AddEventCtl(t)
    BY <2>11, PcMembers
      DEF AddEventCtl, ConnectLocals, ConnectPc, CtlAdd, Reg, TypeOK, Goto
  <2>12. CASE ConnectReturn(t)
    BY <2>12, PcMembers DEF ConnectReturn, Home, TypeOK, Goto
  <2>13. QED
    BY <1>5, <2>1, <2>2, <2>3, <2>4, <2>5, <2>6, <2>7, <2>8, <2>9, <2>10,
       <2>11, <2>12
      DEF ConnectStep
<1>6. ASSUME NEW t \in Threads, SendStep(t) PROVE  TypeOK'
  <2>1. CASE DeliverRefused(t)
    BY <2>1, PcMembers DEF DeliverRefused, TypeOK, Goto
  <2>2. CASE DeliverData(t)
    BY <2>2, PcMembers
      DEF DeliverData, CallLocals, PtrPc, SendPc, Lock, Threads, TypeOK, Goto
  <2>3. CASE DeliverSetEvent(t)
    BY <2>3, PcMembers
      DEF DeliverSetEvent, CallLocals, PtrPc, SendPc, CtlMod, Reg, TypeOK,
          Goto
  <2>4. QED
    BY <1>6, <2>1, <2>2, <2>3 DEF SendStep
<1>7. ASSUME NEW t \in Threads, CloseStep(t) PROVE  TypeOK'
  <2>1. CASE CloseGet(t)
    <3>1. arg[t] \in Handles
      BY <2>1 DEF CloseGet, CallLocals, ClosePc
    <3>2. /\ ptr' \in [Threads -> Conns \cup {None}]
          /\ ref' \in [Conns -> Int]
      BY <2>1, <3>1 DEF CloseGet, AddRef, TypeOK
    <3>3. /\ arg' \in [Threads -> 0 .. MaxHandle]
          /\ ret' \in [Threads -> {"idle", "cb_done", "g_ret", "r_closed",
                                    "w_closed", "t_closed"}]
      BY <2>1 DEF CloseGet, CallEnd, TypeOK
    <3>4. pc' \in [Threads -> Pc]
      BY SMTT(30), <2>1, PcMembers DEF CloseGet, CallEnd, TypeOK, Goto
    <3>5. QED
      BY <2>1, <3>2, <3>3, <3>4 DEF CloseGet, TypeOK
  <2>2. CASE CloseFd(t)
    BY <2>2, PcMembers DEF CloseFd, CallLocals, PtrPc, ClosePc, TypeOK, Goto
  <2>3. CASE CloseRemoveEvent(t)
    BY <2>3, PcMembers DEF CloseRemoveEvent, CtlDel, TypeOK, Goto
  <2>4. CASE CloseRemoveConn(t)
    <3>1. arg[t] \in Handles
      BY <2>4 DEF CloseRemoveConn, CallLocals, ClosePc
    <3>2. pc' \in [Threads -> Pc]
      BY <2>4, PcMembers DEF CloseRemoveConn, AfterRemove, TypeOK, Goto
    <3>3. conns[arg[t]] \in Conns \cup {None}
      BY <3>1 DEF TypeOK
    <3>4. recycles' \subseteq Conns
      BY <2>4, <3>3 DEF CloseRemoveConn, TypeOK
    <3>5. conns' \in [Handles -> Conns \cup {None}]
      BY <2>4 DEF CloseRemoveConn, TypeOK
    <3>6. closer' \in [Handles -> {"none", "app", "loop"}]
      BY <2>4 DEF CloseRemoveConn, TypeOK
    <3>7. QED
      BY <2>4, <3>2, <3>4, <3>5, <3>6 DEF CloseRemoveConn, TypeOK
  <2>5. CASE ConnCloseState(t)
    BY <2>5, PcMembers
      DEF ConnCloseState, CallLocals, PtrPc, ClosePc, State, TypeOK, Goto
  <2>6. CASE ConnCloseSocket(t)
    BY <2>6, PcMembers DEF ConnCloseSocket, CloseFds, TypeOK, Goto
  <2>7. QED
    BY <1>7, <2>1, <2>2, <2>3, <2>4, <2>5, <2>6 DEF CloseStep
<1>8. ASSUME NEW t \in Threads, StatusStep(t) PROVE  TypeOK'
  <2>1. CASE StatusRead(t)
    BY <2>1, PcMembers DEF StatusRead, CallLocals, PtrPc, State, TypeOK, Goto
  <2>2. CASE StatusReturn(t)
    BY <2>2, PcMembers DEF StatusReturn, Home, TypeOK, Goto
  <2>3. QED
    BY <1>8, <2>1, <2>2 DEF StatusStep
<1>9. ASSUME NEW t \in Threads, CallRelease(t) PROVE  TypeOK'
  <2>1. /\ ptr' \in [Threads -> Conns \cup {None}]
        /\ arg' \in [Threads -> 0 .. MaxHandle]
        /\ ret' \in [Threads -> {"idle", "cb_done", "g_ret", "r_closed",
                                  "w_closed", "t_closed"}]
    BY <1>9 DEF CallRelease, CallEnd, TypeOK
  <2>2. pc' \in [Threads -> Pc]
    BY SMTT(30), <1>9, PcMembers DEF CallRelease, CallEnd, TypeOK, Goto
  <2>3. QED
    BY <1>9, <2>1, <2>2
    DEF CallRelease, Release, Destroy, CloseFds, TypeOK
<1>10. ASSUME NEW l \in Loops, RoundStep(l) PROVE  TypeOK'
  <2>1. CASE GetEvents(l)
    <3>1. ASSUME NEW f \in Fds, reg[f] # NoReg
          PROVE  Ready(f) \in Event
      <4>1. reg[f] \in Reg
        BY <3>1 DEF TypeOK
      <4>2. QED
        BY <4>1 DEF Ready, Reg, Event, Readable, Writable
    <3>2. batch' \in [Loops -> SUBSET Event]
      BY <2>1, <3>1 DEF GetEvents, TypeOK
    <3>3. QED
      BY <2>1, <3>2, PcMembers, LoopsAreThreads DEF GetEvents, TypeOK, Goto
  <2>2. ASSUME NEW e \in batch[l], NextEvent(l, e)
        PROVE  TypeOK'
    BY <2>2, PcMembers, LoopsAreThreads
      DEF NextEvent, AddRef, Event, TypeOK, Goto
  <2>3. CASE ReleaseEvent(l)
    BY <2>3, PcMembers, LoopsAreThreads
      DEF ReleaseEvent, Release, Destroy, CloseFds, TypeOK, Goto
  <2>4. CASE CallbackReturn(l)
    <3>1. cbret[l] \in Pc
      BY PcMembers DEF TypeOK
    <3>2. QED
      BY <2>4, <3>1 DEF CallbackReturn, TypeOK, Goto
  <2>5. QED
    BY <1>10, <2>1, <2>2, <2>3, <2>4 DEF RoundStep
<1>11. ASSUME NEW l \in Loops, ReadStep(l) PROVE  TypeOK'
  <2>1. CASE ReadSkip(l)
    BY <2>1, PcMembers, LoopsAreThreads DEF ReadSkip, TypeOK, Goto
  <2>2. CASE ReadBegin(l)
    BY <2>2, PcMembers, LoopsAreThreads
      DEF ReadBegin, LoopLocals, EventPc, Event, TypeOK, Goto
  <2>3. CASE ReadData(l)
    BY <2>3, PcMembers, LoopsAreThreads
      DEF ReadData, LoopLocals, EventPc, Event, TypeOK, Goto
  <2>4. CASE ReadBroken(l)
    BY <2>4, PcMembers, LoopsAreThreads
      DEF ReadBroken, LoopLocals, EventPc, Event, BeginClose, Handles, TypeOK,
          Goto
  <2>5. CASE ReadDone(l)
    <3>1. handle[cur[l].conn] \in 0 .. MaxHandle
      BY <2>5 DEF ReadDone, Handles, LoopLocals, EventPc
    <3>2. pc' \in [Threads -> Pc]
      BY <2>5, PcMembers, LoopsAreThreads DEF ReadDone, BeginClose, TypeOK, Goto
    <3>3. arg' \in [Threads -> 0 .. MaxHandle]
      BY <2>5, <3>1 DEF ReadDone, BeginClose, TypeOK, Handles
    <3>4. ret' \in [Threads -> {"idle", "cb_done", "g_ret", "r_closed",
                                "w_closed", "t_closed"}]
      BY <2>5 DEF ReadDone, BeginClose, TypeOK
    <3>5. QED
      BY <2>5, <3>2, <3>3, <3>4 DEF ReadDone, TypeOK
  <2>6. CASE ReadMore(l)
    BY SMTT(30), <2>6, PcMembers, LoopsAreThreads DEF ReadMore, TypeOK, Goto
  <2>7. CASE ReadClosed(l)
    BY <2>7, PcMembers, LoopsAreThreads
      DEF ReadClosed, LoopLocals, EventPc, Callback, TypeOK, Goto
  <2>8. QED
    BY <1>11, <2>1, <2>2, <2>3, <2>4, <2>5, <2>6, <2>7 DEF ReadStep
<1>12. ASSUME NEW l \in Loops, WriteStep(l) PROVE  TypeOK'
  <2>1. CASE WriteSkip(l)
    BY <2>1, PcMembers, LoopsAreThreads DEF WriteSkip, TypeOK, Goto
  <2>2. CASE WriteOutcome(l)
    BY <2>2, PcMembers, LoopsAreThreads DEF WriteOutcome, TypeOK, Goto
  <2>3. CASE WriteConnected(l)
    BY <2>3, PcMembers, LoopsAreThreads DEF WriteConnected, TypeOK, Goto
  <2>4. CASE OnConnect(l)
    BY <2>4, PcMembers, LoopsAreThreads
      DEF OnConnect, LoopLocals, EventPc, Event, Callback, State, TypeOK, Goto
  <2>5. CASE WriteFailed(l)
    BY <2>5, PcMembers, LoopsAreThreads
      DEF WriteFailed, LoopLocals, EventPc, Event, BeginClose, Handles,
          TypeOK, Goto
  <2>6. CASE WriteClosed(l)
    BY <2>6, PcMembers, LoopsAreThreads
      DEF WriteClosed, LoopLocals, EventPc, Callback, TypeOK, Goto
  <2>7. CASE WriteBegin(l)
    BY <2>7, PcMembers, LoopsAreThreads DEF WriteBegin, TypeOK, Goto
  <2>8. CASE WriteSome(l)
    BY <2>8, PcMembers, LoopsAreThreads DEF WriteSome, TypeOK, Goto
  <2>9. CASE WriteAll(l)
    BY <2>9, PcMembers, LoopsAreThreads
      DEF WriteAll, LoopLocals, EventPc, Event, Lock, Threads, TypeOK, Goto
  <2>10. CASE WriteSetEvent(l)
    BY <2>10, PcMembers, LoopsAreThreads
      DEF WriteSetEvent, LoopLocals, EventPc, Event, CtlMod, Reg, TypeOK, Goto
  <2>11. QED
    BY <1>12, <2>1, <2>2, <2>3, <2>4, <2>5, <2>6, <2>7, <2>8, <2>9, <2>10
      DEF WriteStep
<1>13. ASSUME NEW l \in Loops, TimeStep(l) PROVE  TypeOK'
  <2>1. CASE TimeSkip(l)
    BY <2>1, PcMembers, LoopsAreThreads DEF TimeSkip, TypeOK, Goto
  <2>2. CASE CheckTimeout(l)
    BY <2>2, PcMembers, LoopsAreThreads DEF CheckTimeout, TypeOK, Goto
  <2>3. CASE TimeoutClose(l)
    <3>1. tlist[l] \in SUBSET Nat /\ tlist[l] # {}
      BY <2>3 DEF TimeoutClose, TypeOK, LoopLocals, Handles
    <3>2. Lowest(tlist[l]) \in Handles
      BY <3>1, LowestType DEF TypeOK
    <3>3. QED
      BY <2>3, <3>2, PcMembers, LoopsAreThreads
      DEF TimeoutClose, BeginClose, TypeOK, Goto, Handles
  <2>4. CASE TimeoutClosed(l)
    <3>1. tlist[l] \in SUBSET Nat /\ tlist[l] # {}
      BY <2>4 DEF TimeoutClosed, TypeOK, LoopLocals, Handles
    <3>2. Lowest(tlist[l]) \in Handles
      BY <3>1, LowestType DEF TypeOK
    <3>3. QED
      BY <2>4, <3>2, PcMembers, LoopsAreThreads
      DEF TimeoutClosed, Callback, TypeOK, Goto
  <2>5. CASE Clear(l)
    BY <2>5, PcMembers, LoopsAreThreads
      DEF Clear, Release, Destroy, CloseFds, TypeOK, Goto
  <2>6. QED
    BY <1>13, <2>1, <2>2, <2>3, <2>4, <2>5 DEF TimeStep
<1>14. ASSUME NEW c \in Conns, NetStep(c) PROVE  TypeOK'
  <2>1. net' \in [Conns -> {"none", "syn", "up", "down", "refused"}]
    BY ZenonT(40), <1>14 DEF NetStep, TypeOK
  <2>2. inq' \in [Conns -> BOOLEAN]
    BY <1>14 DEF NetStep, TypeOK
  <2>3. QED
    BY <1>14, <2>1, <2>2 DEF NetStep, TypeOK
<1>15. ASSUME NEW c \in Conns, Tick(c) PROVE  TypeOK'
  BY <1>15, PcMembers DEF Tick, TypeOK, Goto
<1>16. CASE UNCHANGED vars
  BY <1>16 DEF TypeOK
<1>17. QED
  BY <1>1, <1>2, <1>3, <1>4, <1>5, <1>6, <1>7, <1>8, <1>9, <1>10, <1>11,
     <1>12, <1>13, <1>14, <1>15, <1>16
    DEF Next, ApiCall, CallStep, LoopStep

\* A step keeps the locals of connect meaningful.
LEMMA ConnectLocalsStep ==
  ASSUME TypeInv, [Next]_vars
  PROVE  ConnectLocals'
<1> USE DEF TypeInv
<1>1. ASSUME NEW t \in Threads, NEW c \in Conns, ConnectNew(t, c)
      PROVE  ConnectLocals'
  BY <1>1 DEF ConnectNew, Handles, TypeOK, ConnectLocals, ConnectPc, Goto
<1>2. ASSUME NEW t \in Threads, NEW h \in Handles, SendCall(t, h)
      PROVE  ConnectLocals'
  BY <1>2 DEF SendCall, CanCall, Home, TypeOK, ConnectLocals, ConnectPc, Goto
<1>3. ASSUME NEW t \in Threads, NEW h \in Handles, CloseCall(t, h)
      PROVE  ConnectLocals'
  BY <1>3
    DEF CloseCall, BeginClose, Home, TypeOK, ConnectLocals, ConnectPc, Goto
<1>4. ASSUME NEW t \in Threads, NEW h \in Handles, StatusCall(t, h)
      PROVE  ConnectLocals'
  BY <1>4 DEF StatusCall, CanCall, TypeOK, ConnectLocals, ConnectPc, Goto
<1>5. ASSUME NEW t \in Threads, ConnectStep(t) PROVE  ConnectLocals'
  <2>1. CASE MakeHandleStore(t)
    BY <2>1
      DEF MakeHandleStore, NextHandle, Handles, TypeOK, ConnectLocals,
          ConnectPc, Goto
  <2>2. CASE MakeHandleCheck(t)
    BY <2>2 DEF MakeHandleCheck, TypeOK, ConnectLocals, ConnectPc, Goto
  <2>3. CASE MakeHandleNext(t)
    BY <2>3
      DEF MakeHandleNext, NextHandle, Handles, TypeOK, ConnectLocals,
          ConnectPc, Goto
  <2>4. CASE MakeHandleReturn(t)
    BY <2>4 DEF MakeHandleReturn, TypeOK, ConnectLocals, ConnectPc, Goto
  <2>5. CASE ConnectSocket(t)
    BY <2>5 DEF ConnectSocket, TypeOK, ConnectLocals, ConnectPc, Goto
  <2>6. CASE ConnectFail(t)
    BY <2>6 DEF ConnectFail, Home, TypeOK, ConnectLocals, ConnectPc, Goto
  <2>7. CASE AddConn(t)
    BY <2>7 DEF AddConn, TypeOK, ConnectLocals, ConnectPc, Goto
  <2>8. CASE AddConnTaken(t)
    BY <2>8 DEF AddConnTaken, TypeOK, ConnectLocals, ConnectPc, Goto
  <2>9. CASE AddConnLog(t)
    BY <2>9 DEF AddConnLog, Home, TypeOK, ConnectLocals, ConnectPc, Goto
  <2>10. CASE AddEventFd(t)
    BY <2>10 DEF AddEventFd, TypeOK, ConnectLocals, ConnectPc, Goto
  <2>11. CASE AddEventCtl(t)
    BY <2>11 DEF AddEventCtl, TypeOK, ConnectLocals, ConnectPc, Goto
  <2>12. CASE ConnectReturn(t)
    BY <2>12 DEF ConnectReturn, Home, TypeOK, ConnectLocals, ConnectPc, Goto
  <2>13. QED
    BY <1>5, <2>1, <2>2, <2>3, <2>4, <2>5, <2>6, <2>7, <2>8, <2>9, <2>10,
       <2>11, <2>12
      DEF ConnectStep
<1>6. ASSUME NEW t \in Threads, SendStep(t) PROVE  ConnectLocals'
  <2>1. CASE DeliverRefused(t)
    BY <2>1 DEF DeliverRefused, TypeOK, ConnectLocals, ConnectPc, Goto
  <2>2. CASE DeliverData(t)
    BY <2>2 DEF DeliverData, TypeOK, ConnectLocals, ConnectPc, Goto
  <2>3. CASE DeliverSetEvent(t)
    BY <2>3 DEF DeliverSetEvent, TypeOK, ConnectLocals, ConnectPc, Goto
  <2>4. QED
    BY <1>6, <2>1, <2>2, <2>3 DEF SendStep
<1>7. ASSUME NEW t \in Threads, CloseStep(t) PROVE  ConnectLocals'
  <2>1. CASE CloseGet(t)
    BY SMTT(30), <2>1 DEF CloseGet, CallEnd, TypeOK, ConnectLocals, ConnectPc, Goto
  <2>2. CASE CloseFd(t)
    BY <2>2 DEF CloseFd, TypeOK, ConnectLocals, ConnectPc, Goto
  <2>3. CASE CloseRemoveEvent(t)
    BY <2>3 DEF CloseRemoveEvent, TypeOK, ConnectLocals, ConnectPc, Goto
  <2>4. CASE CloseRemoveConn(t)
    BY <2>4
      DEF CloseRemoveConn, AfterRemove, TypeOK, ConnectLocals, ConnectPc, Goto
  <2>5. CASE ConnCloseState(t)
    BY <2>5 DEF ConnCloseState, TypeOK, ConnectLocals, ConnectPc, Goto
  <2>6. CASE ConnCloseSocket(t)
    BY <2>6 DEF ConnCloseSocket, TypeOK, ConnectLocals, ConnectPc, Goto
  <2>7. QED
    BY <1>7, <2>1, <2>2, <2>3, <2>4, <2>5, <2>6 DEF CloseStep
<1>8. ASSUME NEW t \in Threads, StatusStep(t) PROVE  ConnectLocals'
  BY <1>8
    DEF StatusStep, StatusRead, StatusReturn, Home, TypeOK, ConnectLocals,
        ConnectPc, Goto
<1>9. ASSUME NEW t \in Threads, CallRelease(t) PROVE  ConnectLocals'
  BY SMTT(30), <1>9 DEF CallRelease, CallEnd, TypeOK, ConnectLocals, ConnectPc, Goto
<1>10. ASSUME NEW l \in Loops, RoundStep(l) PROVE  ConnectLocals'
  <2>1. CASE GetEvents(l)
    BY <2>1, LoopsAreThreads
      DEF GetEvents, TypeOK, ConnectLocals, ConnectPc, Goto
  <2>2. ASSUME NEW e \in batch[l], NextEvent(l, e)
        PROVE  ConnectLocals'
    BY <2>2, LoopsAreThreads
      DEF NextEvent, TypeOK, ConnectLocals, ConnectPc, Goto
  <2>3. CASE ReleaseEvent(l)
    BY <2>3, LoopsAreThreads
      DEF ReleaseEvent, TypeOK, ConnectLocals, ConnectPc, Goto
  <2>4. CASE CallbackReturn(l)
    BY SMTT(30), <2>4, LoopsAreThreads
      DEF CallbackReturn, TypeOK, ConnectLocals, ConnectPc, Goto
  <2>5. QED
    BY <1>10, <2>1, <2>2, <2>3, <2>4 DEF RoundStep
<1>11. ASSUME NEW l \in Loops, ReadStep(l) PROVE  ConnectLocals'
  BY <1>11, LoopsAreThreads
    DEF ReadStep, ReadSkip, ReadBegin, ReadData, ReadBroken, ReadDone,
        ReadMore, ReadClosed, BeginClose, Callback, TypeOK, ConnectLocals,
        ConnectPc, Goto
<1>12. ASSUME NEW l \in Loops, WriteStep(l) PROVE  ConnectLocals'
  <2>1. CASE WriteSkip(l)
    BY <2>1, LoopsAreThreads
      DEF WriteSkip, TypeOK, ConnectLocals, ConnectPc, Goto
  <2>2. CASE WriteOutcome(l)
    BY <2>2, LoopsAreThreads
      DEF WriteOutcome, TypeOK, ConnectLocals, ConnectPc, Goto
  <2>3. CASE WriteConnected(l)
    BY <2>3, LoopsAreThreads
      DEF WriteConnected, TypeOK, ConnectLocals, ConnectPc, Goto
  <2>4. CASE OnConnect(l)
    BY <2>4, LoopsAreThreads
      DEF OnConnect, Callback, TypeOK, ConnectLocals, ConnectPc, Goto
  <2>5. CASE WriteFailed(l)
    BY <2>5, LoopsAreThreads
      DEF WriteFailed, BeginClose, TypeOK, ConnectLocals, ConnectPc, Goto
  <2>6. CASE WriteClosed(l)
    BY <2>6, LoopsAreThreads
      DEF WriteClosed, Callback, TypeOK, ConnectLocals, ConnectPc, Goto
  <2>7. CASE WriteBegin(l)
    BY <2>7, LoopsAreThreads
      DEF WriteBegin, TypeOK, ConnectLocals, ConnectPc, Goto
  <2>8. CASE WriteSome(l)
    BY <2>8, LoopsAreThreads
      DEF WriteSome, TypeOK, ConnectLocals, ConnectPc, Goto
  <2>9. CASE WriteAll(l)
    BY <2>9, LoopsAreThreads
      DEF WriteAll, TypeOK, ConnectLocals, ConnectPc, Goto
  <2>10. CASE WriteSetEvent(l)
    BY <2>10, LoopsAreThreads
      DEF WriteSetEvent, TypeOK, ConnectLocals, ConnectPc, Goto
  <2>11. QED
    BY <1>12, <2>1, <2>2, <2>3, <2>4, <2>5, <2>6, <2>7, <2>8, <2>9, <2>10
      DEF WriteStep
<1>13. ASSUME NEW l \in Loops, TimeStep(l) PROVE  ConnectLocals'
  BY <1>13, LoopsAreThreads
    DEF TimeStep, TimeSkip, CheckTimeout, TimeoutClose, TimeoutClosed, Clear,
        BeginClose, Callback, TypeOK, ConnectLocals, ConnectPc, Goto
<1>14. ASSUME NEW c \in Conns, NetStep(c) PROVE  ConnectLocals'
  BY <1>14 DEF NetStep, TypeOK, ConnectLocals, ConnectPc, Goto
<1>15. ASSUME NEW c \in Conns, Tick(c) PROVE  ConnectLocals'
  BY <1>15 DEF Tick, TypeOK, ConnectLocals, ConnectPc, Goto
<1>16. CASE UNCHANGED vars
  BY <1>16 DEF TypeOK, ConnectLocals, ConnectPc, Goto
<1>17. QED
  BY <1>1, <1>2, <1>3, <1>4, <1>5, <1>6, <1>7, <1>8, <1>9, <1>10, <1>11,
     <1>12, <1>13, <1>14, <1>15, <1>16
    DEF Next, ApiCall, CallStep, LoopStep

\* A step keeps the argument and the pointer of a call meaningful.
LEMMA CallLocalsStep ==
  ASSUME TypeInv, [Next]_vars
  PROVE  CallLocals'
<1> USE DEF TypeInv
<1>1. ASSUME NEW t \in Threads, NEW c \in Conns, ConnectNew(t, c)
      PROVE  CallLocals'
  BY <1>1
    DEF ConnectNew, CanCall, TypeOK, CallLocals, PtrPc, RetPc, SendPc,
        ClosePc, Goto
<1>2. ASSUME NEW t \in Threads, NEW h \in Handles, SendCall(t, h)
      PROVE  CallLocals'
  BY <1>2
    DEF SendCall, CanCall, Home, Named, TypeOK, CallLocals, PtrPc, RetPc,
        SendPc, ClosePc, Goto
<1>3. ASSUME NEW t \in Threads, NEW h \in Handles, CloseCall(t, h)
      PROVE  CallLocals'
  BY <1>3
    DEF CloseCall, BeginClose, TypeOK, CallLocals, PtrPc, RetPc, SendPc,
        ClosePc, Goto
<1>4. ASSUME NEW t \in Threads, NEW h \in Handles, StatusCall(t, h)
      PROVE  CallLocals'
  BY <1>4
    DEF StatusCall, CanCall, Named, TypeOK, CallLocals, PtrPc, RetPc, SendPc,
        ClosePc, Goto
<1>5. ASSUME NEW t \in Threads, ConnectStep(t) PROVE  CallLocals'
  <2>1. CASE MakeHandleStore(t)
    BY <2>1
      DEF MakeHandleStore, TypeOK, CallLocals, PtrPc, RetPc, SendPc, ClosePc,
          Goto
  <2>2. CASE MakeHandleCheck(t)
    BY <2>2
      DEF MakeHandleCheck, ConnectLocals, Named, TypeOK, CallLocals, PtrPc,
          RetPc, SendPc, ClosePc, Goto
  <2>3. CASE MakeHandleNext(t)
    BY <2>3
      DEF MakeHandleNext, TypeOK, CallLocals, PtrPc, RetPc, SendPc, ClosePc,
          Goto
  <2>4. CASE MakeHandleReturn(t)
    BY <2>4
      DEF MakeHandleReturn, ConnectLocals, TypeOK, CallLocals, PtrPc, RetPc,
          SendPc, ClosePc, Goto
  <2>5. CASE ConnectSocket(t)
    BY <2>5
      DEF ConnectSocket, TypeOK, CallLocals, PtrPc, RetPc, SendPc, ClosePc,
          Goto
  <2>6. CASE ConnectFail(t)
    BY <2>6
      DEF ConnectFail, Home, TypeOK, CallLocals, PtrPc, RetPc, SendPc,
          ClosePc, Goto
  <2>7. CASE AddConn(t)
    BY <2>7
      DEF AddConn, TypeOK, CallLocals, PtrPc, RetPc, SendPc, ClosePc, Goto
  <2>8. CASE AddConnTaken(t)
    BY <2>8
      DEF AddConnTaken, TypeOK, CallLocals, PtrPc, RetPc, SendPc, ClosePc,
          Goto
  <2>9. CASE AddConnLog(t)
    BY <2>9
      DEF AddConnLog, Home, TypeOK, CallLocals, PtrPc, RetPc, SendPc, ClosePc,
          Goto
  <2>10. CASE AddEventFd(t)
    BY <2>10
      DEF AddEventFd, TypeOK, CallLocals, PtrPc, RetPc, SendPc, ClosePc, Goto
  <2>11. CASE AddEventCtl(t)
    BY <2>11
      DEF AddEventCtl, TypeOK, CallLocals, PtrPc, RetPc, SendPc, ClosePc, Goto
  <2>12. CASE ConnectReturn(t)
    BY <2>12
      DEF ConnectReturn, Home, TypeOK, CallLocals, PtrPc, RetPc, SendPc,
          ClosePc, Goto
  <2>13. QED
    BY <1>5, <2>1, <2>2, <2>3, <2>4, <2>5, <2>6, <2>7, <2>8, <2>9, <2>10,
       <2>11, <2>12
      DEF ConnectStep
<1>6. ASSUME NEW t \in Threads, SendStep(t) PROVE  CallLocals'
  <2>1. CASE DeliverRefused(t)
    BY <2>1
      DEF DeliverRefused, TypeOK, CallLocals, PtrPc, RetPc, SendPc, ClosePc,
          Goto
  <2>2. CASE DeliverData(t)
    BY <2>2
      DEF DeliverData, TypeOK, CallLocals, PtrPc, RetPc, SendPc, ClosePc, Goto
  <2>3. CASE DeliverSetEvent(t)
    BY <2>3
      DEF DeliverSetEvent, TypeOK, CallLocals, PtrPc, RetPc, SendPc, ClosePc,
          Goto
  <2>4. QED
    BY <1>6, <2>1, <2>2, <2>3 DEF SendStep
<1>7. ASSUME NEW t \in Threads, CloseStep(t) PROVE  CallLocals'
  <2>1. CASE CloseGet(t)
    <3>1. CASE conns[arg[t]] = None
      BY SMTT(30), <2>1, <3>1
      DEF CloseGet, CallEnd, TypeOK, CallLocals, PtrPc, RetPc, SendPc, ClosePc,
          Goto
    <3>2. CASE conns[arg[t]] # None
      <4>1. conns[arg[t]] \in Conns /\ handle[conns[arg[t]]] \in Handles
        BY <2>1, <3>2 DEF CloseGet, TypeOK, CallLocals, ClosePc, Named
      <4>2. /\ ptr' = [ptr EXCEPT ![t] = conns[arg[t]]]
            /\ pc' = [pc EXCEPT ![t] = "k_fd"]
            /\ UNCHANGED <<arg, ret, handle>>
        BY <2>1, <3>2 DEF CloseGet, Goto
      <4>3. pc[t] \in ClosePc
        BY <2>1 DEF CloseGet, ClosePc
      <4>4. QED
        BY <4>1, <4>2, <4>3
        DEF TypeOK, CallLocals, PtrPc, RetPc, SendPc, ClosePc
    <3>3. QED
      BY <3>1, <3>2
  <2>2. CASE CloseFd(t)
    BY <2>2
      DEF CloseFd, TypeOK, CallLocals, PtrPc, RetPc, SendPc, ClosePc, Goto
  <2>3. CASE CloseRemoveEvent(t)
    BY <2>3
      DEF CloseRemoveEvent, TypeOK, CallLocals, PtrPc, RetPc, SendPc, ClosePc,
          Goto
  <2>4. CASE CloseRemoveConn(t)
    BY <2>4
      DEF CloseRemoveConn, AfterRemove, TypeOK, CallLocals, PtrPc, RetPc,
          SendPc, ClosePc, Goto
  <2>5. CASE ConnCloseState(t)
    BY <2>5
      DEF ConnCloseState, TypeOK, CallLocals, PtrPc, RetPc, SendPc, ClosePc,
          Goto
  <2>6. CASE ConnCloseSocket(t)
    BY <2>6
      DEF ConnCloseSocket, TypeOK, CallLocals, PtrPc, RetPc, SendPc, ClosePc,
          Goto
  <2>7. QED
    BY <1>7, <2>1, <2>2, <2>3, <2>4, <2>5, <2>6 DEF CloseStep
<1>8. ASSUME NEW t \in Threads, StatusStep(t) PROVE  CallLocals'
  BY <1>8
    DEF StatusStep, StatusRead, StatusReturn, Home, TypeOK, CallLocals, PtrPc,
        RetPc, SendPc, ClosePc, Goto
<1>9. ASSUME NEW t \in Threads, CallRelease(t) PROVE  CallLocals'
  BY SMTT(30), <1>9
    DEF CallRelease, CallEnd, TypeOK, CallLocals, PtrPc, RetPc, SendPc,
        ClosePc, Goto
<1>10. ASSUME NEW l \in Loops, RoundStep(l) PROVE  CallLocals'
  <2>1. CASE GetEvents(l)
    BY <2>1, LoopsAreThreads
      DEF GetEvents, TypeOK, CallLocals, PtrPc, RetPc, SendPc, ClosePc, Goto
  <2>2. ASSUME NEW e \in batch[l], NextEvent(l, e)
        PROVE  CallLocals'
    BY <2>2, LoopsAreThreads
      DEF NextEvent, TypeOK, CallLocals, PtrPc, RetPc, SendPc, ClosePc, Goto
  <2>3. CASE ReleaseEvent(l)
    BY <2>3, LoopsAreThreads
      DEF ReleaseEvent, TypeOK, CallLocals, PtrPc, RetPc, SendPc, ClosePc,
          Goto
  <2>4. CASE CallbackReturn(l)
    <3>1. /\ cbret[l] \notin ClosePc \cup PtrPc
          /\ pc' = [pc EXCEPT ![l] = cbret[l]]
          /\ UNCHANGED <<arg, ptr, ret, handle>>
      BY <2>4 DEF CallbackReturn, TypeOK, PtrPc, SendPc, ClosePc, Goto
    <3>2. ret[l] = "idle"
      BY <2>4, LoopsAreThreads
      DEF CallbackReturn, CallLocals, RetPc, SendPc, ClosePc
    <3>3. QED
      BY <3>1, <3>2 DEF TypeOK, CallLocals
  <2>5. QED
    BY <1>10, <2>1, <2>2, <2>3, <2>4 DEF RoundStep
<1>11. ASSUME NEW l \in Loops, ReadStep(l) PROVE  CallLocals'
  <2>1. CASE ReadSkip(l)
    BY <2>1, LoopsAreThreads
      DEF ReadSkip, TypeOK, CallLocals, PtrPc, RetPc, SendPc, ClosePc, Goto
  <2>2. CASE ReadBegin(l)
    BY <2>2, LoopsAreThreads
      DEF ReadBegin, TypeOK, CallLocals, PtrPc, RetPc, SendPc, ClosePc, Goto
  <2>3. CASE ReadData(l)
    BY <2>3, LoopsAreThreads
      DEF ReadData, TypeOK, CallLocals, PtrPc, RetPc, SendPc, ClosePc, Goto
  <2>4. CASE ReadBroken(l)
    BY <2>4, LoopsAreThreads
      DEF ReadBroken, BeginClose, LoopLocals, EventPc, TypeOK, CallLocals,
          PtrPc, RetPc, SendPc, ClosePc, Goto
  <2>5. CASE ReadDone(l)
    BY <2>5, LoopsAreThreads
      DEF ReadDone, BeginClose, LoopLocals, EventPc, TypeOK, CallLocals,
          PtrPc, RetPc, SendPc, ClosePc, Goto
  <2>6. CASE ReadMore(l)
    BY <2>6, LoopsAreThreads
      DEF ReadMore, TypeOK, CallLocals, PtrPc, RetPc, SendPc, ClosePc, Goto
  <2>7. CASE ReadClosed(l)
    BY <2>7, LoopsAreThreads
      DEF ReadClosed, Callback, TypeOK, CallLocals, PtrPc, RetPc, SendPc,
          ClosePc, Goto
  <2>8. QED
    BY <1>11, <2>1, <2>2, <2>3, <2>4, <2>5, <2>6, <2>7 DEF ReadStep
<1>12. ASSUME NEW l \in Loops, WriteStep(l) PROVE  CallLocals'
  <2>1. CASE WriteSkip(l)
    BY <2>1, LoopsAreThreads
      DEF WriteSkip, TypeOK, CallLocals, PtrPc, RetPc, SendPc, ClosePc, Goto
  <2>2. CASE WriteOutcome(l)
    BY <2>2, LoopsAreThreads
      DEF WriteOutcome, TypeOK, CallLocals, PtrPc, RetPc, SendPc, ClosePc,
          Goto
  <2>3. CASE WriteConnected(l)
    BY <2>3, LoopsAreThreads
      DEF WriteConnected, TypeOK, CallLocals, PtrPc, RetPc, SendPc, ClosePc,
          Goto
  <2>4. CASE OnConnect(l)
    BY <2>4, LoopsAreThreads
      DEF OnConnect, Callback, TypeOK, CallLocals, PtrPc, RetPc, SendPc,
          ClosePc, Goto
  <2>5. CASE WriteFailed(l)
    BY <2>5, LoopsAreThreads
      DEF WriteFailed, BeginClose, LoopLocals, EventPc, TypeOK, CallLocals,
          PtrPc, RetPc, SendPc, ClosePc, Goto
  <2>6. CASE WriteClosed(l)
    BY <2>6, LoopsAreThreads
      DEF WriteClosed, Callback, TypeOK, CallLocals, PtrPc, RetPc, SendPc,
          ClosePc, Goto
  <2>7. CASE WriteBegin(l)
    BY <2>7, LoopsAreThreads
      DEF WriteBegin, TypeOK, CallLocals, PtrPc, RetPc, SendPc, ClosePc, Goto
  <2>8. CASE WriteSome(l)
    BY <2>8, LoopsAreThreads
      DEF WriteSome, TypeOK, CallLocals, PtrPc, RetPc, SendPc, ClosePc, Goto
  <2>9. CASE WriteAll(l)
    BY <2>9, LoopsAreThreads
      DEF WriteAll, TypeOK, CallLocals, PtrPc, RetPc, SendPc, ClosePc, Goto
  <2>10. CASE WriteSetEvent(l)
    BY <2>10, LoopsAreThreads
      DEF WriteSetEvent, TypeOK, CallLocals, PtrPc, RetPc, SendPc, ClosePc,
          Goto
  <2>11. QED
    BY <1>12, <2>1, <2>2, <2>3, <2>4, <2>5, <2>6, <2>7, <2>8, <2>9, <2>10
      DEF WriteStep
<1>13. ASSUME NEW l \in Loops, TimeStep(l) PROVE  CallLocals'
  <2>1. CASE TimeSkip(l)
    BY <2>1, LoopsAreThreads
      DEF TimeSkip, TypeOK, CallLocals, PtrPc, RetPc, SendPc, ClosePc, Goto
  <2>2. CASE CheckTimeout(l)
    BY <2>2, LoopsAreThreads
      DEF CheckTimeout, TypeOK, CallLocals, PtrPc, RetPc, SendPc, ClosePc,
          Goto
  <2>3. CASE TimeoutClose(l)
    <3>1. tlist[l] \in SUBSET Nat /\ tlist[l] # {}
      BY <2>3 DEF TimeoutClose, TypeOK, LoopLocals, Handles
    <3>2. Lowest(tlist[l]) \in Handles
      BY <3>1, LowestType DEF TypeOK
    <3>3. QED
      BY <2>3, <3>2, LoopsAreThreads
      DEF TimeoutClose, BeginClose, TypeOK, CallLocals, PtrPc, RetPc, SendPc,
          ClosePc, Goto
  <2>4. CASE TimeoutClosed(l)
    BY <2>4, LoopsAreThreads
      DEF TimeoutClosed, Callback, TypeOK, CallLocals, PtrPc, RetPc, SendPc,
          ClosePc, Goto
  <2>5. CASE Clear(l)
    BY <2>5, LoopsAreThreads
      DEF Clear, TypeOK, CallLocals, PtrPc, RetPc, SendPc, ClosePc, Goto
  <2>6. QED
    BY <1>13, <2>1, <2>2, <2>3, <2>4, <2>5 DEF TimeStep
<1>14. ASSUME NEW c \in Conns, NetStep(c) PROVE  CallLocals'
  BY <1>14
    DEF NetStep, TypeOK, CallLocals, PtrPc, RetPc, SendPc, ClosePc, Goto
<1>15. ASSUME NEW c \in Conns, Tick(c) PROVE  CallLocals'
  BY <1>15 DEF Tick, TypeOK, CallLocals, PtrPc, RetPc, SendPc, ClosePc, Goto
<1>16. CASE UNCHANGED vars
  BY <1>16 DEF TypeOK, CallLocals, PtrPc, RetPc, SendPc, ClosePc, Goto
<1>17. QED
  BY <1>1, <1>2, <1>3, <1>4, <1>5, <1>6, <1>7, <1>8, <1>9, <1>10, <1>11,
     <1>12, <1>13, <1>14, <1>15, <1>16
    DEF Next, ApiCall, CallStep, LoopStep

\* A step keeps the locals of event_loop meaningful.
LEMMA LoopLocalsStep ==
  ASSUME TypeInv, [Next]_vars
  PROVE  LoopLocals'
<1> USE DEF TypeInv
<1>1. ASSUME NEW t \in Threads, NEW c \in Conns, ConnectNew(t, c)
      PROVE  LoopLocals'
  BY <1>1, LoopsAreThreads
    DEF ConnectNew, CanCall, Home, CallLocals, RetPc, SendPc, ClosePc, TypeOK,
        LoopLocals, EventPc, TimePc, OutPc, Goto
<1>2. ASSUME NEW t \in Threads, NEW h \in Handles, SendCall(t, h)
      PROVE  LoopLocals'
  BY <1>2, LoopsAreThreads
    DEF SendCall, CanCall, Home, TypeOK, LoopLocals, EventPc, TimePc, OutPc,
        Goto
<1>3. ASSUME NEW t \in Threads, NEW h \in Handles, CloseCall(t, h)
      PROVE  LoopLocals'
  BY <1>3, LoopsAreThreads
    DEF CloseCall, CanCall, Home, BeginClose, TypeOK, LoopLocals, EventPc,
        TimePc, OutPc, Goto
<1>4. ASSUME NEW t \in Threads, NEW h \in Handles, StatusCall(t, h)
      PROVE  LoopLocals'
  <2>1. \/ pc' = [pc EXCEPT ![t] = "g_ret"] /\ ret' = ret
        \/ pc' = [pc EXCEPT ![t] = "g_read"] /\ ret' = [ret EXCEPT ![t] = "g_ret"]
    BY <1>4 DEF StatusCall, Goto
  <2>2. UNCHANGED <<cbret, cur, tlist, handle>>
    BY <1>4 DEF StatusCall
  <2>3. QED
    BY <2>1, <2>2, LoopsAreThreads DEF TypeOK, LoopLocals, EventPc, TimePc, OutPc
<1>5. ASSUME NEW t \in Threads, ConnectStep(t) PROVE  LoopLocals'
  <2>1. CASE MakeHandleStore(t)
    BY <2>1, LoopsAreThreads
      DEF MakeHandleStore, TypeOK, LoopLocals, EventPc, TimePc, OutPc, Goto
  <2>2. CASE MakeHandleCheck(t)
    <3>1. \/ pc' = [pc EXCEPT ![t] = "mh_return"]
          \/ pc' = [pc EXCEPT ![t] = "mh_next"]
      BY <2>2 DEF MakeHandleCheck, Goto
    <3>2. UNCHANGED <<ret, cbret, cur, tlist, handle>>
      BY <2>2 DEF MakeHandleCheck
    <3>3. QED
      BY <3>1, <3>2, LoopsAreThreads DEF TypeOK, LoopLocals, EventPc, TimePc, OutPc
  <2>3. CASE MakeHandleNext(t)
    BY <2>3, LoopsAreThreads
      DEF MakeHandleNext, TypeOK, LoopLocals, EventPc, TimePc, OutPc, Goto
  <2>4. CASE MakeHandleReturn(t)
    BY <2>4, LoopsAreThreads
      DEF MakeHandleReturn, ConnectLocals, ConnectPc, Event, NoEvent, TypeOK,
          LoopLocals, EventPc, TimePc, OutPc, Goto
  <2>5. CASE ConnectSocket(t)
    BY <2>5, LoopsAreThreads
      DEF ConnectSocket, TypeOK, LoopLocals, EventPc, TimePc, OutPc, Goto
  <2>6. CASE ConnectFail(t)
    BY <2>6, LoopsAreThreads
      DEF ConnectFail, Home, TypeOK, LoopLocals, EventPc, TimePc, OutPc, Goto
  <2>7. CASE AddConn(t)
    BY <2>7, LoopsAreThreads
      DEF AddConn, TypeOK, LoopLocals, EventPc, TimePc, OutPc, Goto
  <2>8. CASE AddConnTaken(t)
    BY <2>8, LoopsAreThreads
      DEF AddConnTaken, TypeOK, LoopLocals, EventPc, TimePc, OutPc, Goto
  <2>9. CASE AddConnLog(t)
    BY <2>9, LoopsAreThreads
      DEF AddConnLog, Home, TypeOK, LoopLocals, EventPc, TimePc, OutPc, Goto
  <2>10. CASE AddEventFd(t)
    BY <2>10, LoopsAreThreads
      DEF AddEventFd, TypeOK, LoopLocals, EventPc, TimePc, OutPc, Goto
  <2>11. CASE AddEventCtl(t)
    BY <2>11, LoopsAreThreads
      DEF AddEventCtl, TypeOK, LoopLocals, EventPc, TimePc, OutPc, Goto
  <2>12. CASE ConnectReturn(t)
    BY <2>12, LoopsAreThreads
      DEF ConnectReturn, Home, TypeOK, LoopLocals, EventPc, TimePc, OutPc,
          Goto
  <2>13. QED
    BY <1>5, <2>1, <2>2, <2>3, <2>4, <2>5, <2>6, <2>7, <2>8, <2>9, <2>10,
       <2>11, <2>12
      DEF ConnectStep
<1>6. ASSUME NEW t \in Threads, SendStep(t) PROVE  LoopLocals'
  <2>1. CASE DeliverRefused(t)
    BY <2>1, LoopsAreThreads
      DEF DeliverRefused, TypeOK, LoopLocals, EventPc, TimePc, OutPc, Goto
  <2>2. CASE DeliverData(t)
    BY <2>2, LoopsAreThreads
      DEF DeliverData, TypeOK, LoopLocals, EventPc, TimePc, OutPc, Goto
  <2>3. CASE DeliverSetEvent(t)
    BY <2>3, LoopsAreThreads
      DEF DeliverSetEvent, TypeOK, LoopLocals, EventPc, TimePc, OutPc, Goto
  <2>4. QED
    BY <1>6, <2>1, <2>2, <2>3 DEF SendStep
<1>7. ASSUME NEW t \in Threads, CloseStep(t) PROVE  LoopLocals'
  <2>1. CASE CloseGet(t)
    BY <2>1, LoopsAreThreads
      DEF CloseGet, CallEnd, CallLocals, RetPc, ClosePc, TypeOK, LoopLocals,
          EventPc, TimePc, OutPc, Goto
  <2>2. CASE CloseFd(t)
    BY <2>2, LoopsAreThreads
      DEF CloseFd, TypeOK, LoopLocals, EventPc, TimePc, OutPc, Goto
  <2>3. CASE CloseRemoveEvent(t)
    BY <2>3, LoopsAreThreads
      DEF CloseRemoveEvent, TypeOK, LoopLocals, EventPc, TimePc, OutPc, Goto
  <2>4. CASE CloseRemoveConn(t)
    BY <2>4, LoopsAreThreads
      DEF CloseRemoveConn, AfterRemove, TypeOK, LoopLocals, EventPc, TimePc,
          OutPc, Goto
  <2>5. CASE ConnCloseState(t)
    BY <2>5, LoopsAreThreads
      DEF ConnCloseState, TypeOK, LoopLocals, EventPc, TimePc, OutPc, Goto
  <2>6. CASE ConnCloseSocket(t)
    BY <2>6, LoopsAreThreads
      DEF ConnCloseSocket, TypeOK, LoopLocals, EventPc, TimePc, OutPc, Goto
  <2>7. QED
    BY <1>7, <2>1, <2>2, <2>3, <2>4, <2>5, <2>6 DEF CloseStep
<1>8. ASSUME NEW t \in Threads, StatusStep(t) PROVE  LoopLocals'
  <2>1. CASE StatusRead(t)
    BY <2>1, LoopsAreThreads
      DEF StatusRead, TypeOK, LoopLocals, EventPc, TimePc, OutPc, Goto
  <2>2. CASE StatusReturn(t)
    BY <2>2, LoopsAreThreads
      DEF StatusReturn, Home, TypeOK, LoopLocals, EventPc, TimePc, OutPc, Goto
  <2>3. QED
    BY <1>8, <2>1, <2>2 DEF StatusStep
<1>9. ASSUME NEW t \in Threads, CallRelease(t) PROVE  LoopLocals'
  BY <1>9, LoopsAreThreads
    DEF CallRelease, CallEnd, CallLocals, RetPc, TypeOK, LoopLocals, EventPc,
        TimePc, OutPc, Goto
<1>10. ASSUME NEW l \in Loops, RoundStep(l) PROVE  LoopLocals'
  <2>1. CASE GetEvents(l)
    BY <2>1, LoopsAreThreads, LoopAtHome
      DEF GetEvents, TypeOK, LoopLocals, EventPc, TimePc, OutPc, Goto
  <2>2. ASSUME NEW e \in batch[l], NextEvent(l, e)
        PROVE  LoopLocals'
    BY <2>2, LoopsAreThreads, LoopAtHome
      DEF NextEvent, Event, Named, TypeOK, LoopLocals, EventPc, TimePc, OutPc,
          Goto
  <2>3. CASE ReleaseEvent(l)
    BY <2>3, LoopsAreThreads, LoopAtHome
      DEF ReleaseEvent, TypeOK, LoopLocals, EventPc, TimePc, OutPc, Goto
  <2>4. CASE CallbackReturn(l)
    BY <2>4, LoopsAreThreads, LoopAtHome
      DEF CallbackReturn, TypeOK, LoopLocals, EventPc, TimePc, OutPc, Goto
  <2>5. QED
    BY <1>10, <2>1, <2>2, <2>3, <2>4 DEF RoundStep
<1>11. ASSUME NEW l \in Loops, ReadStep(l) PROVE  LoopLocals'
  <2>1. CASE ReadSkip(l)
    BY <2>1, LoopsAreThreads, LoopAtHome
      DEF ReadSkip, TypeOK, LoopLocals, EventPc, TimePc, OutPc, Goto
  <2>2. CASE ReadBegin(l)
    BY <2>2, LoopsAreThreads, LoopAtHome
      DEF ReadBegin, TypeOK, LoopLocals, EventPc, TimePc, OutPc, Goto
  <2>3. CASE ReadData(l)
    BY <2>3, LoopsAreThreads, LoopAtHome
      DEF ReadData, TypeOK, LoopLocals, EventPc, TimePc, OutPc, Goto
  <2>4. CASE ReadBroken(l)
    BY <2>4, LoopsAreThreads, LoopAtHome
      DEF ReadBroken, BeginClose, TypeOK, LoopLocals, EventPc, TimePc, OutPc,
          Goto
  <2>5. CASE ReadDone(l)
    BY <2>5, LoopsAreThreads, LoopAtHome
      DEF ReadDone, BeginClose, TypeOK, LoopLocals, EventPc, TimePc, OutPc,
          Goto
  <2>6. CASE ReadMore(l)
    BY <2>6, LoopsAreThreads, LoopAtHome
      DEF ReadMore, TypeOK, LoopLocals, EventPc, TimePc, OutPc, Goto
  <2>7. CASE ReadClosed(l)
    BY <2>7, LoopsAreThreads, LoopAtHome
      DEF ReadClosed, Callback, TypeOK, LoopLocals, EventPc, TimePc, OutPc,
          Goto
  <2>8. QED
    BY <1>11, <2>1, <2>2, <2>3, <2>4, <2>5, <2>6, <2>7 DEF ReadStep
<1>12. ASSUME NEW l \in Loops, WriteStep(l) PROVE  LoopLocals'
  <2>1. CASE WriteSkip(l)
    BY <2>1, LoopsAreThreads, LoopAtHome
      DEF WriteSkip, TypeOK, LoopLocals, EventPc, TimePc, OutPc, Goto
  <2>2. CASE WriteOutcome(l)
    BY <2>2, LoopsAreThreads, LoopAtHome
      DEF WriteOutcome, TypeOK, LoopLocals, EventPc, TimePc, OutPc, Goto
  <2>3. CASE WriteConnected(l)
    BY <2>3, LoopsAreThreads, LoopAtHome
      DEF WriteConnected, TypeOK, LoopLocals, EventPc, TimePc, OutPc, Goto
  <2>4. CASE OnConnect(l)
    BY <2>4, LoopsAreThreads, LoopAtHome
      DEF OnConnect, Callback, TypeOK, LoopLocals, EventPc, TimePc, OutPc,
          Goto
  <2>5. CASE WriteFailed(l)
    BY <2>5, LoopsAreThreads, LoopAtHome
      DEF WriteFailed, BeginClose, TypeOK, LoopLocals, EventPc, TimePc, OutPc,
          Goto
  <2>6. CASE WriteClosed(l)
    BY <2>6, LoopsAreThreads, LoopAtHome
      DEF WriteClosed, Callback, TypeOK, LoopLocals, EventPc, TimePc, OutPc,
          Goto
  <2>7. CASE WriteBegin(l)
    BY <2>7, LoopsAreThreads, LoopAtHome
      DEF WriteBegin, TypeOK, LoopLocals, EventPc, TimePc, OutPc, Goto
  <2>8. CASE WriteSome(l)
    BY <2>8, LoopsAreThreads, LoopAtHome
      DEF WriteSome, TypeOK, LoopLocals, EventPc, TimePc, OutPc, Goto
  <2>9. CASE WriteAll(l)
    BY <2>9, LoopsAreThreads, LoopAtHome
      DEF WriteAll, TypeOK, LoopLocals, EventPc, TimePc, OutPc, Goto
  <2>10. CASE WriteSetEvent(l)
    BY <2>10, LoopsAreThreads, LoopAtHome
      DEF WriteSetEvent, TypeOK, LoopLocals, EventPc, TimePc, OutPc, Goto
  <2>11. QED
    BY <1>12, <2>1, <2>2, <2>3, <2>4, <2>5, <2>6, <2>7, <2>8, <2>9, <2>10
      DEF WriteStep
<1>13. ASSUME NEW l \in Loops, TimeStep(l) PROVE  LoopLocals'
  <2>1. CASE TimeSkip(l)
    BY <2>1, LoopsAreThreads, LoopAtHome
      DEF TimeSkip, TypeOK, LoopLocals, EventPc, TimePc, OutPc, Goto
  <2>2. CASE CheckTimeout(l)
    BY <2>2, LoopsAreThreads, LoopAtHome
      DEF CheckTimeout, TypeOK, LoopLocals, EventPc, TimePc, OutPc, Goto
  <2>3. CASE TimeoutClose(l)
    BY <2>3, LoopsAreThreads, LoopAtHome
      DEF TimeoutClose, BeginClose, TypeOK, LoopLocals, EventPc, TimePc,
          OutPc, Goto
  <2>4. CASE TimeoutClosed(l)
    BY <2>4, LoopsAreThreads, LoopAtHome
      DEF TimeoutClosed, Callback, TypeOK, LoopLocals, EventPc, TimePc, OutPc,
          Goto
  <2>5. CASE Clear(l)
    BY <2>5, LoopsAreThreads, LoopAtHome
      DEF Clear, TypeOK, LoopLocals, EventPc, TimePc, OutPc, Goto
  <2>6. QED
    BY <1>13, <2>1, <2>2, <2>3, <2>4, <2>5 DEF TimeStep
<1>14. ASSUME NEW c \in Conns, NetStep(c) PROVE  LoopLocals'
  BY <1>14, LoopsAreThreads
    DEF NetStep, TypeOK, LoopLocals, EventPc, TimePc, OutPc, Goto
<1>15. ASSUME NEW c \in Conns, Tick(c) PROVE  LoopLocals'
  BY <1>15, LoopsAreThreads
    DEF Tick, TypeOK, LoopLocals, EventPc, TimePc, OutPc, Goto
<1>16. CASE UNCHANGED vars
  BY <1>16 DEF TypeOK, LoopLocals, EventPc, TimePc, OutPc, Goto
<1>17. QED
  BY <1>1, <1>2, <1>3, <1>4, <1>5, <1>6, <1>7, <1>8, <1>9, <1>10, <1>11,
     <1>12, <1>13, <1>14, <1>15, <1>16
    DEF Next, ApiCall, CallStep, LoopStep

\* A step keeps the handles of all connections that can be looked up.
LEMMA NamedStep ==
  ASSUME TypeInv, [Next]_vars
  PROVE  Named'
<1> USE DEF TypeInv
<1>1. ASSUME NEW t \in Threads, NEW c \in Conns, ConnectNew(t, c)
      PROVE  Named'
  BY <1>1 DEF ConnectNew, TypeOK, Named
<1>2. ASSUME NEW t \in Threads, NEW h \in Handles, SendCall(t, h)
      PROVE  Named'
  BY <1>2 DEF SendCall, TypeOK, Named
<1>3. ASSUME NEW t \in Threads, NEW h \in Handles, CloseCall(t, h)
      PROVE  Named'
  BY <1>3 DEF CloseCall, TypeOK, Named
<1>4. ASSUME NEW t \in Threads, NEW h \in Handles, StatusCall(t, h)
      PROVE  Named'
  BY <1>4 DEF StatusCall, TypeOK, Named
<1>5. ASSUME NEW t \in Threads, ConnectStep(t) PROVE  Named'
  <2>1. CASE MakeHandleStore(t)
    BY <2>1 DEF MakeHandleStore, TypeOK, Named
  <2>2. CASE MakeHandleCheck(t)
    BY <2>2 DEF MakeHandleCheck, TypeOK, Named
  <2>3. CASE MakeHandleNext(t)
    BY <2>3 DEF MakeHandleNext, Release, Destroy, CloseFds, TypeOK, Named
  <2>4. CASE MakeHandleReturn(t)
    BY <2>4 DEF MakeHandleReturn, ConnectLocals, ConnectPc, TypeOK, Named
  <2>5. CASE ConnectSocket(t)
    BY <2>5 DEF ConnectSocket, TypeOK, Named
  <2>6. CASE ConnectFail(t)
    BY <2>6 DEF ConnectFail, Delete, Destroy, CloseFds, TypeOK, Named
  <2>7. CASE AddConn(t)
    BY <2>7 DEF AddConn, ConnectLocals, ConnectPc, TypeOK, Named
  <2>8. CASE AddConnTaken(t)
    BY <2>8 DEF AddConnTaken, Delete, Destroy, CloseFds, TypeOK, Named
  <2>9. CASE AddConnLog(t)
    BY <2>9 DEF AddConnLog, TypeOK, Named
  <2>10. CASE AddEventFd(t)
    BY <2>10 DEF AddEventFd, TypeOK, Named
  <2>11. CASE AddEventCtl(t)
    BY <2>11
      DEF AddEventCtl, ConnectLocals, ConnectPc, CtlAdd, Reg, TypeOK, Named
  <2>12. CASE ConnectReturn(t)
    BY <2>12 DEF ConnectReturn, TypeOK, Named
  <2>13. QED
    BY <1>5, <2>1, <2>2, <2>3, <2>4, <2>5, <2>6, <2>7, <2>8, <2>9, <2>10,
       <2>11, <2>12
      DEF ConnectStep
<1>6. ASSUME NEW t \in Threads, SendStep(t) PROVE  Named'
  <2>1. CASE DeliverRefused(t)
    BY <2>1 DEF DeliverRefused, TypeOK, Named
  <2>2. CASE DeliverData(t)
    BY <2>2 DEF DeliverData, TypeOK, Named
  <2>3. CASE DeliverSetEvent(t)
    BY <2>3
      DEF DeliverSetEvent, CallLocals, PtrPc, SendPc, CtlMod, Reg, TypeOK,
          Named
  <2>4. QED
    BY <1>6, <2>1, <2>2, <2>3 DEF SendStep
<1>7. ASSUME NEW t \in Threads, CloseStep(t) PROVE  Named'
  <2>1. CASE CloseGet(t)
    BY <2>1 DEF CloseGet, TypeOK, Named
  <2>2. CASE CloseFd(t)
    BY <2>2 DEF CloseFd, TypeOK, Named
  <2>3. CASE CloseRemoveEvent(t)
    BY <2>3 DEF CloseRemoveEvent, CtlDel, TypeOK, Named
  <2>4. CASE CloseRemoveConn(t)
    <3>1. \A h \in Handles : conns'[h] # None => conns'[h] = conns[h]
      BY <2>4 DEF CloseRemoveConn, TypeOK
    <3>2. UNCHANGED <<handle, reg, batch>>
      BY <2>4 DEF CloseRemoveConn
    <3>3. QED
      BY <3>1, <3>2 DEF Named
  <2>5. CASE ConnCloseState(t)
    BY <2>5 DEF ConnCloseState, TypeOK, Named
  <2>6. CASE ConnCloseSocket(t)
    BY <2>6 DEF ConnCloseSocket, CloseFds, TypeOK, Named
  <2>7. QED
    BY <1>7, <2>1, <2>2, <2>3, <2>4, <2>5, <2>6 DEF CloseStep
<1>8. ASSUME NEW t \in Threads, StatusStep(t) PROVE  Named'
  BY <1>8 DEF StatusStep, StatusRead, StatusReturn, TypeOK, Named
<1>9. ASSUME NEW t \in Threads, CallRelease(t) PROVE  Named'
  BY <1>9 DEF CallRelease, Release, Destroy, CloseFds, TypeOK, Named
<1>10. ASSUME NEW l \in Loops, RoundStep(l) PROVE  Named'
  <2>1. CASE GetEvents(l)
    BY <2>1 DEF GetEvents, Ready, Event, TypeOK, Named
  <2>2. ASSUME NEW e \in batch[l], NextEvent(l, e)
        PROVE  Named'
    BY <2>2 DEF NextEvent, TypeOK, Named
  <2>3. CASE ReleaseEvent(l)
    BY <2>3 DEF ReleaseEvent, Release, Destroy, CloseFds, TypeOK, Named
  <2>4. CASE CallbackReturn(l)
    BY <2>4 DEF CallbackReturn, TypeOK, Named
  <2>5. QED
    BY <1>10, <2>1, <2>2, <2>3, <2>4 DEF RoundStep
<1>11. ASSUME NEW l \in Loops, ReadStep(l) PROVE  Named'
  BY <1>11
    DEF ReadStep, ReadSkip, ReadBegin, ReadData, ReadBroken, ReadDone,
        ReadMore, ReadClosed, TypeOK, Named
<1>12. ASSUME NEW l \in Loops, WriteStep(l) PROVE  Named'
  <2>1. CASE WriteSkip(l)
    BY <2>1 DEF WriteSkip, TypeOK, Named
  <2>2. CASE WriteOutcome(l)
    BY <2>2 DEF WriteOutcome, TypeOK, Named
  <2>3. CASE WriteConnected(l)
    BY <2>3 DEF WriteConnected, TypeOK, Named
  <2>4. CASE OnConnect(l)
    BY <2>4 DEF OnConnect, TypeOK, Named
  <2>5. CASE WriteFailed(l)
    BY <2>5 DEF WriteFailed, TypeOK, Named
  <2>6. CASE WriteClosed(l)
    BY <2>6 DEF WriteClosed, TypeOK, Named
  <2>7. CASE WriteBegin(l)
    BY <2>7 DEF WriteBegin, TypeOK, Named
  <2>8. CASE WriteSome(l)
    BY <2>8 DEF WriteSome, TypeOK, Named
  <2>9. CASE WriteAll(l)
    BY <2>9 DEF WriteAll, TypeOK, Named
  <2>10. CASE WriteSetEvent(l)
    BY <2>10
      DEF WriteSetEvent, LoopLocals, EventPc, CtlMod, Reg, TypeOK, Named
  <2>11. QED
    BY <1>12, <2>1, <2>2, <2>3, <2>4, <2>5, <2>6, <2>7, <2>8, <2>9, <2>10
      DEF WriteStep
<1>13. ASSUME NEW l \in Loops, TimeStep(l) PROVE  Named'
  <2>1. CASE TimeSkip(l)
    BY <2>1 DEF TimeSkip, TypeOK, Named
  <2>2. CASE CheckTimeout(l)
    BY <2>2 DEF CheckTimeout, TypeOK, Named
  <2>3. CASE TimeoutClose(l)
    BY <2>3 DEF TimeoutClose, TypeOK, Named
  <2>4. CASE TimeoutClosed(l)
    BY <2>4 DEF TimeoutClosed, TypeOK, Named
  <2>5. CASE Clear(l)
    BY <2>5 DEF Clear, Release, Destroy, CloseFds, TypeOK, Named
  <2>6. QED
    BY <1>13, <2>1, <2>2, <2>3, <2>4, <2>5 DEF TimeStep
<1>14. ASSUME NEW c \in Conns, NetStep(c) PROVE  Named'
  BY <1>14 DEF NetStep, TypeOK, Named
<1>15. ASSUME NEW c \in Conns, Tick(c) PROVE  Named'
  BY <1>15 DEF Tick, TypeOK, Named
<1>16. CASE UNCHANGED vars
  BY <1>16 DEF TypeOK, Named
<1>17. QED
  BY <1>1, <1>2, <1>3, <1>4, <1>5, <1>6, <1>7, <1>8, <1>9, <1>10, <1>11,
     <1>12, <1>13, <1>14, <1>15, <1>16
    DEF Next, ApiCall, CallStep, LoopStep

\* The initial state is well typed: nothing is under way.
LEMMA TypeInvInit == Init => TypeInv
<1> SUFFICES ASSUME Init PROVE TypeInv
  OBVIOUS
<1>1. TypeOK
  <2>1. \A t \in Threads : "idle" \in Pc /\ "wait" \in Pc
    BY PcMembers
  <2>2. QED
    BY <2>1, NumbersAssumption DEF Init, TypeOK, NoFd, State
<1>2. ConnectLocals
  BY DEF Init, ConnectLocals, ConnectPc
<1>3. CallLocals
  BY DEF Init, CallLocals, PtrPc, RetPc, SendPc, ClosePc
<1>4. LoopLocals
  BY LoopsAreThreads DEF Init, LoopLocals, EventPc, OutPc, TimePc
<1>5. Named
  BY DEF Init, Named
<1>6. QED
  BY <1>1, <1>2, <1>3, <1>4, <1>5 DEF TypeInv

\* TypeInv is inductive: one lemma for each of its parts.
LEMMA TypeInvStep == TypeInv /\ [Next]_vars => TypeInv'
<1> SUFFICES ASSUME TypeInv, [Next]_vars PROVE TypeInv'
  OBVIOUS
<1>1. TypeOK'
  BY TypeOKStep
<1>2. ConnectLocals'
  BY ConnectLocalsStep
<1>3. CallLocals'
  BY CallLocalsStep
<1>4. LoopLocals'
  BY LoopLocalsStep
<1>5. Named'
  BY NamedStep
<1>6. QED
  BY <1>1, <1>2, <1>3, <1>4, <1>5 DEF TypeInv

\* At each place a thread can be, its locals are what the code needs there.
THEOREM TypeInvariant == Spec => []TypeInv
<1>1. Init => TypeInv
  BY TypeInvInit
<1>2. TypeInv /\ [Next]_vars => TypeInv'
  BY TypeInvStep
<1>3. QED
  BY <1>1, <1>2, PTL DEF Spec

\* Every variable of NetWork keeps its type, for any number of connections,
\* threads, event loops and descriptors.
THEOREM TypeCorrect == Spec => []TypeOK
<1>1. TypeInv => TypeOK
  BY DEF TypeInv
<1>2. QED
  BY <1>1, TypeInvariant, PTL

=============================================================================
