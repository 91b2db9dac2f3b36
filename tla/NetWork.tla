------------------------------ MODULE NetWork ------------------------------
(***************************************************************************)
(* The core of the client SDK: class NetWork with its table of online      *)
(* connections (OnlineUser), the life of a TcpConnection and of its        *)
(* reference count, and the epoll set they share.  Application threads     *)
(* call connect, send, close and getStatus; an event-loop thread runs      *)
(* event_loop and calls the application back.                              *)
(*                                                                         *)
(* A step ends where another thread can come in between: at a lock, at a   *)
(* system call, and at a read or write of a field no lock protects.  What  *)
(* a payload contains is abstracted: a connection has unread input or not  *)
(* (inq), and output waiting to be written or not (pending).               *)
(***************************************************************************)
EXTENDS Integers, FiniteSets

CONSTANTS
  Conns,       \* the TcpConnection objects that are ever allocated
  Apps,        \* application threads
  Loops,       \* threads in event_loop: NetWork::init starts one
  Connectors,  \* the threads that call connect (a loop: from a callback)
  Senders,     \* the threads that call send
  Closers,     \* the threads that call close
  Askers,      \* the threads that call getStatus
  Fds,         \* descriptor numbers the kernel can give to a socket
  MaxHandle,   \* bound: handles are 1 .. MaxHandle
  FdReuse,     \* TRUE: the kernel gives out again the number of a closed socket
  None

Threads == Apps \cup Loops
Handles == 1 .. MaxHandle
NoFd    == -1

ASSUME ThreadsAssumption ==
  /\ Apps \cap Loops = {}
  /\ Connectors \cup Senders \cup Closers \cup Askers \subseteq Threads
  /\ None \notin Conns \cup Threads
ASSUME FiniteAssumption == IsFiniteSet(Threads)
ASSUME NumbersAssumption ==
  /\ Fds \subseteq Nat \ {0}
  /\ MaxHandle \in Nat \ {0}
  /\ FdReuse \in BOOLEAN

VARIABLES
  pc,      \* where each thread is
  new,     \* NetWork::connect: the connection being set up
  tmp,     \* make_handle: the value loaded by the first half of h++
  arg,     \* the handle the current call is about
  ptr,     \* the connection returned by getconn
  tfd,     \* the descriptor read by conn->getfd(), argument of epoll_ctl
  ret,     \* where the current call returns to
  res,     \* what getStatus is about to return
  batch,   \* event_loop: the events of this round not yet handled
  cur,     \* event_loop: the event being handled
  tlist,   \* time_process: the handles found expired, not yet closed
  cbret,   \* where the current application callback returns to
  life,    \* of the connection object: "none", "live", "freed"
  ref,     \* Ref::_ref
  state,   \* TcpConnection::_state
  fd,      \* Socket::_fd
  handle,  \* TcpConnection::_handle
  idle,    \* age of _last_active_time: 0, 1 (over 5 s), 2 (over 10 min)
  pending, \* _output is not empty
  mtx,     \* the owner of TcpConnection::_mutex
  conns,   \* OnlineUser::_conns: handle -> connection
  recycles,\* OnlineUser::_recycles
  hseq,    \* make_handle: static int h
  net,     \* kernel: the TCP state of the connection's socket
  inq,     \* kernel: the socket has unread input
  reg,     \* kernel: the epoll set, by descriptor
  spent,   \* kernel: the numbers given out so far
  told,    \* history: what the application was last called back with
  closer,  \* history: who removed the handle from the table
  closes   \* history: calls of TcpConnection::close on the object

makeVars  == <<new, tmp>>
frameVars == <<arg, ptr, ret>>
callVars  == <<makeVars, frameVars, tfd, res>>
roundVars == <<batch, cur, tlist>>
loopVars  == <<roundVars, cbret>>
refVars   == <<life, ref>>
fieldVars == <<state, handle, mtx>>
dataVars  == <<idle, pending>>
connVars  == <<refVars, fieldVars, dataVars, fd>>
tableVars == <<conns, recycles, hseq>>
sockVars  == <<net, inq, spent>>
netVars   == <<sockVars, reg>>
closeVars == <<closer, closes>>
histVars  == <<closeVars, told>>
sharedVars == <<connVars, tableVars, netVars, histVars>>
vars == <<pc, callVars, loopVars, sharedVars>>

NoReg   == [ptr |-> None, w |-> FALSE]
Reg     == [ptr : Conns, w : BOOLEAN]
Event   == [conn : Conns, r : BOOLEAN, w : BOOLEAN]
NoEvent == [conn |-> None, r |-> FALSE, w |-> FALSE]

----------------------------------------------------------------------------
(* Where a thread can be.  An application thread outside a call is at      *)
(* "idle"; the loop thread inside an application callback is at "cb",      *)
(* where the callback may make one call of its own, or at "cb_done".       *)

ConnectPc == {"mh_store", "mh_check", "mh_next", "mh_return", "c_connect",
              "c_add", "c_dup", "c_getfd", "c_ctl", "c_ret"}
SendPc    == {"s_lock", "s_ctl"}
ClosePc   == {"k_get", "k_fd", "k_del", "k_remove", "k_state", "k_sock"}
StatusPc  == {"g_read", "g_ret"}
EventPc   == {"r_event", "r_read", "r_more", "r_closed", "w_event", "w_error",
              "w_connect", "w_closed", "w_lock", "w_ctl", "unref"}
TimePc    == {"t_next", "t_closed"}
LoopPc    == {"wait", "next", "cb", "cb_done"} \cup EventPc \cup TimePc
Pc == {"idle", "rel"} \cup ConnectPc \cup SendPc \cup ClosePc
        \cup StatusPc \cup LoopPc

\* The creator of a connection still has it to itself.
Creating == {"mh_store", "mh_check", "mh_next", "mh_return", "c_connect",
             "c_add"}

State == {"UNINIT", "CLOSED", "CONNECTING", "CONNECTED"}

Goto(t, l) == pc' = [pc EXCEPT ![t] = l]

Home(t)    == IF t \in Apps THEN "idle" ELSE "cb_done"
CanCall(t) == pc[t] = IF t \in Apps THEN "idle" ELSE "cb"

\* The handles the application has got: from connect, unless it failed and
\* deleted the connection, or from a callback.
Known == {h \in Handles :
            \/ told[h] # "none"
            \/ \E c \in Conns : /\ handle[c] = h
                                /\ state[c] # "UNINIT"
                                /\ \A t \in Threads : new[t] # c
                                /\ life[c] = "live" \/ closes[c] > 0}

----------------------------------------------------------------------------
(* Reference counting, and the end of an object: ~Socket closes the        *)
(* descriptor, and the kernel drops a closed descriptor from the epoll set.*)

\* Mutant: getconn hands out the pointer without counting it.
NoAddRef(c) == UNCHANGED ref

AddRef(c) == ref' = [ref EXCEPT ![c] = @ + 1]

\* Mutant: Socket::close forgets the descriptor without ::close.
ForgetFds(S) ==
  /\ fd' = [c \in Conns |-> IF c \in S THEN NoFd ELSE fd[c]]
  /\ UNCHANGED <<net, inq, reg>>

CloseFds(S) ==
  /\ fd'  = [c \in Conns |-> IF c \in S THEN NoFd ELSE fd[c]]
  /\ net' = [c \in Conns |-> IF c \in S THEN "none" ELSE net[c]]
  /\ inq' = [c \in Conns |-> c \notin S /\ inq[c]]
  /\ reg' = [f \in Fds |-> IF \E c \in S : fd[c] = f THEN NoReg ELSE reg[f]]

Destroy(S) ==
  /\ life'    = [c \in Conns |-> IF c \in S THEN "freed" ELSE life[c]]
  /\ idle'    = [c \in Conns |-> IF c \in S THEN 0 ELSE idle[c]]
  /\ pending' = [c \in Conns |-> c \notin S /\ pending[c]]
  /\ CloseFds(S)

\* Mutants: release destroys the object one reference too early, or never.
ReleaseEarly(S) ==
  /\ ref' = [c \in Conns |-> IF c \in S THEN ref[c] - 1 ELSE ref[c]]
  /\ Destroy({c \in S : ref[c] = 2})
ReleaseNever(S) ==
  /\ ref' = [c \in Conns |-> IF c \in S THEN ref[c] - 1 ELSE ref[c]]
  /\ Destroy({})

\* Ref::release on every connection of S.
Release(S) ==
  /\ ref' = [c \in Conns |-> IF c \in S THEN ref[c] - 1 ELSE ref[c]]
  /\ Destroy({c \in S : ref[c] = 1})

\* The plain delete of the error paths of connect.
Delete(c) ==
  /\ ref' = [ref EXCEPT ![c] = 0]
  /\ Destroy({c})

\* The Guard on the connection's mutex, held beyond this step.
NoLock(c, t) == UNCHANGED mtx    \* mutant: the Guard ends before set_event
Lock(c, t)   == mtx' = [mtx EXCEPT ![c] = t]

OpenFds == {fd[c] : c \in Conns} \ {NoFd}

\* socket() takes the lowest number that is free.
FreeFds == {f \in Fds \ OpenFds : FdReuse \/ f \notin spent}
Lowest(S) == CHOOSE n \in S : \A m \in S : n <= m

\* epoll_ctl on descriptor f: a closed or unknown descriptor is an error
\* that no caller looks at.
NoCtlAdd(f, c) == UNCHANGED reg  \* mutant: add_event is not called
NoCtlDel(f)    == UNCHANGED reg  \* mutant: remove_event is not called

CtlAdd(f, c) ==
  reg' = [g \in Fds |-> IF g = f /\ f \in OpenFds /\ reg[f] = NoReg
                        THEN [ptr |-> c, w |-> TRUE] ELSE reg[g]]
CtlMod(f, c, w) ==
  reg' = [g \in Fds |-> IF g = f /\ reg[f] # NoReg
                        THEN [ptr |-> c, w |-> w] ELSE reg[g]]
CtlDel(f) ==
  reg' = [g \in Fds |-> IF g = f THEN NoReg ELSE reg[g]]

Init ==
  /\ pc  = [t \in Threads |-> IF t \in Apps THEN "idle" ELSE "wait"]
  /\ new = [t \in Threads |-> None]
  /\ tmp = [t \in Threads |-> 0]
  /\ arg = [t \in Threads |-> 0]
  /\ ptr = [t \in Threads |-> None]
  /\ tfd = [t \in Threads |-> NoFd]
  /\ ret = [t \in Threads |-> "idle"]
  /\ res = [t \in Threads |-> "none"]
  /\ batch = [l \in Loops |-> {}]
  /\ cur   = [l \in Loops |-> NoEvent]
  /\ tlist = [l \in Loops |-> {}]
  /\ cbret = [l \in Loops |-> "wait"]
  /\ life   = [c \in Conns |-> "none"]
  /\ ref    = [c \in Conns |-> 0]
  /\ state  = [c \in Conns |-> "UNINIT"]
  /\ fd     = [c \in Conns |-> NoFd]
  /\ handle = [c \in Conns |-> 0]
  /\ idle   = [c \in Conns |-> 0]
  /\ pending = [c \in Conns |-> FALSE]
  /\ mtx    = [c \in Conns |-> None]
  /\ conns = [h \in Handles |-> None]
  /\ recycles = {}
  /\ hseq = 0
  /\ net = [c \in Conns |-> "none"]
  /\ inq = [c \in Conns |-> FALSE]
  /\ reg = [f \in Fds |-> NoReg]
  /\ spent = {}
  /\ told   = [h \in Handles |-> "none"]
  /\ closer = [h \in Handles |-> "none"]
  /\ closes = [c \in Conns |-> 0]

----------------------------------------------------------------------------
(* NetWork::connect.  make_handle runs in the constructor of TcpConnection *)
(* on a static counter no lock protects.                                   *)

\* new TcpConnection(this), and the load of h++.  Bound: the counter stops
\* at MaxHandle.
ConnectNew(t, c) ==
  /\ CanCall(t) /\ t \in Connectors
  /\ life[c] = "none" /\ hseq < MaxHandle
  /\ life' = [life EXCEPT ![c] = "live"]
  /\ ref'  = [ref EXCEPT ![c] = 1]
  /\ new'  = [new EXCEPT ![t] = c]
  /\ tmp'  = [tmp EXCEPT ![t] = hseq]
  /\ Goto(t, "mh_store")
  /\ UNCHANGED <<frameVars, tfd, res, loopVars, fieldVars, fd, dataVars,
                 tableVars, netVars, histVars>>

SkipHandle(h)  == h + 2   \* mutant: the constructor calls make_handle twice
FirstHandle(h) == 1       \* mutant: the counter is not static
NextHandle(h)  == h + 1

\* The store of h++.
MakeHandleStore(t) ==
  /\ pc[t] = "mh_store"
  /\ hseq' = NextHandle(tmp[t])
  /\ tmp'  = [tmp EXCEPT ![t] = 0]
  /\ Goto(t, "mh_check")
  /\ UNCHANGED <<new, frameVars, tfd, res, loopVars, connVars, conns,
                 recycles, netVars, histVars>>

\* while (getconn(h) != NULL): a hit holds a reference until MakeHandleNext.
MakeHandleCheck(t) ==
  /\ pc[t] = "mh_check"
  /\ \/ /\ conns[hseq] = None
        /\ Goto(t, "mh_return")
        /\ UNCHANGED <<ptr, ref>>
     \/ /\ conns[hseq] # None
        /\ ptr' = [ptr EXCEPT ![t] = conns[hseq]]
        /\ AddRef(conns[hseq])
        /\ Goto(t, "mh_next")
  /\ UNCHANGED <<makeVars, arg, tfd, ret, res, loopVars, life, fieldVars, fd,
                 dataVars, tableVars, netVars, histVars>>

\* The body of the loop; MaxHandle is far below MAX_INT, so no wrap here.
MakeHandleNext(t) ==
  /\ pc[t] = "mh_next" /\ hseq < MaxHandle
  /\ hseq' = NextHandle(hseq)
  /\ Release({ptr[t]})
  /\ ptr' = [ptr EXCEPT ![t] = None]
  /\ Goto(t, "mh_check")
  /\ UNCHANGED <<makeVars, arg, tfd, ret, res, loopVars, fieldVars, conns,
                 recycles, spent, histVars>>

\* return h reads the counter once more.
MakeHandleReturn(t) ==
  /\ pc[t] = "mh_return"
  /\ handle' = [handle EXCEPT ![new[t]] = hseq]
  /\ Goto(t, "c_connect")
  /\ UNCHANGED <<callVars, loopVars, refVars, state, fd, dataVars, mtx,
                 tableVars, netVars, histVars>>

\* conn->connect: socket() and a non-blocking connect() under way.
ConnectSocket(t) ==
  /\ pc[t] = "c_connect" /\ FreeFds # {}
  /\ LET c == new[t]
         f == Lowest(FreeFds)
     IN  /\ fd'    = [fd EXCEPT ![c] = f]
         /\ spent' = spent \cup {f}
         /\ state' = [state EXCEPT ![c] = "CONNECTING"]
         /\ idle'  = [idle EXCEPT ![c] = 0]
         /\ net'   = [net EXCEPT ![c] = "syn"]
  /\ Goto(t, "c_add")
  /\ UNCHANGED <<callVars, loopVars, refVars, handle, pending, mtx, tableVars,
                 inq, reg, histVars>>

\* conn->connect fails (bad address, no descriptor, no route): delete conn.
ConnectFail(t) ==
  /\ pc[t] = "c_connect"
  /\ Delete(new[t])
  /\ state' = [state EXCEPT ![new[t]] = "CLOSED"]
  /\ new'   = [new EXCEPT ![t] = None]
  /\ Goto(t, Home(t))
  /\ UNCHANGED <<tmp, frameVars, tfd, res, loopVars, handle, mtx, tableVars,
                 spent, histVars>>

AddConn(t) ==
  LET c == new[t]
  IN  /\ pc[t] = "c_add" /\ conns[handle[c]] = None
      /\ conns' = [conns EXCEPT ![handle[c]] = c]
      /\ Goto(t, "c_getfd")
      /\ UNCHANGED <<callVars, loopVars, connVars, recycles, hseq, netVars,
                     histVars>>

\* addconn finds the handle taken: it deletes conn ...
AddConnTaken(t) ==
  /\ pc[t] = "c_add" /\ conns[handle[new[t]]] # None
  /\ Delete(new[t])
  /\ Goto(t, "c_dup")
  /\ UNCHANGED <<callVars, loopVars, fieldVars, tableVars, spent, histVars>>

\* ... and then logs conn->gethandle(); connect returns -1.
AddConnLog(t) ==
  /\ pc[t] = "c_dup"
  /\ new' = [new EXCEPT ![t] = None]
  /\ Goto(t, Home(t))
  /\ UNCHANGED <<tmp, frameVars, tfd, res, loopVars, sharedVars>>

\* _sock_event->add_event(conn, true, true): conn->getfd() ...
AddEventFd(t) ==
  /\ pc[t] = "c_getfd"
  /\ tfd' = [tfd EXCEPT ![t] = fd[new[t]]]
  /\ Goto(t, "c_ctl")
  /\ UNCHANGED <<makeVars, frameVars, res, loopVars, sharedVars>>

\* ... and epoll_ctl(EPOLL_CTL_ADD).
AddEventCtl(t) ==
  /\ pc[t] = "c_ctl"
  /\ CtlAdd(tfd[t], new[t])
  /\ tfd' = [tfd EXCEPT ![t] = NoFd]
  /\ Goto(t, "c_ret")
  /\ UNCHANGED <<makeVars, frameVars, res, loopVars, connVars, tableVars,
                 sockVars, histVars>>

\* handle = conn->gethandle().
ConnectReturn(t) ==
  /\ pc[t] = "c_ret"
  /\ new' = [new EXCEPT ![t] = None]
  /\ Goto(t, Home(t))
  /\ UNCHANGED <<tmp, frameVars, tfd, res, loopVars, sharedVars>>

----------------------------------------------------------------------------
(* NetWork::send, and the end every call with a getconn pointer shares.    *)

\* getconn finds the handle; when it does not, send returns false at once.
SendCall(t, h) ==
  /\ CanCall(t) /\ t \in Senders /\ h \in Known /\ conns[h] # None
  /\ ptr' = [ptr EXCEPT ![t] = conns[h]]
  /\ ret' = [ret EXCEPT ![t] = Home(t)]
  /\ AddRef(conns[h])
  /\ Goto(t, "s_lock")
  /\ UNCHANGED <<makeVars, arg, tfd, res, loopVars, life, fieldVars, fd,
                 dataVars, tableVars, netVars, histVars>>

\* deliver_data, under the connection's mutex: refused unless CONNECTED.
DeliverRefused(t) ==
  /\ pc[t] = "s_lock" /\ mtx[ptr[t]] = None
  /\ state[ptr[t]] # "CONNECTED"
  /\ Goto(t, "rel")
  /\ UNCHANGED <<callVars, loopVars, sharedVars>>

\* deliver_data: writeBytes, and the getfd() of set_event(this, true, true).
DeliverData(t) ==
  /\ pc[t] = "s_lock" /\ mtx[ptr[t]] = None
  /\ state[ptr[t]] = "CONNECTED"
  /\ Lock(ptr[t], t)
  /\ pending' = [pending EXCEPT ![ptr[t]] = TRUE]
  /\ tfd' = [tfd EXCEPT ![t] = fd[ptr[t]]]
  /\ Goto(t, "s_ctl")
  /\ UNCHANGED <<makeVars, frameVars, res, loopVars, refVars, state, fd,
                 handle, idle, tableVars, netVars, histVars>>

\* epoll_ctl(EPOLL_CTL_MOD) and the end of the Guard.
DeliverSetEvent(t) ==
  /\ pc[t] = "s_ctl"
  /\ CtlMod(tfd[t], ptr[t], TRUE)
  /\ tfd' = [tfd EXCEPT ![t] = NoFd]
  /\ mtx' = [mtx EXCEPT ![ptr[t]] = None]
  /\ Goto(t, "rel")
  /\ UNCHANGED <<makeVars, frameVars, res, loopVars, refVars, state, fd,
                 handle, dataVars, tableVars, sockVars, histVars>>

\* Back to the caller; the call's locals are gone.
CallEnd(t) ==
  /\ Goto(t, ret[t])
  /\ arg' = [arg EXCEPT ![t] = 0]
  /\ ret' = [ret EXCEPT ![t] = "idle"]

\* conn->release(), the last statement of send, close and getStatus.
CallRelease(t) ==
  /\ pc[t] = "rel"
  /\ Release({ptr[t]})
  /\ ptr' = [ptr EXCEPT ![t] = None]
  /\ CallEnd(t)
  /\ UNCHANGED <<makeVars, tfd, res, loopVars, fieldVars, tableVars, spent,
                 histVars>>

----------------------------------------------------------------------------
(* NetWork::close, called by the application, by a callback, and by the    *)
(* loop itself on a broken or expired connection.                          *)

\* Mutant: the loop reports the close without closing.
NoClose(t, h, l) == Goto(t, l) /\ UNCHANGED <<arg, ret>>

\* A call of close for handle h, on the way to label l.
BeginClose(t, h, l) ==
  /\ arg' = [arg EXCEPT ![t] = h]
  /\ ret' = [ret EXCEPT ![t] = l]
  /\ Goto(t, "k_get")

CloseCall(t, h) ==
  /\ CanCall(t) /\ t \in Closers /\ h \in Known
  /\ BeginClose(t, h, Home(t))
  /\ UNCHANGED <<makeVars, ptr, tfd, res, loopVars, sharedVars>>

CloseGet(t) ==
  /\ pc[t] = "k_get"
  /\ \/ /\ conns[arg[t]] = None
        /\ CallEnd(t)
        /\ UNCHANGED <<ptr, ref>>
     \/ /\ conns[arg[t]] # None
        /\ ptr' = [ptr EXCEPT ![t] = conns[arg[t]]]
        /\ AddRef(conns[arg[t]])
        /\ Goto(t, "k_fd")
        /\ UNCHANGED <<arg, ret>>
  /\ UNCHANGED <<makeVars, tfd, res, loopVars, life, fieldVars, fd, dataVars,
                 tableVars, netVars, histVars>>

\* remove_event: conn->getfd() ...
CloseFd(t) ==
  /\ pc[t] = "k_fd"
  /\ tfd' = [tfd EXCEPT ![t] = fd[ptr[t]]]
  /\ Goto(t, "k_del")
  /\ UNCHANGED <<makeVars, frameVars, res, loopVars, sharedVars>>

\* ... and epoll_ctl(EPOLL_CTL_DEL).
CloseRemoveEvent(t) ==
  /\ pc[t] = "k_del"
  /\ CtlDel(tfd[t])
  /\ tfd' = [tfd EXCEPT ![t] = NoFd]
  /\ Goto(t, "k_remove")
  /\ UNCHANGED <<makeVars, frameVars, res, loopVars, connVars, tableVars,
                 sockVars, histVars>>

\* removeconn: only the thread that finds the handle goes on to conn->close.
AlwaysClose(removed) == "k_state"   \* mutant: the result is not looked at
AfterRemove(removed) == IF removed THEN "k_state" ELSE "rel"

CloseRemoveConn(t) ==
  /\ pc[t] = "k_remove"
  /\ Goto(t, AfterRemove(conns[arg[t]] # None))
  /\ \/ /\ conns[arg[t]] = None
        /\ UNCHANGED <<conns, recycles, closer>>
     \/ /\ conns[arg[t]] # None
        /\ recycles' = recycles \cup {conns[arg[t]]}
        /\ conns'    = [conns EXCEPT ![arg[t]] = None]
        /\ closer'   = [closer EXCEPT ![arg[t]] =
                          IF ret[t] = Home(t) THEN "app" ELSE "loop"]
  /\ UNCHANGED <<callVars, loopVars, connVars, hseq, netVars, told, closes>>

\* conn->close, without the connection's mutex: first the state ...
ConnCloseState(t) ==
  /\ pc[t] = "k_state"
  /\ state'  = [state EXCEPT ![ptr[t]] = "CLOSED"]
  /\ closes' = [closes EXCEPT ![ptr[t]] = @ + 1]
  /\ Goto(t, "k_sock")
  /\ UNCHANGED <<callVars, loopVars, refVars, fd, handle, dataVars, mtx,
                 tableVars, netVars, told, closer>>

\* ... then the socket.
ConnCloseSocket(t) ==
  /\ pc[t] = "k_sock"
  /\ CloseFds({ptr[t]})
  /\ Goto(t, "rel")
  /\ UNCHANGED <<callVars, loopVars, refVars, fieldVars, dataVars, tableVars,
                 spent, histVars>>

----------------------------------------------------------------------------
(* NetWork::getStatus.                                                     *)

StatusCall(t, h) ==
  /\ CanCall(t) /\ t \in Askers /\ h \in Known
  /\ \/ /\ conns[h] = None
        /\ res' = [res EXCEPT ![t] = "INVALID_HANDLE"]
        /\ Goto(t, "g_ret")
        /\ UNCHANGED <<ptr, ret, ref>>
     \/ /\ conns[h] # None
        /\ ptr' = [ptr EXCEPT ![t] = conns[h]]
        /\ ret' = [ret EXCEPT ![t] = "g_ret"]
        /\ AddRef(conns[h])
        /\ Goto(t, "g_read")
        /\ UNCHANGED res
  /\ UNCHANGED <<makeVars, arg, tfd, loopVars, life, fieldVars, fd, dataVars,
                 tableVars, netVars, histVars>>

StatusRead(t) ==
  /\ pc[t] = "g_read"
  /\ res' = [res EXCEPT ![t] = state[ptr[t]]]
  /\ Goto(t, "rel")
  /\ UNCHANGED <<makeVars, frameVars, tfd, loopVars, sharedVars>>

StatusReturn(t) ==
  /\ pc[t] = "g_ret"
  /\ res' = [res EXCEPT ![t] = "none"]
  /\ Goto(t, Home(t))
  /\ UNCHANGED <<makeVars, frameVars, tfd, loopVars, sharedVars>>

----------------------------------------------------------------------------
(* event_loop.                                                             *)

Owner(f) == CHOOSE c \in Conns : fd[c] = f

\* What epoll_wait has to say about a registered descriptor.
Readable(c) == inq[c] \/ net[c] \in {"down", "refused"}
Writable(c) == net[c] \in {"up", "down", "refused"}
Ready(f) ==
  LET c == Owner(f)
  IN  [conn |-> reg[f].ptr, r |-> Readable(c), w |-> reg[f].w /\ Writable(c)]

GetEvents(l) ==
  /\ pc[l] = "wait"
  /\ batch' = [batch EXCEPT ![l] =
                 {e \in {Ready(f) : f \in {g \in Fds : reg[g] # NoReg}} :
                    e.r \/ e.w}]
  /\ Goto(l, "next")
  /\ UNCHANGED <<callVars, cur, tlist, cbret, sharedVars>>

\* conn->add_ref() on the pointer epoll_wait handed out.
NextEvent(l, e) ==
  /\ pc[l] = "next" /\ e \in batch[l]
  /\ batch' = [batch EXCEPT ![l] = @ \ {e}]
  /\ cur'   = [cur EXCEPT ![l] = e]
  /\ AddRef(e.conn)
  /\ Goto(l, "r_event")
  /\ UNCHANGED <<callVars, tlist, cbret, life, fieldVars, fd, dataVars,
                 tableVars, netVars, histVars>>

\* The handler on the current connection calls the application back.
Callback(l, h, what, back) ==
  /\ told'  = [told EXCEPT ![h] = what]
  /\ cbret' = [cbret EXCEPT ![l] = back]
  /\ Goto(l, "cb")

\* No read event, or on_read_event returns at once.
ReadSkip(l) ==
  LET e == cur[l]
  IN  /\ pc[l] = "r_event"
      /\ ~e.r \/ state[e.conn] # "CONNECTED"
      /\ Goto(l, "w_event")
      /\ UNCHANGED <<callVars, loopVars, sharedVars>>

\* CONNECTED: read_data is called.
ReadBegin(l) ==
  LET c == cur[l].conn
  IN  /\ pc[l] = "r_event" /\ cur[l].r /\ state[c] = "CONNECTED"
      /\ idle' = [idle EXCEPT ![c] = 0]
      /\ Goto(l, "r_read")
      /\ UNCHANGED <<callVars, loopVars, refVars, fieldVars, fd, pending,
                     tableVars, netVars, histVars>>

\* It reads bytes.
ReadData(l) ==
  LET c == cur[l].conn
  IN  /\ pc[l] = "r_read" /\ fd[c] # NoFd /\ inq[c]
      /\ inq' = [inq EXCEPT ![c] = FALSE]
      /\ Goto(l, "r_more")
      /\ UNCHANGED <<callVars, loopVars, connVars, tableVars, net, reg, spent,
                     histVars>>

\* It finds end of file, an error, nothing to read (get_soerror is not the
\* errno of a read that would block), or the socket closed under it: the
\* connection is broken.
ReadBroken(l) ==
  LET c == cur[l].conn
  IN  /\ pc[l] = "r_read" /\ (fd[c] = NoFd \/ ~inq[c])
      /\ BeginClose(l, handle[c], "r_closed")
      /\ UNCHANGED <<makeVars, ptr, tfd, res, loopVars, sharedVars>>

\* They complete another PDU, which goes to onRead; or the buffer was filled
\* and it reads again.
ReadMore(l) ==
  /\ pc[l] = "r_more"
  /\ \/ /\ cbret' = [cbret EXCEPT ![l] = "r_more"]
        /\ Goto(l, "cb")
     \/ /\ Goto(l, "r_read")
        /\ UNCHANGED cbret
  /\ UNCHANGED <<callVars, roundVars, sharedVars>>

\* It is done, or what it read does not parse and the connection is broken.
ReadDone(l) ==
  /\ pc[l] = "r_more"
  /\ \/ /\ Goto(l, "w_event")
        /\ UNCHANGED <<arg, ret>>
     \/ BeginClose(l, handle[cur[l].conn], "r_closed")
  /\ UNCHANGED <<makeVars, ptr, tfd, res, loopVars, sharedVars>>

\* _network->onClose after the close of on_read_event.
ReadClosed(l) ==
  /\ pc[l] = "r_closed"
  /\ Callback(l, handle[cur[l].conn], "closed", "w_event")
  /\ UNCHANGED <<callVars, roundVars, connVars, tableVars, netVars, closeVars>>

\* No write event, or on_write_event in a state where there is nothing to
\* do ("can't arrive here").
WriteSkip(l) ==
  LET e == cur[l]
  IN  /\ pc[l] = "w_event"
      /\ ~e.w \/ state[e.conn] \notin {"CONNECTING", "CONNECTED"}
      /\ Goto(l, "unref")
      /\ UNCHANGED <<callVars, loopVars, sharedVars>>

\* CONNECTING: the outcome of the connect is asked for ...
WriteOutcome(l) ==
  /\ pc[l] = "w_event" /\ cur[l].w /\ state[cur[l].conn] = "CONNECTING"
  /\ Goto(l, "w_error")
  /\ UNCHANGED <<callVars, loopVars, sharedVars>>

\* ... and get_soerror() is 0.
WriteConnected(l) ==
  LET c == cur[l].conn
  IN  /\ pc[l] = "w_error" /\ fd[c] # NoFd /\ net[c] # "refused"
      /\ Goto(l, "w_connect")
      /\ UNCHANGED <<callVars, loopVars, sharedVars>>

\* on_connect: the state is set whatever happened since it was tested.
OnConnect(l) ==
  LET c == cur[l].conn
  IN  /\ pc[l] = "w_connect"
      /\ state' = [state EXCEPT ![c] = "CONNECTED"]
      /\ Callback(l, handle[c], "connected", "unref")
      /\ UNCHANGED <<callVars, roundVars, refVars, fd, handle, dataVars, mtx,
                     tableVars, netVars, closeVars>>

\* ... or it is not, or the socket has been closed by another thread.
WriteFailed(l) ==
  LET c == cur[l].conn
  IN  /\ pc[l] = "w_error" /\ (fd[c] = NoFd \/ net[c] \in {"down", "refused"})
      /\ BeginClose(l, handle[c], "w_closed")
      /\ UNCHANGED <<makeVars, ptr, tfd, res, loopVars, sharedVars>>

WriteClosed(l) ==
  /\ pc[l] = "w_closed"
  /\ Callback(l, handle[cur[l].conn], "closed", "unref")
  /\ UNCHANGED <<callVars, roundVars, connVars, tableVars, netVars, closeVars>>

\* CONNECTED: write_data is called, and waits for the connection's mutex.
WriteBegin(l) ==
  /\ pc[l] = "w_event" /\ cur[l].w /\ state[cur[l].conn] = "CONNECTED"
  /\ Goto(l, "w_lock")
  /\ UNCHANGED <<callVars, loopVars, sharedVars>>

\* write_data leaves output behind: the write interest stays armed.
WriteSome(l) ==
  LET c == cur[l].conn
  IN  /\ pc[l] = "w_lock" /\ mtx[c] = None
      /\ pending[c]
      /\ \/ idle' = [idle EXCEPT ![c] = 0] /\ fd[c] # NoFd
         \/ UNCHANGED idle
      /\ Goto(l, "unref")
      /\ UNCHANGED <<callVars, loopVars, refVars, fieldVars, fd, pending,
                     tableVars, netVars, histVars>>

\* write_data has nothing left: the getfd() of set_event(this, true, false).
WriteAll(l) ==
  LET c == cur[l].conn
  IN  /\ pc[l] = "w_lock" /\ mtx[c] = None
      /\ pending[c] => fd[c] # NoFd
      /\ pending' = [pending EXCEPT ![c] = FALSE]
      /\ idle' = [idle EXCEPT ![c] = IF pending[c] THEN 0 ELSE @]
      /\ Lock(c, l)
      /\ tfd'  = [tfd EXCEPT ![l] = fd[c]]
      /\ Goto(l, "w_ctl")
      /\ UNCHANGED <<makeVars, frameVars, res, loopVars, refVars, state, fd,
                     handle, tableVars, netVars, histVars>>

\* epoll_ctl(EPOLL_CTL_MOD) and the end of the Guard.
WriteSetEvent(l) ==
  /\ pc[l] = "w_ctl"
  /\ CtlMod(tfd[l], cur[l].conn, FALSE)
  /\ tfd' = [tfd EXCEPT ![l] = NoFd]
  /\ mtx' = [mtx EXCEPT ![cur[l].conn] = None]
  /\ Goto(l, "unref")
  /\ UNCHANGED <<makeVars, frameVars, res, loopVars, refVars, state, fd,
                 handle, dataVars, tableVars, sockVars, histVars>>

ReleaseEvent(l) ==
  /\ pc[l] = "unref"
  /\ Release({cur[l].conn})
  /\ cur' = [cur EXCEPT ![l] = NoEvent]
  /\ Goto(l, "next")
  /\ UNCHANGED <<callVars, batch, tlist, cbret, fieldVars, tableVars, spent,
                 histVars>>

----------------------------------------------------------------------------
(* time_process, after the events of a round.                              *)

\* Less than a second since the last time.
TimeSkip(l) ==
  /\ pc[l] = "next" /\ batch[l] = {}
  /\ Goto(l, "wait")
  /\ UNCHANGED <<callVars, loopVars, sharedVars>>

\* Mutant: only established connections are looked at.
ExpiredConnected(c) == state[c] = "CONNECTED" /\ idle[c] = 2

Expired(c) == \/ state[c] = "CONNECTING" /\ idle[c] >= 1
              \/ state[c] = "CONNECTED" /\ idle[c] = 2

\* check_timeout, under the lock of the table: it closes nothing itself.
CheckTimeout(l) ==
  /\ pc[l] = "next" /\ batch[l] = {}
  /\ tlist' = [tlist EXCEPT ![l] =
                 {h \in Handles : conns[h] # None /\ Expired(conns[h])}]
  /\ Goto(l, "t_next")
  /\ UNCHANGED <<callVars, batch, cur, cbret, sharedVars>>

\* this->close(it->first), in the order of the map.
TimeoutClose(l) ==
  /\ pc[l] = "t_next" /\ tlist[l] # {}
  /\ BeginClose(l, Lowest(tlist[l]), "t_closed")
  /\ UNCHANGED <<makeVars, ptr, tfd, res, loopVars, sharedVars>>

\* onClose(it->first, it->second), and the next iteration.
TimeoutClosed(l) ==
  LET h == Lowest(tlist[l])
  IN  /\ pc[l] = "t_closed"
      /\ tlist' = [tlist EXCEPT ![l] = @ \ {h}]
      /\ Callback(l, h, "closed", "t_next")
      /\ UNCHANGED <<callVars, batch, cur, connVars, tableVars, netVars,
                     closeVars>>

\* OnlineUser::clear: the removed connections lose the table's reference.
Clear(l) ==
  /\ pc[l] = "t_next" /\ tlist[l] = {}
  /\ Release(recycles)
  /\ recycles' = {}
  /\ Goto(l, "wait")
  /\ UNCHANGED <<callVars, loopVars, fieldVars, conns, hseq, spent, histVars>>

\* The application's callback returns, after at most one call of its own
\* (a bound).
CallbackReturn(l) ==
  /\ pc[l] \in {"cb", "cb_done"}
  /\ Goto(l, cbret[l])
  /\ cbret' = [cbret EXCEPT ![l] = "wait"]
  /\ UNCHANGED <<callVars, roundVars, sharedVars>>

----------------------------------------------------------------------------
(* The peer, the network and the clock.                                    *)

NetStep(c) ==
  /\ fd[c] # NoFd
  /\ \/ /\ net[c] = "syn"
        /\ \E n \in {"up", "refused"} : net' = [net EXCEPT ![c] = n]
        /\ UNCHANGED inq
     \/ /\ net[c] = "up"
        /\ net' = [net EXCEPT ![c] = "down"]  \* end of file, or a reset
        /\ UNCHANGED inq
     \/ /\ net[c] = "up" /\ ~inq[c]
        /\ inq' = [inq EXCEPT ![c] = TRUE]
        /\ UNCHANGED net
  /\ UNCHANGED <<pc, callVars, loopVars, connVars, tableVars, reg, spent,
                 histVars>>

\* Nothing is heard of an online connection for as long as its state allows.
Tick(c) ==
  /\ \E h \in Handles : conns[h] = c
  /\ ~Expired(c)
  /\ idle' = [idle EXCEPT ![c] = IF state[c] = "CONNECTING" THEN 1 ELSE 2]
  /\ UNCHANGED <<pc, callVars, loopVars, refVars, fieldVars, fd, pending,
                 tableVars, netVars, histVars>>

----------------------------------------------------------------------------

ApiCall(t) ==
  \/ \E c \in Conns : ConnectNew(t, c)
  \/ \E h \in Handles : SendCall(t, h) \/ CloseCall(t, h) \/ StatusCall(t, h)

ConnectStep(t) ==
  \/ MakeHandleStore(t) \/ MakeHandleCheck(t) \/ MakeHandleNext(t)
  \/ MakeHandleReturn(t) \/ ConnectSocket(t) \/ ConnectFail(t)
  \/ AddConn(t) \/ AddConnTaken(t) \/ AddConnLog(t)
  \/ AddEventFd(t) \/ AddEventCtl(t) \/ ConnectReturn(t)
SendStep(t) == DeliverRefused(t) \/ DeliverData(t) \/ DeliverSetEvent(t)
CloseStep(t) ==
  \/ CloseGet(t) \/ CloseFd(t) \/ CloseRemoveEvent(t) \/ CloseRemoveConn(t)
  \/ ConnCloseState(t) \/ ConnCloseSocket(t)
StatusStep(t) == StatusRead(t) \/ StatusReturn(t)

CallStep(t) ==
  ConnectStep(t) \/ SendStep(t) \/ CloseStep(t) \/ StatusStep(t) \/ CallRelease(t)

RoundStep(l) ==
  \/ GetEvents(l) \/ \E e \in batch[l] : NextEvent(l, e)
  \/ ReleaseEvent(l) \/ CallbackReturn(l)
ReadStep(l) ==
  \/ ReadSkip(l) \/ ReadBegin(l) \/ ReadData(l) \/ ReadBroken(l)
  \/ ReadMore(l) \/ ReadDone(l) \/ ReadClosed(l)
WriteStep(l) ==
  \/ WriteSkip(l) \/ WriteOutcome(l) \/ WriteConnected(l) \/ OnConnect(l)
  \/ WriteFailed(l) \/ WriteClosed(l)
  \/ WriteBegin(l) \/ WriteSome(l) \/ WriteAll(l) \/ WriteSetEvent(l)
TimeStep(l) ==
  \/ TimeSkip(l) \/ CheckTimeout(l) \/ TimeoutClose(l) \/ TimeoutClosed(l)
  \/ Clear(l)

LoopStep(l) == RoundStep(l) \/ ReadStep(l) \/ WriteStep(l) \/ TimeStep(l)

Next ==
  \/ \E t \in Threads : ApiCall(t) \/ CallStep(t)
  \/ \E l \in Loops : LoopStep(l)
  \/ \E c \in Conns : NetStep(c) \/ Tick(c)

Spec == Init /\ [][Next]_vars

----------------------------------------------------------------------------
(* Safety.                                                                 *)

\* Every variable has its type: network.h, tcpconnection.h, socket.h.
TypeOK ==
  /\ pc  \in [Threads -> Pc]
  /\ new \in [Threads -> Conns \cup {None}]
  /\ tmp \in [Threads -> 0 .. MaxHandle]
  /\ arg \in [Threads -> 0 .. MaxHandle]
  /\ ptr \in [Threads -> Conns \cup {None}]
  /\ tfd \in [Threads -> Fds \cup {NoFd}]
  /\ ret \in [Threads -> {"idle", "cb_done", "g_ret", "r_closed", "w_closed",
                          "t_closed"}]
  /\ res \in [Threads -> {"none", "INVALID_HANDLE"} \cup State]
  /\ batch \in [Loops -> SUBSET Event]
  /\ cur   \in [Loops -> Event \cup {NoEvent}]
  /\ tlist \in [Loops -> SUBSET Handles]
  /\ cbret \in [Loops -> {"wait", "r_more", "w_event", "unref", "t_next"}]
  /\ life   \in [Conns -> {"none", "live", "freed"}]
  /\ ref    \in [Conns -> Int]
  /\ state  \in [Conns -> State]
  /\ fd     \in [Conns -> Fds \cup {NoFd}]
  /\ handle \in [Conns -> 0 .. MaxHandle]
  /\ idle   \in [Conns -> 0 .. 2]
  /\ pending \in [Conns -> BOOLEAN]
  /\ mtx    \in [Conns -> Threads \cup {None}]
  /\ conns  \in [Handles -> Conns \cup {None}]
  /\ recycles \subseteq Conns
  /\ hseq \in 0 .. MaxHandle
  /\ net \in [Conns -> {"none", "syn", "up", "down", "refused"}]
  /\ inq \in [Conns -> BOOLEAN]
  /\ reg \in [Fds -> Reg \cup {NoReg}]
  /\ spent \subseteq Fds
  /\ told   \in [Handles -> {"none", "connected", "closed"}]
  /\ closer \in [Handles -> {"none", "app", "loop"}]
  /\ closes \in [Conns -> Nat]

=============================================================================
