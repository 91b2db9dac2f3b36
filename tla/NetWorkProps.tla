---------------------------- MODULE NetWorkProps ----------------------------
(***************************************************************************)
(* What class NetWork and its connections must satisfy: safety, the        *)
(* service of NetService that they implement, and liveness.                *)
(***************************************************************************)
EXTENDS NetWork

\* A connection's references, by who holds them: its creator until addconn
\* and the table after it, each pointer a call got from getconn, and the
\* event being handled.
Owned(c) == \/ \E h \in Handles : conns[h] = c
            \/ c \in recycles
            \/ \E t \in Threads : new[t] = c /\ pc[t] \in Creating
Holders(c) ==
  {<<"table", None>> : x \in {y \in {c} : Owned(c)}}
    \cup {<<"call", t>>  : t \in {u \in Threads : ptr[u] = c}}
    \cup {<<"event", l>> : l \in {m \in Loops : cur[m].conn = c}}

\* The count of a live connection is the number of its holders: add_ref and
\* release pair up over every path of every thread.
RefCounted ==
  \A c \in Conns :
    /\ life[c] = "live"  => ref[c] = Cardinality(Holders(c)) /\ ref[c] > 0
    /\ life[c] = "freed" => Holders(c) = {}

\* The pointers epoll_wait handed to event_loop are alive until add_ref:
\* the table's reference outlives the batch, because only the loop clears.
BatchAlive ==
  \A l \in Loops : \A e \in batch[l] : life[e.conn] = "live"

\* TcpConnection::close runs at most once on a connection, however many
\* threads close its handle.
CloseOnce == \A c \in Conns : closes[c] <= 1

\* The epoll set names, for each descriptor, the connection that owns it.
RegistrationMatches ==
  \A f \in Fds : reg[f].ptr # None => fd[reg[f].ptr] = f

\* No lost wake-up: output waiting on an online connection has its write
\* interest armed, unless deliver_data or write_data is about to set it or
\* a close has begun.
Closing(c) == \E t \in Threads : pc[t] \in {"k_del", "k_remove"} /\ ptr[t] = c
OutputArmed ==
  \A c \in Conns :
    /\ pending[c] /\ mtx[c] = None
    /\ \E h \in Handles : conns[h] = c
    /\ ~Closing(c)
    => fd[c] # NoFd /\ reg[fd[c]].w

\* An online connection whose connect has returned is watched by epoll,
\* unless a close of it has begun.
Watched ==
  \A c \in Conns :
    /\ \E h \in Handles : conns[h] = c
    /\ \A t \in Threads : new[t] # c
    /\ ~Closing(c)
    => fd[c] # NoFd /\ reg[fd[c]].ptr = c

\* connect holds no reference of its own once addconn has published the
\* connection; it still needs the object to return its handle (network.h:
\* "returns a handle for network operations").
ConnectLive ==
  \A t \in Threads :
    pc[t] \in {"c_getfd", "c_ctl", "c_ret"} => life[new[t]] = "live"

\* A handle identifies one connection: it enters the table once
\* (doc/network-sdk-cpp.md: "the unique identification of the connection").
HandleUsedOnce ==
  [][\A h \in Handles :
       conns[h] = None /\ conns'[h] # None => closer[h] = "none"]_vars

\* The service the application sees, whatever the threads do.
Table == [h \in Handles |-> IF conns[h] # None THEN "online"
                            ELSE IF closer[h] # "none" THEN "offline"
                            ELSE "unused"]
Service == INSTANCE NetService WITH table <- Table
Implements == Service!Spec

----------------------------------------------------------------------------
(* Liveness.  A thread inside the SDK goes on; the loop waits in           *)
(* epoll_wait for at most a second, so time_process runs its checks again  *)
(* and again; a mutex that is free again and again is got; time passes.    *)

Fairness ==
  /\ \A t \in Threads : WF_vars(CallStep(t))
                        /\ SF_vars(DeliverRefused(t) \/ DeliverData(t))
  /\ \A l \in Loops : /\ WF_vars(LoopStep(l))
                      /\ SF_vars(ReadDone(l))
                      /\ SF_vars(WriteSome(l) \/ WriteAll(l))
                      /\ SF_vars(CheckTimeout(l))
  /\ \A c \in Conns : WF_vars(Tick(c))

LiveSpec == Spec /\ Fairness

\* A connection that was closed is deleted in the end: no path forgets a
\* reference.
ClosedReclaimed == \A c \in Conns : closes[c] > 0 ~> life[c] = "freed"

\* The outcome of connect is reported by onConnect or onClose, unless the
\* application closes the handle first (doc/network-sdk-cpp.md, 3.2).
ConnectReported ==
  \A h \in Handles :
    conns[h] # None ~> told[h] # "none" \/ closer[h] = "app"

\* A connection the peer has dropped loses its socket.
DroppedReleased == \A c \in Conns : net[c] = "down" ~> fd[c] = NoFd

=============================================================================
