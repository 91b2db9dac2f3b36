----------------------------- MODULE NetService -----------------------------
(***************************************************************************)
(* What the SDK promises the application about one handle (interface.h,    *)
(* class IService, and the calls of NetWork): a handle goes online once    *)
(* and offline once; onConnect comes at most once, onClose comes at most   *)
(* once, after the handle went offline, and is the last that is heard of   *)
(* it.  Threads, epoll, sockets and reference counts are out of sight.     *)
(***************************************************************************)
CONSTANT Handles

VARIABLES
  table,  \* of each handle: "unused", "online", "offline"
  told    \* the last connection callback: "none", "connected", "closed"

Init == /\ table = [h \in Handles |-> "unused"]
        /\ told  = [h \in Handles |-> "none"]

\* NetWork::connect enters the handle in the table.
GoOnline(h) ==
  /\ table[h] = "unused"
  /\ table' = [table EXCEPT ![h] = "online"]
  /\ UNCHANGED told

\* NetWork::close takes it out, on behalf of the application or of the loop.
GoOffline(h) ==
  /\ table[h] = "online"
  /\ table' = [table EXCEPT ![h] = "offline"]
  /\ UNCHANGED told

\* The callback may be late: the application may have closed the handle.
OnConnect(h) ==
  /\ table[h] # "unused" /\ told[h] = "none"
  /\ told' = [told EXCEPT ![h] = "connected"]
  /\ UNCHANGED table

OnClose(h) ==
  /\ table[h] = "offline" /\ told[h] # "closed"
  /\ told' = [told EXCEPT ![h] = "closed"]
  /\ UNCHANGED table

Next == \E h \in Handles : GoOnline(h) \/ GoOffline(h) \/ OnConnect(h) \/ OnClose(h)

Spec == Init /\ [][Next]_<<table, told>>

=============================================================================
