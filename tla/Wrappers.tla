------------------------------ MODULE Wrappers ------------------------------
(***************************************************************************)
(* The two wrappers of a NetWork: on iOS a connection manager with a       *)
(* dictionary of its connections (here one, which connects again and       *)
(* again), on Android native methods of a Java class.  Their calls and     *)
(* callbacks run against what NetWork does for a handle (NetService), and  *)
(* against the life of its threads (Threads).  An operation of the         *)
(* dictionary is one step; the application makes one call at a time.       *)
(***************************************************************************)
EXTENDS Threads

CONSTANTS
  Handles,   \* the handles NetWork can give
  None,      \* connectionID -1
  MaxCalls,  \* bound: calls to connect and close
  MaxDrops   \* bound: callbacks that do not reach Java

ASSUME WrappersAssumption ==
  None \notin Handles /\ {MaxCalls, MaxDrops} \subseteq Nat

VARIABLES
  platform,     \* "ios" or "android"
  table, told,  \* NetWork: the handles, see NetService
  id,           \* connection.connectionID; Java: the handle it was given last
  dict,         \* iOS: the keys of self.connections
  job,          \* what a loop does in a callback: [step, kind, h]
  call,         \* the call in progress: [by, op, step, h]
  calls,        \* calls so far
  drops,        \* callbacks that did not reach Java, so far
  closing,      \* history: handles the application closed
  heard,        \* history: the onClose the application heard of each handle
  dropped,      \* history: handles whose onClose went nowhere
  lost          \* history: callbacks that found no connection, and why

service   == <<table, told>>
bookVars  == <<id, dict>>
historyVars == <<closing, heard, dropped, lost>>
wrapVars  == <<platform, service, bookVars, job, call, calls, drops, historyVars>>
vars      == <<threadVars, wrapVars>>

NetWork == INSTANCE NetService

NoJob  == [step |-> "none", kind |-> "none", h |-> None]
NoCall == [by |-> "none", op |-> "none", step |-> "none", h |-> None]

Init ==
  /\ ThreadsInit
  /\ platform \in {"ios", "android"}
  /\ NetWork!Init
  /\ id = None /\ dict = {}
  /\ job = [t \in Threads |-> NoJob] /\ call = NoCall
  /\ calls = 0 /\ drops = 0
  /\ closing = {} /\ heard = [h \in Handles |-> 0] /\ dropped = {} /\ lost = {}

----------------------------------------------------------------------------
(* The calls, by the application's thread or in a callback.                *)

\* Callers: the application, or a loop whose callback is in the application.
Caller(by) == \/ by = App /\ destroyer = "none"
              \/ by \in Threads /\ job[by].step = "app" /\ destroyer # by

\* connect of a connection that has a handle closes that first.
BeginConnect(by) ==
  call' = [by |-> by, op |-> "connect", h |-> id,
           step |-> IF platform = "ios" /\ id # None THEN "close" ELSE "connect"]

\* iOS closes its connection, Java any handle it was given, again if it likes.
BeginClose(by) ==
  \E h \in Handles :
    /\ IF platform = "ios" THEN h = id ELSE table[h] # "unused"
    /\ call' = [by |-> by, op |-> "close", step |-> "close", h |-> h]

BeginCall ==
  /\ call = NoCall /\ calls < MaxCalls /\ starting = 0 /\ lst # <<>>
  /\ \E by \in Threads \cup {App} : Caller(by) /\ (BeginConnect(by) \/ BeginClose(by))
  /\ calls' = calls + 1
  /\ closing' = IF call'.step = "close" THEN closing \cup {call'.h} ELSE closing
  /\ UNCHANGED <<threadVars, platform, service, bookVars, job, drops, heard, dropped,
                 lost>>

\* _service->close.
CallClose ==
  /\ call.step = "close"
  /\ IF table[call.h] = "online" THEN NetWork!GoOffline(call.h) ELSE UNCHANGED service
  /\ call' = [call EXCEPT !.step = "closed"]
  /\ UNCHANGED <<threadVars, platform, bookVars, job, calls, drops, historyVars>>

\* The end of close: the dictionary; and of the close within connect.
CloseDone ==
  /\ call.step = "closed" /\ platform = "ios"
  /\ dict' = dict \ {call.h}
  /\ \/ /\ call.op = "connect"
        /\ id' = None /\ call' = [call EXCEPT !.step = "connect"]
     \/ /\ call.op = "close"
        /\ call' = NoCall /\ UNCHANGED id
  /\ UNCHANGED <<threadVars, platform, service, job, calls, drops, historyVars>>

Silent    == heard  \* mutant: close leaves the notice to NetWork
CloseTold == [heard EXCEPT ![call.h] = @ + 1]

\* Java_com_mogujie_io_Network_close ends with onClose, if the method is found.
JavaClosed ==
  /\ call.step = "closed" /\ platform = "android"
  /\ \/ heard' = CloseTold /\ UNCHANGED <<dropped, drops>>
     \/ /\ drops < MaxDrops /\ drops' = drops + 1
        /\ dropped' = dropped \cup {call.h} /\ UNCHANGED heard
  /\ call' = NoCall
  /\ UNCHANGED <<threadVars, platform, service, bookVars, job, calls, closing, lost>>

Unchecked == [call EXCEPT !.step = "store", !.h = None]  \* mutant: -1 is stored
Refused   == NoCall

\* _service->connect: the handle is online before it is known here.
CallConnect ==
  /\ call.step = "connect"
  /\ \/ call' = Refused /\ UNCHANGED service
     \/ \E h \in Handles :
          /\ NetWork!GoOnline(h)
          /\ call' = [call EXCEPT !.step = "store", !.h = h]
  /\ UNCHANGED <<threadVars, platform, bookVars, job, calls, drops, historyVars>>

Store ==
  /\ call.step = "store"
  /\ id' = call.h
  /\ dict' = IF platform = "ios" THEN dict \cup {call.h} ELSE dict
  /\ call' = NoCall
  /\ UNCHANGED <<threadVars, platform, service, job, calls, drops, historyVars>>

CallStep == CallClose \/ CloseDone \/ JavaClosed \/ CallConnect \/ Store

----------------------------------------------------------------------------
(* The callbacks, in a loop.                                               *)

JobStep(t, step) == job' = [job EXCEPT ![t].step = step]

\* The loop has something to tell of a handle, or finds that it must close it;
\* it does so for one handle at a time, and not while another loop does.
Dispatch(t) ==
  /\ pc[t] = "events" /\ Goto(t, "callback")
  /\ \E h \in Handles :
       /\ table[h] = "online"
       /\ \A u \in Threads : job[u].h # h
       /\ \E kind \in {"connect", "read", "close"} :
            /\ kind = "connect" => told[h] = "none"
            /\ kind = "read" => told[h] = "connected"
            /\ job' = [job EXCEPT ![t] = [step |-> IF kind = "close" THEN "close" ELSE "tell",
                                          kind |-> kind, h |-> h]]
  /\ UNCHANGED <<object, pthread, managerVars, destroyVars, platform, service,
                 bookVars, call, calls, drops, historyVars>>

\* NetWork::close by the loop; the application may have been first.
LoopClose(t) ==
  /\ job[t].step = "close" /\ JobStep(t, "tell")
  /\ IF table[job[t].h] = "online" THEN NetWork!GoOffline(job[t].h)
                                   ELSE UNCHANGED service
  /\ UNCHANGED <<threadVars, platform, bookVars, call, calls, drops, historyVars>>

Notify(kind, h) == CASE kind = "connect" -> NetWork!OnConnect(h)
                     [] kind = "close" -> NetWork!OnClose(h)
                     [] kind = "read" -> UNCHANGED service

\* Why a connection is not in the dictionary.
Missing(h) == CASE call.step = "store" /\ call.h = h -> "connecting"
                [] h \in closing -> "closed"
                [] OTHER -> "unknown"

Hear(kind, h) == heard' = IF kind = "close" THEN [heard EXCEPT ![h] = @ + 1] ELSE heard
Drop(kind, h) == dropped' = IF kind = "close" THEN dropped \cup {h} ELSE dropped

\* onConnect, onRead or onClose of the wrapper: it reaches the application;
\* there is no connection (iOS), or no way into Java (Android); or ~NetWork has
\* begun, and the virtual call is that of NetWork, which does nothing.
Tell(t) ==
  /\ job[t].step = "tell"
  /\ LET kind == job[t].kind
         h    == job[t].h
     IN  /\ Notify(kind, h)
         /\ \/ /\ destroyer = "none"
               /\ platform = "ios" => h \in dict
               /\ Hear(kind, h) /\ JobStep(t, "app")
               /\ UNCHANGED <<drops, dropped, lost>>
            \/ /\ destroyer = "none" /\ platform = "ios" /\ h \notin dict
               /\ lost' = lost \cup {<<kind, h, Missing(h)>>}
               /\ JobStep(t, "after")
               /\ UNCHANGED <<drops, heard, dropped>>
            \/ /\ destroyer = "none" /\ platform = "android" /\ drops < MaxDrops
               /\ drops' = drops + 1 /\ Drop(kind, h) /\ JobStep(t, "after")
               /\ UNCHANGED <<heard, lost>>
            \/ /\ destroyer # "none" /\ Drop(kind, h) /\ JobStep(t, "after")
               /\ UNCHANGED <<drops, heard, lost>>
  /\ UNCHANGED <<threadVars, platform, bookVars, call, calls, closing>>

RemoveCurrent(t) == dict \ {id}  \* mutant: what the connection is called now
RemoveAny(t)     == dict \ {job[t].h}  \* mutant: onConnect removes it as well
RemoveClosed(t)  == IF job[t].kind = "close" THEN dict \ {job[t].h} ELSE dict

\* The application returns; onClose removes the connection; the loop goes on.
Return(t) ==
  /\ pc[t] = "callback" /\ destroyer # t
  /\ \/ job[t].step = "app" /\ call.by # t
     \/ job[t].step = "after"
  /\ dict' = RemoveClosed(t)
  /\ job' = [job EXCEPT ![t] = NoJob]
  /\ Goto(t, "top")
  /\ UNCHANGED <<object, pthread, managerVars, destroyVars, platform, service, id,
                 call, calls, drops, historyVars>>

CallbackStep(t) == LoopClose(t) \/ Tell(t) \/ Return(t)

----------------------------------------------------------------------------
(* The life of the NetWork.                                                *)

\* initEnv and runEvent (Android, on every start of the service); init (iOS).
RunEvent == /\ platform = "ios" => lst = <<>>
            /\ InitManager /\ UNCHANGED wrapVars

\* dealloc, or the end of the process; by the application, or in a callback
\* when the application makes no call.
Dealloc == /\ \E by \in Threads \cup {App} :
                /\ Caller(by) /\ call.by \notin {by, App}
                /\ Destroy(by)
           /\ UNCHANGED wrapVars

Service ==
  \/ (StartThread \/ Started) /\ UNCHANGED wrapVars
  \/ CallStep
  \/ DestroyStep /\ UNCHANGED wrapVars

Loop(t) == \/ LoopStep(t) /\ UNCHANGED wrapVars
           \/ Dispatch(t) \/ CallbackStep(t)

Next == RunEvent \/ Dealloc \/ BeginCall \/ Service \/ \E t \in Threads : Loop(t)

\* Threads are scheduled, and the application returns from its callbacks.  A
\* NetWork that is gone owes nothing.
Spec ==
  /\ Init /\ [][Next]_vars
  /\ WF_vars(Service)
  /\ \A t \in Threads : WF_vars(Loop(t))

----------------------------------------------------------------------------

\* Every variable has its type.
WrappersTypeOK ==
  /\ ToSet(lst) \subseteq Threads /\ active \in BOOLEAN /\ starting \in Nat
  /\ object \in [Threads -> [state : {"uninitialized", "starting", "stopping"},
                             detached : BOOLEAN, refs : Nat, live : BOOLEAN]]
  /\ pthread \in [Threads -> {"none", "running", "exited", "joined"}]
  /\ pc \in [Threads -> {"none", "main", "top", "events", "callback", "ended",
                         "exited", "wild"}]
  /\ destroyer \in Threads \cup {App, "none"}
  /\ dpc \in {"none", "join", "delete", "release", "gone"} /\ at \in Nat
  /\ id \in Handles \cup {None} /\ dict \subseteq Handles
  /\ table \in [Handles -> {"unused", "online", "offline"}]
  /\ told \in [Handles -> {"none", "connected", "closed"}]
  /\ \A t \in Threads : job[t].h \in Handles \cup {None}
  /\ call.h \in Handles \cup {None} /\ call.by \in Threads \cup {App, "none"}
  /\ heard \in [Handles -> Nat]

\* iOS: a handle that is online is that of a connection which the application
\* has and the manager finds, once connect has stored it: it can be told of,
\* its status asked, and it can be closed.  At most one is.
Reachable ==
  platform = "ios" =>
    \A h \in Handles :
      table[h] = "online" =>
        \/ call.step = "store" /\ call.h = h
        \/ h \in dict /\ id = h

\* iOS: a callback finds no connection only in the middle of connect, when the
\* loop was faster than the thread that stores the connection, or when the
\* application has closed it.
LostOnlyInConnect == \A l \in lost : l[3] # "unknown"

\* A handle that went offline is heard of: iOS, unless the application closed
\* it; Android, in any case; unless it was lost or dropped on its way.
CloseHeard ==
  \A h \in Handles :
    table[h] = "offline" =>
      \/ heard[h] > 0 \/ h \in dropped
      \/ platform = "ios" /\ h \in closing
      \/ \E l \in lost : l[1] = "close" /\ l[2] = h
      \/ call.h = h \/ \E t \in Threads : job[t].h = h

=============================================================================
