------------------------------ MODULE Threads ------------------------------
(***************************************************************************)
(* The threads of a NetWork, from init to its destructor: ThreadManager    *)
(* and its Thread objects, which are counted references; ThreadMain, which *)
(* runs the event loop; and ~NetWork, which stops and joins the loops and  *)
(* deletes what they use.  It runs in a thread of the application or in a  *)
(* callback, which is a loop.  What a loop does in a callback is left to   *)
(* the module that extends this one.                                       *)
(***************************************************************************)
EXTENDS Integers, Sequences, SequencesExt

CONSTANTS
  Threads,   \* the Thread objects init can make
  App,       \* the application's own thread
  MaxFails   \* bound: threads that cannot be started

ASSUME ThreadsAssumption ==
  App \notin Threads /\ "none" \notin Threads \cup {App} /\ MaxFails \in Nat

VARIABLES
  lst,        \* _thread_lst
  active,     \* _thread_state
  object,     \* the Thread objects: [state, detached, refs, live]
  pthread,    \* kernel: "none", "running", "exited", "joined"
  pc,         \* where each loop is
  starting,   \* ThreadManager::start: the next thread, 0 outside
  stop,       \* NetWork::_stop
  event,      \* _sock_event is there
  destroyer,  \* who runs ~NetWork, or "none"
  dpc,        \* where ~NetWork is
  at,         \* the thread it joins or releases
  fails       \* threads not started so far

loopVars    == <<object, pthread, pc>>
managerVars == <<lst, active, starting, fails>>
destroyVars == <<stop, event, destroyer, dpc, at>>
threadVars  == <<loopVars, managerVars, destroyVars>>

NoObject == [state |-> "uninitialized", detached |-> FALSE, refs |-> 0, live |-> FALSE]
Object   == [NoObject EXCEPT !.refs = 1, !.live = TRUE]

ThreadsInit ==
  /\ lst = <<>> /\ active = FALSE /\ starting = 0 /\ fails = 0
  /\ object = [t \in Threads |-> NoObject]
  /\ pthread = [t \in Threads |-> "none"] /\ pc = [t \in Threads |-> "none"]
  /\ stop = FALSE /\ event = TRUE
  /\ destroyer = "none" /\ dpc = "none" /\ at = 0

Goto(t, label) == pc' = [pc EXCEPT ![t] = label]

----------------------------------------------------------------------------
(* NetWork::init: a new Thread, and the start of all.                      *)

InitManager ==
  /\ destroyer = "none" /\ starting = 0
  /\ \E t \in Threads \ ToSet(lst) :
       /\ lst' = Append(lst, t)
       /\ object' = [object EXCEPT ![t] = Object]
  /\ starting' = 1
  /\ UNCHANGED <<pthread, pc, active, fails, destroyVars>>

\* Thread::start of the next thread: it runs already; its attributes are
\* refused; no thread can be made; it runs.  Nobody is told.
StartThread ==
  /\ starting \in 1 .. Len(lst)
  /\ starting' = starting + 1
  /\ LET t == lst[starting] IN
     \/ object[t].state # "uninitialized" /\ UNCHANGED <<loopVars, fails>>
     \/ /\ object[t].state = "uninitialized" /\ fails < MaxFails
        /\ fails' = fails + 1
        /\ \E state \in {"uninitialized", "starting"} :
             object' = [object EXCEPT ![t].state = state]
        /\ UNCHANGED <<pthread, pc>>
     \/ /\ object[t].state = "uninitialized"
        /\ object' = [object EXCEPT ![t].state = "starting"]
        /\ pthread' = [pthread EXCEPT ![t] = "running"]
        /\ Goto(t, "main")
        /\ UNCHANGED fails
  /\ UNCHANGED <<lst, active, destroyVars>>

Started ==
  /\ starting > Len(lst)
  /\ active' = TRUE /\ starting' = 0
  /\ UNCHANGED <<loopVars, lst, fails, destroyVars>>

----------------------------------------------------------------------------
(* ThreadMain and the event loop.                                          *)

Uncounted(t) == object[t].refs  \* mutant: ThreadMain takes no reference
Counted(t)   == object[t].refs + 1

ThreadMain(t) ==
  /\ pc[t] = "main" /\ object[t].state = "starting"
  /\ object' = [object EXCEPT ![t].refs = Counted(t)]
  /\ Goto(t, "top")
  /\ UNCHANGED <<pthread, managerVars, destroyVars>>

\* while (!_stop): get_events, or the end of run.
LoopTop(t) ==
  /\ pc[t] = "top"
  /\ \/ ~stop /\ Goto(t, "events") /\ UNCHANGED object
     \/ /\ stop /\ Goto(t, "ended")
        /\ object' = [object EXCEPT ![t].state = "stopping"]
  /\ UNCHANGED <<pthread, managerVars, destroyVars>>

\* get_events times out after a second, and nothing was due.
NoEvents(t) ==
  /\ pc[t] = "events" /\ Goto(t, "top")
  /\ UNCHANGED <<object, pthread, managerVars, destroyVars>>

\* release: at zero the object goes; ~Thread joins, unless it was joined, which
\* of itself a thread cannot.
Release(t) ==
  object' = [object EXCEPT ![t].refs = @ - 1, ![t].live = object[t].refs > 1]

ThreadEnds(t) ==
  /\ pc[t] = "ended" /\ Goto(t, "exited")
  /\ Release(t)
  /\ pthread' = [pthread EXCEPT ![t] = "exited"]
  /\ UNCHANGED <<managerVars, destroyVars>>

\* A callback that destroyed the NetWork returns into freed memory: the loop
\* may read that it shall stop, and end.
WildReturn(t) ==
  /\ pc[t] = "wild" /\ Goto(t, "ended")
  /\ UNCHANGED <<object, pthread, managerVars, destroyVars>>

LoopStep(t) ==
  ThreadMain(t) \/ LoopTop(t) \/ NoEvents(t) \/ ThreadEnds(t) \/ WildReturn(t)

----------------------------------------------------------------------------
(* ~NetWork, with ~ThreadManager.                                          *)

StopLater == stop  \* mutant: _stop is not set yet
StopNow   == TRUE
SkipJoin  == "delete"  \* mutant: the loops are not waited for
JoinFirst == "join"

\* The application does so when no call of its own is in progress, and after
\* init has returned.
Destroy(by) ==
  /\ destroyer = "none" /\ starting = 0
  /\ destroyer' = by
  /\ stop' = StopNow
  /\ IF active THEN dpc' = JoinFirst /\ at' = 1 ELSE dpc' = "delete" /\ at' = 0
  /\ active' = FALSE
  /\ UNCHANGED <<loopVars, lst, starting, fails, event>>

Joinable(t) == ~object[t].detached /\ object[t].state # "uninitialized"

\* pthread_join: waits for the thread; fails at once for the caller itself, and
\* for a thread that was never made (what it does then is undefined).
JoinDone(t) == pthread[t] # "running" \/ t = destroyer
Joined(t)   == pthread[t] = "exited" /\ t # destroyer

\* ThreadManager::stop joins one thread after the other.
JoinThread ==
  /\ dpc = "join" /\ at <= Len(lst)
  /\ LET t == lst[at] IN
     \/ ~Joinable(t) /\ UNCHANGED <<object, pthread>>
     \/ /\ Joinable(t) /\ JoinDone(t)
        /\ object' = [object EXCEPT ![t].detached = Joined(t)]
        /\ pthread' = IF Joined(t) THEN [pthread EXCEPT ![t] = "joined"] ELSE pthread
  /\ at' = at + 1
  /\ UNCHANGED <<pc, managerVars, stop, event, destroyer, dpc>>

DeleteEvent ==
  /\ \/ dpc = "join" /\ at > Len(lst)
     \/ dpc = "delete"
  /\ event' = FALSE
  /\ dpc' = "release" /\ at' = 1
  /\ UNCHANGED <<loopVars, managerVars, stop, destroyer>>

\* ~ThreadManager releases each; the last release runs ~Thread, which joins.
ReleaseThread ==
  /\ dpc = "release" /\ at <= Len(lst)
  /\ LET t == lst[at] IN
     /\ object[t].refs > 1 \/ ~Joinable(t) \/ JoinDone(t)
     /\ Release(t)
  /\ at' = at + 1
  /\ UNCHANGED <<pthread, pc, managerVars, stop, event, destroyer, dpc>>

\* ~OnlineUser, and the memory goes.
Gone ==
  /\ dpc = "release" /\ at > Len(lst)
  /\ dpc' = "gone"
  /\ pc' = IF destroyer = App THEN pc ELSE [pc EXCEPT ![destroyer] = "wild"]
  /\ UNCHANGED <<object, pthread, managerVars, stop, event, destroyer, at>>

DestroyStep == JoinThread \/ DeleteEvent \/ ReleaseThread \/ Gone

----------------------------------------------------------------------------

InMain(t) == pc[t] \notin {"none", "exited"}
Listed(t) == \E i \in DOMAIN lst :
               lst[i] = t /\ dpc # "gone" /\ (dpc = "release" => i >= at)

\* A Thread object lives as long as its list or its thread uses it, with a
\* reference for each; a thread that runs has not taken its own yet (thread.cpp:
\* "the thread adds a reference").
ThreadAlive ==
  \A t \in Threads :
    /\ Listed(t) \/ InMain(t) => object[t].live
    /\ object[t].refs = (IF Listed(t) THEN 1 ELSE 0)
                          + (IF InMain(t) /\ pc[t] # "main" THEN 1 ELSE 0)

\* ~NetWork deletes the epoll set, and the rest of the NetWork, only when no
\* loop can use it any more (network.cpp: "end the threads that were started"),
\* except the loop whose callback it was called from.  Its threads are joined
\* once, and none is left.
LoopGone ==
  /\ ~event => \A t \in Threads : InMain(t) => t = destroyer
  /\ dpc = "gone" => \A t \in Threads : pthread[t] = "exited" => t = destroyer

\* ~NetWork returns, whoever calls it.
DestroyEnds == (destroyer # "none") ~> (dpc = "gone")

=============================================================================
