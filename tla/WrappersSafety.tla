-------------------------- MODULE WrappersSafety --------------------------
(***************************************************************************)
(* The inductive invariant behind the properties of Threads and Wrappers,  *)
(* and their proofs, for any number of threads, handles and calls.         *)
(*                                                                         *)
(* Two arguments meet.  That a Thread outlives its users is a count of     *)
(* holders, which needs to know where ~NetWork is and that its caller, if  *)
(* it is a loop, stays in its callback (Destruction, Jobs).  That a handle *)
(* can be reached and is heard of needs to know what each call in progress *)
(* has done so far (Calls, OneOnline), and that a callback keeps its       *)
(* handle to itself (Jobs).                                                *)
(***************************************************************************)
EXTENDS Wrappers, TLAPS

USE ThreadsAssumption, WrappersAssumption
USE DEF loopVars, managerVars, destroyVars, threadVars, service, bookVars,
        historyVars, wrapVars, vars

----------------------------------------------------------------------------
(* The invariant.                                                          *)

ObjectType == [state : {"uninitialized", "starting", "stopping"},
               detached : BOOLEAN, refs : Nat, live : BOOLEAN]
JobType    == [step : {"none", "close", "tell", "app", "after"},
               kind : {"none", "connect", "read", "close"},
               h : Handles \cup {None}]
CallType   == [by : Threads \cup {App, "none"}, op : {"none", "connect", "close"},
               step : {"none", "close", "closed", "connect", "store"},
               h : Handles \cup {None}]
PthreadType == {"none", "running", "exited", "joined"}
PcType      == {"none", "main", "top", "events", "callback", "ended", "exited", "wild"}
DpcType     == {"none", "join", "delete", "release", "gone"}

TypeInv ==
  /\ lst \in Seq(Threads) /\ active \in BOOLEAN /\ starting \in Nat
  /\ object \in [Threads -> ObjectType]
  /\ pthread \in [Threads -> PthreadType] /\ pc \in [Threads -> PcType]
  /\ stop \in BOOLEAN /\ event \in BOOLEAN
  /\ destroyer \in Threads \cup {App, "none"} /\ dpc \in DpcType /\ at \in Nat
  /\ platform \in {"ios", "android"}
  /\ id \in Handles \cup {None} /\ dict \subseteq Handles
  /\ table \in [Handles -> {"unused", "online", "offline"}]
  /\ told \in [Handles -> {"none", "connected", "closed"}]
  /\ job \in [Threads -> JobType] /\ call \in CallType
  /\ heard \in [Handles -> Nat]

\* init makes each Thread object once.
Distinct == \A i, j \in DOMAIN lst : lst[i] = lst[j] => i = j

\* What the loop, the kernel and the Thread object say of a thread agree.
Lifecycle ==
  \A t \in Threads :
    /\ pc[t] = "none" <=> pthread[t] = "none"
    /\ pc[t] = "exited" <=> pthread[t] \in {"exited", "joined"}
    /\ pthread[t] = "joined" <=> object[t].detached
    /\ pc[t] # "none" => object[t].state # "uninitialized"

\* Only threads of the list were made.
Made == \A t \in Threads : pc[t] # "none" => \E i \in DOMAIN lst : lst[i] = t

\* ThreadAlive: the list and the thread itself hold a Thread object.
OnList == {t \in Threads : Listed(t)}
Begun  == {t \in Threads : InMain(t)}
Holders ==
  \A t \in Threads :
    /\ t \in OnList \cup Begun => object[t].live
    /\ object[t].refs = (IF t \in OnList THEN 1 ELSE 0)
                          + (IF t \in Begun /\ pc[t] # "main" THEN 1 ELSE 0)

\* A thread that ~NetWork need not wait for any more.
Ended(t) == pthread[t] \in {"none", "joined"} \/ t = destroyer

\* How far ~NetWork is.  A loop that runs it stays in its callback.
Destruction ==
  /\ destroyer = "none" <=> dpc = "none"
  /\ destroyer # "none" => starting = 0
  /\ destroyer = "none" /\ starting = 0 => active \/ lst = <<>>
  /\ dpc = "delete" => lst = <<>>
  /\ dpc \in {"join", "release"} => at > 0
  /\ event <=> dpc \notin {"release", "gone"}
  /\ dpc = "join" => \A i \in DOMAIN lst : i < at => Ended(lst[i])
  /\ dpc \in {"release", "gone"} => \A t \in Threads : Ended(t)
  /\ destroyer \in Threads =>
       IF dpc = "gone" THEN pc[destroyer] \in {"wild", "ended", "exited"}
                       ELSE pc[destroyer] = "callback" /\ job[destroyer].step = "app"

\* A job is that of a loop in a callback, about a handle no other loop works
\* on; one that tells of a close comes after it.
Jobs ==
  /\ \A t \in Threads :
       /\ job[t].step # "none" => /\ pc[t] = "callback" \/ t = destroyer
                                  /\ job[t].h \in Handles /\ job[t].kind # "none"
                                  /\ table[job[t].h] # "unused"
       /\ job[t].step = "close" => job[t].kind = "close"
       /\ job[t].kind = "close" =>
            job[t].h \in Handles /\ (job[t].step # "close" => table[job[t].h] = "offline")
  /\ \A t, u \in Threads : job[t].h = job[u].h /\ job[t].h # None => t = u

\* What the call in progress has done so far.
Calls ==
  /\ call.step \in {"close", "closed", "store"} =>
       call.h \in Handles /\ table[call.h] # "unused"
  /\ call.step \in {"close", "closed"} => call.h \in closing
  /\ call.step = "closed" => table[call.h] = "offline"
  /\ id # None => table[id] # "unused"

\* iOS: connect closes the connection's handle before it asks for another.
OneOnline ==
  platform = "ios" =>
    /\ call.op = "connect" /\ call.step = "close" => call.h = id
    /\ (call.op = "connect" /\ call.step = "closed") \/ call.step = "connect" =>
         \A h \in Handles : table[h] # "online"
    /\ call.step = "store" => \A h \in Handles : table[h] = "online" => h = call.h

\* iOS: what a callback is about to tell of is in the dictionary, on its way
\* there, or closed by the application.
Found ==
  platform = "ios" =>
    \A t \in Threads : job[t].step \in {"close", "tell"} =>
      \/ job[t].h \in dict \/ job[t].h \in closing
      \/ call.step = "store" /\ call.h = job[t].h

\* CloseHeard, with the calls and callbacks that will still see to it.
Answered ==
  \A h \in Handles :
    table[h] = "offline" =>
      \/ heard[h] > 0 \/ h \in dropped
      \/ platform = "ios" /\ h \in closing
      \/ \E l \in lost : l[1] = "close" /\ l[2] = h
      \/ call.step \in {"close", "closed"} /\ call.h = h
      \/ \E t \in Threads :
           job[t].kind = "close" /\ job[t].step \in {"close", "tell"} /\ job[t].h = h

\* The inductive invariant.
WrapInv ==
  /\ TypeInv /\ Distinct /\ Made /\ Lifecycle /\ Holders /\ Destruction
  /\ Jobs /\ Calls /\ OneOnline /\ Reachable /\ Found /\ LostOnlyInConnect /\ Answered

USE DEF ObjectType, JobType, CallType, PthreadType, PcType, DpcType

----------------------------------------------------------------------------
(* What a step is.                                                         *)

\* A step of the threads and ~NetWork, with the wrappers at rest; the two steps
\* that concern both; or a step of the wrappers.
LEMMA Steps ==
  ASSUME [Next]_vars
  PROVE  \/ /\ \/ InitManager \/ StartThread \/ Started
               \/ \E by \in Threads \cup {App} : Caller(by) /\ Destroy(by)
               \/ JoinThread \/ DeleteEvent \/ ReleaseThread \/ Gone
               \/ \E t \in Threads : \/ ThreadMain(t) \/ LoopTop(t) \/ NoEvents(t)
                                     \/ ThreadEnds(t) \/ WildReturn(t)
            /\ UNCHANGED wrapVars
         \/ \E t \in Threads : Dispatch(t) \/ Return(t)
         \/ /\ \/ BeginCall \/ CallClose \/ CloseDone \/ JavaClosed \/ CallConnect
               \/ Store
               \/ \E t \in Threads : LoopClose(t) \/ Tell(t)
            /\ UNCHANGED threadVars
         \/ UNCHANGED vars
<1>1. ASSUME RunEvent \/ Dealloc
      PROVE  /\ \/ InitManager
                \/ \E by \in Threads \cup {App} : Caller(by) /\ Destroy(by)
             /\ UNCHANGED wrapVars
  BY <1>1 DEF RunEvent, Dealloc
<1>2. ASSUME CallStep \/ BeginCall
      PROVE  /\ \/ BeginCall \/ CallClose \/ CloseDone \/ JavaClosed \/ CallConnect
                \/ Store
             /\ UNCHANGED threadVars
  BY <1>2
    DEF CallStep, BeginCall, CallClose, CloseDone, JavaClosed, CallConnect, Store
<1>3. ASSUME NEW t \in Threads, CallbackStep(t)
      PROVE  \/ Return(t)
             \/ (LoopClose(t) \/ Tell(t)) /\ UNCHANGED threadVars
  BY <1>3 DEF CallbackStep, LoopClose, Tell
<1>4. QED
  BY <1>1, <1>2, <1>3 DEF Next, Service, Loop, LoopStep, DestroyStep

\* A callback of the loop tells; it does not change the table.
LEMMA TellTable ==
  ASSUME WrapInv, NEW t \in Threads, Tell(t)
  PROVE  UNCHANGED table
<1>1. Notify(job[t].kind, job[t].h) /\ job[t].kind # "none"
  BY DEF Tell, WrapInv, Jobs
<1>2. job[t].kind \in {"connect", "read", "close"}
  BY <1>1 DEF WrapInv, TypeInv
<1>3. QED
  BY <1>1, <1>2 DEF Notify, NetWork!OnConnect, NetWork!OnClose

\* A handle is used, goes online and goes offline, in this order.
LEMMA TableSteps ==
  ASSUME WrapInv, [Next]_vars
  PROVE  /\ \A h \in Handles : table[h] # "unused" => table'[h] # "unused"
         /\ \A h \in Handles : table[h] = "offline" => table'[h] = "offline"
<1> USE DEF WrapInv, TypeInv
<1>1. CASE UNCHANGED table
  BY <1>1
<1>2. CASE CallClose
  BY <1>2 DEF CallClose, NetWork!GoOffline
<1>3. CASE CallConnect
  <2>1. UNCHANGED table \/ \E h \in Handles : NetWork!GoOnline(h)
    BY <1>3 DEF CallConnect
  <2>2. QED
    BY <2>1 DEF NetWork!GoOnline
<1>4. ASSUME NEW t \in Threads, LoopClose(t)
      PROVE  /\ \A h \in Handles : table[h] # "unused" => table'[h] # "unused"
             /\ \A h \in Handles : table[h] = "offline" => table'[h] = "offline"
  BY <1>4 DEF LoopClose, NetWork!GoOffline
<1>5. ASSUME NEW t \in Threads, Dispatch(t) \/ Return(t) \/ Tell(t)
      PROVE  UNCHANGED table
  BY <1>5, TellTable DEF Dispatch, Return
<1>6. ASSUME BeginCall \/ CloseDone \/ JavaClosed \/ Store
      PROVE  UNCHANGED table
  BY <1>6 DEF BeginCall, CloseDone, JavaClosed, Store
<1>7. QED
  BY <1>1, <1>2, <1>3, <1>4, <1>5, <1>6, Steps

\* init puts a new Thread at the end of the list.
LEMMA Grown ==
  ASSUME lst \in Seq(Threads), NEW t \in Threads, lst' = Append(lst, t)
  PROVE  /\ lst' \in Seq(Threads)
         /\ DOMAIN lst = 1 .. Len(lst) /\ DOMAIN lst' = 1 .. Len(lst) + 1
         /\ \A i \in DOMAIN lst : lst'[i] = lst[i]
         /\ lst'[Len(lst) + 1] = t
  OBVIOUS

\* Starting and joining a thread leave its references alone.
LEMMA RefsKept ==
  ASSUME TypeInv, NEW t \in Threads, NEW x,
         \/ object' = [object EXCEPT ![t].state = x]
         \/ object' = [object EXCEPT ![t].detached = x]
  PROVE  \A u \in Threads : /\ object'[u].refs = object[u].refs
                            /\ object'[u].live <=> object[u].live
<1>1. \A u \in Threads \ {t} : object'[u] = object[u]
  BY DEF TypeInv
<1>2. object'[t].refs = object[t].refs /\ object'[t].live = object[t].live
  BY DEF TypeInv
<1>3. QED
  BY <1>1, <1>2

\* add_ref and release change the references only.
LEMMA RefsSet ==
  ASSUME TypeInv, NEW t \in Threads, NEW n \in Int, NEW b \in BOOLEAN,
         \/ object' = [object EXCEPT ![t].refs = n, ![t].live = b]
         \/ object' = [object EXCEPT ![t].refs = n] /\ (object[t].live <=> b)
  PROVE  /\ \A u \in Threads \ {t} : object'[u] = object[u]
         /\ object'[t].refs = n /\ (object'[t].live <=> b)
<1>1. \A u \in Threads \ {t} : object'[u] = object[u]
  BY DEF TypeInv
<1>2. object'[t].refs = n
  BY DEF TypeInv
<1>3. CASE object' = [object EXCEPT ![t].refs = n, ![t].live = b]
  BY <1>1, <1>2, <1>3 DEF TypeInv
<1>4. CASE object' = [object EXCEPT ![t].refs = n] /\ (object[t].live <=> b)
  <2>1. object'[t].live = object[t].live
    BY <1>4 DEF TypeInv
  <2>2. QED
    BY <1>1, <1>2, <1>4, <2>1
<1>5. QED
  BY <1>3, <1>4

\* The three ends of Thread::start.
LEMMA Starts ==
  ASSUME TypeInv, StartThread, NEW t, t = lst[starting]
  PROVE  /\ t \in Threads /\ starting \in DOMAIN lst
         /\ UNCHANGED <<lst, dpc, at>>
         /\ \/ UNCHANGED loopVars
            \/ /\ UNCHANGED <<pthread, pc>> /\ object[t].state = "uninitialized"
               /\ \E state \in {"uninitialized", "starting"} :
                    object' = [object EXCEPT ![t].state = state]
            \/ /\ object[t].state = "uninitialized"
               /\ object' = [object EXCEPT ![t].state = "starting"]
               /\ pthread' = [pthread EXCEPT ![t] = "running"]
               /\ pc' = [pc EXCEPT ![t] = "main"]
  BY DEF TypeInv, StartThread, Goto

----------------------------------------------------------------------------
(* The threads.                                                            *)

\* Each Thread object is in the list once.
LEMMA DistinctStep ==
  ASSUME WrapInv, [Next]_vars
  PROVE  Distinct'
<1> USE DEF WrapInv, TypeInv
<1>1. CASE UNCHANGED lst
  BY <1>1 DEF Distinct
<1>2. CASE InitManager
  <2>1. PICK t \in Threads \ ToSet(lst) : lst' = Append(lst, t)
    BY <1>2 DEF InitManager
  <2>2. \A i \in DOMAIN lst : lst[i] # t
    BY <2>1 DEF ToSet
  <2>3. QED
    BY <2>1, <2>2, Grown DEF Distinct
<1>3. ASSUME NEW t \in Threads, Dispatch(t) \/ Return(t)
      PROVE  UNCHANGED lst
  BY <1>3 DEF Dispatch, Return
<1>4. ASSUME NEW by, Destroy(by)
      PROVE  UNCHANGED lst
  BY <1>4 DEF Destroy
<1>5. ASSUME NEW t \in Threads,
             ThreadMain(t) \/ LoopTop(t) \/ NoEvents(t) \/ ThreadEnds(t) \/ WildReturn(t)
      PROVE  UNCHANGED lst
  BY <1>5 DEF ThreadMain, LoopTop, NoEvents, ThreadEnds, WildReturn
<1>6. ASSUME \/ StartThread \/ Started \/ JoinThread \/ DeleteEvent \/ ReleaseThread
             \/ Gone
      PROVE  UNCHANGED lst
  BY <1>6 DEF StartThread, Started, JoinThread, DeleteEvent, ReleaseThread, Gone
<1>7. QED
  BY <1>1, <1>2, <1>3, <1>4, <1>5, <1>6, Steps

\* A thread starts from the list.
LEMMA MadeStep ==
  ASSUME WrapInv, [Next]_vars
  PROVE  Made'
<1> USE DEF WrapInv, TypeInv, Made
<1>1. CASE UNCHANGED <<lst, pc>>
  BY <1>1
<1>2. CASE InitManager
  <2>1. PICK t \in Threads : lst' = Append(lst, t)
    BY <1>2 DEF InitManager
  <2>2. UNCHANGED pc
    BY <1>2 DEF InitManager
  <2>3. \A i \in DOMAIN lst : i \in DOMAIN lst' /\ lst'[i] = lst[i]
    BY <2>1, Grown
  <2>4. QED
    BY <2>2, <2>3
<1>3. CASE StartThread
  <2>1. UNCHANGED lst /\ starting \in DOMAIN lst
    BY <1>3 DEF StartThread
  <2>2. UNCHANGED pc \/ pc' = [pc EXCEPT ![lst[starting]] = "main"]
    BY <1>3 DEF StartThread, Goto
  <2>3. QED
    BY <2>1, <2>2
<1>4. ASSUME UNCHANGED lst, NEW t \in Threads, pc[t] # "none", NEW label,
             pc' = [pc EXCEPT ![t] = label]
      PROVE  Made'
  BY <1>4
<1>5. ASSUME NEW t \in Threads,
             \/ ThreadMain(t) \/ LoopTop(t) \/ NoEvents(t) \/ ThreadEnds(t)
             \/ WildReturn(t) \/ Dispatch(t) \/ Return(t)
      PROVE  Made'
  <2>1. UNCHANGED lst /\ pc[t] # "none" /\ \E label : pc' = [pc EXCEPT ![t] = label]
    BY <1>5
      DEF ThreadMain, LoopTop, NoEvents, ThreadEnds, WildReturn, Dispatch, Return,
          Goto
  <2>2. QED
    BY <1>4, <2>1
<1>6. CASE Gone
  <2>1. destroyer \in Threads => pc[destroyer] # "none"
    BY <1>6 DEF Gone, Destruction
  <2>2. destroyer \in Threads \/ destroyer = App
    BY <1>6 DEF Gone, Destruction
  <2>3. UNCHANGED lst
    BY <1>6 DEF Gone
  <2>4. CASE destroyer = App
    BY <1>1, <1>6, <2>3, <2>4 DEF Gone
  <2>5. CASE destroyer \in Threads
    <3>1. pc' = [pc EXCEPT ![destroyer] = "wild"]
      BY <1>6, <2>5 DEF Gone
    <3>2. QED
      BY <1>4, <2>1, <2>3, <2>5, <3>1
  <2>6. QED
    BY <2>2, <2>4, <2>5
<1>7. ASSUME NEW by,
             Started \/ Destroy(by) \/ JoinThread \/ DeleteEvent \/ ReleaseThread
      PROVE  UNCHANGED <<lst, pc>>
  BY <1>7 DEF Started, Destroy, JoinThread, DeleteEvent, ReleaseThread
<1>8. QED
  BY <1>1, <1>2, <1>3, <1>5, <1>6, <1>7, Steps

\* A thread is made, runs, ends and is joined, each once.
LEMMA LifecycleStep ==
  ASSUME WrapInv, [Next]_vars
  PROVE  Lifecycle'
<1> USE DEF WrapInv, TypeInv, Lifecycle
<1>1. CASE UNCHANGED <<object, pthread, pc>>
  BY <1>1
<1>2. CASE InitManager
  <2>1. PICK t \in Threads \ ToSet(lst) :
          UNCHANGED <<pc, pthread>> /\ object' = [object EXCEPT ![t] = Object]
    BY <1>2 DEF InitManager
  <2>2. pc[t] = "none"
    BY <2>1 DEF ToSet, Made
  <2>3. /\ \A u \in Threads \ {t} : object'[u] = object[u]
        /\ object'[t] = Object
    BY <2>1
  <2>4. ~Object.detached
    BY DEF Object, NoObject
  <2>5. QED
    BY <2>1, <2>2, <2>3, <2>4
<1>3. CASE StartThread
  <2>1. PICK t : t = lst[starting]
    OBVIOUS
  <2>2. t \in Threads
    BY <1>3, <2>1, Starts
  <2>3. CASE UNCHANGED loopVars
    BY <2>3
  <2>4. CASE /\ UNCHANGED <<pthread, pc>> /\ object[t].state = "uninitialized"
             /\ \E state \in {"uninitialized", "starting"} :
                  object' = [object EXCEPT ![t].state = state]
    BY <2>2, <2>4
  <2>5. CASE /\ object[t].state = "uninitialized"
             /\ object' = [object EXCEPT ![t].state = "starting"]
             /\ pthread' = [pthread EXCEPT ![t] = "running"]
             /\ pc' = [pc EXCEPT ![t] = "main"]
    BY <2>2, <2>5
  <2> HIDE DEF TypeInv, Lifecycle
  <2>6. QED
    BY <1>3, <2>1, <2>3, <2>4, <2>5, Starts
<1>4. ASSUME NEW t \in Threads, ThreadMain(t)
      PROVE  Lifecycle'
  BY <1>4 DEF ThreadMain, Goto
<1>5. ASSUME NEW t \in Threads, LoopTop(t)
      PROVE  Lifecycle'
  <2>1. CASE UNCHANGED <<object, pthread>> /\ pc' = [pc EXCEPT ![t] = "events"]
    BY <1>5, <2>1 DEF LoopTop
  <2>2. CASE /\ UNCHANGED pthread /\ pc' = [pc EXCEPT ![t] = "ended"]
             /\ object' = [object EXCEPT ![t].state = "stopping"]
    BY <1>5, <2>2 DEF LoopTop
  <2>3. QED
    BY <1>5, <2>1, <2>2 DEF LoopTop, Goto
<1>6. ASSUME NEW t \in Threads, NoEvents(t) \/ WildReturn(t)
      PROVE  Lifecycle'
  BY <1>6 DEF NoEvents, WildReturn, Goto
<1>7. ASSUME NEW t \in Threads, ThreadEnds(t)
      PROVE  Lifecycle'
  BY <1>7 DEF ThreadEnds, Goto, Release
<1>8. ASSUME NEW t \in Threads, Dispatch(t)
      PROVE  Lifecycle'
  BY <1>8 DEF Dispatch, Goto
<1>9. ASSUME NEW t \in Threads, Return(t)
      PROVE  Lifecycle'
  BY <1>9 DEF Return, Goto
<1>10. CASE JoinThread
  <2> DEFINE t == lst[at]
  <2>1. t \in Threads /\ UNCHANGED <<lst, pc>>
    BY <1>10 DEF JoinThread, Destruction
  <2>2. CASE Joinable(t) /\ Joined(t)
    <3>1. /\ object' = [object EXCEPT ![t].detached = TRUE]
          /\ pthread' = [pthread EXCEPT ![t] = "joined"] /\ pthread[t] = "exited"
      BY <1>10, <2>2 DEF JoinThread, Joined
    <3>2. QED
      BY <2>1, <3>1
  <2>3. CASE Joinable(t) /\ ~Joined(t)
    <3>1. /\ object' = [object EXCEPT ![t].detached = Joined(t)]
          /\ UNCHANGED pthread /\ ~object[t].detached
      BY <1>10, <2>3 DEF JoinThread, Joinable
    <3>2. ~object'[t].detached
      BY <2>1, <2>3, <3>1
    <3>3. QED
      BY <2>1, <3>1, <3>2
  <2>4. QED
    BY <1>10, <2>1, <2>2, <2>3 DEF JoinThread
<1>11. CASE ReleaseThread
  <2> DEFINE t == lst[at]
  <2>1. t \in Threads /\ UNCHANGED <<lst, pc, pthread>>
    BY <1>11 DEF ReleaseThread, Destruction
  <2>2. object' = [object EXCEPT ![t].refs = @ - 1, ![t].live = object[t].refs > 1]
    BY <1>11 DEF ReleaseThread, Release
  <2>3. QED
    BY <2>1, <2>2
<1>12. CASE Gone
  <2>1. destroyer \in Threads \/ destroyer = App
    BY <1>12 DEF Gone, Destruction
  <2>2. QED
    BY <1>12, <2>1 DEF Gone, Destruction
<1>13. ASSUME NEW by, Started \/ Destroy(by) \/ DeleteEvent
       PROVE  UNCHANGED <<lst, object, pthread, pc>>
  BY <1>13 DEF Started, Destroy, DeleteEvent
<1>14. QED
  BY <1>1, <1>2, <1>3, <1>4, <1>5, <1>6, <1>7, <1>8, <1>9, <1>10, <1>11, <1>12,
     <1>13, Steps

\* The reference count of a Thread follows the list and the thread itself: init
\* puts it in the list with one, ThreadMain adds one and releases it at its end,
\* ~ThreadManager releases the list's.
LEMMA HoldersStep ==
  ASSUME WrapInv, [Next]_vars
  PROVE  Holders'
<1> USE DEF WrapInv
<1>0. /\ lst \in Seq(Threads) /\ at \in Nat
      /\ \A t \in Threads : object[t].refs \in Nat
      /\ object = [t \in Threads |-> object[t]] /\ pc = [t \in Threads |-> pc[t]]
  BY DEF TypeInv
<1> USE <1>0
<1>1. ASSUME UNCHANGED object,
             \A t \in Threads : /\ t \in OnList' <=> t \in OnList
                                /\ t \in Begun' <=> t \in Begun
                                /\ pc'[t] = "main" <=> pc[t] = "main"
      PROVE  Holders'
  BY <1>1 DEF Holders
<1>2. ASSUME UNCHANGED <<lst, dpc, at>>
      PROVE  \A t \in Threads : t \in OnList' <=> t \in OnList
  BY <1>2 DEF OnList, Listed
<1>3. CASE UNCHANGED <<lst, dpc, at, object, pc>>
  BY <1>1, <1>2, <1>3 DEF Begun, InMain
<1>4. CASE InitManager
  <2>1. PICK t \in Threads \ ToSet(lst) :
          lst' = Append(lst, t) /\ object' = [object EXCEPT ![t] = Object]
    BY <1>4 DEF InitManager
  <2>2. \A i \in DOMAIN lst : lst[i] # t
    BY <2>1 DEF ToSet
  <2>3. UNCHANGED <<pc, dpc, at>> /\ dpc = "none"
    BY <1>4 DEF InitManager, Destruction
  <2>4. \A u \in Threads : u \in OnList <=> \E i \in DOMAIN lst : lst[i] = u
    BY <2>3 DEF OnList, Listed
  <2>5. \A u \in Threads : u \in OnList' <=> \E i \in DOMAIN lst' : lst'[i] = u
    BY <2>3 DEF OnList, Listed
  <2>6. \A i \in DOMAIN lst : i \in DOMAIN lst' /\ lst'[i] = lst[i]
    BY <2>1, Grown
  <2>7. \A i \in DOMAIN lst' : i \in DOMAIN lst \/ lst'[i] = t
    BY <2>1, Grown
  <2>8. \E i \in DOMAIN lst' : lst'[i] = t
    <3>1. Len(lst) + 1 \in DOMAIN lst' /\ lst'[Len(lst) + 1] = t
      BY <2>1, Grown
    <3>2. QED
      BY <3>1
  <2>9. \A u \in Threads : u \in OnList' <=> u \in OnList \/ u = t
    BY <2>4, <2>5, <2>6, <2>7, <2>8
  <2>10. t \notin Begun /\ \A u \in Threads : u \in Begun' <=> u \in Begun
    BY <2>1, <2>2, <2>3 DEF Made, Begun, InMain
  <2>11. object'[t].refs = 1 /\ object'[t].live
    BY <2>1 DEF Object, NoObject
  <2>12. \A u \in Threads \ {t} : object'[u] = object[u]
    BY <2>1
  <2>13. QED
    BY <2>3, <2>9, <2>10, <2>11, <2>12 DEF Holders
<1>5. CASE StartThread
  <2> PICK t : t = lst[starting]
    OBVIOUS
  <2>1. t \in Threads /\ UNCHANGED <<lst, dpc, at>>
    BY <1>5, Starts
  <2>2. t \in OnList
    BY <1>5, Starts DEF OnList, Listed, StartThread, Destruction
  <2>3. \A u \in Threads : /\ object'[u].refs = object[u].refs
                           /\ object'[u].live <=> object[u].live
    <3>1. UNCHANGED object \/ \E x : object' = [object EXCEPT ![t].state = x]
      BY <1>5, Starts
    <3>2. QED
      BY <2>1, <3>1, RefsKept
  <2>4. \/ UNCHANGED pc
        \/ pc[t] = "none" /\ pc' = [pc EXCEPT ![t] = "main"]
    <3>1. object[t].state = "uninitialized" => pc[t] = "none"
      BY <2>1 DEF Lifecycle
    <3>2. UNCHANGED pc \/ /\ object[t].state = "uninitialized"
                          /\ pc' = [pc EXCEPT ![t] = "main"]
      BY <1>5, Starts
    <3>3. QED
      BY <3>1, <3>2
  <2>5. \A u \in Threads : (u \in Begun' /\ pc'[u] # "main") <=> (u \in Begun /\ pc[u] # "main")
    BY <2>1, <2>4 DEF Begun, InMain
  <2>6. \A u \in Threads : u \in Begun' => u \in Begun \/ u = t
    BY <2>1, <2>4 DEF Begun, InMain
  <2>7. QED
    BY <1>2, <2>1, <2>2, <2>3, <2>5, <2>6 DEF Holders
<1>6. ASSUME NEW t \in Threads, ThreadMain(t)
      PROVE  Holders'
  <2>1. /\ UNCHANGED <<lst, dpc, at>> /\ pc[t] = "main" /\ pc' = [pc EXCEPT ![t] = "top"]
        /\ object' = [object EXCEPT ![t].refs = object[t].refs + 1]
    BY <1>6 DEF ThreadMain, Goto, Counted
  <2>2. /\ \A u \in Threads \ {t} : object'[u] = object[u]
        /\ object'[t].refs = object[t].refs + 1 /\ (object'[t].live <=> object[t].live)
    <3>1. object[t].refs + 1 \in Int /\ object[t].live \in BOOLEAN
      BY DEF TypeInv
    <3>2. QED
      BY <2>1, <3>1, RefsSet
  <2>3. /\ \A u \in Threads \ {t} : pc'[u] = pc[u]
        /\ pc'[t] = "top"
    BY <2>1
  <2>5. /\ t \in Begun /\ t \in Begun'
        /\ \A u \in Threads \ {t} : u \in Begun' <=> u \in Begun
    BY <2>1, <2>3 DEF Begun, InMain
  <2>6. object'[t].refs = (IF t \in OnList' THEN 1 ELSE 0)
                            + (IF t \in Begun' /\ pc'[t] # "main" THEN 1 ELSE 0)
    BY <1>2, <2>1, <2>2, <2>3, <2>5 DEF Holders
  <2>7. object'[t].live
    BY <2>2, <2>5 DEF Holders
  <2>8. \A u \in Threads \ {t} :
          /\ u \in OnList' \/ u \in Begun' => object'[u].live
          /\ object'[u].refs = (IF u \in OnList' THEN 1 ELSE 0)
                                 + (IF u \in Begun' /\ pc'[u] # "main" THEN 1 ELSE 0)
    BY <1>2, <2>1, <2>2, <2>3, <2>5 DEF Holders
  <2>9. QED
    BY <2>6, <2>7, <2>8 DEF Holders
<1>7. ASSUME NEW t \in Threads, LoopTop(t)
      PROVE  Holders'
  <2>1. \A u \in Threads : /\ object'[u].refs = object[u].refs
                           /\ object'[u].live <=> object[u].live
    <3>1. UNCHANGED object \/ \E x : object' = [object EXCEPT ![t].state = x]
      BY <1>7 DEF LoopTop
    <3>2. QED
      BY <3>1, RefsKept
  <2>2. /\ UNCHANGED <<lst, dpc, at>> /\ pc[t] = "top"
        /\ pc' = [pc EXCEPT ![t] = "events"] \/ pc' = [pc EXCEPT ![t] = "ended"]
    BY <1>7 DEF LoopTop, Goto
  <2>3. \A u \in Threads : /\ u \in Begun' <=> u \in Begun
                           /\ pc'[u] = "main" <=> pc[u] = "main"
    BY <2>2 DEF Begun, InMain
  <2>4. QED
    BY <1>2, <2>1, <2>2, <2>3 DEF Holders
<1>8. ASSUME NEW t \in Threads, NoEvents(t) \/ WildReturn(t) \/ Dispatch(t) \/ Return(t)
      PROVE  Holders'
  <2>1. /\ UNCHANGED <<lst, dpc, at, object>>
        /\ pc[t] \in {"events", "wild", "callback"}
        /\ \E label \in {"top", "ended", "callback"} : pc' = [pc EXCEPT ![t] = label]
    BY <1>8 DEF NoEvents, WildReturn, Dispatch, Return, Goto
  <2>2. \A u \in Threads : /\ u \in Begun' <=> u \in Begun
                           /\ pc'[u] = "main" <=> pc[u] = "main"
    BY <2>1 DEF Begun, InMain
  <2>3. QED
    BY <1>1, <1>2, <2>1, <2>2
<1>9. ASSUME NEW t \in Threads, ThreadEnds(t)
      PROVE  Holders'
  <2>1. /\ UNCHANGED <<lst, dpc, at>> /\ pc[t] = "ended"
        /\ pc' = [pc EXCEPT ![t] = "exited"]
    BY <1>9 DEF ThreadEnds, Goto
  <2>2. /\ \A u \in Threads \ {t} : object'[u] = object[u]
        /\ object'[t].refs = object[t].refs - 1 /\ (object'[t].live <=> object[t].refs > 1)
    <3>1. object' = [object EXCEPT ![t].refs = object[t].refs - 1,
                                   ![t].live = object[t].refs > 1]
      BY <1>9 DEF ThreadEnds, Release, TypeInv
    <3>2. object[t].refs - 1 \in Int /\ (object[t].refs > 1) \in BOOLEAN
      BY <1>9
    <3>3. QED
      BY <2>1, <3>1, <3>2, RefsSet
  <2>3. /\ \A u \in Threads \ {t} : pc'[u] = pc[u]
        /\ pc'[t] = "exited"
    BY <2>1
  <2>4. \A u \in Threads \ {t} : u \in Begun' <=> u \in Begun
    BY <2>3 DEF Begun, InMain
  <2>5. t \in Begun /\ t \notin Begun'
    BY <2>1, <2>3 DEF Begun, InMain
  <2>6. /\ t \in OnList' => object'[t].live
        /\ object'[t].refs = (IF t \in OnList' THEN 1 ELSE 0)
    BY <1>2, <2>1, <2>2, <2>5 DEF Holders
  <2>7. \A u \in Threads \ {t} :
          /\ u \in OnList' \/ u \in Begun' => object'[u].live
          /\ object'[u].refs = (IF u \in OnList' THEN 1 ELSE 0)
                                 + (IF u \in Begun' /\ pc'[u] # "main" THEN 1 ELSE 0)
    BY <1>2, <2>1, <2>2, <2>3, <2>4 DEF Holders
  <2>8. QED
    BY <2>5, <2>6, <2>7 DEF Holders
<1>10. CASE JoinThread
  <2>1. /\ UNCHANGED <<lst, dpc, pc>> /\ dpc = "join" /\ lst[at] \in Threads
    BY <1>10 DEF JoinThread, Destruction
  <2>2. \A t \in Threads : /\ object'[t].refs = object[t].refs
                           /\ object'[t].live <=> object[t].live
    <3>1. UNCHANGED object \/ \E x : object' = [object EXCEPT ![lst[at]].detached = x]
      BY <1>10 DEF JoinThread
    <3>2. QED
      BY <2>1, <3>1, RefsKept
  <2>3. \A t \in Threads : t \in OnList' <=> t \in OnList
    BY <2>1 DEF OnList, Listed
  <2>4. QED
    BY <2>1, <2>2, <2>3 DEF Holders, Begun, InMain
<1>11. CASE DeleteEvent
  <2>1. /\ UNCHANGED <<lst, object, pc>> /\ dpc' = "release" /\ at' = 1
        /\ dpc \in {"join", "delete"}
    BY <1>11 DEF DeleteEvent
  <2>2. \A t \in Threads : t \in OnList' <=> t \in OnList
    BY <2>1 DEF OnList, Listed
  <2>3. QED
    BY <1>1, <2>1, <2>2 DEF Begun, InMain
<1>12. CASE ReleaseThread
  <2> DEFINE t == lst[at]
  <2>1. /\ UNCHANGED <<lst, pc, dpc>> /\ dpc = "release" /\ at' = at + 1
        /\ at \in DOMAIN lst /\ t \in Threads
    BY <1>12 DEF ReleaseThread, Destruction
  <2>2. /\ \A u \in Threads \ {t} : object'[u] = object[u]
        /\ object'[t].refs = object[t].refs - 1 /\ (object'[t].live <=> object[t].refs > 1)
    <3>1. object' = [object EXCEPT ![t].refs = object[t].refs - 1,
                                   ![t].live = object[t].refs > 1]
      BY <1>12, <2>1 DEF ReleaseThread, Release, TypeInv
    <3>2. object[t].refs - 1 \in Int /\ (object[t].refs > 1) \in BOOLEAN
      BY <2>1
    <3>3. QED
      BY <2>1, <3>1, <3>2, RefsSet
  <2>3. t \in OnList /\ t \notin OnList'
    <3>1. \A i \in DOMAIN lst : lst[i] = t => i = at
      BY <2>1 DEF Distinct
    <3>2. at \in Nat
      OBVIOUS
    <3>3. ~(\E i \in DOMAIN lst : lst[i] = t /\ i >= at + 1)
      BY <3>1, <3>2
    <3>4. t \in OnList
      BY <2>1, <3>2 DEF OnList, Listed
    <3>5. t \notin OnList'
      BY <2>1, <3>3 DEF OnList, Listed
    <3>6. QED
      BY <3>4, <3>5
  <2>4. \A u \in Threads \ {t} : u \in OnList' <=> u \in OnList
    BY <2>1 DEF OnList, Listed
  <2>5. pc[t] # "main"
    <3>1. pthread[t] \in {"none", "joined"} \/ t = destroyer
      BY <2>1 DEF Destruction, Ended
    <3>2. t = destroyer => pc[t] = "callback"
      BY <2>1 DEF Destruction
    <3>3. QED
      BY <2>1, <3>1, <3>2 DEF Lifecycle
  <2> HIDE DEF t
  <2>6. \A u \in Threads : u \in Begun' <=> u \in Begun
    BY <2>1 DEF Begun, InMain
  <2>7. object'[t].refs = (IF t \in Begun' THEN 1 ELSE 0)
    BY <2>1, <2>2, <2>3, <2>5, <2>6 DEF Holders
  <2>8. t \in Begun' => object'[t].live
    <3>1. t \in Begun => object[t].refs = 2
      BY <2>1, <2>3, <2>5 DEF Holders
    <3>2. QED
      BY <2>1, <2>2, <2>6, <3>1
  <2>9. \A u \in Threads \ {t} :
          /\ u \in OnList' \/ u \in Begun' => object'[u].live
          /\ object'[u].refs = (IF u \in OnList' THEN 1 ELSE 0)
                                 + (IF u \in Begun' /\ pc'[u] # "main" THEN 1 ELSE 0)
    BY <2>1, <2>2, <2>4, <2>6 DEF Holders
  <2>10. pc'[t] # "main"
    BY <2>1, <2>5
  <2>11. QED
    BY <2>3, <2>7, <2>8, <2>9, <2>10 DEF Holders
<1>13. CASE Gone
  <2>1. /\ UNCHANGED <<lst, object>> /\ dpc = "release" /\ dpc' = "gone" /\ at > Len(lst)
    BY <1>13 DEF Gone
  <2>2. \A t \in Threads : t \notin OnList' /\ t \notin OnList
    BY <2>1 DEF OnList, Listed
  <2>3. destroyer \in Threads => pc[destroyer] = "callback"
    BY <2>1 DEF Destruction
  <2>4. \A t \in Threads : pc'[t] = pc[t] \/ (t = destroyer /\ pc'[t] = "wild")
    <3>1. UNCHANGED pc \/ pc' = [pc EXCEPT ![destroyer] = "wild"]
      BY <1>13 DEF Gone
    <3>2. QED
      BY <3>1
  <2>5. \A t \in Threads : /\ t \in Begun' <=> t \in Begun
                           /\ pc'[t] = "main" <=> pc[t] = "main"
    BY <2>3, <2>4 DEF Begun, InMain
  <2>6. QED
    BY <1>1, <2>1, <2>2, <2>5
<1>14. CASE Started
  BY <1>3, <1>14 DEF Started
<1>15. ASSUME NEW by, Destroy(by)
       PROVE  Holders'
  <2>1. /\ UNCHANGED <<lst, object, pc>> /\ dpc' \in {"join", "delete"} /\ dpc = "none"
    BY <1>15 DEF Destroy, JoinFirst, Destruction
  <2>2. \A t \in Threads : t \in OnList' <=> t \in OnList
    BY <2>1 DEF OnList, Listed
  <2>3. QED
    BY <1>1, <2>1, <2>2 DEF Begun, InMain
<1>16. QED
  BY <1>3, <1>4, <1>5, <1>6, <1>7, <1>8, <1>9, <1>10, <1>11, <1>12, <1>13, <1>14,
     <1>15, Steps

\* ~NetWork waits for each loop before it deletes what they use; the loop that
\* runs it, in a callback, is still there when it is done.
LEMMA DestructionStep ==
  ASSUME WrapInv, [Next]_vars
  PROVE  Destruction'
<1> USE DEF WrapInv
<1>0. /\ lst \in Seq(Threads) /\ at \in Nat /\ starting \in Nat
      /\ pthread = [t \in Threads |-> pthread[t]] /\ pc = [t \in Threads |-> pc[t]]
      /\ job \in [Threads -> JobType]
      /\ destroyer \in Threads \cup {App, "none"}
  BY DEF TypeInv
<1> USE <1>0
<1>1. CASE UNCHANGED <<threadVars, job>>
  BY <1>1 DEF Destruction, Ended
<1>2. CASE InitManager
  <2>1. UNCHANGED <<pthread, pc, destroyVars, active>> /\ starting' = 1
        /\ destroyer = "none"
    BY <1>2 DEF InitManager
  <2>2. QED
    BY <2>1 DEF Destruction, Ended
<1>3. CASE StartThread
  <2>1. UNCHANGED <<destroyVars, active, lst>> /\ starting > 0 /\ starting' = starting + 1
    BY <1>3 DEF StartThread
  <2>2. QED
    BY <2>1 DEF Destruction, Ended
<1>4. CASE Started
  <2>1. UNCHANGED <<destroyVars, lst, pc, pthread>> /\ starting > 0 /\ starting' = 0
        /\ active'
    BY <1>4 DEF Started
  <2>2. QED
    BY <2>1 DEF Destruction, Ended
<1>5. ASSUME NEW by \in Threads \cup {App}, Caller(by), Destroy(by), UNCHANGED wrapVars
      PROVE  Destruction'
  <2>1. /\ UNCHANGED <<lst, starting, pc, pthread, event, job>>
        /\ destroyer = "none" /\ starting = 0 /\ dpc = "none" /\ destroyer' = by
        /\ \/ active /\ dpc' = "join" /\ at' = 1
           \/ ~active /\ dpc' = "delete" /\ at' = 0
    BY <1>5 DEF Destroy, JoinFirst, Destruction
  <2>2. by \in Threads => pc[by] = "callback" /\ job[by].step = "app"
    BY <1>5, <2>1 DEF Caller, Jobs
  <2>3. by # "none"
    OBVIOUS
  <2>4. dpc' = "join" => \A i \in DOMAIN lst : ~(i < at')
    BY <2>1
  <2>5. dpc' = "delete" => lst = <<>>
    BY <2>1 DEF Destruction
  <2>6. QED
    BY <2>1, <2>2, <2>3, <2>4, <2>5 DEF Destruction, Ended
<1>6. CASE JoinThread /\ UNCHANGED wrapVars
  <2>1. /\ UNCHANGED <<lst, pc, managerVars, event, destroyer, dpc, job>>
        /\ dpc = "join" /\ at' = at + 1 /\ at \in DOMAIN lst
    BY <1>6 DEF JoinThread, Destruction
  <2>2. PICK t \in Threads : t = lst[at]
    BY <2>1
  <2>3. pthread' = pthread \/ pthread' = [pthread EXCEPT ![t] = "joined"]
    BY <1>6, <2>2 DEF JoinThread
  <2>4. \A u \in Threads : Ended(u) => (pthread'[u] \in {"none", "joined"} \/ u = destroyer)
    BY <2>3 DEF Ended
  <2>5. pthread'[t] \in {"none", "joined"} \/ t = destroyer
    <3>1. CASE ~Joinable(t)
      <4>1. pthread[t] \in {"none", "joined"}
        BY <3>1 DEF Joinable, Lifecycle
      <4>2. QED
        BY <2>3, <4>1
    <3>2. CASE Joinable(t) /\ JoinDone(t) /\ Joined(t)
      <4>1. pthread' = [pthread EXCEPT ![t] = "joined"]
        BY <1>6, <2>2, <3>2 DEF JoinThread
      <4>2. QED
        BY <4>1
    <3>3. CASE Joinable(t) /\ JoinDone(t) /\ ~Joined(t)
      <4>1. pthread[t] \in {"none", "joined"} \/ t = destroyer
        BY <3>3 DEF JoinDone, Joined, TypeInv
      <4>2. QED
        BY <2>3, <4>1
    <3>4. QED
      BY <1>6, <2>2, <3>1, <3>2, <3>3 DEF JoinThread
  <2>6. \A i \in DOMAIN lst : i < at + 1 => i < at \/ i = at
    BY <2>1
  <2>7. \A i \in DOMAIN lst : i < at => Ended(lst[i])
    BY <2>1 DEF Destruction
  <2>8. \A i \in DOMAIN lst :
          i < at + 1 => (pthread'[lst[i]] \in {"none", "joined"} \/ lst[i] = destroyer)
    BY <2>2, <2>4, <2>5, <2>6, <2>7
  <2>9. QED
    BY <2>1, <2>8 DEF Destruction, Ended
<1>7. CASE DeleteEvent /\ UNCHANGED wrapVars
  <2>1. /\ UNCHANGED <<loopVars, managerVars, destroyer, job>>
        /\ ~event' /\ dpc' = "release" /\ at' = 1
        /\ \/ dpc = "join" /\ at > Len(lst)
           \/ dpc = "delete"
    BY <1>7 DEF DeleteEvent
  <2>2. \A t \in Threads : Ended(t)
    <3>1. \A i \in DOMAIN lst : Ended(lst[i])
      BY <2>1 DEF Destruction
    <3>2. \A t \in Threads : pc[t] = "none" => Ended(t)
      BY DEF Lifecycle, Ended
    <3>3. QED
      BY <3>1, <3>2 DEF Made
  <2>3. QED
    BY <2>1, <2>2 DEF Destruction, Ended
<1>8. CASE ReleaseThread /\ UNCHANGED wrapVars
  <2>1. /\ UNCHANGED <<lst, pc, pthread, managerVars, event, destroyer, dpc, job>>
        /\ dpc = "release" /\ at' = at + 1
    BY <1>8 DEF ReleaseThread
  <2>2. QED
    BY <2>1 DEF Destruction, Ended
<1>9. CASE Gone /\ UNCHANGED wrapVars
  <2>1. /\ UNCHANGED <<lst, pthread, managerVars, event, destroyer, at, job>>
        /\ dpc = "release" /\ dpc' = "gone"
    BY <1>9 DEF Gone
  <2>2. destroyer \in Threads => pc'[destroyer] = "wild"
    BY <1>9 DEF Gone
  <2>3. QED
    BY <2>1, <2>2 DEF Destruction, Ended
<1>10. ASSUME NEW t \in Threads, UNCHANGED <<lst, managerVars, destroyVars>>,
              NEW label, pc' = [pc EXCEPT ![t] = label],
              t = destroyer => /\ dpc = "gone" => label \in {"wild", "ended", "exited"}
                               /\ dpc # "gone" => label = "callback",
              UNCHANGED pthread \/ (pthread' = [pthread EXCEPT ![t] = "exited"]
                                    /\ pthread[t] = "running"),
              \A u \in Threads : job'[u] = job[u] \/ (u = t /\ t # destroyer)
       PROVE  Destruction'
  <2>1. \A u \in Threads : Ended(u) => (pthread'[u] \in {"none", "joined"} \/ u = destroyer)
    BY <1>10 DEF Ended
  <2>2. \A i \in DOMAIN lst : lst[i] \in Threads
    OBVIOUS
  <2>3. destroyer \in Threads =>
          IF dpc = "gone" THEN pc'[destroyer] \in {"wild", "ended", "exited"}
          ELSE pc'[destroyer] = "callback" /\ job'[destroyer].step = "app"
    BY <1>10 DEF Destruction
  <2>4. QED
    BY <1>10, <2>1, <2>2, <2>3 DEF Destruction, Ended
<1>11. ASSUME NEW t \in Threads, ThreadMain(t) \/ LoopTop(t) \/ NoEvents(t),
              UNCHANGED wrapVars
       PROVE  Destruction'
  <2>1. /\ UNCHANGED <<lst, managerVars, destroyVars, pthread, job>>
        /\ pc[t] \in {"main", "top", "events"}
        /\ \E label : pc' = [pc EXCEPT ![t] = label]
    BY <1>11 DEF ThreadMain, LoopTop, NoEvents, Goto
  <2>2. t # destroyer
    BY <2>1 DEF Destruction
  <2>3. QED
    BY <1>10, <2>1, <2>2
<1>12. ASSUME NEW t \in Threads, WildReturn(t), UNCHANGED wrapVars
       PROVE  Destruction'
  <2>1. /\ UNCHANGED <<lst, managerVars, destroyVars, pthread, job>> /\ pc[t] = "wild"
        /\ pc' = [pc EXCEPT ![t] = "ended"]
    BY <1>12 DEF WildReturn, Goto
  <2>2. t = destroyer => dpc = "gone"
    BY <2>1 DEF Destruction
  <2>3. QED
    BY <1>10, <2>1, <2>2
<1>13. ASSUME NEW t \in Threads, ThreadEnds(t), UNCHANGED wrapVars
       PROVE  Destruction'
  <2>1. /\ UNCHANGED <<lst, managerVars, destroyVars, job>> /\ pc[t] = "ended"
        /\ pc' = [pc EXCEPT ![t] = "exited"]
        /\ pthread' = [pthread EXCEPT ![t] = "exited"]
    BY <1>13 DEF ThreadEnds, Goto
  <2>2. t = destroyer => dpc = "gone"
    BY <2>1 DEF Destruction
  <2>3. pthread[t] = "running"
    BY <2>1 DEF Lifecycle, TypeInv
  <2>4. QED
    BY <1>10, <2>1, <2>2, <2>3
<1>14. ASSUME NEW t \in Threads, Dispatch(t) \/ Return(t)
       PROVE  Destruction'
  <2>1. /\ UNCHANGED <<lst, managerVars, destroyVars, pthread>>
        /\ pc[t] = "events" \/ destroyer # t
        /\ \E label : pc' = [pc EXCEPT ![t] = label]
        /\ \E j : job' = [job EXCEPT ![t] = j]
    BY <1>14 DEF Dispatch, Return, Goto
  <2>2. t # destroyer
    BY <2>1 DEF Destruction
  <2>3. QED
    BY <1>10, <2>1, <2>2
<1>15. ASSUME NEW t \in Threads, LoopClose(t) \/ Tell(t), UNCHANGED threadVars
       PROVE  Destruction'
  <2>1. job[t].step \in {"close", "tell"}
    BY <1>15 DEF LoopClose, Tell
  <2>2. t = destroyer => dpc = "gone"
    BY <2>1 DEF Destruction
  <2>3. \A u \in Threads \ {t} : job'[u] = job[u]
    BY <1>15 DEF LoopClose, Tell, JobStep
  <2>4. QED
    BY <1>15, <2>2, <2>3 DEF Destruction, Ended
<1>16. ASSUME \/ BeginCall \/ CallClose \/ CloseDone \/ JavaClosed \/ CallConnect
              \/ Store
       PROVE  UNCHANGED job
  BY <1>16 DEF BeginCall, CallClose, CloseDone, JavaClosed, CallConnect, Store
<1>17. QED
  BY <1>1, <1>2, <1>3, <1>4, <1>5, <1>6, <1>7, <1>8, <1>9, <1>11, <1>12, <1>13,
     <1>14, <1>15, <1>16, Steps

----------------------------------------------------------------------------
(* The calls and the callbacks.                                            *)

\* What a callback does with its handle.
LEMMA JobSteps ==
  ASSUME WrapInv, [Next]_vars
  PROVE  \/ UNCHANGED job
         \/ \E t \in Threads, h \in Handles : \E kind \in {"connect", "read", "close"} :
              /\ pc[t] = "events" /\ pc' = [pc EXCEPT ![t] = "callback"]
              /\ table[h] = "online" /\ \A u \in Threads : job[u].h # h
              /\ job' = [job EXCEPT ![t] = [step |-> IF kind = "close" THEN "close"
                                                                       ELSE "tell",
                                            kind |-> kind, h |-> h]]
         \/ \E t \in Threads : LoopClose(t) \/ Tell(t) \/ Return(t)
<1>1. ASSUME NEW t \in Threads, Dispatch(t)
      PROVE  \E h \in Handles : \E kind \in {"connect", "read", "close"} :
               /\ pc[t] = "events" /\ pc' = [pc EXCEPT ![t] = "callback"]
               /\ table[h] = "online" /\ \A u \in Threads : job[u].h # h
               /\ job' = [job EXCEPT ![t] = [step |-> IF kind = "close" THEN "close"
                                                                        ELSE "tell",
                                             kind |-> kind, h |-> h]]
  BY <1>1 DEF Dispatch, Goto
<1>2. ASSUME \/ BeginCall \/ CallClose \/ CloseDone \/ JavaClosed \/ CallConnect
             \/ Store
      PROVE  UNCHANGED job
  BY <1>2 DEF BeginCall, CallClose, CloseDone, JavaClosed, CallConnect, Store
<1>3. QED
  BY <1>1, <1>2, Steps

\* A loop leaves a callback by the callback's return.
LEMMA CallbackKept ==
  ASSUME WrapInv, [Next]_vars, NEW t \in Threads
  PROVE  /\ pc[t] = "callback" => pc'[t] = "callback" \/ Return(t) \/ t = destroyer'
         /\ t = destroyer => t = destroyer'
<1> USE DEF WrapInv
<1>0. /\ pc = [u \in Threads |-> pc[u]] /\ destroyer \in Threads \cup {App, "none"}
      /\ lst \in Seq(Threads)
  BY DEF TypeInv
<1> USE <1>0
<1>1. CASE UNCHANGED <<pc, destroyer>>
  BY <1>1
<1>2. ASSUME InitManager \/ Started \/ JoinThread \/ DeleteEvent \/ ReleaseThread
      PROVE  UNCHANGED <<pc, destroyer>>
  BY <1>2 DEF InitManager, Started, JoinThread, DeleteEvent, ReleaseThread
<1>3. CASE StartThread
  <2>1. PICK u : u = lst[starting]
    OBVIOUS
  <2>2. \/ UNCHANGED <<pc, destroyer>>
        \/ /\ UNCHANGED destroyer /\ u \in Threads /\ object[u].state = "uninitialized"
           /\ pc' = [pc EXCEPT ![u] = "main"]
    BY <1>3, <2>1 DEF StartThread, Goto
  <2>3. QED
    BY <2>2 DEF Lifecycle
<1>4. ASSUME NEW by, Destroy(by)
      PROVE  UNCHANGED pc /\ destroyer = "none"
  BY <1>4 DEF Destroy
<1>5. CASE Gone
  BY <1>5 DEF Gone
<1>6. ASSUME NEW u \in Threads,
             \/ ThreadMain(u) \/ LoopTop(u) \/ NoEvents(u) \/ ThreadEnds(u)
             \/ WildReturn(u) \/ Dispatch(u)
      PROVE  /\ UNCHANGED destroyer /\ pc[u] # "callback"
             /\ \E label : pc' = [pc EXCEPT ![u] = label]
  BY <1>6 DEF ThreadMain, LoopTop, NoEvents, ThreadEnds, WildReturn, Dispatch, Goto
<1>7. ASSUME NEW u \in Threads, Return(u)
      PROVE  UNCHANGED destroyer /\ \E label : pc' = [pc EXCEPT ![u] = label]
  BY <1>7 DEF Return, Goto
<1>8. ASSUME NEW u \in Threads, NEW label, pc' = [pc EXCEPT ![u] = label], u # t
      PROVE  pc'[t] = pc[t]
  BY <1>8
<1>9. QED
  BY <1>1, <1>2, <1>3, <1>4, <1>5, <1>6, <1>7, <1>8, Steps

\* Callbacks work on handles of their own, and onClose is told of closed ones.
LEMMA JobsStep ==
  ASSUME WrapInv, [Next]_vars
  PROVE  Jobs'
<1>t. /\ \A h \in Handles : table[h] # "unused" => table'[h] # "unused"
      /\ \A h \in Handles : table[h] = "offline" => table'[h] = "offline"
  BY TableSteps
<1> USE DEF WrapInv
<1>0. /\ job \in [Threads -> JobType]
      /\ pc = [t \in Threads |-> pc[t]]
  BY DEF TypeInv
<1> USE <1>0
<1>1. CASE UNCHANGED job
  <2>0. \A t \in Threads : ~Return(t)
    BY <1>1 DEF Return, NoJob
  <2>1. \A t \in Threads : pc[t] = "callback" \/ t = destroyer =>
          pc'[t] = "callback" \/ t = destroyer'
    BY <2>0, CallbackKept
  <2>2. QED
    BY <1>1, <2>1, <1>t DEF Jobs
<1>2. ASSUME NEW t \in Threads, NEW h \in Handles, NEW kind \in {"connect", "read", "close"},
             pc[t] = "events", pc' = [pc EXCEPT ![t] = "callback"],
             table[h] = "online", \A u \in Threads : job[u].h # h,
             job' = [job EXCEPT ![t] = [step |-> IF kind = "close" THEN "close" ELSE "tell",
                                        kind |-> kind, h |-> h]]
      PROVE  Jobs'
  <2>1. /\ \A u \in Threads \ {t} : job'[u] = job[u] /\ pc'[u] = pc[u]
        /\ job'[t].h = h /\ job'[t].kind = kind /\ pc'[t] = "callback"
        /\ kind = "close" => job'[t].step = "close"
    BY <1>2
  <2>2. \A u \in Threads : u = destroyer => u = destroyer'
    BY CallbackKept
  <2>3. QED
    BY <1>2, <2>1, <2>2, <1>t DEF Jobs
<1>3. ASSUME NEW t \in Threads, LoopClose(t)
      PROVE  Jobs'
  <2>1. /\ \A u \in Threads \ {t} : job'[u] = job[u]
        /\ job'[t].h = job[t].h /\ job'[t].kind = job[t].kind
        /\ job[t].step = "close" /\ UNCHANGED <<pc, destroyer>>
    BY <1>3 DEF LoopClose, JobStep
  <2>2. table'[job[t].h] = "offline"
    <3>1. job[t].h \in Handles
      BY <2>1 DEF Jobs
    <3>2. table[job[t].h] # "unused"
      BY <2>1 DEF Jobs
    <3>3. QED
      BY <1>3, <3>1, <3>2 DEF LoopClose, NetWork!GoOffline, TypeInv
  <2>3. QED
    BY <2>1, <2>2, <1>t DEF Jobs
<1>4. ASSUME NEW t \in Threads, Tell(t)
      PROVE  Jobs'
  <2>1. /\ \A u \in Threads \ {t} : job'[u] = job[u]
        /\ job'[t].h = job[t].h /\ job'[t].kind = job[t].kind
        /\ job[t].step = "tell" /\ job'[t].step # "close" /\ UNCHANGED <<pc, destroyer>>
    BY <1>4 DEF Tell, JobStep
  <2>2. QED
    BY <2>1, <1>t DEF Jobs
<1>5. ASSUME NEW t \in Threads, Return(t)
      PROVE  Jobs'
  <2>1. /\ \A u \in Threads \ {t} : job'[u] = job[u] /\ pc'[u] = pc[u]
        /\ job'[t] = NoJob /\ UNCHANGED destroyer
    BY <1>5 DEF Return, Goto
  <2>2. QED
    BY <2>1, <1>t DEF Jobs, NoJob
<1>6. QED
  BY <1>1, <1>2, <1>3, <1>4, <1>5, JobSteps

\* How a call begins: connect closes the old connection first on iOS; close.
LEMMA Begins ==
  ASSUME WrapInv, BeginCall
  PROVE  /\ UNCHANGED <<threadVars, platform, service, bookVars, job, heard, dropped, lost>>
         /\ call = NoCall
         /\ \E by \in Threads \cup {App} :
              \/ /\ call' = [by |-> by, op |-> "connect", h |-> id, step |-> "close"]
                 /\ platform = "ios" /\ id \in Handles /\ closing' = closing \cup {id}
              \/ /\ call' = [by |-> by, op |-> "connect", h |-> id, step |-> "connect"]
                 /\ platform = "ios" => id = None
                 /\ UNCHANGED closing
              \/ \E h \in Handles :
                   /\ call' = [by |-> by, op |-> "close", step |-> "close", h |-> h]
                   /\ h = id \/ table[h] # "unused"
                   /\ closing' = closing \cup {h}
<1>0. id \in Handles \cup {None} /\ None \notin Handles
  BY DEF WrapInv, TypeInv
<1>1. /\ UNCHANGED <<threadVars, platform, service, bookVars, job, heard, dropped, lost>>
      /\ call = NoCall
      /\ closing' = IF call'.step = "close" THEN closing \cup {call'.h} ELSE closing
  BY DEF BeginCall
<1>2. PICK by \in Threads \cup {App} : BeginConnect(by) \/ BeginClose(by)
  BY DEF BeginCall
<1>3. CASE BeginConnect(by) /\ platform = "ios" /\ id # None
  <2>1. call' = [by |-> by, op |-> "connect", h |-> id, step |-> "close"]
    BY <1>3 DEF BeginConnect
  <2>2. QED
    BY <1>0, <1>1, <1>3, <2>1
<1>4. CASE BeginConnect(by) /\ ~(platform = "ios" /\ id # None)
  <2>1. call' = [by |-> by, op |-> "connect", h |-> id, step |-> "connect"]
    BY <1>4 DEF BeginConnect
  <2>2. QED
    BY <1>1, <1>4, <2>1
<1>5. CASE BeginClose(by)
  <2>1. PICK h \in Handles :
          /\ call' = [by |-> by, op |-> "close", step |-> "close", h |-> h]
          /\ h = id \/ table[h] # "unused"
    BY <1>5 DEF BeginClose
  <2>2. QED
    BY <1>1, <2>1
<1>6. QED
  BY <1>2, <1>3, <1>4, <1>5

\* Close has been asked for what it closes, and what connect got is used.
LEMMA CallsStep ==
  ASSUME WrapInv, [Next]_vars
  PROVE  Calls'
<1>t. /\ \A h \in Handles : table[h] # "unused" => table'[h] # "unused"
      /\ \A h \in Handles : table[h] = "offline" => table'[h] = "offline"
  BY TableSteps
<1>0. Calls /\ id \in Handles \cup {None} /\ None \notin Handles
  BY DEF WrapInv, TypeInv
<1>c. /\ call = [by |-> call.by, op |-> call.op, step |-> call.step, h |-> call.h]
      /\ table \in [Handles -> {"unused", "online", "offline"}]
  BY DEF WrapInv, TypeInv
<1>1. CASE UNCHANGED <<call, closing, id>>
  BY <1>t, <1>0, <1>1 DEF Calls
<1>2. CASE BeginCall
  BY <1>2, <1>0, Begins DEF Calls
<1>3. CASE CallClose
  <2>1. /\ UNCHANGED <<id, closing>> /\ call.step = "close"
        /\ call' = [call EXCEPT !.step = "closed"]
        /\ IF table[call.h] = "online" THEN NetWork!GoOffline(call.h) ELSE UNCHANGED table
    BY <1>3 DEF CallClose
  <2>2. call'.h = call.h /\ call'.step = "closed"
    BY <1>c, <2>1
  <2>3. table'[call.h] = "offline"
    BY <1>0, <1>c, <2>1 DEF Calls, NetWork!GoOffline
  <2>4. QED
    BY <1>t, <1>0, <2>1, <2>2, <2>3 DEF Calls
<1>4. CASE CloseDone
  <2>1. /\ UNCHANGED <<closing, table>>
        /\ \/ id' = None /\ call'.step = "connect"
           \/ UNCHANGED id /\ call' = NoCall
    BY <1>c, <1>4 DEF CloseDone
  <2>2. QED
    BY <1>0, <2>1 DEF Calls, NoCall
<1>5. CASE JavaClosed
  <2>1. UNCHANGED <<closing, table, id>> /\ call' = NoCall
    BY <1>5 DEF JavaClosed
  <2>2. QED
    BY <1>0, <2>1 DEF Calls, NoCall
<1>6. CASE CallConnect
  <2>1. CASE call' = NoCall
    BY <1>t, <1>0, <1>6, <2>1 DEF Calls, NoCall, CallConnect
  <2>2. ASSUME NEW h \in Handles, NetWork!GoOnline(h),
               call' = [call EXCEPT !.step = "store", !.h = h]
        PROVE  Calls'
    <3>1. call'.step = "store" /\ call'.h = h /\ table'[h] = "online"
      BY <1>c, <2>2 DEF NetWork!GoOnline
    <3>2. QED
      BY <1>t, <1>0, <1>6, <3>1 DEF Calls, CallConnect
  <2>3. QED
    BY <1>6, <2>1, <2>2 DEF CallConnect, Refused
<1>7. CASE Store
  <2>1. UNCHANGED <<closing, table>> /\ call' = NoCall /\ id' = call.h
        /\ call.step = "store"
    BY <1>7 DEF Store
  <2>2. QED
    BY <1>0, <2>1 DEF Calls, NoCall
<1>8. ASSUME NEW t \in Threads, Dispatch(t) \/ LoopClose(t) \/ Tell(t) \/ Return(t)
      PROVE  UNCHANGED <<call, closing, id>>
  BY <1>8 DEF Dispatch, LoopClose, Tell, Return
<1>9. QED
  BY <1>1, <1>2, <1>3, <1>4, <1>5, <1>6, <1>7, <1>8, Steps

\* iOS: one handle at a time is online.
LEMMA OneOnlineStep ==
  ASSUME WrapInv, [Next]_vars
  PROVE  OneOnline'
<1>0. /\ OneOnline /\ Reachable /\ Calls
      /\ id \in Handles \cup {None} /\ None \notin Handles
      /\ call = [by |-> call.by, op |-> call.op, step |-> call.step, h |-> call.h]
      /\ call.op \in {"none", "connect", "close"}
      /\ table \in [Handles -> {"unused", "online", "offline"}]
  BY DEF WrapInv, TypeInv
<1>1. ASSUME UNCHANGED <<call, id, platform>>,
             \A h \in Handles : table'[h] = "online" => table[h] = "online"
      PROVE  OneOnline'
  BY <1>0, <1>1 DEF OneOnline
<1>2. CASE BeginCall
  <2>1. UNCHANGED <<platform, table, id>> /\ call = NoCall
    BY <1>2, Begins
  <2>2. platform = "ios" /\ id = None => \A h \in Handles : table[h] # "online"
    BY <1>0, <2>1 DEF Reachable, NoCall
  <2>3. \/ call'.op = "connect" /\ call'.step = "close" /\ call'.h = id
        \/ call'.step = "connect" /\ (platform = "ios" => id = None)
        \/ call'.op = "close" /\ call'.step = "close"
    BY <1>2, Begins
  <2>4. QED
    BY <2>1, <2>2, <2>3 DEF OneOnline
<1>3. CASE CallClose
  <2>1. /\ UNCHANGED <<id, platform>> /\ call.step = "close"
        /\ call' = [call EXCEPT !.step = "closed"]
        /\ IF table[call.h] = "online" THEN NetWork!GoOffline(call.h) ELSE UNCHANGED table
    BY <1>3 DEF CallClose
  <2>2. call'.step = "closed" /\ call'.op = call.op
    BY <1>0, <2>1
  <2>3. \A h \in Handles : table'[h] = "online" => table[h] = "online" /\ h # call.h
    BY <1>0, <2>1 DEF NetWork!GoOffline
  <2>4. QED
    BY <1>0, <2>1, <2>2, <2>3 DEF OneOnline, Reachable
<1>4. CASE CloseDone
  <2>1. /\ UNCHANGED <<platform, table>> /\ call.step = "closed"
        /\ \/ /\ call.op = "connect" /\ call' = [call EXCEPT !.step = "connect"]
           \/ call' = NoCall
    BY <1>4 DEF CloseDone
  <2>2. CASE call' = NoCall
    BY <2>1, <2>2 DEF OneOnline, NoCall
  <2>3. CASE call.op = "connect" /\ call' = [call EXCEPT !.step = "connect"]
    <3>1. call'.step = "connect"
      BY <1>0, <2>3
    <3>2. QED
      BY <1>0, <2>1, <2>3, <3>1 DEF OneOnline
  <2>4. QED
    BY <2>1, <2>2, <2>3
<1>5. CASE JavaClosed \/ Store
  <2>1. call' = NoCall
    BY <1>5 DEF JavaClosed, Store
  <2>2. QED
    BY <2>1 DEF OneOnline, NoCall
<1>6. CASE CallConnect
  <2>1. CASE call' = NoCall
    BY <2>1 DEF OneOnline, NoCall
  <2>2. ASSUME NEW h \in Handles, NetWork!GoOnline(h),
               call' = [call EXCEPT !.step = "store", !.h = h]
        PROVE  OneOnline'
    <3>1. call'.step = "store" /\ call'.h = h
      BY <1>0, <2>2
    <3>2. \A g \in Handles : table'[g] = "online" => table[g] = "online" \/ g = h
      BY <1>0, <2>2 DEF NetWork!GoOnline
    <3>3. UNCHANGED platform /\ call.step = "connect"
      BY <1>6 DEF CallConnect
    <3>4. QED
      BY <1>0, <3>1, <3>2, <3>3 DEF OneOnline
  <2>3. QED
    BY <1>6, <2>1, <2>2 DEF CallConnect, Refused
<1>7. ASSUME NEW t \in Threads, LoopClose(t)
      PROVE  OneOnline'
  <2>1. UNCHANGED <<call, id, platform>>
    BY <1>7 DEF LoopClose
  <2>2. UNCHANGED table \/ NetWork!GoOffline(job[t].h)
    BY <1>7 DEF LoopClose
  <2>3. \A h \in Handles : table'[h] = "online" => table[h] = "online"
    BY <1>0, <2>2 DEF NetWork!GoOffline
  <2>4. QED
    BY <1>1, <2>1, <2>3
<1>8. CASE UNCHANGED wrapVars
  BY <1>1, <1>8
<1>9. ASSUME NEW t \in Threads, Dispatch(t) \/ Return(t)
      PROVE  UNCHANGED <<call, id, platform, table>>
  BY <1>9 DEF Dispatch, Return
<1>10. ASSUME NEW t \in Threads, Tell(t)
       PROVE  UNCHANGED <<call, id, platform, table>>
  BY <1>10, TellTable DEF Tell
<1>11. QED
  BY <1>1, <1>2, <1>3, <1>4, <1>5, <1>6, <1>7, <1>8, <1>9, <1>10, Steps

\* iOS: a handle that is online stays in the dictionary.
LEMMA ReachableStep ==
  ASSUME WrapInv, [Next]_vars
  PROVE  Reachable'
<1>0. /\ Reachable /\ OneOnline /\ Calls /\ Jobs
      /\ id \in Handles \cup {None} /\ None \notin Handles
      /\ call = [by |-> call.by, op |-> call.op, step |-> call.step, h |-> call.h]
      /\ call.op \in {"none", "connect", "close"}
      /\ table \in [Handles -> {"unused", "online", "offline"}]
  BY DEF WrapInv, TypeInv
<1>1. ASSUME UNCHANGED <<platform, call, id>>,
             \A h \in Handles : table'[h] = "online" => table[h] = "online",
             \A h \in Handles : table'[h] = "online" /\ h \in dict => h \in dict'
      PROVE  Reachable'
  BY <1>0, <1>1 DEF Reachable
<1>2. CASE BeginCall
  <2>1. UNCHANGED <<platform, table, id, dict>> /\ call = NoCall
    BY <1>2, Begins
  <2>2. QED
    BY <1>0, <2>1 DEF Reachable, NoCall
<1>3. CASE CallClose
  <2>1. /\ UNCHANGED <<id, platform, dict>> /\ call.step = "close"
        /\ UNCHANGED table \/ NetWork!GoOffline(call.h)
    BY <1>3 DEF CallClose
  <2>2. \A h \in Handles : table'[h] = "online" => table[h] = "online"
    BY <1>0, <2>1 DEF NetWork!GoOffline
  <2>3. QED
    BY <1>0, <2>1, <2>2 DEF Reachable
<1>4. CASE CloseDone
  <2>1. /\ UNCHANGED <<platform, table>> /\ call.step = "closed"
        /\ dict' = dict \ {call.h}
        /\ call.op = "connect" \/ UNCHANGED id
    BY <1>4 DEF CloseDone
  <2>2. table[call.h] = "offline"
    BY <1>0, <2>1 DEF Calls
  <2>3. CASE call.op = "connect"
    BY <1>0, <2>1, <2>3 DEF Reachable, OneOnline
  <2>4. CASE UNCHANGED id
    BY <1>0, <2>1, <2>2, <2>4 DEF Reachable
  <2>5. QED
    BY <2>1, <2>3, <2>4
<1>5. CASE JavaClosed
  BY <1>5 DEF JavaClosed, Reachable
<1>6. CASE CallConnect
  <2>1. UNCHANGED <<platform, id, dict>> /\ call.step = "connect"
    BY <1>6 DEF CallConnect
  <2>2. CASE UNCHANGED table
    BY <1>0, <2>1, <2>2 DEF Reachable, OneOnline
  <2>3. ASSUME NEW h \in Handles, NetWork!GoOnline(h),
               call' = [call EXCEPT !.step = "store", !.h = h]
        PROVE  Reachable'
    <3>1. call'.step = "store" /\ call'.h = h
      BY <1>0, <2>3
    <3>2. \A g \in Handles : table'[g] = "online" => table[g] = "online" \/ g = h
      BY <1>0, <2>3 DEF NetWork!GoOnline
    <3>3. QED
      BY <1>0, <2>1, <3>1, <3>2 DEF Reachable, OneOnline
  <2>4. QED
    BY <1>6, <2>2, <2>3 DEF CallConnect
<1>7. CASE Store
  <2>1. /\ UNCHANGED <<platform, table>> /\ id' = call.h /\ call.step = "store"
        /\ platform = "ios" => dict' = dict \cup {call.h}
    BY <1>7 DEF Store
  <2>2. QED
    BY <1>0, <2>1 DEF Reachable, OneOnline
<1>8. ASSUME NEW t \in Threads, LoopClose(t)
      PROVE  Reachable'
  <2>1. UNCHANGED <<call, id, platform, dict>>
    BY <1>8 DEF LoopClose
  <2>2. UNCHANGED table \/ NetWork!GoOffline(job[t].h)
    BY <1>8 DEF LoopClose
  <2>3. \A h \in Handles : table'[h] = "online" => table[h] = "online"
    BY <1>0, <2>2 DEF NetWork!GoOffline
  <2>4. QED
    BY <1>1, <2>1, <2>3
<1>9. CASE UNCHANGED wrapVars
  BY <1>1, <1>9
<1>10. ASSUME NEW t \in Threads, Return(t)
       PROVE  Reachable'
  <2>1. /\ UNCHANGED <<call, id, platform, table>>
        /\ job[t].step \in {"app", "after"}
        /\ dict' = IF job[t].kind = "close" THEN dict \ {job[t].h} ELSE dict
    BY <1>10 DEF Return, RemoveClosed
  <2>2. job[t].kind = "close" => table[job[t].h] = "offline"
    BY <1>0, <2>1 DEF Jobs
  <2>3. QED
    BY <1>1, <2>1, <2>2
<1>11. ASSUME NEW t \in Threads, Dispatch(t)
       PROVE  UNCHANGED <<call, id, platform, table, dict>>
  BY <1>11 DEF Dispatch
<1>12. ASSUME NEW t \in Threads, Tell(t)
       PROVE  UNCHANGED <<call, id, platform, table, dict>>
  BY <1>12, TellTable DEF Tell
<1>13. QED
  BY <1>1, <1>2, <1>3, <1>4, <1>5, <1>6, <1>7, <1>8, <1>9, <1>10, <1>11, <1>12, Steps

\* iOS: a callback under way will find its connection, unless connect has not
\* stored it yet or the application closes it.
LEMMA FoundStep ==
  ASSUME WrapInv, [Next]_vars
  PROVE  Found'
<1>0. /\ Found /\ Reachable /\ Calls /\ Jobs
      /\ call = [by |-> call.by, op |-> call.op, step |-> call.step, h |-> call.h]
      /\ job \in [Threads -> JobType]
  BY DEF WrapInv, TypeInv
<1>1. ASSUME UNCHANGED platform, closing \subseteq closing',
             dict \subseteq dict' \cup closing',
             call.step = "store" => UNCHANGED call \/ (platform = "ios" => call.h \in dict'),
             \A t \in Threads : job'[t].step \in {"close", "tell"} =>
               job[t].step \in {"close", "tell"} /\ job'[t].h = job[t].h
      PROVE  Found'
  BY <1>0, <1>1 DEF Found
<1>2. CASE UNCHANGED <<platform, dict, closing, call, job>>
  BY <1>1, <1>2
<1>3. CASE BeginCall
  <2>1. /\ UNCHANGED <<platform, dict, job>> /\ call.step # "store"
        /\ closing \subseteq closing'
    BY <1>3, Begins DEF NoCall
  <2>2. QED
    BY <1>1, <2>1
<1>4. ASSUME CallClose \/ JavaClosed \/ CallConnect
      PROVE  UNCHANGED <<platform, dict, closing, job>> /\ call.step # "store"
  BY <1>4 DEF CallClose, JavaClosed, CallConnect
<1>5. CASE CloseDone
  <2>1. /\ UNCHANGED <<platform, closing, job>> /\ call.step = "closed"
        /\ dict' = dict \ {call.h}
    BY <1>5 DEF CloseDone
  <2>2. call.h \in closing
    BY <1>0, <2>1 DEF Calls
  <2>3. QED
    BY <1>1, <2>1, <2>2
<1>6. CASE Store
  <2>1. /\ UNCHANGED <<platform, closing, job>>
        /\ platform = "ios" => dict' = dict \cup {call.h}
        /\ platform # "ios" => dict' = dict
    BY <1>6 DEF Store
  <2>2. QED
    BY <1>1, <2>1
<1>7. ASSUME NEW t \in Threads, LoopClose(t) \/ Tell(t)
      PROVE  Found'
  <2>1. /\ UNCHANGED <<platform, dict, closing, call>>
        /\ job[t].step \in {"close", "tell"} /\ job'[t].h = job[t].h
        /\ \A u \in Threads \ {t} : job'[u] = job[u]
    BY <1>0, <1>7 DEF LoopClose, Tell, JobStep
  <2>2. QED
    BY <1>1, <2>1
<1>8. ASSUME NEW t \in Threads, Return(t)
      PROVE  Found'
  <2>1. /\ UNCHANGED <<platform, closing, call>>
        /\ dict' = IF job[t].kind = "close" THEN dict \ {job[t].h} ELSE dict
        /\ job'[t].step = "none" /\ \A u \in Threads \ {t} : job'[u] = job[u]
    BY <1>0, <1>8 DEF Return, RemoveClosed, NoJob
  <2>2. \A u \in Threads \ {t} : job[u].step # "none" => job[u].h # job[t].h
    BY <1>0 DEF Jobs, WrapInv, TypeInv
  <2>3. QED
    BY <1>0, <2>1, <2>2 DEF Found
<1>9. ASSUME NEW t \in Threads, Dispatch(t)
      PROVE  Found'
  <2>1. PICK h \in Handles :
          /\ table[h] = "online" /\ UNCHANGED <<platform, dict, closing, call>>
          /\ job'[t].h = h /\ \A u \in Threads \ {t} : job'[u] = job[u]
    BY <1>0, <1>9 DEF Dispatch
  <2>2. platform = "ios" => h \in dict \/ (call.step = "store" /\ call.h = h)
    BY <1>0, <2>1 DEF Reachable
  <2>3. QED
    BY <1>0, <2>1, <2>2 DEF Found
<1>10. QED
  BY <1>1, <1>2, <1>3, <1>4, <1>5, <1>6, <1>7, <1>8, <1>9, Steps

\* iOS: why a callback found no connection.
LEMMA LostStep ==
  ASSUME WrapInv, [Next]_vars
  PROVE  LostOnlyInConnect'
<1>1. ASSUME NEW t \in Threads, Tell(t)
      PROVE  LostOnlyInConnect'
  <2> DEFINE h == job[t].h
  <2>1. \/ UNCHANGED lost
        \/ /\ platform = "ios" /\ h \notin dict /\ job[t].step = "tell"
           /\ lost' = lost \cup {<<job[t].kind, h, Missing(h)>>}
    BY <1>1 DEF Tell
  <2>2. platform = "ios" /\ h \notin dict /\ job[t].step = "tell" =>
          Missing(h) # "unknown"
    BY DEF WrapInv, Found, Missing
  <2>3. QED
    BY <2>1, <2>2 DEF WrapInv, LostOnlyInConnect
<1>2. ASSUME NEW t \in Threads, LoopClose(t) \/ Dispatch(t) \/ Return(t)
      PROVE  UNCHANGED lost
  BY <1>2 DEF LoopClose, Dispatch, Return
<1>3. ASSUME \/ BeginCall \/ CallClose \/ CloseDone \/ JavaClosed \/ CallConnect
             \/ Store
      PROVE  UNCHANGED lost
  BY <1>3 DEF BeginCall, CallClose, CloseDone, JavaClosed, CallConnect, Store
<1>4. CASE UNCHANGED lost
  BY <1>4 DEF WrapInv, LostOnlyInConnect
<1>5. QED
  BY <1>1, <1>2, <1>3, <1>4, Steps

\* What has been noted of a handle; a call, and a callback, that will see to it.
Noted(h)  == \/ heard[h] > 0 \/ h \in dropped
             \/ platform = "ios" /\ h \in closing
             \/ \E l \in lost : l[1] = "close" /\ l[2] = h
NotedOnes == {h \in Handles : Noted(h)}
Called    == {h \in Handles : call.step \in {"close", "closed"} /\ call.h = h}
Telling   == {h \in Handles : \E t \in Threads :
                /\ job[t].kind = "close" /\ job[t].h = h
                /\ job[t].step \in {"close", "tell"}}

LEMMA AnsweredSets ==
  Answered <=> \A h \in Handles :
                 table[h] = "offline" => h \in NotedOnes \cup Called \cup Telling
BY DEF Answered, NotedOnes, Noted, Called, Telling

\* A handle that went offline is heard of, or somebody will see to it.
LEMMA AnsweredStep ==
  ASSUME WrapInv, [Next]_vars
  PROVE  Answered'
<1>0. /\ Answered /\ Calls /\ Jobs
      /\ call = [by |-> call.by, op |-> call.op, step |-> call.step, h |-> call.h]
      /\ job \in [Threads -> JobType]
      /\ table \in [Handles -> {"unused", "online", "offline"}]
      /\ heard \in [Handles -> Nat] /\ platform \in {"ios", "android"}
  BY DEF WrapInv, TypeInv
<1>a. Answered' <=> \A h \in Handles :
        table'[h] = "offline" => h \in NotedOnes' \cup Called' \cup Telling'
  BY DEF Answered, NotedOnes, Noted, Called, Telling
<1>1. ASSUME \A h \in Handles : table'[h] = "offline" =>
               table[h] = "offline" \/ h \in Called' \cup Telling',
             NotedOnes \subseteq NotedOnes', Called \subseteq Called' \cup NotedOnes',
             Telling \subseteq Telling' \cup NotedOnes'
      PROVE  Answered'
  BY <1>0, <1>a, <1>1, AnsweredSets
<1>2. ASSUME UNCHANGED <<platform, dropped, heard, lost>>, closing \subseteq closing'
      PROVE  NotedOnes \subseteq NotedOnes'
  BY <1>2 DEF NotedOnes, Noted
<1>4. ASSUME UNCHANGED call PROVE Called' = Called
  BY <1>4 DEF Called
<1>5. ASSUME UNCHANGED job PROVE Telling' = Telling
  BY <1>5 DEF Telling
<1>6. CASE UNCHANGED wrapVars
  BY <1>1, <1>2, <1>4, <1>5, <1>6
<1>7. CASE BeginCall
  <2>1. /\ UNCHANGED <<platform, table, job, heard, dropped, lost>> /\ call = NoCall
        /\ closing \subseteq closing'
    BY <1>7, Begins
  <2>2. Called = {}
    BY <2>1 DEF Called, NoCall
  <2>3. QED
    BY <1>1, <1>2, <1>5, <2>1, <2>2
<1>8. CASE CallClose
  <2>1. /\ UNCHANGED <<platform, job, closing, heard, dropped, lost>> /\ call.step = "close"
        /\ call'.step = "closed" /\ call'.h = call.h
        /\ UNCHANGED table \/ NetWork!GoOffline(call.h)
    BY <1>0, <1>8 DEF CallClose
  <2>2. Called' = Called
    BY <2>1 DEF Called
  <2>3. \A h \in Handles : table'[h] = "offline" => table[h] = "offline" \/ h \in Called'
    BY <1>0, <2>1 DEF NetWork!GoOffline, Called
  <2>4. QED
    BY <1>1, <1>2, <1>5, <2>1, <2>2, <2>3
<1>9. CASE CloseDone
  <2>1. /\ UNCHANGED <<platform, table, job, closing, heard, dropped, lost>>
        /\ call.step = "closed" /\ platform = "ios"
    BY <1>9 DEF CloseDone
  <2>2. Called \subseteq NotedOnes'
    BY <1>0, <2>1 DEF Calls, Called, NotedOnes, Noted
  <2>3. QED
    BY <1>1, <1>2, <1>5, <2>1, <2>2
<1>10. CASE JavaClosed
  <2>1. /\ UNCHANGED <<platform, table, job, closing, lost>> /\ call.step = "closed"
        /\ \/ heard' = [heard EXCEPT ![call.h] = @ + 1] /\ UNCHANGED dropped
           \/ dropped' = dropped \cup {call.h} /\ UNCHANGED heard
    BY <1>10 DEF JavaClosed, CloseTold
  <2>2. NotedOnes \subseteq NotedOnes'
    BY <1>0, <2>1 DEF NotedOnes, Noted
  <2>3. Called \subseteq NotedOnes'
    BY <1>0, <2>1 DEF Calls, Called, NotedOnes, Noted
  <2>4. QED
    BY <1>1, <1>5, <2>1, <2>2, <2>3
<1>11. CASE CallConnect
  <2>1. /\ UNCHANGED <<platform, job, closing, heard, dropped, lost>>
        /\ call.step = "connect"
        /\ UNCHANGED table \/ \E h \in Handles : NetWork!GoOnline(h)
    BY <1>11 DEF CallConnect
  <2>2. Called = {}
    BY <2>1 DEF Called
  <2>3. \A h \in Handles : table'[h] = "offline" => table[h] = "offline"
    BY <1>0, <2>1 DEF NetWork!GoOnline
  <2>4. QED
    BY <1>1, <1>2, <1>5, <2>1, <2>2, <2>3
<1>12. CASE Store
  <2>1. /\ UNCHANGED <<platform, table, job, closing, heard, dropped, lost>>
        /\ call.step = "store"
    BY <1>12 DEF Store
  <2>2. Called = {}
    BY <2>1 DEF Called
  <2>3. QED
    BY <1>1, <1>2, <1>5, <2>1, <2>2
<1>13. ASSUME NEW t \in Threads, Dispatch(t)
       PROVE  Answered'
  <2>1. /\ UNCHANGED <<platform, table, call, closing, heard, dropped, lost>>
        /\ pc[t] = "events" /\ destroyer' = destroyer
        /\ \A u \in Threads \ {t} : job'[u] = job[u]
    BY <1>0, <1>13 DEF Dispatch
  <2>2. job[t].step = "none"
    <3>1. t # destroyer
      BY <2>1 DEF WrapInv, Destruction
    <3>2. QED
      BY <1>0, <2>1, <3>1 DEF Jobs
  <2>3. Telling \subseteq Telling'
    BY <2>1, <2>2 DEF Telling
  <2>4. QED
    BY <1>1, <1>2, <1>4, <2>1, <2>3
<1>14. ASSUME NEW t \in Threads, LoopClose(t)
       PROVE  Answered'
  <2>1. /\ UNCHANGED <<platform, call, closing, heard, dropped, lost>>
        /\ job[t].step = "close" /\ job'[t].step = "tell"
        /\ job'[t].kind = job[t].kind /\ job'[t].h = job[t].h
        /\ \A u \in Threads \ {t} : job'[u] = job[u]
        /\ UNCHANGED table \/ NetWork!GoOffline(job[t].h)
    BY <1>0, <1>14 DEF LoopClose, JobStep
  <2>2. Telling' = Telling
    BY <2>1 DEF Telling
  <2>3. \A h \in Handles :
          table'[h] = "offline" => table[h] = "offline" \/ h \in Telling'
    BY <1>0, <2>1 DEF NetWork!GoOffline, Telling, Jobs
  <2>4. QED
    BY <1>1, <1>2, <1>4, <2>1, <2>2, <2>3
<1>15. ASSUME NEW t \in Threads, Tell(t)
       PROVE  Answered'
  <2> DEFINE h == job[t].h
             kind == job[t].kind
  <2>1. /\ UNCHANGED <<platform, call, closing, table>> /\ h \in Handles
        /\ \A u \in Threads \ {t} : job'[u] = job[u]
    BY <1>0, <1>15, TellTable DEF Tell, JobStep, Jobs
  <2>2. \/ UNCHANGED <<dropped, lost>>
           /\ heard' = IF kind = "close" THEN [heard EXCEPT ![h] = @ + 1] ELSE heard
        \/ UNCHANGED <<heard, dropped>> /\ lost' = lost \cup {<<kind, h, Missing(h)>>}
        \/ UNCHANGED <<heard, lost>>
           /\ dropped' = IF kind = "close" THEN dropped \cup {h} ELSE dropped
    BY <1>15 DEF Tell, Hear, Drop
  <2>3. NotedOnes \subseteq NotedOnes'
    BY <1>0, <2>1, <2>2 DEF NotedOnes, Noted
  <2>4. kind = "close" => h \in NotedOnes'
    <3>1. CASE heard' = [heard EXCEPT ![h] = @ + 1]
      BY <1>0, <2>1, <3>1 DEF NotedOnes, Noted
    <3>2. CASE h \in dropped'
      BY <2>1, <3>2 DEF NotedOnes, Noted
    <3>3. CASE kind = "close" /\ <<kind, h, Missing(h)>> \in lost'
      <4>1. \E l \in lost' : l[1] = "close" /\ l[2] = h
        BY <3>3
      <4>2. QED
        BY <2>1, <4>1 DEF NotedOnes, Noted
    <3>4. QED
      BY <2>2, <3>1, <3>2, <3>3
  <2>5. Telling \subseteq Telling' \cup NotedOnes'
    BY <2>1, <2>4 DEF Telling
  <2>6. QED
    BY <1>1, <1>4, <2>1, <2>3, <2>5
<1>16. ASSUME NEW t \in Threads, Return(t)
       PROVE  Answered'
  <2>1. /\ UNCHANGED <<platform, table, call, closing, heard, dropped, lost>>
        /\ job[t].step \in {"app", "after"}
        /\ \A u \in Threads \ {t} : job'[u] = job[u]
    BY <1>0, <1>16 DEF Return
  <2>2. Telling \subseteq Telling'
    BY <2>1 DEF Telling
  <2>3. QED
    BY <1>1, <1>2, <1>4, <2>1, <2>2
<1>17. QED
  BY <1>6, <1>7, <1>8, <1>9, <1>10, <1>11, <1>12, <1>13, <1>14, <1>15, <1>16, Steps

----------------------------------------------------------------------------
(* Types, and the theorems.                                                *)

\* A field of a record changes.
LEMMA ObjectSet ==
  ASSUME NEW t \in Threads, object \in [Threads -> ObjectType],
         NEW s \in {"uninitialized", "starting", "stopping"}, NEW d \in BOOLEAN,
         NEW n \in Nat, NEW b \in BOOLEAN,
         \/ object' = [object EXCEPT ![t].state = s]
         \/ object' = [object EXCEPT ![t].detached = d]
         \/ object' = [object EXCEPT ![t].refs = n]
         \/ object' = [object EXCEPT ![t].refs = n, ![t].live = b]
  PROVE  object' \in [Threads -> ObjectType]
<1> DEFINE o == object[t]
<1>0. o \in ObjectType
  OBVIOUS
<1>1. /\ [o EXCEPT !.state = s] \in ObjectType /\ [o EXCEPT !.detached = d] \in ObjectType
      /\ [o EXCEPT !.refs = n] \in ObjectType
      /\ [o EXCEPT !.refs = n, !.live = b] \in ObjectType
  <2> HIDE DEF o
  <2>1. [o EXCEPT !.state = s] \in ObjectType
    BY <1>0
  <2>2. [o EXCEPT !.detached = d] \in ObjectType
    BY <1>0
  <2>3. [o EXCEPT !.refs = n] \in ObjectType
    BY <1>0
  <2>4. [o EXCEPT !.refs = n, !.live = b] \in ObjectType
    BY <1>0
  <2>5. QED
    BY <2>1, <2>2, <2>3, <2>4
<1> HIDE DEF ObjectType
<1>2. \E p \in ObjectType : object' = [object EXCEPT ![t] = p]
  BY <1>1
<1>3. QED
  BY <1>2

\* Thread objects keep their types.
LEMMA ObjectTypes ==
  ASSUME WrapInv, [Next]_vars
  PROVE  (object \in [Threads -> ObjectType])'
<1>0. /\ object \in [Threads -> ObjectType] /\ lst \in Seq(Threads)
      /\ starting \in Nat /\ at \in Nat /\ TypeInv
  BY DEF WrapInv, TypeInv
<1> DEFINE States == {"uninitialized", "starting", "stopping"}
<1>1. CASE UNCHANGED object
  BY <1>0, <1>1
<1>2. CASE InitManager
  <2>1. \E t \in Threads : object' = [object EXCEPT ![t] = Object]
    BY <1>2 DEF InitManager
  <2>2. Object \in ObjectType
    BY DEF Object, NoObject
  <2> HIDE DEF ObjectType
  <2>3. QED
    BY <1>0, <2>1, <2>2
<1>3. CASE StartThread
  <2>1. PICK t : t = lst[starting]
    OBVIOUS
  <2> HIDE DEF States
  <2>2. t \in Threads /\ (UNCHANGED object
                          \/ \E s \in States : object' = [object EXCEPT ![t].state = s])
    BY <1>0, <1>3, <2>1, Starts DEF States
  <2> USE DEF States
  <2> HIDE DEF ObjectType
  <2>3. QED
    BY <1>0, <2>2, ObjectSet
<1>4. CASE JoinThread
  <2>1. PICK t \in Threads : t = lst[at]
    BY <1>0, <1>4 DEF JoinThread, WrapInv, Destruction
  <2>2. \/ UNCHANGED object
        \/ \E d \in BOOLEAN : object' = [object EXCEPT ![t].detached = d]
    BY <1>4, <2>1 DEF JoinThread, Joined
  <2> HIDE DEF ObjectType
  <2>3. QED
    BY <1>0, <2>2, ObjectSet
<1>5. ASSUME NEW t \in Threads, Release(t), object[t].refs > 0
      PROVE  object' \in [Threads -> ObjectType]
  <2>1. object[t].refs - 1 \in Nat /\ (object[t].refs > 1) \in BOOLEAN
    BY <1>0, <1>5
  <2>2. object' = [object EXCEPT ![t].refs = object[t].refs - 1,
                                 ![t].live = object[t].refs > 1]
    BY <1>0, <1>5 DEF Release
  <2> HIDE DEF ObjectType
  <2>3. QED
    BY <1>0, <2>1, <2>2, ObjectSet
<1>6. CASE ReleaseThread
  <2>1. PICK t \in Threads : t = lst[at]
    BY <1>0, <1>6 DEF ReleaseThread, WrapInv, Destruction
  <2>2. t \in OnList
    BY <1>0, <1>6, <2>1 DEF ReleaseThread, OnList, Listed, WrapInv, Destruction
  <2>3. object[t].refs > 0
    <3>1. object[t].refs = 1 + (IF t \in Begun /\ pc[t] # "main" THEN 1 ELSE 0)
      BY <2>2 DEF WrapInv, Holders
    <3>2. CASE t \in Begun /\ pc[t] # "main"
      BY <3>1, <3>2
    <3>3. CASE ~(t \in Begun /\ pc[t] # "main")
      BY <3>1, <3>3
    <3>4. QED
      BY <3>2, <3>3
  <2>4. Release(t)
    BY <1>6, <2>1 DEF ReleaseThread
  <2>5. QED
    BY <1>5, <2>3, <2>4
<1>7. ASSUME NEW t \in Threads, ThreadEnds(t)
      PROVE  object' \in [Threads -> ObjectType]
  <2>1. t \in Begun /\ pc[t] # "main"
    BY <1>7 DEF ThreadEnds, Begun, InMain
  <2>2. object[t].refs > 0
    BY <1>0, <2>1 DEF WrapInv, Holders
  <2>3. QED
    BY <1>5, <1>7, <2>2 DEF ThreadEnds
<1>8. ASSUME NEW t \in Threads, ThreadMain(t)
      PROVE  object' \in [Threads -> ObjectType]
  <2>1. object[t].refs + 1 \in Nat
    BY <1>0
  <2>2. object' = [object EXCEPT ![t].refs = object[t].refs + 1]
    BY <1>8 DEF ThreadMain, Counted
  <2> HIDE DEF ObjectType
  <2>3. QED
    BY <1>0, <2>1, <2>2, ObjectSet
<1>9. ASSUME NEW t \in Threads, LoopTop(t)
      PROVE  object' \in [Threads -> ObjectType]
  <2>1. UNCHANGED object \/ object' = [object EXCEPT ![t].state = "stopping"]
    BY <1>9 DEF LoopTop
  <2>2. "stopping" \in States
    OBVIOUS
  <2> HIDE DEF ObjectType
  <2>3. QED
    BY <1>0, <2>1, <2>2, ObjectSet
<1>10. ASSUME NEW t \in Threads, NoEvents(t) \/ WildReturn(t) \/ Dispatch(t) \/ Return(t)
       PROVE  UNCHANGED object
  BY <1>10 DEF NoEvents, WildReturn, Dispatch, Return
<1>11. ASSUME NEW by, Destroy(by) \/ Started \/ Gone \/ DeleteEvent
       PROVE  UNCHANGED object
  BY <1>11 DEF Destroy, Started, Gone, DeleteEvent
<1>12. QED
  BY <1>1, <1>2, <1>3, <1>4, <1>6, <1>7, <1>8, <1>9, <1>10, <1>11, Steps

\* So do the list, the loops and the kernel's threads.
LEMMA ThreadTypes ==
  ASSUME WrapInv, [Next]_vars
  PROVE  /\ (lst \in Seq(Threads) /\ active \in BOOLEAN /\ starting \in Nat)'
         /\ (pthread \in [Threads -> PthreadType] /\ pc \in [Threads -> PcType])'
<1>0. /\ lst \in Seq(Threads) /\ active \in BOOLEAN /\ starting \in Nat
      /\ pthread \in [Threads -> PthreadType] /\ pc \in [Threads -> PcType]
      /\ destroyer \in Threads \cup {App, "none"}
  BY DEF WrapInv, TypeInv
<1> DEFINE Kept == /\ lst' \in Seq(Threads) /\ active' \in BOOLEAN /\ starting' \in Nat
                   /\ pthread' \in [Threads -> PthreadType] /\ pc' \in [Threads -> PcType]
<1>1. CASE UNCHANGED <<pthread, pc, lst, active, starting>>
  BY <1>0, <1>1
<1>2. CASE InitManager
  <2>1. \E t \in Threads : lst' = Append(lst, t)
    BY <1>2 DEF InitManager
  <2>2. lst' \in Seq(Threads)
    BY <1>0, <2>1, Grown
  <2>3. QED
    BY <1>0, <1>2, <2>2 DEF InitManager
<1>3. CASE StartThread
  <2>1. /\ \/ UNCHANGED <<pthread, pc>>
           \/ /\ pthread' = [pthread EXCEPT ![lst[starting]] = "running"]
              /\ pc' = [pc EXCEPT ![lst[starting]] = "main"]
        /\ starting' = starting + 1 /\ UNCHANGED <<lst, active>>
    BY <1>3 DEF StartThread, Goto
  <2>2. QED
    BY <1>0, <2>1
<1>4. CASE Started
  BY <1>0, <1>4 DEF Started
<1>5. ASSUME NEW by, Destroy(by)
      PROVE  Kept
  BY <1>0, <1>5 DEF Destroy
<1>6. CASE JoinThread
  <2>1. /\ UNCHANGED pthread \/ pthread' = [pthread EXCEPT ![lst[at]] = "joined"]
        /\ UNCHANGED <<pc, lst, active, starting>>
    BY <1>6 DEF JoinThread
  <2>2. QED
    BY <1>0, <2>1
<1>7. CASE ReleaseThread \/ DeleteEvent
  BY <1>1, <1>7 DEF ReleaseThread, DeleteEvent
<1>8. ASSUME NEW t \in Threads, ThreadEnds(t)
      PROVE  Kept
  BY <1>0, <1>8 DEF ThreadEnds, Goto
<1>9. ASSUME NEW t \in Threads,
             \/ ThreadMain(t) \/ LoopTop(t) \/ NoEvents(t) \/ WildReturn(t)
             \/ Dispatch(t) \/ Return(t)
      PROVE  Kept
  <2>1. /\ UNCHANGED <<pthread, lst, active, starting>>
        /\ \E label \in PcType : pc' = [pc EXCEPT ![t] = label]
    BY <1>9 DEF ThreadMain, LoopTop, NoEvents, WildReturn, Dispatch, Return, Goto
  <2>2. QED
    BY <1>0, <2>1
<1>10. CASE Gone
  <2>1. /\ UNCHANGED <<pthread, lst, active, starting>>
        /\ UNCHANGED pc \/ pc' = [pc EXCEPT ![destroyer] = "wild"]
    BY <1>10 DEF Gone
  <2>2. QED
    BY <1>0, <2>1
<1>11. QED
  BY <1>1, <1>2, <1>3, <1>4, <1>5, <1>6, <1>7, <1>8, <1>9, <1>10, Steps

\* So does what ~NetWork keeps.
LEMMA DestroyTypes ==
  ASSUME WrapInv, [Next]_vars
  PROVE  /\ (stop \in BOOLEAN /\ event \in BOOLEAN)'
         /\ (destroyer \in Threads \cup {App, "none"} /\ dpc \in DpcType /\ at \in Nat)'
<1>0. /\ stop \in BOOLEAN /\ event \in BOOLEAN
      /\ destroyer \in Threads \cup {App, "none"} /\ dpc \in DpcType /\ at \in Nat
  BY DEF WrapInv, TypeInv
<1> DEFINE Kept == /\ stop' \in BOOLEAN /\ event' \in BOOLEAN
                   /\ destroyer' \in Threads \cup {App, "none"}
                   /\ dpc' \in DpcType /\ at' \in Nat
<1>1. CASE UNCHANGED destroyVars
  BY <1>0, <1>1
<1>2. ASSUME NEW by \in Threads \cup {App}, Destroy(by)
      PROVE  Kept
  BY <1>0, <1>2 DEF Destroy, StopNow, JoinFirst
<1>3. CASE JoinThread \/ ReleaseThread
  <2>1. UNCHANGED <<stop, event, destroyer, dpc>> /\ at' = at + 1
    BY <1>3 DEF JoinThread, ReleaseThread
  <2>2. QED
    BY <1>0, <2>1
<1>4. CASE DeleteEvent
  BY <1>0, <1>4 DEF DeleteEvent
<1>5. CASE Gone
  BY <1>0, <1>5 DEF Gone
<1>6. ASSUME NEW t \in Threads,
             \/ ThreadMain(t) \/ LoopTop(t) \/ NoEvents(t) \/ ThreadEnds(t)
             \/ WildReturn(t) \/ Dispatch(t) \/ Return(t)
      PROVE  UNCHANGED destroyVars
  BY <1>6 DEF ThreadMain, LoopTop, NoEvents, ThreadEnds, WildReturn, Dispatch, Return
<1>7. ASSUME InitManager \/ StartThread \/ Started
      PROVE  UNCHANGED destroyVars
  BY <1>7 DEF InitManager, StartThread, Started
<1>8. QED
  BY <1>1, <1>2, <1>3, <1>4, <1>5, <1>6, <1>7, Steps

\* So do the tables and the callbacks.
LEMMA TableTypes ==
  ASSUME WrapInv, [Next]_vars
  PROVE  /\ (table \in [Handles -> {"unused", "online", "offline"}])'
         /\ (told \in [Handles -> {"none", "connected", "closed"}])'
         /\ (job \in [Threads -> JobType])'
<1>0. /\ table \in [Handles -> {"unused", "online", "offline"}]
      /\ told \in [Handles -> {"none", "connected", "closed"}]
      /\ job \in [Threads -> JobType]
  BY DEF WrapInv, TypeInv
<1> DEFINE Kept == /\ table' \in [Handles -> {"unused", "online", "offline"}]
                   /\ told' \in [Handles -> {"none", "connected", "closed"}]
<1>1. CASE UNCHANGED <<service, job>>
  BY <1>0, <1>1
<1>2. ASSUME UNCHANGED service \/ \E h : NetWork!GoOnline(h) \/ NetWork!GoOffline(h)
      PROVE  Kept
  BY <1>0, <1>2 DEF NetWork!GoOnline, NetWork!GoOffline
<1>3. ASSUME CallClose \/ CallConnect
      PROVE  Kept /\ UNCHANGED job
  BY <1>2, <1>3 DEF CallClose, CallConnect
<1>4. ASSUME BeginCall \/ CloseDone \/ JavaClosed \/ Store
      PROVE  UNCHANGED <<service, job>>
  BY <1>4 DEF BeginCall, CloseDone, JavaClosed, Store
<1>5. ASSUME NEW t \in Threads, LoopClose(t) \/ Tell(t)
      PROVE  job' \in [Threads -> JobType]
  <2>1. \E step \in {"tell", "app", "after"} : job' = [job EXCEPT ![t].step = step]
    BY <1>5 DEF LoopClose, Tell, JobStep
  <2>2. \A step \in {"tell", "app", "after"} : [job[t] EXCEPT !.step = step] \in JobType
    BY <1>0
  <2>3. \E j \in JobType : job' = [job EXCEPT ![t] = j]
    BY <2>1, <2>2
  <2> HIDE DEF JobType
  <2>4. QED
    BY <1>0, <2>3
<1>6. ASSUME NEW t \in Threads, LoopClose(t)
      PROVE  Kept
  BY <1>2, <1>6 DEF LoopClose
<1>7. ASSUME NEW t \in Threads, Tell(t)
      PROVE  Kept
  <2>1. Notify(job[t].kind, job[t].h) /\ job[t].kind # "none"
    BY <1>7 DEF Tell, WrapInv, Jobs
  <2>2. job[t].kind \in {"connect", "read", "close"}
    BY <1>0, <2>1
  <2>3. \/ UNCHANGED service
        \/ \E h : NetWork!OnConnect(h) \/ NetWork!OnClose(h)
    BY <2>1, <2>2 DEF Notify
  <2>4. QED
    BY <1>0, <2>3 DEF NetWork!OnConnect, NetWork!OnClose
<1>8. ASSUME NEW t \in Threads, Dispatch(t) \/ Return(t)
      PROVE  UNCHANGED service /\ job' \in [Threads -> JobType]
  <2>1. UNCHANGED service
    BY <1>8 DEF Dispatch, Return
  <2>2. NoJob \in JobType
    BY DEF NoJob
  <2>3. \A h \in Handles, kind \in {"connect", "read", "close"} :
          [step |-> IF kind = "close" THEN "close" ELSE "tell",
           kind |-> kind, h |-> h] \in JobType
    OBVIOUS
  <2> HIDE DEF JobType
  <2>4. \E j \in JobType : job' = [job EXCEPT ![t] = j]
    BY <1>8, <2>2, <2>3 DEF Dispatch, Return
  <2>5. QED
    BY <1>0, <2>1, <2>4
<1>9. QED
  BY <1>0, <1>1, <1>3, <1>4, <1>5, <1>6, <1>7, <1>8, Steps


\* So do the books of the wrappers.
LEMMA BookTypes ==
  ASSUME WrapInv, [Next]_vars
  PROVE  /\ (platform \in {"ios", "android"})'
         /\ (id \in Handles \cup {None} /\ dict \subseteq Handles)'
         /\ (heard \in [Handles -> Nat])'
<1>0. /\ platform \in {"ios", "android"} /\ id \in Handles \cup {None}
      /\ dict \subseteq Handles /\ heard \in [Handles -> Nat]
      /\ job \in [Threads -> JobType] /\ call \in CallType
  BY DEF WrapInv, TypeInv
<1>h. \A h \in Handles : [heard EXCEPT ![h] = @ + 1] \in [Handles -> Nat]
  BY <1>0
<1> DEFINE Kept == /\ platform' \in {"ios", "android"}
                   /\ id' \in Handles \cup {None} /\ dict' \subseteq Handles
                   /\ heard' \in [Handles -> Nat]
<1>1. CASE UNCHANGED <<platform, bookVars, heard>>
  BY <1>0, <1>1
<1>2. CASE CloseDone
  BY <1>0, <1>2 DEF CloseDone
<1>3. CASE JavaClosed
  <2>1. call.h \in Handles
    BY <1>3 DEF JavaClosed, WrapInv, Calls
  <2>2. UNCHANGED heard \/ heard' = [heard EXCEPT ![call.h] = @ + 1]
    BY <1>3 DEF JavaClosed, CloseTold
  <2>3. UNCHANGED <<platform, bookVars>>
    BY <1>3 DEF JavaClosed
  <2>4. QED
    BY <1>0, <1>h, <2>1, <2>2, <2>3
<1>4. CASE Store
  <2>1. call.h \in Handles
    BY <1>4 DEF Store, WrapInv, Calls
  <2>2. QED
    BY <1>0, <1>4, <2>1 DEF Store
<1>5. ASSUME NEW t \in Threads, Tell(t)
      PROVE  Kept
  <2>1. job[t].h \in Handles
    BY <1>5 DEF Tell, WrapInv, Jobs
  <2>2. UNCHANGED heard \/ heard' = [heard EXCEPT ![job[t].h] = @ + 1]
    BY <1>5 DEF Tell, Hear
  <2>3. UNCHANGED <<platform, bookVars>>
    BY <1>5 DEF Tell
  <2>4. QED
    BY <1>0, <1>h, <2>1, <2>2, <2>3
<1>6. ASSUME NEW t \in Threads, Return(t)
      PROVE  Kept
  BY <1>0, <1>6 DEF Return, RemoveClosed
<1>7. ASSUME NEW t \in Threads, Dispatch(t) \/ LoopClose(t)
      PROVE  UNCHANGED <<platform, bookVars, heard>>
  BY <1>7 DEF Dispatch, LoopClose
<1>8. ASSUME BeginCall \/ CallClose \/ CallConnect
      PROVE  UNCHANGED <<platform, bookVars, heard>>
  BY <1>8 DEF BeginCall, CallClose, CallConnect
<1>9. QED
  BY <1>1, <1>2, <1>3, <1>4, <1>5, <1>6, <1>7, <1>8, Steps

\* So does the call in progress.
LEMMA CallTypes ==
  ASSUME WrapInv, [Next]_vars
  PROVE  (call \in CallType)'
<1>0. call \in CallType /\ id \in Handles \cup {None}
  BY DEF WrapInv, TypeInv
<1>n. NoCall \in CallType
  BY DEF NoCall
<1>1. CASE UNCHANGED call
  BY <1>0, <1>1
<1>2. CASE BeginCall
  <2>1. PICK by \in Threads \cup {App} : BeginConnect(by) \/ BeginClose(by)
    BY <1>2 DEF BeginCall
  <2>2. CASE BeginConnect(by)
    <3>1. \A step \in {"close", "connect"} :
            [by |-> by, op |-> "connect", h |-> id, step |-> step] \in CallType
      BY <1>0
    <3> HIDE DEF CallType
    <3>2. QED
      BY <2>2, <3>1 DEF BeginConnect
  <2>3. CASE BeginClose(by)
    BY <2>3 DEF BeginClose
  <2>4. QED
    BY <2>1, <2>2, <2>3
<1>3. CASE CallClose \/ CloseDone
  <2>1. \/ \E step \in {"closed", "connect"} : call' = [call EXCEPT !.step = step]
        \/ call' = NoCall
    BY <1>3 DEF CallClose, CloseDone
  <2>2. \A step \in {"closed", "connect"} : [call EXCEPT !.step = step] \in CallType
    BY <1>0
  <2> HIDE DEF CallType
  <2>3. QED
    BY <1>n, <2>1, <2>2
<1>4. CASE CallConnect
  <2>1. \/ call' = NoCall
        \/ \E h \in Handles : call' = [call EXCEPT !.step = "store", !.h = h]
    BY <1>4 DEF CallConnect, Refused
  <2>2. \A h \in Handles : [call EXCEPT !.step = "store", !.h = h] \in CallType
    BY <1>0
  <2> HIDE DEF CallType
  <2>3. QED
    BY <1>n, <2>1, <2>2
<1>5. CASE JavaClosed \/ Store
  BY <1>n, <1>5 DEF JavaClosed, Store
<1>6. ASSUME NEW t \in Threads, Dispatch(t) \/ LoopClose(t) \/ Tell(t) \/ Return(t)
      PROVE  UNCHANGED call
  BY <1>6 DEF Dispatch, LoopClose, Tell, Return
<1>7. QED
  BY <1>1, <1>2, <1>3, <1>4, <1>5, <1>6, Steps

----------------------------------------------------------------------------
(* The invariant, and what follows from it.                                *)

\* It holds when the program starts.
LEMMA WrapInit ==
  ASSUME Init
  PROVE  WrapInv
<1> USE DEF Init, ThreadsInit, NetWork!Init
<1>1. \A t \in Threads : /\ object[t] = NoObject /\ pthread[t] = "none"
                         /\ pc[t] = "none" /\ job[t] = NoJob
  OBVIOUS
<1>2. TypeInv
  <2>1. NoObject \in ObjectType /\ NoJob \in JobType /\ NoCall \in CallType
    BY DEF NoObject, NoJob, NoCall
  <2>2. <<>> \in Seq(Threads)
    OBVIOUS
  <2> HIDE DEF ObjectType, JobType, CallType
  <2>3. /\ object \in [Threads -> ObjectType] /\ job \in [Threads -> JobType]
        /\ pthread \in [Threads -> PthreadType] /\ pc \in [Threads -> PcType]
    BY <2>1
  <2>4. /\ table \in [Handles -> {"unused", "online", "offline"}]
        /\ told \in [Handles -> {"none", "connected", "closed"}]
        /\ heard \in [Handles -> Nat]
    OBVIOUS
  <2>5. QED
    BY <2>1, <2>2, <2>3, <2>4 DEF TypeInv
<1>3. Distinct /\ Made /\ Lifecycle
  BY <1>1 DEF Distinct, Made, Lifecycle, NoObject
<1>4. Holders
  <2>1. \A t \in Threads : t \notin OnList /\ t \notin Begun
    BY <1>1 DEF OnList, Begun, Listed, InMain
  <2>2. \A t \in Threads : object[t].refs = 0
    BY <1>1 DEF NoObject
  <2>3. QED
    BY <2>1, <2>2 DEF Holders
<1>5. Destruction
  BY DEF Destruction, Ended
<1>6. Jobs /\ Found
  BY <1>1 DEF Jobs, Found, NoJob
<1>7. Calls /\ OneOnline
  BY DEF Calls, OneOnline, NoCall
<1>8. Reachable /\ LostOnlyInConnect /\ Answered
  BY DEF Reachable, LostOnlyInConnect, Answered
<1>9. QED
  BY <1>2, <1>3, <1>4, <1>5, <1>6, <1>7, <1>8 DEF WrapInv

\* Every step keeps it.
LEMMA WrapStep ==
  ASSUME WrapInv, [Next]_vars
  PROVE  WrapInv'
<1>1. TypeInv'
  BY ObjectTypes, ThreadTypes, DestroyTypes, TableTypes, BookTypes, CallTypes
    DEF TypeInv
<1>2. Distinct' /\ Made' /\ Lifecycle' /\ Holders' /\ Destruction'
  BY DistinctStep, MadeStep, LifecycleStep, HoldersStep, DestructionStep
<1>3. Jobs' /\ Calls' /\ OneOnline' /\ Reachable' /\ Found'
  BY JobsStep, CallsStep, OneOnlineStep, ReachableStep, FoundStep
<1>4. LostOnlyInConnect' /\ Answered'
  BY LostStep, AnsweredStep
<1>5. QED
  BY <1>1, <1>2, <1>3, <1>4 DEF WrapInv

\* Threads, the destructor, calls and callbacks agree in every state, for any
\* number of threads, handles and calls.
THEOREM WrapInvariant == Spec => []WrapInv
<1>1. Init => WrapInv
  BY WrapInit
<1>2. WrapInv /\ [Next]_vars => WrapInv'
  BY WrapStep
<1>3. QED
  BY <1>1, <1>2, PTL DEF Spec

\* Every variable of the threads and the wrappers keeps its type.
THEOREM WrapTyped == Spec => []WrappersTypeOK
<1>1. WrapInv => WrappersTypeOK
  <2> SUFFICES ASSUME WrapInv
               PROVE  WrappersTypeOK
    OBVIOUS
  <2>0. TypeInv
    BY DEF WrapInv
  <2>1. ToSet(lst) \subseteq Threads
    BY <2>0 DEF TypeInv, ToSet
  <2>2. \A t \in Threads : job[t].h \in Handles \cup {None}
    BY <2>0 DEF TypeInv
  <2>3. call.h \in Handles \cup {None} /\ call.by \in Threads \cup {App, "none"}
    BY <2>0 DEF TypeInv
  <2>4. QED
    BY <2>0, <2>1, <2>2, <2>3 DEF TypeInv, WrappersTypeOK
<1>2. QED
  BY <1>1, WrapInvariant, PTL

\* A Thread object is there while its list or its thread uses it, and its count
\* is that of its holders: Ref::release of it never comes too early, for any
\* number of threads, whether ~NetWork runs in the application or in a callback.
THEOREM ThreadsAreAlive == Spec => []ThreadAlive
<1>1. WrapInv => ThreadAlive
  BY DEF WrapInv, Holders, OnList, Begun, ThreadAlive
<1>2. QED
  BY <1>1, WrapInvariant, PTL

\* When ~NetWork deletes the epoll set every loop has ended, but the one whose
\* callback it was called from; when it is through, every other one is joined.
THEOREM LoopsAreGone == Spec => []LoopGone
<1>1. WrapInv => LoopGone
  <2> SUFFICES ASSUME WrapInv
               PROVE  LoopGone
    OBVIOUS
  <2>1. ~event \/ dpc = "gone" => \A t \in Threads : Ended(t)
    BY DEF WrapInv, TypeInv, Destruction
  <2>2. \A t \in Threads : pthread[t] \in {"none", "joined"} => ~InMain(t)
    BY DEF WrapInv, Lifecycle, InMain
  <2>3. QED
    BY <2>1, <2>2 DEF LoopGone, Ended
<1>2. QED
  BY <1>1, WrapInvariant, PTL

\* iOS: a handle that is online is the one connection's, and found in the
\* dictionary, as soon as connect has stored it.
THEOREM OnlineIsReachable == Spec => []Reachable
<1>1. WrapInv => Reachable
  BY DEF WrapInv
<1>2. QED
  BY <1>1, WrapInvariant, PTL

\* iOS: a callback that finds no connection is of a handle that connect has not
\* stored yet, or that the application closed.
THEOREM LostIsExplained == Spec => []LostOnlyInConnect
<1>1. WrapInv => LostOnlyInConnect
  BY DEF WrapInv
<1>2. QED
  BY <1>1, WrapInvariant, PTL

\* A handle that went offline was heard of, or is about to be, or what became
\* of its onClose is known.
THEOREM ClosesAreHeard == Spec => []CloseHeard
<1>1. WrapInv => CloseHeard
  BY DEF WrapInv, Answered, CloseHeard
<1>2. QED
  BY <1>1, WrapInvariant, PTL

=============================================================================
