---------------------------- MODULE TcpServerAsync ---------------------------
(***************************************************************************)
(* tcp_server_async: the accept loop of TcpServerBase runs on a            *)
(* std::thread that StartAsyncServerOnOtherThreadAndReturn creates.        *)
(* Application threads (Callers) and the accept callback call StopServer   *)
(* and DestroyServer; StopServer joins the server thread, or detaches it   *)
(* when it is called on the server thread itself.                          *)
(***************************************************************************)
EXTENDS TcpServerBase

CONSTANTS
  Callers,      \* application threads
  Workers,      \* identities a server thread may get; a joined or ended
                \* thread's identity is used again
  Api,          \* Api[t]: the calls that application thread t makes
  CallbackApi,  \* the calls that the accept callback makes
  SemaMayFail   \* cinternal_unnamed_sema_create may fail

ApiCalls == {"create", "start", "createAndStart", "stop", "destroy", "delete"}

ASSUME AsyncAssumption ==
  /\ Threads = Callers \cup Workers
  /\ Callers \cap Workers = {}
  /\ Api \in [Callers -> SUBSET ApiCalls]
  /\ CallbackApi \subseteq {"stop", "destroy"}
  /\ SemaMayFail \in BOOLEAN

VARIABLES
  server_thread,  \* the thread the std::thread member owns, or NoTid
  inServerTid,    \* serverTid as each StopServer call read it
  started,        \* sema_to_wait_for_server_start was posted
  freed,          \* the object is destroyed
  fault           \* join, detach or assignment of the std::thread threw or
                  \* called std::terminate

asyncVars == <<server_thread, inServerTid, started, freed, fault>>
vars == <<baseVars, asyncVars>>

AsyncLabels == BaseLabels \cup {"start", "startRun", "startBig", "spawn", "startWait",
    "new", "mark", "post", "extra", "none", "done", "reap", "free", "gone"}

Aborted == fault

-----------------------------------------------------------------------------
(* Calls of the application and of the accept callback.                    *)

CanCall(t, call) == t \in Callers /\ pc[t] = "idle" /\ call \in Api[t] /\ ~freed

Alive(w) == pc[w] \notin {"none", "done"}
NoServerThread == \A w \in Workers : ~Alive(w)

(* Bound: an application creates the listener only while no server thread  *)
(* is left and none was asked for (shouldRun), so that the call does not   *)
(* interleave with the accept loop or with a start.                        *)
CreateServer(t) ==
  /\ CanCall(t, "create")
  /\ NoServerThread
  /\ ~flags["shouldRun"]
  /\ CreateSucceeds \/ CreateFails
  /\ UNCHANGED <<serverTid, pc, reg, ready, ret, asyncVars>>

CreateAndStart(t) ==
  /\ CanCall(t, "createAndStart")
  /\ IF flags["isCreated"]
     THEN Goto(t, "idle", "start") /\ UNCHANGED <<flags, netVars>>
     ELSE /\ NoServerThread
          /\ \/ CreateSucceeds /\ Goto(t, "idle", "start")
             \/ CreateFails /\ UNCHANGED pc
  /\ UNCHANGED <<serverTid, reg, ready, ret, asyncVars>>

CallStart(t) ==
  /\ CanCall(t, "start")
  /\ Goto(t, "idle", "start")
  /\ UNCHANGED <<objVars, netVars, ready, ret, asyncVars>>

CallStop(t) ==
  /\ CanCall(t, "stop")
  /\ Goto(t, "idle", "stop")
  /\ ret' = [ret EXCEPT ![t] = "idle"]
  /\ UNCHANGED <<objVars, netVars, ready, asyncVars>>

CallDestroy(t) ==
  /\ CanCall(t, "destroy")
  /\ Goto(t, "idle", "destroy")
  /\ ret' = [ret EXCEPT ![t] = "idle"]
  /\ UNCHANGED <<objVars, netVars, ready, asyncVars>>

CallDelete_NoStop(t) ==
  /\ CanCall(t, "delete")
  /\ Goto(t, "idle", "destroy")
  /\ ret' = [ret EXCEPT ![t] = "dtor"]
  /\ UNCHANGED <<objVars, netVars, ready, asyncVars>>

(* The destructor: StopServer, DestroyServer, delete of the data.          *)
CallDelete(t) ==
  /\ CanCall(t, "delete")
  /\ Goto(t, "idle", "stop")
  /\ ret' = [ret EXCEPT ![t] = "dtor"]
  /\ UNCHANGED <<objVars, netVars, ready, asyncVars>>

CallbackCalls(w) ==
  /\ w \in Workers
  /\ \/ "stop" \in CallbackApi /\ Goto(w, "cb", "stop")
     \/ "destroy" \in CallbackApi /\ Goto(w, "cb", "destroy")
  /\ ret' = [ret EXCEPT ![w] = "cb"]
  /\ UNCHANGED <<objVars, netVars, ready, asyncVars>>

Calls(t) == \/ CreateServer(t) \/ CreateAndStart(t) \/ CallStart(t)
            \/ CallStop(t) \/ CallDestroy(t) \/ CallDelete(t)

-----------------------------------------------------------------------------
(* StartAsyncServerOnOtherThreadAndReturn on application thread t.         *)

StartAllowed_Twice == flags["isCreated"]
StartAllowed == flags["isCreated"] /\ ~flags["shouldRun"]

StartTest(t) ==
  /\ Goto(t, "start", IF StartAllowed THEN "startRun" ELSE "idle")
  /\ UNCHANGED <<objVars, netVars, ready, ret, asyncVars>>

StartRun(t) ==
  /\ Goto(t, "startRun", "startBig")
  /\ SetFlag(t, "shouldRun", TRUE)
  /\ UNCHANGED <<serverTid, netVars, ready, ret, asyncVars>>

StartBig(t) ==
  /\ Goto(t, "startBig", "spawn")
  /\ SetFlag(t, "shouldRunBig", TRUE)
  /\ UNCHANGED <<serverTid, netVars, ready, ret, asyncVars>>

(* Bound: a thread is created only while an identity of Workers is free.   *)
Spawn(t) ==
  /\ pc[t] = "spawn"
  /\ server_thread = NoTid
  /\ \E w \in Workers :
       /\ pc[w] = "none"
       /\ server_thread' = w
       /\ pc' = [pc EXCEPT ![t] = "startWait", ![w] = "new"]
  /\ started' = FALSE
  /\ UNCHANGED <<objVars, netVars, ready, ret, inServerTid, freed, fault>>

(* Assigning to a std::thread that is still joinable calls std::terminate. *)
SpawnTerminates(t) ==
  /\ server_thread # NoTid
  /\ Goto(t, "spawn", "gone")
  /\ fault' = TRUE
  /\ UNCHANGED <<objVars, netVars, ready, ret, server_thread, inServerTid, started, freed>>

(* No semaphore: the call returns -1 and leaves shouldRun set.             *)
SpawnFails(t) ==
  /\ SemaMayFail
  /\ Goto(t, "spawn", "idle")
  /\ UNCHANGED <<objVars, netVars, ready, ret, asyncVars>>

StartWait(t) ==
  /\ started
  /\ Goto(t, "startWait", "idle")
  /\ UNCHANGED <<objVars, netVars, ready, ret, asyncVars>>

Start(t) == \/ StartTest(t) \/ StartRun(t) \/ StartBig(t) \/ Spawn(t)
            \/ SpawnTerminates(t) \/ SpawnFails(t) \/ StartWait(t)

-----------------------------------------------------------------------------
(* The server thread w.                                                    *)

New(w) ==
  /\ Goto(w, "new", "mark")
  /\ serverTid' = w
  /\ UNCHANGED <<flags, reg, netVars, ready, ret, asyncVars>>

Mark(w) ==
  /\ Goto(w, "mark", "post")
  /\ SetFlag(w, "serverRunning", TRUE)
  /\ UNCHANGED <<serverTid, netVars, ready, ret, asyncVars>>

Post(w) ==
  /\ Goto(w, "post", "runTid")
  /\ started' = TRUE
  /\ UNCHANGED <<objVars, netVars, ready, ret, server_thread, inServerTid, freed, fault>>

(* The extra clean callback runs and the thread ends.                      *)
Extra(w) ==
  /\ Goto(w, "extra", IF server_thread = w THEN "done" ELSE "none")
  /\ UNCHANGED <<objVars, netVars, ready, ret, asyncVars>>

ServerThread(w) ==
  \/ New(w) \/ Mark(w) \/ Post(w) \/ Extra(w)
  \/ (AcceptLoop(w) \/ ClearTid(w, "extra")) /\ UNCHANGED asyncVars

-----------------------------------------------------------------------------
(* tcp_server_async::StopServer and DestroyServer on thread t.             *)

AfterStop_NoDestroy(t) == ret[t]
AfterStop(t) == IF ret[t] = "dtor" THEN "destroy" ELSE ret[t]

StopTest(t) ==
  /\ Goto(t, "stop", IF flags["shouldRun"] THEN "stopRead" ELSE AfterStop(t))
  /\ UNCHANGED <<objVars, netVars, ready, ret, asyncVars>>

StopRead(t) ==
  /\ Goto(t, "stopRead", "stopRun")
  /\ inServerTid' = [inServerTid EXCEPT ![t] = serverTid]
  /\ UNCHANGED <<objVars, netVars, ready, ret, server_thread, started, freed, fault>>

Joins_Reversed(t) == inServerTid[t] = t

(* base StopServer returns the caller's id; another id than the one read   *)
(* before means that the server runs on another thread.                    *)
Joins(t) == inServerTid[t] # t

Join(t) ==
  /\ Joins(t)
  /\ pc[t] = "reap"
  /\ \E w \in Workers :
       /\ w = server_thread
       /\ pc[w] = "done"
       /\ pc' = [pc EXCEPT ![t] = AfterStop(t), ![w] = "none"]
  /\ server_thread' = NoTid
  /\ UNCHANGED <<objVars, netVars, ready, ret, inServerTid, started, freed, fault>>

Detach(t) ==
  /\ ~Joins(t)
  /\ server_thread # NoTid
  /\ Goto(t, "reap", AfterStop(t))
  /\ server_thread' = NoTid
  /\ UNCHANGED <<objVars, netVars, ready, ret, inServerTid, started, freed, fault>>

(* join and detach throw std::system_error on a thread that is not joinable *)
ReapThrows(t) ==
  /\ server_thread = NoTid
  /\ Goto(t, "reap", "gone")
  /\ fault' = TRUE
  /\ UNCHANGED <<objVars, netVars, ready, ret, server_thread, inServerTid, started, freed>>

AfterDestroy(t) == IF ret[t] = "dtor" THEN "free" ELSE ret[t]

Free(t) ==
  /\ Goto(t, "free", "gone")
  /\ freed' = TRUE
  /\ UNCHANGED <<objVars, netVars, ready, ret, server_thread, inServerTid, started, fault>>

Stop(t) ==
  \/ StopTest(t) \/ StopRead(t) \/ Join(t) \/ Detach(t) \/ ReapThrows(t) \/ Free(t)
  \/ (StopCall(t, "reap") \/ DestroyCall(t, AfterDestroy(t))) /\ UNCHANGED asyncVars

-----------------------------------------------------------------------------
Init ==
  /\ BaseInit
  /\ pc = [t \in Threads |-> IF t \in Workers THEN "none" ELSE "idle"]
  /\ server_thread = NoTid
  /\ inServerTid = [t \in Threads |-> NoTid]
  /\ started = FALSE
  /\ freed = FALSE
  /\ fault = FALSE

(* What a thread does by itself, once called or created.                   *)
Run(t) == \/ Start(t) \/ Stop(t) \/ ServerThread(t)
          \/ LoadFlags(t) /\ UNCHANGED asyncVars

(* Nothing happens any more after std::terminate or the destructor.        *)
Finished ==
  /\ fault \/ freed
  /\ UNCHANGED vars

Next ==
  \/ \E t \in Threads : ~Aborted /\ (Calls(t) \/ CallbackCalls(t) \/ Run(t))
  \/ \E w \in Workers : ~Aborted /\ PollInterrupted(w) /\ UNCHANGED asyncVars
  \/ Clients /\ ~Aborted /\ UNCHANGED asyncVars
  \/ Finished

(* The scheduler runs every thread that can take a step; the accept        *)
(* callback returns; poll is not interrupted by a signal for ever, so that *)
(* poll with something to read returns it in the end.  Nothing makes an    *)
(* application call, a client connect, or a signal arrive.                 *)
Progress(t) == Run(t) /\ ~Aborted
Unaborted(A) == A /\ ~Aborted /\ UNCHANGED asyncVars
Fairness ==
  /\ \A t \in Threads : WF_vars(Progress(t))
  /\ \A w \in Workers : SF_vars(Unaborted(PollReady(w)))
  /\ \A w \in Workers : SF_vars(Unaborted(CallbackReturns(w)))

Spec == Init /\ [][Next]_vars
FairSpec == Spec /\ Fairness

-----------------------------------------------------------------------------
(* Properties.                                                             *)

(* Every variable stays in its domain; a thread is at a label of its kind. *)
TypeOK ==
  /\ BaseTypeOK
  /\ pc \in [Threads -> AsyncLabels]
  /\ server_thread \in Workers \cup {NoTid}
  /\ inServerTid \in [Threads -> Threads \cup {NoTid}]
  /\ started \in BOOLEAN /\ freed \in BOOLEAN /\ fault \in BOOLEAN

(* No std::thread operation fails: no join or detach of a thread that is   *)
(* not joinable, no assignment over a running one.                         *)
NoThreadFault == ~fault

(* The server thread polls, reads and accepts only on open sockets: no     *)
(* DestroyServer closes them between its poll and its accept.              *)
SocketsOpenInAccept ==
  \A w \in Workers : pc[w] \in SocketLabels => {"serv", "pol"} \subseteq open

(* Once the object is deleted no server thread runs its member functions.  *)
NoUseAfterFree == freed => \A w \in Workers : ~Alive(w)

(* tcp_server.hpp: "stops and waits to stop".  When a StopServer call of   *)
(* an application thread returns, no server thread is left.                *)
StopReturnsStopped ==
  [][\A t \in Callers :
       pc[t] \in StopLabels \cup {"reap"} /\ pc'[t] \in {"idle", "destroy"}
         => \A w \in Workers : ~Alive(w)']_vars

(* A StopServer call of an application thread returns.                     *)
StopReturns ==
  \A t \in Callers : pc[t] = "stopRun" ~> pc[t] \notin StopLabels \cup {"reap"}

(* A connection waiting at a server that stays up is accepted.             *)
Up == flags["shouldRun"] /\ ~flags["hasError"] /\ \E w \in Workers : Alive(w)
ClientsServed ==
  (Up /\ backlog > 0) ~> (~Up \/ backlog = 0 \/ \E w \in Workers : pc[w] = "cb")

(* A server that its own accept callback stopped ends, and its thread runs *)
(* the extra clean callback.                                               *)
CallbackStopEnds == \A w \in Workers : pc[w] = "stopRun" ~> (~Alive(w) \/ fault)

(* One application thread that makes every call, flag stores that are not  *)
(* lost, and enough semaphores: where that thread is in its calls          *)
(* determines whether it owns a server thread, what this thread may do,    *)
(* and what the flags say.                                                 *)
OwnerCalm == {"idle", "start", "stop", "destroy"}
OwnerStarting == {"startRun", "startBig", "spawn"}
OwnerHolding == {"startWait", "stopRead", "stopRun"}
OwnerStopping == {"stopBig", "stopTid", "stopSend", "stopWait", "reap"}
OwnerOver == {"close", "free", "gone"}
EarlyLabels == {"new", "mark", "post"}
LateLabels == {"unmark", "clearTid", "extra", "done"}
ServerLabels == {"none", "big"} \cup EarlyLabels \cup {"runTid", "runMark"}
                  \cup LoopLabels \cup LateLabels
MarkedLabels == ServerLabels \ {"none", "new", "mark", "clearTid", "extra", "done"}

Owned == server_thread # NoTid

(* What holds of an application thread.                                    *)
OwnerInv(t) ==
  /\ pc[t] \in OwnerCalm \cup OwnerStarting \cup OwnerHolding \cup OwnerStopping
                \cup OwnerOver
  /\ ret[t] # "cb"
  /\ inServerTid[t] \notin Callers
  /\ pc[t] \in OwnerCalm => (flags["shouldRun"] <=> Owned)
  /\ pc[t] \in OwnerStarting \cup OwnerOver => ~Owned
  /\ pc[t] = "destroy" /\ ret[t] = "dtor" => ~Owned
  /\ pc[t] \in OwnerHolding => Owned /\ flags["shouldRun"]
  /\ pc[t] \in OwnerStopping => Owned /\ ~flags["shouldRun"]
  /\ pc[t] \in OwnerOver \cup {"startRun"} => ~flags["shouldRun"]
  /\ pc[t] \in {"startBig", "spawn"} => flags["shouldRun"]
  /\ pc[t] = "spawn" => flags["shouldRunBig"]
  /\ pc[t] \in OwnerStarting => flags["isCreated"]
  /\ Owned /\ pc[t] \notin OwnerStopping \ {"stopBig"} => flags["shouldRunBig"]
  /\ Owned /\ pc[t] # "startWait" => started
  /\ freed => pc[t] = "gone"

(* What holds of a server thread.                                          *)
ServerInv(w) ==
  /\ pc[w] \in ServerLabels
  /\ pc[w] # "none" <=> server_thread = w
  /\ pc[w] \in EarlyLabels => ~started
  /\ pc[w] \in LateLabels => ~flags["shouldRunBig"]
  /\ pc[w] \in MarkedLabels => flags["serverRunning"]
  /\ pc[w] \in SocketLabels \cup {"enter"} => open = Sockets
  /\ pc[w] = "accept" => "serv" \in ready[w]

SingleOwnerInv ==
  /\ ~fault
  /\ serverTid \notin Callers
  /\ Owned => flags["isCreated"]
  /\ flags["isCreated"] /\ ~flags["hasError"] => open = Sockets
  /\ \A t \in Callers : OwnerInv(t)
  /\ \A w \in Workers : ServerInv(w)

(* The server keeps the promise of ServerContract.                         *)
phaseBar == IF NoServerThread THEN "down"
            ELSE IF flags["shouldRun"] THEN "up" ELSE "stopping"
admittedBar == \E w \in Workers : pc[w] \in {"drain", "accept"} /\ "serv" \in ready[w]
busyBar == \E w \in Workers : pc[w] = "cb"
waitingBar == \E t \in Callers :
  pc[t] \in {"stopBig", "stopTid", "stopSelf", "stopSend", "stopWait", "reap"}

Contract == INSTANCE ServerContract WITH
  phase <- phaseBar, admitted <- admittedBar, busy <- busyBar, waiting <- waitingBar
ImplementsContract == Contract!CSpec
ImplementsFairContract == Contract!CFairSpec
=============================================================================
