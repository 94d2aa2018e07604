---------------------------- MODULE TcpServerSync ----------------------------
(***************************************************************************)
(* tcp_server_sync: the accept loop of TcpServerBase runs on the           *)
(* application thread that calls StartSyncServer, and this call returns    *)
(* when the loop ends.  Other application threads and the accept callback  *)
(* call StopServer, DestroyServer and the destructor.                      *)
(***************************************************************************)
EXTENDS TcpServerBase

CONSTANTS
  Api,             \* Api[t]: the calls that application thread t makes
  CallbackApi,     \* the calls that the accept callback makes
  Discipline       \* what the application threads take care of

ApiCalls == {"create", "start", "createAndStart", "stop", "destroy", "delete"}

(* "stopWhenRunning": another thread stops only a server that runs.        *)
(* "startAfterStop": the server is started only when it is not started and *)
(* no StopServer call is in progress.  The API offers no call for either.  *)
(* "stopAlone": a second thread stops only a server that is started, and   *)
(* it and the accept callback do not stop while the other is stopping it.  *)
(* "startSound": CreateAndStart is not used on a server whose last         *)
(* CreateServer has failed.                                                *)
Disciplines == {"stopWhenRunning", "startAfterStop", "startSound", "stopAlone"}

ASSUME SyncAssumption ==
  /\ Api \in [Threads -> SUBSET ApiCalls]
  /\ CallbackApi \subseteq {"stop", "destroy"}
  /\ Discipline \subseteq Disciplines

VARIABLE freed  \* the object is destroyed

vars == <<baseVars, freed>>

StartLabels == {"start", "startRun", "startBig", "createAndStart", "startRunOnly"}
SyncLabels == BaseLabels \cup StartLabels \cup {"free", "gone"}

Runners == {t \in Threads : Api[t] \cap {"start", "createAndStart"} # {}}
(* The accept callback on this thread is in StopServer or DestroyServer.   *)
CalledBack(t) == pc[t] \in StopLabels \cup DestroyLabels /\ ret[t] = "cb"
(* The thread executes RunServer up to the store that ends StopServer's    *)
(* wait.                                                                   *)
InRunServer(t) == pc[t] \in RunLabels \ {"clearTid"} \/ CalledBack(t)

-----------------------------------------------------------------------------
(* Calls of the application and of the accept callback.                    *)

CanCall(t, call) == pc[t] = "idle" /\ call \in Api[t] /\ ~freed
NobodyElseStops(t) ==
  "stopAlone" \in Discipline => \A u \in Threads \ {t} : pc[u] \notin StopLabels
CanStop(t) ==
  /\ "stopWhenRunning" \in Discipline => t \in Runners \/ flags["serverRunning"]
  /\ "stopAlone" \in Discipline => t \in Runners \/ flags["shouldRun"]
CanStart(t) ==
  "startAfterStop" \in Discipline =>
    ~flags["shouldRun"] /\ \A u \in Threads : pc[u] \notin StopLabels

CallReturningTo(t, from, to, back) ==
  /\ Goto(t, from, to)
  /\ ret' = [ret EXCEPT ![t] = back]
  /\ UNCHANGED <<objVars, netVars, ready, freed>>

CallStart(t) ==
  /\ CanStart(t)
  /\ \/ CanCall(t, "start") /\ CallReturningTo(t, "idle", "start", "idle")
     \/ /\ CanCall(t, "createAndStart")
        /\ "startSound" \in Discipline => ~flags["hasError"]
        /\ CallReturningTo(t, "idle", "createAndStart", "idle")

CallStop(t) ==
  /\ CanCall(t, "stop") /\ CanStop(t) /\ NobodyElseStops(t)
  /\ CallReturningTo(t, "idle", "stop", "idle")

CallDestroy(t) == CanCall(t, "destroy") /\ CallReturningTo(t, "idle", "destroy", "idle")

(* The destructor: StopServer, DestroyServer, delete of the data.          *)
CallDelete(t) ==
  CanCall(t, "delete") /\ CanStop(t) /\ CallReturningTo(t, "idle", "stop", "dtor")

CallbackCalls(t) ==
  \/ /\ "stop" \in CallbackApi /\ NobodyElseStops(t)
     /\ CallReturningTo(t, "cb", "stop", "cb")
  \/ "destroy" \in CallbackApi /\ CallReturningTo(t, "cb", "destroy", "cb")

(* Bound: the listener is created only while no thread runs or starts the  *)
(* server, so that the call does not interleave with the accept loop.      *)
NobodyServes == \A u \in Threads : ~InRunServer(u) /\ pc[u] \notin StartLabels \ {"createAndStart"}

CreateServer(t) ==
  /\ CanCall(t, "create")
  /\ NobodyServes
  /\ CreateSucceeds \/ CreateFails
  /\ UNCHANGED <<serverTid, pc, reg, ready, ret, freed>>

Calls(t) == \/ CreateServer(t) \/ CallStart(t) \/ CallStop(t)
            \/ CallDestroy(t) \/ CallDelete(t) \/ CallbackCalls(t)

-----------------------------------------------------------------------------
(* StartSyncServer and CreateAndStartSyncServerOnThisThread on thread t.   *)

StartAllowed_NotCreated == TRUE
StartAllowed == flags["isCreated"]

StartTest(t) ==
  /\ Goto(t, "start", IF StartAllowed THEN "startRun" ELSE "idle")
  /\ UNCHANGED <<objVars, netVars, ready, ret, freed>>

StartRun(t) ==
  /\ \/ Goto(t, "startRun", "startBig")
     \/ Goto(t, "startRunOnly", "runTid")
  /\ SetFlag(t, "shouldRun", TRUE)
  /\ UNCHANGED <<serverTid, netVars, ready, ret, freed>>

StartBig(t) ==
  /\ Goto(t, "startBig", "runTid")
  /\ SetFlag(t, "shouldRunBig", TRUE)
  /\ UNCHANGED <<serverTid, netVars, ready, ret, freed>>

(* CreateServer returns 0 or -1, and any result below 1 is taken for an    *)
(* error: the call that creates the listener never starts the server.      *)
CreateAndStart(t) ==
  \/ /\ flags["isCreated"]
     /\ Goto(t, "createAndStart", "startRunOnly")
     /\ UNCHANGED <<objVars, netVars, ready, ret, freed>>
  \/ /\ ~flags["isCreated"]
     /\ NobodyServes
     /\ CreateSucceeds \/ CreateFails
     /\ Goto(t, "createAndStart", "idle")
     /\ UNCHANGED <<serverTid, reg, ready, ret, freed>>

Start(t) == StartTest(t) \/ StartRun(t) \/ StartBig(t) \/ CreateAndStart(t)

-----------------------------------------------------------------------------
(* tcp_server_sync::StopServer, DestroyServer and the destructor.          *)

AfterStop_NoDestroy(t) == ret[t]
AfterStop(t) == IF ret[t] = "dtor" THEN "destroy" ELSE ret[t]
AfterDestroy(t) == IF ret[t] = "dtor" THEN "free" ELSE ret[t]

StopTest(t) ==
  /\ Goto(t, "stop", IF flags["shouldRun"] THEN "stopRun" ELSE AfterStop(t))
  /\ UNCHANGED <<objVars, netVars, ready, ret, freed>>

Free(t) ==
  /\ Goto(t, "free", "gone")
  /\ freed' = TRUE
  /\ UNCHANGED <<objVars, netVars, ready, ret>>

Stop(t) ==
  \/ StopTest(t) \/ Free(t)
  \/ (StopCall(t, AfterStop(t)) \/ DestroyCall(t, AfterDestroy(t))) /\ UNCHANGED freed

-----------------------------------------------------------------------------
Init ==
  /\ BaseInit
  /\ pc = [t \in Threads |-> "idle"]
  /\ freed = FALSE

Run(t) ==
  \/ Start(t) \/ Stop(t)
  \/ (AcceptLoop(t) \/ ClearTid(t, "idle") \/ LoadFlags(t)) /\ UNCHANGED freed

Finished == freed /\ UNCHANGED vars

Next ==
  \/ \E t \in Threads : Calls(t) \/ Run(t)
  \/ (Clients \/ \E t \in Threads : PollInterrupted(t)) /\ UNCHANGED freed
  \/ Finished

(* As for the asynchronous server.                                         *)
Fairness ==
  /\ \A t \in Threads : WF_vars(Run(t))
  /\ \A t \in Threads : SF_vars(PollReady(t) /\ UNCHANGED freed)
  /\ \A t \in Threads : SF_vars(CallbackReturns(t) /\ UNCHANGED freed)

Spec == Init /\ [][Next]_vars
FairSpec == Spec /\ Fairness

-----------------------------------------------------------------------------
(* Properties.                                                             *)

(* Every variable stays in its domain.                                     *)
TypeOK == BaseTypeOK /\ pc \in [Threads -> SyncLabels] /\ freed \in BOOLEAN

(* The thread that serves polls, reads and accepts only on open sockets.   *)
SocketsOpenInAccept ==
  \A t \in Threads : pc[t] \in SocketLabels => {"serv", "pol"} \subseteq open

(* tcp_server.hpp: "stops and waits to stop".  When a StopServer call that *)
(* is not made by the accept callback returns, nobody serves any more.     *)
StopReturnsStopped ==
  [][\A t \in Threads :
       pc[t] \in StopLabels /\ ret[t] # "cb" /\ pc'[t] \notin StopLabels
         => \A u \in Threads : ~InRunServer(u)']_vars

(* A StopServer call that found the server started returns, ...            *)
StopReturns ==
  \A t \in Threads : pc[t] = "stopRun" ~> pc[t] \notin StopLabels
(* ... and a thread inside StartSyncServer returns to the application.     *)
StartReturns ==
  \A t \in Threads : pc[t] = "stopRun" ~>
    \A u \in Threads : ~InRunServer(u) /\ pc[u] \notin StartLabels \cup {"clearTid"}

(* The server keeps the promise of ServerContract.                         *)
phaseBar == IF \A t \in Threads : ~InRunServer(t) THEN "down"
            ELSE IF flags["shouldRun"] THEN "up" ELSE "stopping"
admittedBar == \E t \in Threads : pc[t] \in {"drain", "accept"} /\ "serv" \in ready[t]
busyBar == \E t \in Threads : pc[t] = "cb" \/ CalledBack(t)
waitingBar == \E t \in Threads :
  pc[t] \in {"stopBig", "stopTid", "stopSelf", "stopSend", "stopWait"} /\ ~CalledBack(t)

Contract == INSTANCE ServerContract WITH
  phase <- phaseBar, admitted <- admittedBar, busy <- busyBar, waiting <- waitingBar
ImplementsContract == Contract!CSpec
=============================================================================
