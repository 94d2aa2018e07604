-------------------------- MODULE TcpServerSyncProofs --------------------------
(***************************************************************************)
(* Theorems about TcpServerSync, for any number of threads that stop the   *)
(* server, and one thread that makes the other calls.                      *)
(***************************************************************************)
EXTENDS TcpServerSync, TLAPS

(* A thread of the application that does more than stop the server.        *)
Owner(t) == Api[t] \ {"stop"} # {}

(* The application takes the care that Disciplines names, and no bit-field *)
(* store is lost.                                                          *)
Managed ==
  /\ \A t, u \in Threads : Owner(t) /\ Owner(u) => t = u
  /\ Discipline = Disciplines
  /\ ~SplitFlagStores

-----------------------------------------------------------------------------
(* The inductive invariant.                                                *)

Serving == LoopLabels \cup {"big", "unmark"}
Rising == {"startBig", "runTid", "runMark"}
BeforeRise == {"startRun", "startRunOnly"}
Resting == {"idle", "start", "createAndStart", "clearTid", "free", "gone"} \cup BeforeRise

(* A created server has its pair, and its listener too if it has no error. *)
SocketInv ==
  flags["isCreated"] => {"stp", "pol"} \subseteq open /\ (~flags["hasError"] => "serv" \in open)

(* The owner's thread t in a call of its own, outside RunServer.           *)
Rests(t) == pc[t] \in Resting \/ (pc[t] \in StopLabels \cup DestroyLabels /\ ret[t] # "cb")
(* The same thread in the accept loop, or in the callback.                 *)
Serves(t) == pc[t] \in Serving \/ CalledBack(t)

(* What the flags say, by where the owner is.                              *)
OwnerInv(t) ==
  /\ pc[t] \in StopLabels /\ ret[t] # "cb" => pc[t] = "stop"
  /\ Rests(t) => ~flags["shouldRun"] /\ ~flags["serverRunning"]
  /\ pc[t] \in BeforeRise \cup Rising => flags["isCreated"]
  /\ pc[t] \in {"createAndStart", "startRunOnly"} => ~flags["hasError"]
  /\ pc[t] \in Rising => flags["shouldRun"] /\ ~flags["serverRunning"]
  /\ pc[t] \in {"runTid", "runMark"} => flags["shouldRunBig"] \/ ~flags["hasError"]
  /\ pc[t] = "runMark" => serverTid = t
  /\ Serves(t) =>
       IF flags["serverRunning"]
       THEN /\ flags["isCreated"] /\ serverTid = t
            /\ flags["shouldRun"] => flags["shouldRunBig"] \/ ~flags["hasError"]
       ELSE ~flags["shouldRun"] /\ ~flags["shouldRunBig"]
  /\ pc[t] \in SocketLabels \cup {"enter"} => flags["serverRunning"] /\ ~flags["hasError"]
  /\ pc[t] = "accept" => "serv" \in ready[t]
  /\ pc[t] = "big" /\ flags["shouldRun"] => flags["hasError"]
  /\ pc[t] = "unmark" => ~flags["shouldRun"] /\ ~flags["shouldRunBig"]
  /\ CalledBack(t) =>
       /\ pc[t] \notin {"stopRead", "stopSend", "stopWait"}
       /\ pc[t] = "stopRun" => flags["shouldRun"]
       /\ pc[t] \in {"stopBig", "stopTid", "stopSelf"} =>
            flags["serverRunning"] /\ ~flags["shouldRun"]
       /\ pc[t] \in {"stopTid", "stopSelf"} => ~flags["shouldRunBig"]
       /\ pc[t] = "close" => ~flags["serverRunning"]

(* A thread that stops the server does so alone, and its call was made     *)
(* while the server ran; it cannot be started again meanwhile.             *)
StopperInv(t) ==
  /\ pc[t] \in {"idle", "stop", "stopRun", "stopBig", "stopTid", "stopSend", "stopWait"}
  /\ pc[t] \in StopLabels =>
       /\ ret[t] = "idle"
       /\ \A u \in Threads \ {t} : pc[u] \in StopLabels => Owner(u) /\ ret[u] # "cb"
       /\ \A u \in Threads : Owner(u) =>
            /\ pc[u] \notin {"start", "createAndStart"} \cup BeforeRise \cup Rising
            /\ Serves(u) => flags["serverRunning"]
  /\ pc[t] \in {"stop", "stopRun"} => flags["serverRunning"] /\ flags["shouldRun"]
  /\ pc[t] \in {"stopBig", "stopTid", "stopSend", "stopWait"} => ~flags["shouldRun"]
  /\ pc[t] \in {"stopTid", "stopSend", "stopWait"} => ~flags["shouldRunBig"]

SyncInv ==
  /\ SocketInv
  /\ serverTid # NoTid => Owner(serverTid)
  /\ flags["serverRunning"] => \E t \in Threads : Owner(t)
  /\ \A t \in Threads : IF Owner(t) THEN OwnerInv(t) ELSE StopperInv(t)

-----------------------------------------------------------------------------
(* Type correctness.                                                       *)

(* A store to one flag changes one flag of the word it is made in, ...     *)
LEMMA StoreType ==
  ASSUME TypeOK, NEW t \in Threads, NEW f \in FlagNames, NEW v \in BOOLEAN,
         SetFlag(t, f, v)
  PROVE  flags' \in Word /\ reg' \in [Threads -> Word \cup {NoWord}]
<1>1. reg[t] # NoWord => reg[t] \in Word
  BY DEF TypeOK, BaseTypeOK
<1>2. (IF SplitFlagStores THEN reg[t] ELSE flags) \in Word
  BY <1>1 DEF TypeOK, BaseTypeOK, SetFlag
<1>3. flags' \in Word
  BY <1>2 DEF SetFlag, Word
<1>4. reg' \in [Threads -> Word \cup {NoWord}]
  BY DEF SetFlag, TypeOK, BaseTypeOK
<1> QED BY <1>3, <1>4

(* ... which is the flag word itself if no store is lost.                  *)
LEMMA StoreOne ==
  ASSUME TypeOK, ~SplitFlagStores, NEW t \in Threads, NEW f \in FlagNames, NEW v \in BOOLEAN,
         SetFlag(t, f, v)
  PROVE  flags'[f] = v /\ \A g \in FlagNames \ {f} : flags'[g] = flags[g]
BY DEF SetFlag, TypeOK, BaseTypeOK, Word

(* A jump moves one thread.                                                *)
LEMMA Jump ==
  ASSUME TypeOK, NEW t \in Threads, NEW a, NEW b \in SyncLabels, Goto(t, a, b)
  PROVE  /\ pc' \in [Threads -> SyncLabels] /\ pc[t] = a /\ pc'[t] = b
         /\ \A u \in Threads \ {t} : pc'[u] = pc[u]
BY DEF Goto, TypeOK

(* The types after a jump, by what it changes.                             *)
TypedStep(t, a, b) ==
  /\ Goto(t, a, b) /\ b \in SyncLabels
  /\ flags' \in Word /\ reg' \in [Threads -> Word \cup {NoWord}]
  /\ serverTid' \in Threads \cup {NoTid} /\ open' \subseteq Sockets
  /\ backlog' \in 0..MaxClients /\ pol' \in 0..PolCap
  /\ ready' \in [Threads -> SUBSET Sockets] /\ ret' \in [Threads -> ReturnLabels]
  /\ freed' \in BOOLEAN

LEMMA TypedStepKeeps ==
  ASSUME TypeOK, NEW t \in Threads, NEW a, NEW b, TypedStep(t, a, b)
  PROVE  TypeOK'
<1>1. pc' \in [Threads -> SyncLabels]
  BY Jump DEF TypedStep
<1> QED BY <1>1 DEF TypedStep, TypeOK, BaseTypeOK

LEMMA CreateType ==
  ASSUME TypeOK, CreateSucceeds \/ CreateFails
  PROVE  /\ flags' \in Word /\ open' \subseteq Sockets
         /\ backlog' \in 0..MaxClients /\ pol' \in 0..PolCap
<1>1. flags' \in Word
  BY DEF CreateSucceeds, CreateFails, CreateRawFails, CreateStopperFails, TypeOK,
         BaseTypeOK, Word
<1>2. open' \subseteq Sockets
  BY DEF CreateSucceeds, CreateFails, CreateRawFails, CreateStopperFails, TypeOK,
         BaseTypeOK
<1>3. backlog' \in 0..MaxClients /\ pol' \in 0..PolCap
  BY BaseAssumption DEF CreateSucceeds, CreateFails, CreateRawFails, CreateStopperFails,
         TypeOK, BaseTypeOK
<1> QED BY <1>1, <1>2, <1>3

LEMMA SendType ==
  ASSUME TypeOK, SendStop \/ DrainPol
  PROVE  pol' \in 0..PolCap
<1>1. PolCap \in Nat /\ pol \in Nat /\ pol <= PolCap
  BY BaseAssumption DEF TypeOK, BaseTypeOK
<1>2. pol' = pol \/ (pol < PolCap /\ pol' = pol + 1) \/ (pol > 0 /\ pol' = pol - 1)
  BY DEF SendStop, DrainPol
<1> QED BY <1>1, <1>2

LEMMA TypeInit == Init => TypeOK
<1> SUFFICES ASSUME Init PROVE TypeOK
  OBVIOUS
<1>1. AllFalse \in Word
  BY DEF AllFalse, Word
<1>2. BaseTypeOK
  BY <1>1, BaseAssumption DEF Init, BaseInit, BaseTypeOK, ReturnLabels, Sockets
<1> QED BY <1>2 DEF Init, TypeOK, SyncLabels, BaseLabels

(* Each action, by where it goes.                                          *)
LEMMA TypeNext == TypeOK /\ [Next]_vars => TypeOK'
<1> SUFFICES ASSUME TypeOK, [Next]_vars PROVE TypeOK'
  OBVIOUS
<1> USE DEF SyncLabels, StartLabels, BaseLabels, RunLabels, LoopLabels, StopLabels,
            DestroyLabels, ReturnLabels, FlagNames
<1>1. /\ flags \in Word /\ reg \in [Threads -> Word \cup {NoWord}]
      /\ serverTid \in Threads \cup {NoTid} /\ open \subseteq Sockets
      /\ backlog \in 0..MaxClients /\ pol \in 0..PolCap
      /\ ready \in [Threads -> SUBSET Sockets] /\ ret \in [Threads -> ReturnLabels]
      /\ freed \in BOOLEAN
  BY DEF TypeOK, BaseTypeOK
<1>2. ASSUME NEW t \in Threads, NEW a, NEW b \in SyncLabels, NEW back \in ReturnLabels,
             CallReturningTo(t, a, b, back)
      PROVE  TypeOK'
  <2>1. ret' \in [Threads -> ReturnLabels]
    BY <1>1, <1>2 DEF CallReturningTo
  <2>2. TypedStep(t, a, b)
    BY <1>1, <1>2, <2>1 DEF CallReturningTo, objVars, netVars, TypedStep
  <2> QED BY <2>2, TypedStepKeeps
<1>3. ASSUME NEW t \in Threads, NEW a, NEW b \in SyncLabels, Goto(t, a, b),
             UNCHANGED <<objVars, netVars, ret, freed>>, ready' \in [Threads -> SUBSET Sockets]
      PROVE  TypeOK'
  <2>1. TypedStep(t, a, b)
    BY <1>1, <1>3 DEF objVars, netVars, TypedStep
  <2> QED BY <2>1, TypedStepKeeps
<1>4. ASSUME NEW t \in Threads, NEW a, NEW b \in SyncLabels, Goto(t, a, b),
             NEW f \in FlagNames, NEW v \in BOOLEAN, SetFlag(t, f, v),
             UNCHANGED <<serverTid, netVars, ret, freed>>, ready' \in [Threads -> SUBSET Sockets]
      PROVE  TypeOK'
  <2>1. flags' \in Word /\ reg' \in [Threads -> Word \cup {NoWord}]
    BY <1>4, StoreType
  <2>2. TypedStep(t, a, b)
    BY <1>1, <1>4, <2>1 DEF netVars, TypedStep
  <2> QED BY <2>2, TypedStepKeeps
<1>5. ASSUME NEW t \in Threads, Calls(t) PROVE TypeOK'
  <2>1. CASE CreateServer(t)
    BY <2>1, CreateType DEF CreateServer, TypeOK, BaseTypeOK
  <2>2. CASE CallStart(t) \/ CallStop(t) \/ CallDestroy(t) \/ CallDelete(t) \/ CallbackCalls(t)
    BY <1>2, <2>2 DEF CallStart, CallStop, CallDestroy, CallDelete, CallbackCalls
  <2> QED BY <1>5, <2>1, <2>2 DEF Calls
<1>6. ASSUME NEW t \in Threads, Start(t) PROVE TypeOK'
  <2>1. CASE StartTest(t)
    BY <1>1, <1>3, <2>1 DEF StartTest
  <2>2. CASE StartRun(t)
    BY <1>1, <1>4, <2>2 DEF StartRun
  <2>3. CASE StartBig(t)
    BY <1>1, <1>4, <2>3 DEF StartBig
  <2>4. CASE CreateAndStart(t)
    <3>1. CASE /\ Goto(t, "createAndStart", "startRunOnly")
               /\ UNCHANGED <<objVars, netVars, ready, ret, freed>>
      BY <1>1, <1>3, <3>1
    <3>2. CASE /\ CreateSucceeds \/ CreateFails
               /\ Goto(t, "createAndStart", "idle")
               /\ UNCHANGED <<serverTid, reg, ready, ret, freed>>
      <4>1. TypedStep(t, "createAndStart", "idle")
        BY <1>1, <3>2, CreateType DEF TypedStep
      <4> QED BY <4>1, TypedStepKeeps
    <3> QED BY <2>4, <3>1, <3>2 DEF CreateAndStart
  <2> QED BY <1>6, <2>1, <2>2, <2>3, <2>4 DEF Start
<1>7. ASSUME NEW t \in Threads, Stop(t) PROVE TypeOK'
  <2>1. AfterStop(t) \in SyncLabels /\ AfterDestroy(t) \in SyncLabels
    BY <1>1 DEF AfterStop, AfterDestroy
  <2>2. CASE StopTest(t)
    BY <1>1, <1>3, <2>1, <2>2 DEF StopTest
  <2>3. CASE Free(t)
    <3>1. TypedStep(t, "free", "gone")
      BY <1>1, <2>3 DEF Free, objVars, netVars, TypedStep
    <3> QED BY <3>1, TypedStepKeeps
  <2>4. CASE StopCall(t, AfterStop(t)) /\ UNCHANGED freed
    <3>1. CASE StopRun(t) \/ StopBig(t) \/ StopSelf(t, AfterStop(t))
      BY <1>1, <1>4, <2>1, <2>4, <3>1 DEF StopRun, StopBig, StopSelf
    <3>2. CASE StopTid(t, AfterStop(t)) \/ StopWait(t, AfterStop(t))
      BY <1>1, <1>3, <2>1, <2>4, <3>2 DEF StopTid, StopWait
    <3>3. CASE StopSend(t)
      <4>1. TypedStep(t, "stopSend", "stopWait")
        BY <1>1, <2>4, <3>3, SendType DEF StopSend, objVars, TypedStep
      <4> QED BY <4>1, TypedStepKeeps
    <3> QED BY <2>4, <3>1, <3>2, <3>3 DEF StopCall
  <2>5. CASE DestroyCall(t, AfterDestroy(t)) /\ UNCHANGED freed
    <3>1. CASE DestroyTest(t, AfterDestroy(t))
      BY <1>1, <1>3, <2>1, <2>5, <3>1 DEF DestroyTest
    <3>2. CASE CloseAll(t, AfterDestroy(t))
      <4>1. flags' \in Word /\ 0 \in 0..PolCap /\ 0 \in 0..MaxClients
        BY <3>2, BaseAssumption DEF CloseAll, AllFalse, Word
      <4>2. TypedStep(t, "close", AfterDestroy(t))
        BY <1>1, <2>1, <2>5, <3>2, <4>1 DEF CloseAll, TypedStep
      <4> QED BY <4>2, TypedStepKeeps
    <3> QED BY <2>5, <3>1, <3>2 DEF DestroyCall
  <2> QED BY <1>7, <2>2, <2>3, <2>4, <2>5 DEF Stop
<1>8. ASSUME NEW t \in Threads, AcceptLoop(t) \/ PollInterrupted(t), UNCHANGED freed
      PROVE  TypeOK'
  <2>1. CASE RunTid(t)
    <3>1. TypedStep(t, "runTid", "runMark")
      BY <1>1, <1>8, <2>1 DEF RunTid, netVars, TypedStep
    <3> QED BY <3>1, TypedStepKeeps
  <2>2. CASE RunMark(t) \/ Enter(t) \/ Unmark(t)
    BY <1>1, <1>4, <1>8, <2>2 DEF RunMark, Enter, Unmark
  <2>3. CASE LoopTest(t) \/ Woke(t) \/ CallbackReturns(t) \/ BigTest(t)
    BY <1>1, <1>3, <1>8, <2>3 DEF LoopTest, Woke, AfterPoll, CallbackReturns, BigTest
  <2>4. CASE PollReady(t) \/ PollInterrupted(t)
    <3>1. Readable \in SUBSET Sockets /\ {} \in SUBSET Sockets
      BY <1>1 DEF Readable
    <3>2. ready' \in [Threads -> SUBSET Sockets]
      BY <1>1, <2>4, <3>1 DEF PollReady, PollInterrupted
    <3> QED BY <1>3, <1>8, <2>4, <3>2 DEF PollReady, PollInterrupted
  <2>5. CASE Drain(t)
    <3>1. PICK b \in {"accept", "leave"} : Goto(t, "drain", b)
      BY <2>5 DEF Drain
    <3>2. TypedStep(t, "drain", b)
      BY <1>1, <1>8, <2>5, <3>1, SendType DEF Drain, objVars, TypedStep
    <3> QED BY <3>2, TypedStepKeeps
  <2>6. CASE Accept(t)
    <3>1. PICK b \in {"cb", "leave"} : Goto(t, "accept", b)
      BY <2>6 DEF Accept
    <3>2. backlog' \in 0..MaxClients
      BY <1>1, <2>6, BaseAssumption DEF Accept
    <3>3. TypedStep(t, "accept", b)
      BY <1>1, <1>8, <2>6, <3>1, <3>2 DEF Accept, objVars, TypedStep
    <3> QED BY <3>3, TypedStepKeeps
  <2>7. CASE Leave(t)
    <3>1. ready' \in [Threads -> SUBSET Sockets]
      BY <1>1, <2>7 DEF Leave
    <3> QED BY <1>4, <1>8, <2>7, <3>1 DEF Leave
  <2> QED BY <1>8, <2>1, <2>2, <2>3, <2>4, <2>5, <2>6, <2>7 DEF AcceptLoop
<1>9. ASSUME NEW t \in Threads, ClearTid(t, "idle") \/ LoadFlags(t), UNCHANGED freed
      PROVE  TypeOK'
  <2>1. CASE ClearTid(t, "idle")
    <3>1. TypedStep(t, "clearTid", "idle")
      BY <1>1, <1>9, <2>1 DEF ClearTid, netVars, TypedStep
    <3> QED BY <3>1, TypedStepKeeps
  <2>2. CASE LoadFlags(t)
    BY <1>9, <2>2 DEF LoadFlags, TypeOK, BaseTypeOK, netVars
  <2> QED BY <1>9, <2>1, <2>2
<1>10. CASE Clients /\ UNCHANGED freed
  <2>1. backlog' \in 0..MaxClients
    BY <1>1, <1>10, BaseAssumption DEF Clients, ClientConnects, ClientAborts
  <2> QED BY <1>10, <2>1
       DEF Clients, ClientConnects, ClientAborts, TypeOK, BaseTypeOK, objVars
<1>11. CASE Finished \/ UNCHANGED vars
  BY <1>11 DEF Finished, vars, baseVars, TypeOK, BaseTypeOK
<1> QED BY <1>5, <1>6, <1>7, <1>8, <1>9, <1>10, <1>11 DEF Next, Run

-----------------------------------------------------------------------------
(* The invariant is inductive.                                             *)

(* A thread other than the owner is inside StopServer.                     *)
OthersStop == \E s \in Threads : ~Owner(s) /\ pc[s] \in StopLabels

(* What a step of the owner leaves alone, above all while others stop.     *)
OwnerStep(t) ==
  /\ \A u \in Threads \ {t} : pc'[u] = pc[u] /\ ret'[u] = ret[u]
  /\ SocketInv'
  /\ serverTid' \in {serverTid, t, NoTid}
  /\ OwnerInv(t)'
  /\ OthersStop =>
       /\ flags'["shouldRun"] = flags["shouldRun"]
       /\ flags'["shouldRunBig"] => flags["shouldRunBig"]
       /\ flags["shouldRun"] /\ flags["serverRunning"] => flags'["serverRunning"]
       /\ pc'[t] \notin {"start", "createAndStart"} \cup BeforeRise \cup Rising
       /\ Serves(t)' => flags'["serverRunning"]
       /\ pc'[t] \in StopLabels => ret'[t] # "cb"

LEMMA OwnerKeeps ==
  ASSUME TypeOK, Managed, SyncInv, NEW t \in Threads, Owner(t), OwnerStep(t)
  PROVE  SyncInv'
<1>1. \A u \in Threads \ {t} : ~Owner(u)
  BY DEF Managed
<1>2. serverTid' # NoTid => Owner(serverTid')
  BY DEF OwnerStep, SyncInv
<1>3. ASSUME NEW u \in Threads, ~Owner(u) PROVE StopperInv(u)'
  <2>1. u # t /\ pc'[u] = pc[u] /\ ret'[u] = ret[u] /\ StopperInv(u)
    BY <1>3 DEF OwnerStep, SyncInv
  <2>2. CASE pc[u] \in StopLabels
    <3>1. OthersStop
      BY <1>3, <2>2 DEF OthersStop
    <3>2. \A v \in Threads \ {u} : pc'[v] \in StopLabels => Owner(v) /\ ret'[v] # "cb"
      BY <2>1, <2>2, <3>1 DEF OwnerStep, StopperInv
    <3>3. \A v \in Threads : Owner(v) => v = t
      BY <1>1
    <3> QED BY <2>1, <2>2, <3>1, <3>2, <3>3 DEF OwnerStep, StopperInv
  <2>3. CASE pc[u] \notin StopLabels
    BY <2>1, <2>3 DEF StopperInv, StopLabels
  <2> QED BY <2>2, <2>3
<1> QED BY <1>1, <1>2, <1>3 DEF OwnerStep, SyncInv

(* The same for a step of another thread.                                  *)
StopperStep(s) ==
  /\ \A u \in Threads \ {s} : pc'[u] = pc[u] /\ ret'[u] = ret[u]
  /\ ready' = ready /\ serverTid' = serverTid /\ open' = open
  /\ \A f \in FlagNames \ {"shouldRun", "shouldRunBig"} : flags'[f] = flags[f]
  /\ flags'["shouldRun"] = flags["shouldRun"] \/ (pc[s] = "stopRun" /\ ~flags'["shouldRun"])
  /\ flags'["shouldRunBig"] = flags["shouldRunBig"]
     \/ (pc[s] = "stopBig" /\ ~flags'["shouldRunBig"])
  /\ pc[s] \notin StopLabels => \A u \in Threads \ {s} : pc[u] \notin StopLabels
  /\ StopperInv(s)'

LEMMA StopperKeeps ==
  ASSUME TypeOK, Managed, SyncInv, NEW s \in Threads, ~Owner(s), StopperStep(s)
  PROVE  SyncInv'
<1>1. SocketInv'
  BY DEF SyncInv, SocketInv, StopperStep, FlagNames
<1>2. serverTid' # NoTid => Owner(serverTid')
  BY DEF StopperStep, SyncInv
<1>3. flags'["serverRunning"] = flags["serverRunning"]
  BY DEF StopperStep, FlagNames
<1>4. ASSUME NEW u \in Threads, ~Owner(u), u # s PROVE StopperInv(u)'
  <2>1. pc'[u] = pc[u] /\ pc[u] \notin StopLabels /\ StopperInv(u)
    <3>1. StopperInv(u) /\ StopperInv(s)
      BY <1>4 DEF SyncInv
    <3>2. pc[s] \in StopLabels => pc[u] \notin StopLabels
      BY <1>4, <3>1 DEF StopperInv
    <3> QED BY <1>4, <3>1, <3>2 DEF StopperStep
  <2> QED BY <2>1 DEF StopperInv, StopLabels
<1>5. ASSUME NEW u \in Threads, Owner(u) PROVE OwnerInv(u)'
  <2>1. u # s /\ pc'[u] = pc[u] /\ ret'[u] = ret[u] /\ ready'[u] = ready[u] /\ OwnerInv(u)
    BY <1>5 DEF StopperStep, SyncInv
  <2>2. StopperInv(s)
    BY DEF SyncInv
  <2>3. pc[s] \in {"stopRun", "stopBig"} =>
          /\ pc[u] \notin Rising
          /\ pc[u] \in StopLabels => ret[u] # "cb"
          /\ Serves(u) => flags["serverRunning"]
    BY <1>5, <2>1, <2>2 DEF StopperInv, StopLabels
  <2>4. pc[s] = "stopRun" => flags["shouldRun"] /\ flags["serverRunning"]
    BY <2>2 DEF StopperInv
  <2>5. pc[s] = "stopBig" => ~flags["shouldRun"]
    BY <2>2 DEF StopperInv
  <2>6. /\ flags'["serverRunning"] = flags["serverRunning"]
        /\ flags'["isCreated"] = flags["isCreated"] /\ flags'["hasError"] = flags["hasError"]
        /\ serverTid' = serverTid
        /\ flags'["shouldRun"] = flags["shouldRun"] \/ (pc[s] = "stopRun" /\ ~flags'["shouldRun"])
        /\ flags'["shouldRunBig"] = flags["shouldRunBig"]
           \/ (pc[s] = "stopBig" /\ ~flags'["shouldRunBig"])
    BY DEF StopperStep, FlagNames
  <2> QED BY <2>1, <2>3, <2>4, <2>5, <2>6
       DEF OwnerInv, Rests, Serves, CalledBack, Rising, BeforeRise, StopLabels
<1>6. StopperInv(s)'
  BY DEF StopperStep
<1> QED BY <1>1, <1>2, <1>3, <1>4, <1>5, <1>6 DEF SyncInv

(* A thread that is not the owner: what it may do, ...                     *)
LEMMA StopperActs ==
  ASSUME TypeOK, Managed, SyncInv, NEW s \in Threads, ~Owner(s), Calls(s) \/ Run(s)
  PROVE  \/ CallStop(s) \/ StopTest(s) \/ StopWait(s, AfterStop(s))
         \/ StopRun(s) \/ StopBig(s) \/ StopTid(s, AfterStop(s)) \/ StopSend(s)
<1>1. pc[s] \in {"idle", "stop", "stopRun", "stopBig", "stopTid", "stopSend", "stopWait"}
  BY DEF SyncInv, StopperInv
<1>2. CASE Calls(s)
  <2>1. Api[s] \subseteq {"stop"}
    BY DEF Owner
  <2>2. ~CreateServer(s) /\ ~CallStart(s) /\ ~CallDestroy(s) /\ ~CallDelete(s)
    BY <2>1 DEF CreateServer, CallStart, CallDestroy, CallDelete, CanCall
  <2>3. ~CallbackCalls(s)
    BY <1>1 DEF CallbackCalls, CallReturningTo, Goto
  <2> QED BY <1>2, <2>2, <2>3 DEF Calls
<1>3. CASE Run(s)
  <2>1. ~Start(s)
    BY <1>1 DEF Start, StartTest, StartRun, StartBig, CreateAndStart, Goto
  <2>2. ~AcceptLoop(s) /\ ~ClearTid(s, "idle")
    BY <1>1 DEF AcceptLoop, RunTid, RunMark, LoopTest, Enter, PollReady, Woke, Drain, Accept,
       CallbackReturns, Leave, BigTest, Unmark, ClearTid, Goto
  <2>3. ~LoadFlags(s)
    BY DEF LoadFlags, Managed
  <2>4. ~DestroyCall(s, AfterDestroy(s)) /\ ~Free(s) /\ ~StopSelf(s, AfterStop(s))
    BY <1>1 DEF DestroyCall, DestroyTest, CloseAll, Free, StopSelf, Goto
  <2>5. Stop(s)
    BY <1>3, <2>1, <2>2, <2>3 DEF Run
  <2>6. CASE StopTest(s)
    BY <2>6
  <2>7. CASE (StopCall(s, AfterStop(s)) \/ DestroyCall(s, AfterDestroy(s))) /\ UNCHANGED freed
    BY <2>4, <2>7 DEF StopCall
  <2> QED BY <2>4, <2>5, <2>6, <2>7 DEF Stop
<1> QED BY <1>2, <1>3

(* ... and that it keeps the invariant.                                    *)
LEMMA StopperSteps ==
  ASSUME TypeOK, Managed, SyncInv, NEW s \in Threads, ~Owner(s), Calls(s) \/ Run(s)
  PROVE  SyncInv'
<1>1. StopperInv(s) /\ pc[s] \in SyncLabels /\ ret[s] \in ReturnLabels
  BY DEF SyncInv, TypeOK, BaseTypeOK
<1>2. s \notin Runners /\ serverTid # s
  <2>1. Api[s] \subseteq {"stop"} /\ s # NoTid
    BY BaseAssumption DEF Owner
  <2> QED BY <2>1 DEF Runners, SyncInv
<1>3. \A u \in Threads : Owner(u) => u # s /\ OwnerInv(u)
  BY DEF SyncInv
<1> USE DEF StopLabels
<1>4. CASE CallStop(s)
  <2>1. /\ pc[s] = "idle" /\ pc'[s] = "stop" /\ ret'[s] = "idle"
        /\ \A u \in Threads \ {s} : pc'[u] = pc[u] /\ ret'[u] = ret[u]
        /\ flags' = flags /\ ready' = ready /\ serverTid' = serverTid /\ open' = open
    BY <1>4 DEF CallStop, CallReturningTo, Goto, objVars, netVars, TypeOK, BaseTypeOK
  <2>2. /\ \A u \in Threads \ {s} : pc[u] \notin StopLabels
        /\ flags["serverRunning"] /\ flags["shouldRun"]
    BY <1>2, <1>4 DEF CallStop, CanStop, NobodyElseStops, Managed, Disciplines
  <2>3. \A u \in Threads : Owner(u) =>
          /\ pc[u] \notin {"start", "createAndStart"} \cup BeforeRise \cup Rising
          /\ Serves(u)' => flags["serverRunning"]
    BY <1>3, <2>2 DEF OwnerInv, Rests, Resting, Rising, BeforeRise
  <2>4. StopperInv(s)'
    BY <1>3, <2>1, <2>2, <2>3 DEF StopperInv
  <2>5. StopperStep(s)
    BY <2>1, <2>2, <2>4 DEF StopperStep
  <2> QED BY <2>5, StopperKeeps
<1>5. ASSUME NEW a \in StopLabels, NEW b \in {"idle", "stopRun", "stopSend", "stopWait"},
             Goto(s, a, b), UNCHANGED <<objVars, open, ready, ret>>,
             b = "stopRun" => a = "stop",
             b \in {"stopSend", "stopWait"} => a \in {"stopTid", "stopSend", "stopWait"}
      PROVE  SyncInv'
  <2>1. /\ pc[s] = a /\ pc'[s] = b
        /\ \A u \in Threads \ {s} : pc'[u] = pc[u] /\ ret'[u] = ret[u]
        /\ ret'[s] = ret[s]
        /\ flags' = flags /\ ready' = ready /\ serverTid' = serverTid /\ open' = open
    BY <1>5 DEF Goto, objVars, TypeOK, BaseTypeOK
  <2>2. StopperInv(s)'
    <3>1. \A u \in Threads : Owner(u) => u # s /\ (Serves(u)' <=> Serves(u))
      BY <1>3, <2>1 DEF Serves, CalledBack
    <3> QED BY <1>1, <1>5, <2>1, <3>1 DEF StopperInv
  <2>3. StopperStep(s)
    BY <1>5, <2>1, <2>2 DEF StopperStep
  <2> QED BY <2>3, StopperKeeps
<1>6. CASE StopTest(s)
  <2>1. pc[s] = "stop" /\ flags["shouldRun"]
    BY <1>1, <1>6 DEF StopTest, Goto, StopperInv
  <2> QED BY <1>5, <1>6, <2>1 DEF StopTest, netVars
<1>7. CASE StopWait(s, AfterStop(s))
  <2>1. AfterStop(s) = "idle"
    BY <1>1, <1>7 DEF StopWait, Goto, StopperInv, AfterStop
  <2> QED BY <1>5, <1>7, <2>1 DEF StopWait, netVars
<1>8. CASE StopSend(s)
  BY <1>5, <1>8 DEF StopSend
<1>9. CASE StopTid(s, AfterStop(s))
  <2>1. AfterStop(s) = "idle"
    BY <1>1, <1>9 DEF StopTid, Goto, StopperInv, AfterStop
  <2> QED BY <1>2, <1>5, <1>9, <2>1 DEF StopTid, StopsItself, netVars
<1>10. ASSUME NEW f \in {"shouldRun", "shouldRunBig"}, NEW b \in {"stopBig", "stopTid"},
              Goto(s, IF f = "shouldRun" THEN "stopRun" ELSE "stopBig", b),
              b = IF f = "shouldRun" THEN "stopBig" ELSE "stopTid",
              SetFlag(s, f, FALSE), UNCHANGED <<serverTid, open, ready, ret>>
       PROVE  SyncInv'
  <2>1. /\ pc[s] = (IF f = "shouldRun" THEN "stopRun" ELSE "stopBig") /\ pc'[s] = b
        /\ \A u \in Threads \ {s} : pc'[u] = pc[u] /\ ret'[u] = ret[u]
        /\ ret'[s] = ret[s] /\ ready' = ready /\ serverTid' = serverTid /\ open' = open
    BY <1>10 DEF Goto, TypeOK, BaseTypeOK
  <2>2. flags'[f] = FALSE /\ \A g \in FlagNames \ {f} : flags'[g] = flags[g]
    BY <1>10, StoreOne DEF FlagNames, Managed
  <2>3. StopperInv(s)'
    <3>1. \A u \in Threads : Owner(u) => u # s /\ (Serves(u)' <=> Serves(u))
      BY <1>3, <2>1 DEF Serves, CalledBack
    <3> QED BY <1>1, <1>10, <2>1, <2>2, <3>1 DEF StopperInv, FlagNames
  <2>4. StopperStep(s)
    BY <1>10, <2>1, <2>2, <2>3 DEF StopperStep, FlagNames
  <2> QED BY <2>4, StopperKeeps
<1>11. CASE StopRun(s)
  BY <1>10, <1>11 DEF StopRun, netVars
<1>12. CASE StopBig(s)
  BY <1>10, <1>12 DEF StopBig, netVars
<1> QED BY <1>4, <1>6, <1>7, <1>8, <1>9, <1>11, <1>12, StopperActs

(* What the owner may be doing while others stop the server.               *)
LEMMA WhileOthersStop ==
  ASSUME SyncInv, NEW t \in Threads, Owner(t), OthersStop
  PROVE  /\ pc[t] \notin {"start", "createAndStart"} \cup BeforeRise \cup Rising
         /\ Serves(t) => flags["serverRunning"]
         /\ pc[t] \in StopLabels => ret[t] # "cb"
         /\ flags["shouldRun"] => flags["serverRunning"]
<1>1. PICK s \in Threads : ~Owner(s) /\ pc[s] \in StopLabels
  BY DEF OthersStop
<1>2. StopperInv(s) /\ s # t
  BY <1>1 DEF SyncInv
<1> QED BY <1>1, <1>2 DEF StopperInv, StopLabels

(* A step of the owner that stores no flag and no serverTid, and changes   *)
(* no socket, ...                                                          *)
OwnerMoves(t, a, b, back) ==
  /\ Goto(t, a, b) /\ b \in SyncLabels /\ ret' = [ret EXCEPT ![t] = back]
  /\ flags' = flags /\ serverTid' = serverTid /\ open' = open
  /\ OwnerInv(t)'
  /\ OthersStop =>
       /\ b \notin {"start", "createAndStart"} \cup BeforeRise \cup Rising
       /\ b \in StopLabels => back # "cb"
       /\ Serves(t)' => Serves(t)

LEMMA OwnerMovesKeeps ==
  ASSUME TypeOK, Managed, SyncInv, NEW t \in Threads, Owner(t), NEW a, NEW b, NEW back,
         OwnerMoves(t, a, b, back)
  PROVE  SyncInv'
<1>1. /\ pc'[t] = b /\ ret'[t] = back
      /\ \A u \in Threads \ {t} : pc'[u] = pc[u] /\ ret'[u] = ret[u]
  BY DEF OwnerMoves, Goto, TypeOK, BaseTypeOK
<1>2. SocketInv'
  BY DEF OwnerMoves, SyncInv, SocketInv
<1>3. OwnerStep(t)
  BY <1>1, <1>2, WhileOthersStop DEF OwnerMoves, OwnerStep
<1> QED BY <1>3, OwnerKeeps

(* ... and one that stores a flag.                                         *)
OwnerStores(t, a, b, f, v) ==
  /\ Goto(t, a, b) /\ b \in SyncLabels /\ SetFlag(t, f, v)
  /\ serverTid' = serverTid /\ open' = open /\ ret' = ret
  /\ OwnerInv(t)'
  /\ OthersStop =>
       /\ f = "serverRunning" => ~flags["shouldRun"]
       /\ f \notin {"shouldRun", "shouldRunBig"}
       /\ b \notin {"start", "createAndStart"} \cup BeforeRise \cup Rising
       /\ b \notin StopLabels
       /\ Serves(t)' => Serves(t) /\ f # "serverRunning"

LEMMA OwnerStoresKeeps ==
  ASSUME TypeOK, Managed, SyncInv, NEW t \in Threads, Owner(t), NEW a, NEW b,
         NEW f \in FlagNames \ {"isCreated", "hasError"}, NEW v \in BOOLEAN,
         OwnerStores(t, a, b, f, v)
  PROVE  SyncInv'
<1>1. /\ pc'[t] = b /\ ret' = ret
      /\ \A u \in Threads \ {t} : pc'[u] = pc[u]
  BY DEF OwnerStores, Goto, TypeOK
<1>2. flags'[f] = v /\ \A g \in FlagNames \ {f} : flags'[g] = flags[g]
  BY StoreOne DEF OwnerStores, Managed
<1>3. SocketInv'
  BY <1>2 DEF OwnerStores, SyncInv, SocketInv, FlagNames
<1>4. OthersStop =>
        /\ f \notin {"shouldRun", "shouldRunBig"}
        /\ flags'["shouldRun"] = flags["shouldRun"]
        /\ flags'["shouldRunBig"] = flags["shouldRunBig"]
        /\ f # "serverRunning" => flags'["serverRunning"] = flags["serverRunning"]
  BY <1>2 DEF OwnerStores, FlagNames
<1>5. OwnerStep(t)
  BY <1>1, <1>3, <1>4, WhileOthersStop DEF OwnerStores, OwnerStep
<1> QED BY <1>5, OwnerKeeps

(* The owner in the accept loop: one step per action.                      *)
LEMMA OwnerServes ==
  ASSUME TypeOK, Managed, SyncInv, NEW t \in Threads, Owner(t),
         AcceptLoop(t) \/ PollInterrupted(t) \/ ClearTid(t, "idle")
  PROVE  SyncInv'
<1>1. OwnerInv(t) /\ pc[t] \in SyncLabels /\ ret \in [Threads -> ReturnLabels]
  BY DEF SyncInv, TypeOK, BaseTypeOK
<1> USE DEF StopLabels, DestroyLabels, SyncLabels, BaseLabels, RunLabels, LoopLabels,
            StartLabels, SocketLabels, Serving, Rising, BeforeRise, Resting
<1>2. ret' = ret => ret' = [ret EXCEPT ![t] = ret[t]]
  BY <1>1
<1>3. ASSUME NEW a \in Serving \ {"cb"}, NEW b \in Serving, Goto(t, a, b),
             UNCHANGED <<objVars, open, ret>>, b = "accept" => "serv" \in ready'[t],
             b \in {"enter", "poll", "woke", "drain", "accept"} =>
               flags["serverRunning"] /\ ~flags["hasError"],
             b = "big" /\ flags["shouldRun"] => flags["hasError"],
             b = "unmark" => ~flags["shouldRun"] /\ ~flags["shouldRunBig"]
      PROVE  SyncInv'
  <2>1. pc[t] = a /\ pc'[t] = b /\ flags' = flags /\ serverTid' = serverTid /\ open' = open
        /\ ret' = ret
    BY <1>3 DEF Goto, TypeOK, objVars
  <2>2. OwnerInv(t)'
    BY <1>1, <1>3, <2>1 DEF OwnerInv, Rests, Serves, CalledBack
  <2>3. OwnerMoves(t, a, b, ret[t])
    BY <1>2, <1>3, <2>1, <2>2 DEF OwnerMoves, Serves
  <2> QED BY <2>3, OwnerMovesKeeps
<1>4. CASE RunTid(t)
  <2>1. /\ pc[t] = "runTid" /\ pc'[t] = "runMark" /\ ret' = ret /\ flags' = flags
        /\ serverTid' = t /\ open' = open /\ \A u \in Threads \ {t} : pc'[u] = pc[u]
    BY <1>4 DEF RunTid, Goto, TypeOK, netVars
  <2>2. OwnerInv(t)'
    BY <1>1, <2>1 DEF OwnerInv, Rests, Serves, CalledBack
  <2>3. ~OthersStop
    BY <2>1, WhileOthersStop
  <2>4. SocketInv'
    BY <2>1 DEF SyncInv, SocketInv
  <2>5. OwnerStep(t)
    BY <2>1, <2>2, <2>3, <2>4 DEF OwnerStep
  <2> QED BY <2>5, OwnerKeeps
<1>5. CASE RunMark(t)
  <2>1. Goto(t, "runMark", "loop") /\ SetFlag(t, "serverRunning", TRUE)
        /\ UNCHANGED <<serverTid, open, ret>>
    BY <1>5 DEF RunMark, netVars
  <2>2. pc[t] = "runMark" /\ pc'[t] = "loop" /\ ret' = ret /\ serverTid' = serverTid
    BY <2>1 DEF Goto, TypeOK
  <2>3. flags'["serverRunning"] /\ \A g \in FlagNames \ {"serverRunning"} : flags'[g] = flags[g]
    BY <2>1, StoreOne DEF FlagNames, Managed
  <2>4. OwnerInv(t)'
    BY <1>1, <2>2, <2>3 DEF OwnerInv, Rests, Serves, CalledBack, FlagNames
  <2>5. ~OthersStop
    BY <2>2, WhileOthersStop
  <2>6. OwnerStores(t, "runMark", "loop", "serverRunning", TRUE)
    BY <2>1, <2>4, <2>5 DEF OwnerStores
  <2> QED BY <2>6, OwnerStoresKeeps DEF FlagNames
<1>6. ASSUME NEW a \in {"enter", "leave"}, NEW b \in {"poll", "loop"}, NEW v \in BOOLEAN,
             Goto(t, a, b), SetFlag(t, "inAcceptStack", v), b = "poll" => a = "enter",
             UNCHANGED <<serverTid, open, ret>>
      PROVE  SyncInv'
  <2>1. pc[t] = a /\ pc'[t] = b /\ ret' = ret /\ serverTid' = serverTid
    BY <1>6 DEF Goto, TypeOK
  <2>2. \A g \in FlagNames \ {"inAcceptStack"} : flags'[g] = flags[g]
    BY <1>6, StoreOne DEF FlagNames, Managed
  <2>3. OwnerInv(t)'
    BY <1>1, <1>6, <2>1, <2>2 DEF OwnerInv, Rests, Serves, CalledBack, FlagNames
  <2>4. OwnerStores(t, a, b, "inAcceptStack", v)
    BY <1>6, <2>1, <2>3 DEF OwnerStores, Serves
  <2> QED BY <2>4, OwnerStoresKeeps DEF FlagNames
<1>7. CASE LoopTest(t)
  <2>1. MayServe => flags["serverRunning"] /\ ~flags["hasError"]
    BY <1>1, <1>7 DEF LoopTest, Goto, MayServe, OwnerInv, Serves
  <2> QED BY <1>3, <1>7, <2>1 DEF LoopTest, MayServe, netVars
<1>8. CASE Enter(t)
  BY <1>6, <1>8 DEF Enter, netVars
<1>9. CASE PollReady(t) \/ PollInterrupted(t)
  <2>1. flags["serverRunning"] /\ ~flags["hasError"]
    BY <1>1, <1>9 DEF PollReady, PollInterrupted, Goto, OwnerInv
  <2> QED BY <1>3, <1>9, <2>1 DEF PollReady, PollInterrupted, netVars
<1>10. CASE Woke(t)
  <2>1. flags["serverRunning"] /\ ~flags["hasError"]
    BY <1>1, <1>10 DEF Woke, Goto, OwnerInv
  <2>2. AfterPoll(t) \in {"leave", "drain", "accept"}
        /\ (AfterPoll(t) = "accept" => "serv" \in ready[t])
    BY DEF AfterPoll
  <2> QED BY <1>3, <1>10, <2>1, <2>2 DEF Woke, netVars
<1>11. CASE Drain(t)
  <2>1. flags["serverRunning"] /\ ~flags["hasError"]
    BY <1>1, <1>11 DEF Drain, Goto, OwnerInv
  <2> QED BY <1>3, <1>11, <2>1 DEF Drain
<1>12. CASE Accept(t)
  BY <1>3, <1>12 DEF Accept
<1>13. CASE CallbackReturns(t)
  <2>1. pc[t] = "cb" /\ pc'[t] = "leave" /\ flags' = flags /\ serverTid' = serverTid
        /\ open' = open /\ ret' = ret
    BY <1>13 DEF CallbackReturns, Goto, TypeOK, objVars, netVars
  <2>2. OwnerInv(t)'
    BY <1>1, <2>1 DEF OwnerInv, Rests, Serves, CalledBack
  <2>3. OwnerMoves(t, "cb", "leave", ret[t])
    BY <1>2, <1>13, <2>1, <2>2 DEF OwnerMoves, CallbackReturns, Serves
  <2> QED BY <2>3, OwnerMovesKeeps
<1>14. CASE Leave(t)
  BY <1>6, <1>14 DEF Leave, netVars
<1>15. CASE BigTest(t)
  <2>1. ~flags["shouldRunBig"] => ~flags["shouldRun"]
    BY <1>1, <1>15 DEF BigTest, Goto, OwnerInv, Serves
  <2> QED BY <1>3, <1>15, <2>1 DEF BigTest, netVars
<1>16. CASE Unmark(t)
  <2>1. Goto(t, "unmark", "clearTid") /\ SetFlag(t, "serverRunning", FALSE)
        /\ UNCHANGED <<serverTid, open, ret>>
    BY <1>16 DEF Unmark, netVars
  <2>2. pc[t] = "unmark" /\ pc'[t] = "clearTid" /\ ret' = ret /\ serverTid' = serverTid
    BY <2>1 DEF Goto, TypeOK
  <2>3. ~flags'["serverRunning"] /\ \A g \in FlagNames \ {"serverRunning"} : flags'[g] = flags[g]
    BY <2>1, StoreOne DEF FlagNames, Managed
  <2>4. OwnerInv(t)' /\ ~flags["shouldRun"]
    BY <1>1, <2>2, <2>3 DEF OwnerInv, Rests, Serves, CalledBack, FlagNames
  <2>5. OwnerStores(t, "unmark", "clearTid", "serverRunning", FALSE)
    BY <2>1, <2>2, <2>4 DEF OwnerStores, Serves, CalledBack
  <2> QED BY <2>5, OwnerStoresKeeps DEF FlagNames
<1>17. CASE ClearTid(t, "idle")
  <2>1. /\ pc[t] = "clearTid" /\ pc'[t] = "idle" /\ ret' = ret /\ flags' = flags
        /\ serverTid' = NoTid /\ open' = open /\ \A u \in Threads \ {t} : pc'[u] = pc[u]
    BY <1>17 DEF ClearTid, Goto, TypeOK, netVars
  <2>2. OwnerInv(t)'
    BY <1>1, <2>1 DEF OwnerInv, Rests, Serves, CalledBack
  <2>3. SocketInv'
    BY <2>1 DEF SyncInv, SocketInv
  <2>4. OwnerStep(t)
    BY <2>1, <2>2, <2>3, WhileOthersStop DEF OwnerStep, Serves, CalledBack
  <2> QED BY <2>4, OwnerKeeps
<1> QED BY <1>4, <1>5, <1>7, <1>8, <1>9, <1>10, <1>11, <1>12, <1>13, <1>14, <1>15, <1>16, <1>17
        DEF AcceptLoop

(* CreateServer, wherever it is called from: nobody serves.                *)
LEMMA OwnerCreates ==
  ASSUME TypeOK, Managed, SyncInv, NEW t \in Threads, Owner(t),
         pc[t] \in {"idle", "createAndStart"}, pc'[t] = "idle",
         \A u \in Threads \ {t} : pc'[u] = pc[u],
         CreateSucceeds \/ CreateFails, UNCHANGED <<serverTid, ret>>
  PROVE  SyncInv'
<1>1. OwnerInv(t) /\ pc[t] \in SyncLabels
  BY DEF SyncInv, TypeOK
<1>2. /\ flags'["shouldRun"] = flags["shouldRun"]
      /\ flags'["shouldRunBig"] = flags["shouldRunBig"]
      /\ flags'["serverRunning"] = flags["serverRunning"]
  BY DEF CreateSucceeds, CreateFails, CreateRawFails, CreateStopperFails, TypeOK, BaseTypeOK,
         Word, FlagNames
<1>3. SocketInv'
  BY DEF CreateSucceeds, CreateFails, CreateRawFails, CreateStopperFails, TypeOK, BaseTypeOK,
         Word, FlagNames, SyncInv, SocketInv, Sockets
<1>4. ~flags["shouldRun"] /\ ~flags["serverRunning"]
  BY <1>1 DEF OwnerInv, Rests, Resting
<1> USE DEF StopLabels, DestroyLabels, LoopLabels, SocketLabels, Serving, Rising, BeforeRise,
            Resting
<1>5. OwnerInv(t)'
  BY <1>1, <1>2, <1>4 DEF OwnerInv, Rests, Serves, CalledBack
<1>6. OwnerStep(t)
  BY <1>2, <1>3, <1>4, <1>5 DEF OwnerStep, Serves, CalledBack
<1> QED BY <1>6, OwnerKeeps

(* The owner's calls.                                                      *)
LEMMA OwnerCalls ==
  ASSUME TypeOK, Managed, SyncInv, NEW t \in Threads, Owner(t), Calls(t)
  PROVE  SyncInv'
<1>1. OwnerInv(t) /\ pc[t] \in SyncLabels /\ ret \in [Threads -> ReturnLabels]
  BY DEF SyncInv, TypeOK, BaseTypeOK
<1> USE DEF StopLabels, DestroyLabels, SyncLabels, BaseLabels, RunLabels, LoopLabels,
            StartLabels, SocketLabels, Serving, Rising, BeforeRise, Resting
<1>2. ASSUME NEW a \in {"idle", "cb"}, NEW b \in {"start", "createAndStart", "stop", "destroy"},
             NEW back \in {"idle", "cb", "dtor"}, CallReturningTo(t, a, b, back),
             a = "cb" <=> back = "cb",
             b \in {"start", "createAndStart"} => a = "idle" /\ ~OthersStop,
             b = "createAndStart" => ~flags["hasError"],
             b = "stop" /\ back = "cb" => ~OthersStop
      PROVE  SyncInv'
  <2>1. pc[t] = a /\ pc'[t] = b /\ flags' = flags /\ serverTid' = serverTid /\ open' = open
        /\ ret'[t] = back
    BY <1>1, <1>2 DEF CallReturningTo, Goto, TypeOK, objVars, netVars
  <2>2. OwnerInv(t)'
    BY <1>1, <1>2, <2>1 DEF OwnerInv, Rests, Serves, CalledBack
  <2>3. OwnerMoves(t, a, b, back)
    BY <1>1, <1>2, <2>1, <2>2 DEF OwnerMoves, Serves, CallReturningTo, CalledBack
  <2> QED BY <2>3, OwnerMovesKeeps
<1>3. CASE CreateServer(t)
  <2>1. pc[t] = "idle" /\ pc' = pc /\ ret' = ret /\ serverTid' = serverTid
    BY <1>3 DEF CreateServer, CanCall
  <2> QED BY <1>3, <2>1, OwnerCreates DEF CreateServer
<1>4. CASE CallStart(t)
  <2>1. ~OthersStop
    BY <1>4 DEF CallStart, CanStart, Managed, Disciplines, OthersStop
  <2>2. CASE CallReturningTo(t, "idle", "start", "idle")
    BY <1>2, <2>1, <2>2
  <2>3. CASE CallReturningTo(t, "idle", "createAndStart", "idle") /\ ~flags["hasError"]
    BY <1>2, <2>1, <2>3
  <2> QED BY <1>4, <2>2, <2>3 DEF CallStart, Managed, Disciplines
<1>5. CASE CallStop(t)
  BY <1>2, <1>5 DEF CallStop
<1>6. CASE CallDestroy(t)
  BY <1>2, <1>6 DEF CallDestroy
<1>7. CASE CallDelete(t)
  BY <1>2, <1>7 DEF CallDelete
<1>8. CASE CallbackCalls(t)
  <2>1. CASE NobodyElseStops(t) /\ CallReturningTo(t, "cb", "stop", "cb")
    <3>1. ~OthersStop
      BY <2>1 DEF NobodyElseStops, Managed, Disciplines, OthersStop
    <3> QED BY <1>2, <2>1, <3>1
  <2>2. CASE CallReturningTo(t, "cb", "destroy", "cb")
    BY <1>2, <2>2
  <2> QED BY <1>8, <2>1, <2>2 DEF CallbackCalls
<1> QED BY <1>3, <1>4, <1>5, <1>6, <1>7, <1>8 DEF Calls

(* The owner in a start call.                                              *)
LEMMA OwnerStarts ==
  ASSUME TypeOK, Managed, SyncInv, NEW t \in Threads, Owner(t), Start(t)
  PROVE  SyncInv'
<1>1. OwnerInv(t) /\ pc[t] \in SyncLabels /\ ret \in [Threads -> ReturnLabels]
  BY DEF SyncInv, TypeOK, BaseTypeOK
<1> USE DEF StopLabels, DestroyLabels, SyncLabels, BaseLabels, RunLabels, LoopLabels,
            StartLabels, SocketLabels, Serving, Rising, BeforeRise, Resting
<1>2. ret' = ret => ret' = [ret EXCEPT ![t] = ret[t]]
  BY <1>1
<1>3. pc[t] \in {"start", "createAndStart", "startRun", "startRunOnly", "startBig"}
  BY DEF Start, StartTest, StartRun, StartBig, CreateAndStart, Goto
<1>4. ~OthersStop
  BY <1>3, WhileOthersStop
<1>5. ASSUME NEW a \in {"start", "createAndStart"}, NEW b \in {"idle", "startRun", "startRunOnly"},
             Goto(t, a, b), UNCHANGED <<objVars, open, ret>>,
             b # "idle" => flags["isCreated"],
             b = "startRunOnly" => a = "createAndStart"
      PROVE  SyncInv'
  <2>1. pc[t] = a /\ pc'[t] = b /\ flags' = flags /\ serverTid' = serverTid /\ open' = open
        /\ ret' = ret
    BY <1>5 DEF Goto, TypeOK, objVars
  <2>2. OwnerInv(t)'
    BY <1>1, <1>5, <2>1 DEF OwnerInv, Rests, Serves, CalledBack
  <2>3. OwnerMoves(t, a, b, ret[t])
    BY <1>2, <1>4, <1>5, <2>1, <2>2 DEF OwnerMoves
  <2> QED BY <2>3, OwnerMovesKeeps
<1>6. CASE StartTest(t)
  BY <1>5, <1>6 DEF StartTest, StartAllowed, netVars
<1>7. ASSUME NEW a \in {"startRun", "startRunOnly"}, NEW b \in {"startBig", "runTid"},
             Goto(t, a, b), a = "startRun" <=> b = "startBig", SetFlag(t, "shouldRun", TRUE),
             UNCHANGED <<serverTid, open, ret>>
      PROVE  SyncInv'
  <2>1. pc[t] = a /\ pc'[t] = b
    BY <1>7 DEF Goto, TypeOK
  <2>2. flags'["shouldRun"] /\ \A g \in FlagNames \ {"shouldRun"} : flags'[g] = flags[g]
    BY <1>7, StoreOne DEF FlagNames, Managed
  <2>3. OwnerInv(t)'
    BY <1>1, <1>7, <2>1, <2>2 DEF OwnerInv, Rests, Serves, CalledBack, FlagNames
  <2>4. OwnerStores(t, a, b, "shouldRun", TRUE)
    BY <1>4, <1>7, <2>3 DEF OwnerStores
  <2> QED BY <2>4, OwnerStoresKeeps DEF FlagNames
<1>8. CASE StartRun(t)
  BY <1>7, <1>8 DEF StartRun, netVars
<1>9. CASE StartBig(t)
  <2>1. Goto(t, "startBig", "runTid") /\ SetFlag(t, "shouldRunBig", TRUE)
        /\ UNCHANGED <<serverTid, open, ret>>
    BY <1>9 DEF StartBig, netVars
  <2>2. pc[t] = "startBig" /\ pc'[t] = "runTid"
    BY <2>1 DEF Goto, TypeOK
  <2>3. flags'["shouldRunBig"] /\ \A g \in FlagNames \ {"shouldRunBig"} : flags'[g] = flags[g]
    BY <2>1, StoreOne DEF FlagNames, Managed
  <2>4. OwnerInv(t)'
    BY <1>1, <2>1, <2>2, <2>3 DEF OwnerInv, Rests, Serves, CalledBack, FlagNames
  <2>5. OwnerStores(t, "startBig", "runTid", "shouldRunBig", TRUE)
    BY <1>4, <2>1, <2>4 DEF OwnerStores
  <2> QED BY <2>5, OwnerStoresKeeps DEF FlagNames
<1>10. CASE CreateAndStart(t)
  <2>1. CASE /\ flags["isCreated"] /\ Goto(t, "createAndStart", "startRunOnly")
             /\ UNCHANGED <<objVars, netVars, ready, ret, freed>>
    BY <1>5, <2>1 DEF netVars
  <2>2. CASE /\ CreateSucceeds \/ CreateFails
             /\ Goto(t, "createAndStart", "idle")
             /\ UNCHANGED <<serverTid, reg, ready, ret, freed>>
    <3>1. pc[t] = "createAndStart" /\ pc'[t] = "idle" /\ \A u \in Threads \ {t} : pc'[u] = pc[u]
      BY <2>2 DEF Goto, TypeOK
    <3> QED BY <2>2, <3>1, OwnerCreates
  <2> QED BY <1>10, <2>1, <2>2 DEF CreateAndStart
<1> QED BY <1>6, <1>8, <1>9, <1>10 DEF Start

(* The owner in StopServer, DestroyServer or the destructor.               *)
LEMMA OwnerStops ==
  ASSUME TypeOK, Managed, SyncInv, NEW t \in Threads, Owner(t), Stop(t)
  PROVE  SyncInv'
<1>1. OwnerInv(t) /\ pc[t] \in SyncLabels /\ ret \in [Threads -> ReturnLabels]
  BY DEF SyncInv, TypeOK, BaseTypeOK
<1> USE DEF StopLabels, DestroyLabels, SyncLabels, BaseLabels, RunLabels, LoopLabels,
            StartLabels, SocketLabels, Serving, Rising, BeforeRise, Resting
<1>2. ret' = ret => ret' = [ret EXCEPT ![t] = ret[t]]
  BY <1>1
<1>3. ret[t] \in {"idle", "cb", "dtor"}
  BY <1>1 DEF ReturnLabels
(* A step between two statements of a call, or out of it.                  *)
<1>4. ASSUME NEW a \in {"stop", "stopTid", "destroy", "free"},
             NEW b \in {"stopRun", "stopSelf", "close", "destroy", "free", "gone"}
                       \cup ReturnLabels,
             Goto(t, a, b), UNCHANGED <<objVars, open, ret>>,
             b = "stopRun" => a = "stop" /\ flags["shouldRun"],
             b = "stopSelf" => a = "stopTid",
             b = "close" => ~flags["serverRunning"],
             b \in {"destroy", "free"} => ret[t] # "cb",
             b = "gone" <=> a = "free",
             b \in ReturnLabels => b = ret[t] /\ b # "dtor"
      PROVE  SyncInv'
  <2>1. pc[t] = a /\ pc'[t] = b /\ flags' = flags /\ serverTid' = serverTid /\ open' = open
        /\ ret' = ret
    BY <1>4 DEF Goto, TypeOK, objVars
  <2>2. OwnerInv(t)'
    BY <1>1, <1>3, <1>4, <2>1 DEF OwnerInv, Rests, Serves, CalledBack, ReturnLabels
  <2>3. OthersStop => /\ b \notin StopLabels
                      /\ Serves(t)' => Serves(t)
    BY <1>1, <1>3, <1>4, <2>1, WhileOthersStop DEF OwnerInv, Rests, Serves, CalledBack, ReturnLabels
  <2>4. OwnerMoves(t, a, b, ret[t])
    BY <1>2, <1>4, <2>1, <2>2, <2>3 DEF OwnerMoves, ReturnLabels
  <2> QED BY <2>4, OwnerMovesKeeps
(* A store that stops the server from its callback.                        *)
<1>5. ASSUME NEW a \in {"stopRun", "stopBig", "stopSelf"}, NEW b \in {"stopBig", "stopTid", "cb"},
             NEW f \in {"shouldRun", "shouldRunBig", "serverRunning"}, Goto(t, a, b),
             SetFlag(t, f, FALSE), UNCHANGED <<serverTid, open, ret>>,
             a = "stopRun" <=> f = "shouldRun", a = "stopRun" <=> b = "stopBig",
             a = "stopBig" <=> f = "shouldRunBig", a = "stopBig" <=> b = "stopTid"
      PROVE  SyncInv'
  <2>1. pc[t] = a /\ pc'[t] = b /\ ret' = ret /\ serverTid' = serverTid
    BY <1>5 DEF Goto, TypeOK
  <2>2. ~flags'[f] /\ \A g \in FlagNames \ {f} : flags'[g] = flags[g]
    BY <1>5, StoreOne DEF FlagNames, Managed
  <2>3. CalledBack(t)
    BY <1>1, <1>5, <2>1 DEF OwnerInv, CalledBack
  <2>4. OwnerInv(t)'
    BY <1>1, <1>5, <2>1, <2>2, <2>3 DEF OwnerInv, Rests, Serves, CalledBack, FlagNames
  <2>5. ~OthersStop
    BY <2>1, <2>3, WhileOthersStop DEF CalledBack
  <2>6. OwnerStores(t, a, b, f, FALSE)
    BY <1>5, <2>1, <2>4, <2>5 DEF OwnerStores
  <2> QED BY <2>6, OwnerStoresKeeps DEF FlagNames
<1>6. CASE StopTest(t)
  <2>1. AfterStop(t) \in ReturnLabels \cup {"destroy"}
        /\ (AfterStop(t) = "destroy" => ret[t] # "cb")
        /\ (AfterStop(t) \in ReturnLabels => AfterStop(t) = ret[t] /\ AfterStop(t) # "dtor")
    BY <1>3 DEF AfterStop, ReturnLabels
  <2>2. PICK b \in {"stopRun", AfterStop(t)} : Goto(t, "stop", b)
          /\ (b = "stopRun" => flags["shouldRun"])
    BY <1>6, <2>1 DEF StopTest, ReturnLabels
  <2> QED BY <1>4, <1>6, <2>1, <2>2 DEF StopTest, netVars, ReturnLabels
<1>7. CASE Free(t)
  BY <1>4, <1>7 DEF Free, netVars, ReturnLabels
<1>8. CASE StopCall(t, AfterStop(t))
  <2>1. CASE StopRun(t)
    BY <1>5, <2>1 DEF StopRun, netVars
  <2>2. CASE StopBig(t)
    BY <1>5, <2>2 DEF StopBig, netVars
  <2>3. CASE StopTid(t, AfterStop(t))
    <3>1. CalledBack(t) /\ StopsItself(t)
      BY <1>1, <2>3 DEF StopTid, Goto, StopsItself, OwnerInv, Serves, CalledBack
    <3> QED BY <1>4, <2>3, <3>1 DEF StopTid, netVars, ReturnLabels
  <2>4. CASE StopSelf(t, AfterStop(t))
    <3>1. AfterStop(t) = "cb"
      BY <1>1, <2>4 DEF StopSelf, Goto, OwnerInv, AfterStop
    <3> QED BY <1>5, <2>4, <3>1 DEF StopSelf, netVars
  <2>5. CASE StopSend(t) \/ StopWait(t, AfterStop(t))
    BY <1>1, <2>5 DEF StopSend, StopWait, Goto, OwnerInv, CalledBack
  <2> QED BY <1>8, <2>1, <2>2, <2>3, <2>4, <2>5 DEF StopCall
<1>9. CASE DestroyCall(t, AfterDestroy(t))
  <2>1. AfterDestroy(t) \in ReturnLabels \cup {"free"}
        /\ (AfterDestroy(t) = "free" => ret[t] # "cb")
        /\ (AfterDestroy(t) \in ReturnLabels =>
              AfterDestroy(t) = ret[t] /\ AfterDestroy(t) # "dtor")
    BY <1>3 DEF AfterDestroy, ReturnLabels
  <2>2. CASE DestroyTest(t, AfterDestroy(t))
    <3>1. PICK b \in {"close", AfterDestroy(t)} : Goto(t, "destroy", b)
            /\ (b = "close" => ~flags["serverRunning"])
      BY <2>1, <2>2 DEF DestroyTest, DestroyAllowed, ReturnLabels
    <3> QED BY <1>4, <2>1, <2>2, <3>1 DEF DestroyTest, netVars, ReturnLabels
  <2>3. CASE CloseAll(t, AfterDestroy(t))
    <3>1. /\ pc[t] = "close" /\ pc'[t] = AfterDestroy(t) /\ ret' = ret
          /\ \A u \in Threads \ {t} : pc'[u] = pc[u]
          /\ serverTid' = NoTid /\ \A f \in FlagNames : ~flags'[f]
      BY <2>3 DEF CloseAll, Goto, TypeOK, AllFalse
    <3>2. ~flags["serverRunning"] /\ ~flags["shouldRun"]
      BY <1>1, <3>1 DEF OwnerInv, Rests, Serves, CalledBack
    <3>3. OwnerInv(t)'
      BY <1>3, <2>1, <3>1 DEF OwnerInv, Rests, Serves, CalledBack, FlagNames, ReturnLabels
    <3>4. SocketInv'
      BY <3>1 DEF SocketInv, FlagNames
    <3>5. OthersStop => ret[t] # "cb"
      BY <3>1, <3>2, WhileOthersStop DEF Serves, CalledBack
    <3>6. OthersStop => ~Serves(t)' /\ pc'[t] \in {"idle", "free"}
      BY <1>3, <2>1, <3>1, <3>5 DEF Serves, CalledBack, ReturnLabels
    <3>7. flags'["shouldRun"] = flags["shouldRun"] /\ ~flags'["shouldRunBig"]
      BY <2>3, <3>2 DEF CloseAll, AllFalse, FlagNames, TypeOK, BaseTypeOK, Word
    <3>8. OwnerStep(t)
      BY <3>1, <3>2, <3>3, <3>4, <3>6, <3>7 DEF OwnerStep
    <3> QED BY <3>8, OwnerKeeps
  <2> QED BY <1>9, <2>2, <2>3 DEF DestroyCall
<1> QED BY <1>6, <1>7, <1>8, <1>9, Stop(t) DEF Stop

(* Every step keeps the invariant.                                         *)
LEMMA SyncInvNext == Managed /\ TypeOK /\ SyncInv /\ [Next]_vars => SyncInv'
<1> SUFFICES ASSUME Managed, TypeOK, SyncInv, [Next]_vars PROVE SyncInv'
  OBVIOUS
<1>1. ASSUME NEW t \in Threads, Calls(t) \/ Run(t) PROVE SyncInv'
  <2>1. CASE Owner(t)
    <3>1. ~LoadFlags(t)
      BY DEF LoadFlags, Managed
    <3> QED BY <1>1, <2>1, <3>1, OwnerCalls, OwnerStarts, OwnerStops, OwnerServes DEF Run
  <2>2. CASE ~Owner(t)
    BY <1>1, <2>2, StopperSteps
  <2> QED BY <2>1, <2>2
<1>2. ASSUME NEW t \in Threads, PollInterrupted(t) PROVE SyncInv'
  <2>1. Owner(t)
    BY <1>2 DEF PollInterrupted, Goto, SyncInv, StopperInv
  <2> QED BY <1>2, <2>1, OwnerServes
<1>3. ASSUME UNCHANGED <<flags, serverTid, open, pc, ready, ret>> PROVE SyncInv'
  BY <1>3 DEF SyncInv, SocketInv, OwnerInv, StopperInv, Rests, Serves, CalledBack
<1>4. CASE Clients
  BY <1>3, <1>4 DEF Clients, ClientConnects, ClientAborts, objVars
<1>5. CASE Finished \/ UNCHANGED vars
  BY <1>3, <1>5 DEF Finished, vars, baseVars
<1> QED BY <1>1, <1>2, <1>4, <1>5 DEF Next

LEMMA SyncInvInit == Init => SyncInv
<1> SUFFICES ASSUME Init PROVE SyncInv
  OBVIOUS
<1> USE DEF StopLabels, DestroyLabels, LoopLabels, SocketLabels, Serving, Rising, BeforeRise,
            Resting
<1>1. \A f \in FlagNames : ~flags[f]
  BY DEF Init, BaseInit, AllFalse
<1>2. \A t \in Threads : pc[t] = "idle"
  BY DEF Init
<1>3. \A t \in Threads : OwnerInv(t) /\ StopperInv(t)
  BY <1>1, <1>2 DEF OwnerInv, StopperInv, Rests, Serves, CalledBack, FlagNames
<1> QED BY <1>1, <1>3 DEF SyncInv, SocketInv, Init, BaseInit, FlagNames

-----------------------------------------------------------------------------
(* The theorems.                                                           *)

(* Every variable stays in its domain, whatever the threads call.          *)
THEOREM SyncTypes == Spec => []TypeOK
<1> QED BY TypeInit, TypeNext, PTL DEF Spec

(* The flags, serverTid and the positions of the threads agree.            *)
THEOREM SyncInvariant ==
  ASSUME Managed
  PROVE  Spec => [](TypeOK /\ SyncInv)
<1>1. TypeOK /\ SyncInv /\ [Next]_vars => (TypeOK /\ SyncInv)'
  BY TypeNext, SyncInvNext
<1> QED BY <1>1, TypeInit, SyncInvInit, PTL DEF Spec

(* The thread in the accept loop uses open sockets only, while the server  *)
(* is stopped from other threads and stopped and destroyed by its own      *)
(* accept callback.                                                        *)
THEOREM SyncSocketsSafe ==
  ASSUME Managed
  PROVE  Spec => []SocketsOpenInAccept
<1>1. TypeOK /\ SyncInv => SocketsOpenInAccept
  BY DEF SyncInv, SocketInv, OwnerInv, StopperInv, Serves, Serving, LoopLabels, SocketLabels,
         SocketsOpenInAccept
<1> QED BY <1>1, SyncInvariant, PTL

(* A step moves one thread.                                                *)
LEMMA OneMoves ==
  ASSUME TypeOK, NEW t \in Threads, Calls(t) \/ Run(t) \/ PollInterrupted(t)
  PROVE  \A u \in Threads \ {t} : pc'[u] = pc[u] /\ ret'[u] = ret[u]
<1>1. CASE Calls(t)
  BY <1>1 DEF Calls, CreateServer, CallStart, CallStop, CallDestroy, CallDelete, CallbackCalls,
              CallReturningTo, Goto, TypeOK, BaseTypeOK
<1>2. CASE Start(t)
  BY <1>2 DEF Start, StartTest, StartRun, StartBig, CreateAndStart, Goto, TypeOK, BaseTypeOK
<1>3. CASE Stop(t)
  BY <1>3 DEF Stop, StopTest, Free, StopCall, StopRun, StopBig, StopTid, StopSelf, StopSend,
              StopWait, DestroyCall, DestroyTest, CloseAll, Goto, TypeOK, BaseTypeOK
<1>4. CASE AcceptLoop(t) \/ ClearTid(t, "idle") \/ LoadFlags(t) \/ PollInterrupted(t)
  BY <1>4 DEF AcceptLoop, RunTid, RunMark, LoopTest, Enter, PollReady, PollInterrupted, Woke,
              Drain, Accept, CallbackReturns, Leave, BigTest, Unmark, ClearTid, LoadFlags, Goto,
              TypeOK, BaseTypeOK
<1> QED BY <1>1, <1>2, <1>3, <1>4 DEF Run

(* When a thread other than the owner finds the server stopped, or without *)
(* a stopper pair, it is.                                                  *)
LEMMA NotRunningIsOver ==
  ASSUME TypeOK, Managed, SyncInv, NEW s \in Threads, ~Owner(s), pc[s] \in StopLabels,
         ~StillRunning \/ "stp" \notin open
  PROVE  \A u \in Threads : ~InRunServer(u)
<1> SUFFICES ASSUME NEW u \in Threads PROVE ~InRunServer(u)
  OBVIOUS
<1>1. CASE Owner(u)
  <2>1. pc[u] \notin Rising /\ (Serves(u) => flags["serverRunning"])
    BY <1>1 DEF SyncInv, StopperInv
  <2>2. Serves(u) => flags["isCreated"] /\ "stp" \in open
    BY <1>1, <2>1 DEF SyncInv, OwnerInv, SocketInv
  <2>3. ~Serves(u)
    BY <2>1, <2>2 DEF StillRunning
  <2> QED BY <2>1, <2>3 DEF Serves, Serving, Rising, InRunServer, RunLabels
<1>2. CASE ~Owner(u)
  BY <1>2 DEF SyncInv, StopperInv, InRunServer, CalledBack, RunLabels, LoopLabels, StopLabels,
              DestroyLabels
<1> QED BY <1>1, <1>2

(* tcp_server.hpp: "stops and waits to stop".  When a StopServer call that *)
(* is not made by the accept callback returns, nobody serves any more.     *)
THEOREM SyncStopWaits ==
  ASSUME Managed
  PROVE  Spec => StopReturnsStopped
<1>1. TypeOK /\ SyncInv /\ (TypeOK /\ SyncInv)' /\ [Next]_vars
      => [\A t \in Threads :
            pc[t] \in StopLabels /\ ret[t] # "cb" /\ pc'[t] \notin StopLabels
              => \A u \in Threads : ~InRunServer(u)']_vars
  <2> SUFFICES ASSUME TypeOK, SyncInv, SyncInv', [Next]_vars, NEW t \in Threads,
                      pc[t] \in StopLabels, ret[t] # "cb", pc'[t] \notin StopLabels,
                      NEW u \in Threads
               PROVE  ~InRunServer(u)'
    OBVIOUS
  <2>1. pc'[t] # pc[t]
    OBVIOUS
  <2>2. ASSUME NEW v \in Threads, Calls(v) \/ Run(v) \/ PollInterrupted(v) PROVE v = t
    BY <2>1, <2>2, OneMoves
  <2>3. Calls(t) \/ Run(t) \/ PollInterrupted(t)
    BY <2>1, <2>2 DEF Next, Clients, ClientConnects, ClientAborts, Finished, vars, baseVars
  <2>4. \A v \in Threads \ {t} : pc'[v] = pc[v] /\ ret'[v] = ret[v]
    BY <2>3, OneMoves
  <2>5. CASE Owner(t)
    <3>1. pc[t] = "stop"
      BY <2>5 DEF SyncInv, OwnerInv
    <3>2. StopTest(t)
      BY <2>3, <3>1
      DEF Calls, CreateServer, CallStart, CallStop, CallDestroy, CallDelete, CallbackCalls, CanCall,
          CallReturningTo, Run, Start, StartTest, StartRun, StartBig, CreateAndStart, Stop, Free,
          StopCall, StopRun, StopBig, StopTid, StopSelf, StopSend, StopWait, DestroyCall,
          DestroyTest, CloseAll, AcceptLoop, RunTid, RunMark, LoopTest, Enter, PollReady,
          PollInterrupted, Woke, Drain, Accept, CallbackReturns, Leave, BigTest, Unmark, ClearTid,
          LoadFlags, Managed, Goto
    <3>3. pc'[t] \in {"idle", "destroy"} /\ ret'[t] = ret[t]
      BY <3>2 DEF StopTest, Goto, AfterStop, TypeOK, BaseTypeOK, ReturnLabels, StopLabels
    <3>4. ~InRunServer(t)'
      BY <3>3 DEF InRunServer, CalledBack, RunLabels, LoopLabels, StopLabels, DestroyLabels
    <3>5. u # t => ~Owner(u)
      BY <2>5 DEF Managed
    <3>6. ~Owner(u) => ~InRunServer(u)'
      BY DEF SyncInv, StopperInv, InRunServer, CalledBack, RunLabels, LoopLabels, StopLabels,
             DestroyLabels
    <3> QED BY <3>4, <3>5, <3>6
  <2>6. CASE ~Owner(t)
    <3>1. StopTest(t) \/ StopWait(t, AfterStop(t)) \/ StopTid(t, AfterStop(t))
      <4>1. ~PollInterrupted(t)
        BY <2>6 DEF PollInterrupted, Goto, SyncInv, StopperInv
      <4>2. \/ CallStop(t) \/ StopTest(t) \/ StopWait(t, AfterStop(t))
            \/ StopRun(t) \/ StopBig(t) \/ StopTid(t, AfterStop(t)) \/ StopSend(t)
        BY <2>3, <2>6, <4>1, StopperActs
      <4> QED BY <4>2 DEF CallStop, CallReturningTo, StopRun, StopBig, StopSend, Goto,
                          StopLabels, TypeOK
    <3>2. pc[t] = "stop" => flags["shouldRun"]
      BY <2>6 DEF SyncInv, StopperInv
    <3>3. ~StillRunning \/ "stp" \notin open
      BY <3>1, <3>2 DEF StopTest, StopWait, StopTid, Goto, StopLabels, TypeOK
    <3>4. \A v \in Threads : ~InRunServer(v)
      BY <2>6, <3>3, NotRunningIsOver
    <3>5. CASE u # t
      BY <2>4, <3>4, <3>5 DEF InRunServer, CalledBack
    <3>6. CASE u = t
      BY <2>6, <3>6 DEF SyncInv, StopperInv, InRunServer, CalledBack, RunLabels, LoopLabels,
                        StopLabels, DestroyLabels
    <3> QED BY <3>5, <3>6
  <2> QED BY <2>5, <2>6
<1> QED BY <1>1, SyncInvariant, PTL DEF Spec, StopReturnsStopped

-----------------------------------------------------------------------------
(* The server implements ServerContract.                                   *)

WaitLabels == {"stopBig", "stopTid", "stopSend", "stopWait"}

(* The mapped variables by the position of the owner, ...                  *)
LEMMA SyncOwnerBars ==
  ASSUME Managed, SyncInv, SyncInv', NEW t \in Threads, Owner(t)
  PROVE  /\ (\A u \in Threads : ~InRunServer(u)) <=> ~InRunServer(t)
         /\ (\A u \in Threads : ~InRunServer(u))' <=> ~InRunServer(t)'
         /\ admittedBar <=> pc[t] \in {"drain", "accept"} /\ "serv" \in ready[t]
         /\ admittedBar' <=> pc'[t] \in {"drain", "accept"} /\ "serv" \in ready'[t]
         /\ busyBar <=> pc[t] = "cb" \/ CalledBack(t)
         /\ busyBar' <=> pc'[t] = "cb" \/ CalledBack(t)'
<1>1. \A u \in Threads \ {t} : StopperInv(u) /\ StopperInv(u)'
  BY DEF Managed, SyncInv
<1> USE DEF StopperInv, InRunServer, CalledBack, RunLabels, LoopLabels, StopLabels, DestroyLabels
<1>2. \A u \in Threads \ {t} : ~InRunServer(u) /\ ~InRunServer(u)'
  BY <1>1
<1>3. /\ \A u \in Threads \ {t} : pc[u] \notin {"drain", "accept", "cb"} /\ ~CalledBack(u)
      /\ \A u \in Threads \ {t} : pc'[u] \notin {"drain", "accept", "cb"} /\ ~CalledBack(u)'
  BY <1>1
<1> QED BY <1>2, <1>3 DEF admittedBar, busyBar

(* ... and by those of the other threads.                                  *)
LEMMA SyncWaitingBar ==
  ASSUME Managed, SyncInv, SyncInv'
  PROVE  /\ waitingBar <=> \E s \in Threads : ~Owner(s) /\ pc[s] \in WaitLabels
         /\ waitingBar' <=> \E s \in Threads : ~Owner(s) /\ pc'[s] \in WaitLabels
<1>1. \A s \in Threads : pc[s] \in WaitLabels \cup {"stopSelf"} /\ ~CalledBack(s) => ~Owner(s)
  BY DEF SyncInv, OwnerInv, CalledBack, StopLabels, WaitLabels
<1>2. \A s \in Threads : pc'[s] \in WaitLabels \cup {"stopSelf"} /\ ~CalledBack(s)' => ~Owner(s)
  BY DEF SyncInv, OwnerInv, CalledBack, StopLabels, WaitLabels
<1>3. \A s \in Threads : ~Owner(s) => /\ pc[s] # "stopSelf"
                                      /\ pc[s] \in WaitLabels => ~CalledBack(s)
  BY DEF SyncInv, StopperInv, CalledBack, StopLabels, WaitLabels
<1>4. \A s \in Threads : ~Owner(s) => /\ pc'[s] # "stopSelf"
                                      /\ pc'[s] \in WaitLabels => ~CalledBack(s)'
  BY DEF SyncInv, StopperInv, CalledBack, StopLabels, WaitLabels
<1> QED BY <1>1, <1>2, <1>3, <1>4 DEF waitingBar, WaitLabels

(* A step of the owner, by what it changes of its own.                     *)
OwnerPasses(t) ==
  /\ InRunServer(t)' <=> InRunServer(t)
  /\ InRunServer(t) => flags'["shouldRun"] = flags["shouldRun"]
  /\ (pc'[t] \in {"drain", "accept"} /\ "serv" \in ready'[t])
       <=> (pc[t] \in {"drain", "accept"} /\ "serv" \in ready[t])
  /\ (pc'[t] = "cb" \/ CalledBack(t)') <=> (pc[t] = "cb" \/ CalledBack(t))

LEMMA OwnerPassesStutters ==
  ASSUME Managed, SyncInv, SyncInv', NEW t \in Threads, Owner(t),
         \A u \in Threads \ {t} : pc'[u] = pc[u] /\ ret'[u] = ret[u],
         OwnerPasses(t)
  PROVE  UNCHANGED Contract!cvars
<1>1. waitingBar' = waitingBar
  <2>1. \A s \in Threads : ~Owner(s) => pc'[s] = pc[s]
    OBVIOUS
  <2> QED BY <2>1, SyncWaitingBar DEF waitingBar
<1>2. admittedBar' = admittedBar /\ busyBar' = busyBar
  BY SyncOwnerBars DEF OwnerPasses, admittedBar, busyBar
<1>3. phaseBar' = phaseBar
  BY SyncOwnerBars DEF OwnerPasses, phaseBar
<1> QED BY <1>1, <1>2, <1>3 DEF Contract!cvars

(* A step of the owner is a step of the contract, or none.                 *)
LEMMA SyncOwnerSimulates ==
  ASSUME Managed, TypeOK, SyncInv, SyncInv', NEW t \in Threads, Owner(t),
         Calls(t) \/ Run(t) \/ PollInterrupted(t)
  PROVE  [Contract!CNext]_(Contract!cvars)
<1>1. \A u \in Threads \ {t} : pc'[u] = pc[u] /\ ret'[u] = ret[u]
  BY OneMoves
<1>2. OwnerInv(t) /\ OwnerInv(t)' /\ pc[t] \in SyncLabels /\ ret[t] \in ReturnLabels
  BY DEF SyncInv, TypeOK, BaseTypeOK
<1>3. OwnerPasses(t) => UNCHANGED Contract!cvars
  BY <1>1, OwnerPassesStutters
<1>4. /\ admittedBar \in BOOLEAN /\ busyBar \in BOOLEAN /\ waitingBar \in BOOLEAN
      /\ admittedBar' \in BOOLEAN /\ busyBar' \in BOOLEAN /\ waitingBar' \in BOOLEAN
      /\ waitingBar' = waitingBar
  <2>1. \A s \in Threads : ~Owner(s) => pc'[s] = pc[s]
    BY <1>1
  <2> QED BY <2>1, SyncWaitingBar DEF waitingBar, admittedBar, busyBar
<1>5. /\ phaseBar = IF ~InRunServer(t) THEN "down"
                    ELSE IF flags["shouldRun"] THEN "up" ELSE "stopping"
      /\ phaseBar' = IF ~InRunServer(t)' THEN "down"
                     ELSE IF flags'["shouldRun"] THEN "up" ELSE "stopping"
      /\ admittedBar <=> pc[t] \in {"drain", "accept"} /\ "serv" \in ready[t]
      /\ admittedBar' <=> pc'[t] \in {"drain", "accept"} /\ "serv" \in ready'[t]
      /\ busyBar <=> pc[t] = "cb" \/ CalledBack(t)
      /\ busyBar' <=> pc'[t] = "cb" \/ CalledBack(t)'
  BY SyncOwnerBars DEF phaseBar
<1> USE DEF InRunServer, RunLabels, LoopLabels, StopLabels, DestroyLabels, ReturnLabels
<1>6. CASE Calls(t)
  <2>1. pc'[t] \in {"idle", "start", "createAndStart", "stop", "destroy"}
        /\ pc[t] \in {"idle", "cb"}
        /\ (pc[t] = "cb" => ret'[t] = "cb") /\ (pc[t] = "idle" /\ pc'[t] # "idle" => ret'[t] # "cb")
        /\ (pc[t] = "cb" => pc'[t] \in {"stop", "destroy"})
    BY <1>6 DEF Calls, CreateServer, CallStart, CallStop, CallDestroy, CallDelete, CallbackCalls,
                CanCall, CallReturningTo, Goto, TypeOK, BaseTypeOK
  <2>2. pc[t] = "cb" => flags'["shouldRun"] = flags["shouldRun"]
    BY <1>6 DEF Calls, CreateServer, CallStart, CallStop, CallDestroy, CallDelete, CallbackCalls,
                CanCall, CallReturningTo, Goto, objVars
  <2>3. OwnerPasses(t)
    BY <2>1, <2>2 DEF OwnerPasses, CalledBack
  <2> QED BY <1>3, <2>3
<1>7. CASE StartTest(t) \/ CreateAndStart(t) \/ (StartRun(t) /\ pc'[t] = "startBig")
  <2>1. /\ pc[t] \in {"start", "createAndStart", "startRun"}
        /\ pc'[t] \in {"idle", "startRun", "startRunOnly", "startBig"}
    BY <1>7 DEF StartTest, CreateAndStart, StartRun, Goto, TypeOK
  <2>2. OwnerPasses(t)
    BY <2>1 DEF OwnerPasses, CalledBack
  <2> QED BY <1>3, <2>2
<1>8. CASE StartBig(t) \/ (StartRun(t) /\ pc'[t] = "runTid")
  <2>1. pc[t] \in {"startBig", "startRunOnly"} /\ pc'[t] = "runTid"
    BY <1>8 DEF StartBig, StartRun, Goto, TypeOK
  <2>2. ~waitingBar
    <3>1. ~OthersStop
      BY <2>1, WhileOthersStop DEF BeforeRise, Rising
    <3> QED BY <3>1, SyncWaitingBar DEF OthersStop, WaitLabels
  <2>3. flags'["shouldRun"]
    BY <1>2, <2>1 DEF OwnerInv, Rising
  <2>4. Contract!GoUp
    BY <1>4, <1>5, <2>1, <2>2, <2>3 DEF Contract!GoUp, CalledBack
  <2> QED BY <2>4 DEF Contract!CNext
<1>9. CASE Woke(t)
  <2>1. pc[t] = "woke" /\ pc'[t] = AfterPoll(t) /\ ready' = ready /\ flags' = flags
    BY <1>9 DEF Woke, Goto, TypeOK, objVars
  <2>2. CASE AfterPoll(t) \in {"drain", "accept"} /\ "serv" \in ready[t]
    <3>1. flags["shouldRun"]
      BY <2>2 DEF AfterPoll
    <3>2. Contract!Admit
      BY <1>4, <1>5, <2>1, <2>2, <3>1 DEF Contract!Admit, CalledBack
    <3> QED BY <3>2 DEF Contract!CNext
  <2>3. CASE ~(AfterPoll(t) \in {"drain", "accept"} /\ "serv" \in ready[t])
    <3>1. AfterPoll(t) \in {"leave", "drain", "accept"}
      BY DEF AfterPoll
    <3>2. OwnerPasses(t)
      BY <2>1, <2>3, <3>1 DEF OwnerPasses, CalledBack
    <3> QED BY <1>3, <3>2
  <2> QED BY <2>2, <2>3
<1>10. CASE Accept(t)
  <2>1. /\ pc[t] = "accept" /\ ready' = ready /\ flags' = flags /\ "serv" \in ready[t]
        /\ pc'[t] \in {"cb", "leave"}
    BY <1>2, <1>10 DEF Accept, Goto, TypeOK, objVars, OwnerInv
  <2>2. Contract!BeginCallback \/ Contract!Withdraw
    BY <1>4, <1>5, <2>1 DEF Contract!BeginCallback, Contract!Withdraw, CalledBack
  <2> QED BY <2>2 DEF Contract!CNext
<1>11. CASE CallbackReturns(t)
  <2>1. pc[t] = "cb" /\ pc'[t] = "leave" /\ flags' = flags
    BY <1>11 DEF CallbackReturns, Goto, TypeOK, objVars
  <2>2. Contract!EndCallback
    BY <1>4, <1>5, <2>1 DEF Contract!EndCallback, CalledBack
  <2> QED BY <2>2 DEF Contract!CNext
<1>12. CASE Unmark(t)
  <2>1. pc[t] = "unmark" /\ pc'[t] = "clearTid"
    BY <1>12 DEF Unmark, Goto, TypeOK
  <2>2. ~flags["shouldRun"]
    BY <1>2, <2>1 DEF OwnerInv
  <2>3. Contract!GoDown
    BY <1>4, <1>5, <2>1, <2>2 DEF Contract!GoDown, CalledBack
  <2> QED BY <2>3 DEF Contract!CNext
<1>13. CASE StopRun(t)
  <2>1. pc[t] = "stopRun" /\ pc'[t] = "stopBig" /\ ret' = ret
    BY <1>13 DEF StopRun, Goto, TypeOK
  <2>2. CalledBack(t) /\ CalledBack(t)' /\ flags["shouldRun"] /\ ~flags'["shouldRun"]
    BY <1>2, <2>1 DEF OwnerInv, CalledBack
  <2>3. Contract!RequestStopFromCallback
    BY <1>4, <1>5, <2>1, <2>2 DEF Contract!RequestStopFromCallback
  <2> QED BY <2>3 DEF Contract!CNext
(* The steps inside the loop that the contract does not see, ...           *)
<1>14. CASE \/ RunTid(t) \/ RunMark(t) \/ LoopTest(t) \/ Enter(t) \/ PollReady(t) \/ Leave(t)
            \/ BigTest(t) \/ PollInterrupted(t)
  <2>1. /\ pc[t] \in {"runTid", "runMark", "loop", "enter", "poll", "leave", "big"}
        /\ pc'[t] \in {"runMark", "loop", "enter", "poll", "woke", "big", "unmark"}
    BY <1>14 DEF RunTid, RunMark, LoopTest, Enter, PollReady, Leave, BigTest, PollInterrupted, Goto,
                 TypeOK
  <2>2. flags'["shouldRun"] = flags["shouldRun"]
    BY <1>14, StoreOne DEF RunTid, RunMark, LoopTest, Enter, PollReady, Leave, BigTest,
       PollInterrupted, objVars, FlagNames, Managed
  <2>3. OwnerPasses(t)
    BY <2>1, <2>2 DEF OwnerPasses, CalledBack
  <2> QED BY <1>3, <2>3
<1>15. CASE Drain(t)
  <2>1. /\ pc[t] = "drain" /\ ready' = ready /\ flags' = flags
        /\ pc'[t] = IF "serv" \in ready[t] THEN "accept" ELSE "leave"
    BY <1>15 DEF Drain, Goto, TypeOK, objVars
  <2>2. OwnerPasses(t)
    BY <2>1 DEF OwnerPasses, CalledBack
  <2> QED BY <1>3, <2>2
<1>16. CASE ClearTid(t, "idle")
  <2>1. pc[t] = "clearTid" /\ pc'[t] = "idle"
    BY <1>16 DEF ClearTid, Goto, TypeOK
  <2>2. OwnerPasses(t)
    BY <2>1 DEF OwnerPasses, CalledBack
  <2> QED BY <1>3, <2>2
(* ... those of StopServer, ...                                            *)
<1>17. CASE \/ StopTest(t) \/ StopBig(t) \/ StopTid(t, AfterStop(t)) \/ StopSelf(t, AfterStop(t))
            \/ StopSend(t) \/ StopWait(t, AfterStop(t))
  <2>1. pc[t] \in StopLabels /\ ret' = ret
    BY <1>17 DEF StopTest, StopBig, StopTid, StopSelf, StopSend, StopWait, Goto
  <2>2. pc'[t] \in StopLabels \/ pc'[t] = AfterStop(t)
    BY <1>17 DEF StopTest, StopBig, StopTid, StopSelf, StopSend, StopWait, Goto, TypeOK
  <2>3. flags'["shouldRun"] = flags["shouldRun"]
    BY <1>17, StoreOne DEF StopTest, StopBig, StopTid, StopSelf, StopSend, StopWait, objVars,
       FlagNames, Managed
  <2>4. OwnerPasses(t)
    BY <1>2, <2>1, <2>2, <2>3 DEF OwnerPasses, CalledBack, AfterStop
  <2> QED BY <1>3, <2>4
(* ... and those of DestroyServer and the destructor.                      *)
<1>18. CASE Free(t) \/ DestroyCall(t, AfterDestroy(t))
  <2>1. pc[t] \in {"destroy", "close", "free"} /\ ret' = ret
        /\ (pc[t] = "free" => pc'[t] = "gone")
        /\ (pc[t] # "free" => pc'[t] \in {"close", AfterDestroy(t)})
    BY <1>18 DEF Free, DestroyCall, DestroyTest, CloseAll, Goto, TypeOK
  <2>2. CalledBack(t) => flags'["shouldRun"] = flags["shouldRun"]
    <3>1. CASE CloseAll(t, AfterDestroy(t))
      <4>1. ~flags["shouldRun"] \/ ~CalledBack(t)
        BY <1>2, <3>1 DEF CloseAll, Goto, OwnerInv, Serves
      <4> QED BY <3>1, <4>1 DEF CloseAll, AllFalse, FlagNames, TypeOK, BaseTypeOK, Word
    <3>2. CASE ~CloseAll(t, AfterDestroy(t))
      BY <1>18, <3>2 DEF Free, DestroyCall, DestroyTest, objVars
    <3> QED BY <3>1, <3>2
  <2>3. OwnerPasses(t)
    BY <1>2, <2>1, <2>2 DEF OwnerPasses, CalledBack, AfterDestroy
  <2> QED BY <1>3, <2>3
<1>19. ~LoadFlags(t)
  BY DEF LoadFlags, Managed
<1>20. StartRun(t) => pc'[t] \in {"startBig", "runTid"}
  BY DEF StartRun, Goto, TypeOK
<1> QED
  BY <1>6, <1>7, <1>8, <1>9, <1>10, <1>11, <1>12, <1>13, <1>14, <1>15, <1>16, <1>17, <1>18, <1>19,
     <1>20
  DEF Run, Start, Stop, StopCall, AcceptLoop

(* A step of another thread is one too.                                    *)
LEMMA SyncStopperSimulates ==
  ASSUME Managed, TypeOK, SyncInv, SyncInv', NEW s \in Threads, ~Owner(s), Calls(s) \/ Run(s)
  PROVE  [Contract!CNext]_(Contract!cvars)
<1>1. \A u \in Threads \ {s} : pc'[u] = pc[u] /\ ret'[u] = ret[u]
  BY OneMoves
<1>2. StopperInv(s) /\ StopperInv(s)'
  BY DEF SyncInv
<1>3. \/ CallStop(s) \/ StopTest(s) \/ StopWait(s, AfterStop(s))
      \/ StopRun(s) \/ StopBig(s) \/ StopTid(s, AfterStop(s)) \/ StopSend(s)
  BY StopperActs
<1>4. /\ admittedBar \in BOOLEAN /\ busyBar \in BOOLEAN /\ waitingBar \in BOOLEAN
      /\ admittedBar' \in BOOLEAN /\ busyBar' \in BOOLEAN /\ waitingBar' \in BOOLEAN
  BY DEF waitingBar, admittedBar, busyBar
<1>5. ready' = ready
  BY <1>3 DEF CallStop, CallReturningTo, StopTest, StopWait, StopRun, StopBig, StopTid, StopSend
<1>6. \A u \in Threads : (InRunServer(u)' <=> InRunServer(u))
                         /\ (CalledBack(u)' <=> CalledBack(u))
  <2>1. ~InRunServer(s) /\ ~InRunServer(s)' /\ ~CalledBack(s) /\ ~CalledBack(s)'
    BY <1>2 DEF StopperInv, InRunServer, CalledBack, RunLabels, LoopLabels, StopLabels,
                DestroyLabels
  <2>2. \A u \in Threads \ {s} : (InRunServer(u)' <=> InRunServer(u))
                                 /\ (CalledBack(u)' <=> CalledBack(u))
    BY <1>1 DEF InRunServer, CalledBack
  <2> QED BY <2>1, <2>2
<1>7. admittedBar' = admittedBar /\ busyBar' = busyBar
  <2>1. pc[s] \notin {"drain", "accept", "cb"} /\ pc'[s] \notin {"drain", "accept", "cb"}
    BY <1>2 DEF StopperInv
  <2>2. \A u \in Threads : (pc'[u] \in {"drain", "accept"} <=> pc[u] \in {"drain", "accept"})
                           /\ (pc'[u] = "cb" <=> pc[u] = "cb")
    BY <1>1, <2>1
  <2> QED BY <1>5, <1>6, <2>2 DEF admittedBar, busyBar
<1>8. \A u \in Threads \ {s} : pc[s] \in StopLabels /\ ~Owner(u) => pc[u] \notin WaitLabels
  BY <1>2 DEF StopperInv, StopLabels, WaitLabels
<1>9. ASSUME flags'["shouldRun"] = flags["shouldRun"],
             pc'[s] \in WaitLabels <=> pc[s] \in WaitLabels
      PROVE  UNCHANGED Contract!cvars
  <2>1. \A u \in Threads : pc'[u] \in WaitLabels <=> pc[u] \in WaitLabels
    BY <1>1, <1>9
  <2>2. waitingBar' = waitingBar
    BY <2>1, SyncWaitingBar DEF waitingBar
  <2>3. phaseBar' = phaseBar
    BY <1>6, <1>9 DEF phaseBar
  <2> QED BY <1>7, <2>2, <2>3 DEF Contract!cvars
<1>10. CASE CallStop(s) \/ StopTest(s)
  <2>1. flags' = flags /\ pc[s] \in {"idle", "stop"} /\ pc'[s] \notin WaitLabels
    BY <1>2, <1>10 DEF CallStop, CallReturningTo, StopTest, Goto, objVars, TypeOK, WaitLabels,
                       AfterStop, StopperInv, StopLabels
  <2> QED BY <1>9, <2>1 DEF WaitLabels
<1>11. CASE StopRun(s)
  <2>1. pc[s] = "stopRun" /\ pc'[s] = "stopBig"
    BY <1>11 DEF StopRun, Goto, TypeOK
  <2>2. ~waitingBar /\ waitingBar'
    BY <1>8, <2>1, SyncWaitingBar DEF WaitLabels, StopLabels
  <2>3. flags["shouldRun"] /\ ~flags'["shouldRun"]
    BY <1>2, <2>1 DEF StopperInv
  <2>4. phaseBar' = IF phaseBar = "up" THEN "stopping" ELSE phaseBar
    BY <1>6, <2>3 DEF phaseBar
  <2>5. Contract!RequestStop
    BY <1>4, <1>7, <2>2, <2>4 DEF Contract!RequestStop
  <2> QED BY <2>5 DEF Contract!CNext
<1>12. CASE StopBig(s) \/ StopSend(s)
  <2>1. pc[s] \in WaitLabels /\ pc'[s] \in WaitLabels
    BY <1>2, <1>12 DEF StopBig, StopSend, Goto, TypeOK, StopperInv, WaitLabels
  <2>2. flags'["shouldRun"] = flags["shouldRun"]
    BY <1>12, StoreOne DEF StopBig, StopSend, objVars, FlagNames, Managed
  <2> QED BY <1>9, <2>1, <2>2
<1>13. CASE StopWait(s, AfterStop(s)) \/ StopTid(s, AfterStop(s))
  <2>1. pc[s] \in {"stopTid", "stopWait"} /\ flags' = flags
    BY <1>13 DEF StopWait, StopTid, Goto, objVars
  <2>4. ~StopsItself(s)
    BY BaseAssumption DEF StopsItself, SyncInv
  <2>2. CASE pc'[s] = "stopSend"
    BY <1>9, <2>1, <2>2 DEF WaitLabels
  <2>3. CASE pc'[s] # "stopSend"
    <3>1. pc'[s] = "idle" /\ (~StillRunning \/ "stp" \notin open)
      BY <1>2, <1>13, <2>1, <2>3, <2>4
      DEF StopWait, StopTid, Goto, TypeOK, AfterStop, StopperInv, StopLabels
    <3>2. waitingBar /\ ~waitingBar'
      BY <1>1, <1>8, <2>1, <3>1, SyncWaitingBar DEF WaitLabels, StopLabels
    <3>3. phaseBar = "down" /\ phaseBar' = "down"
      BY <1>6, <2>1, <3>1, NotRunningIsOver DEF phaseBar, StopLabels
    <3>4. Contract!AnswerStop
      BY <1>4, <1>7, <3>2, <3>3 DEF Contract!AnswerStop
    <3> QED BY <3>4 DEF Contract!CNext
  <2> QED BY <2>2, <2>3
<1> QED BY <1>3, <1>10, <1>11, <1>12, <1>13

(* The server keeps ServerContract: a callback runs only for a connection  *)
(* admitted while nobody had asked for a stop, callbacks run one at a      *)
(* time, and a StopServer call of another thread is answered only when     *)
(* StartSyncServer serves no more, in any order of the application's calls *)
(* and the callback's.                                                     *)
THEOREM SyncKeepsContract ==
  ASSUME Managed
  PROVE  Spec => ImplementsContract
<1>1. Init => Contract!CInit
  BY DEF Init, Contract!CInit, phaseBar, admittedBar, busyBar, waitingBar, InRunServer, CalledBack,
         RunLabels, LoopLabels, StopLabels, DestroyLabels
<1>2. TypeOK /\ SyncInv /\ (TypeOK /\ SyncInv)' /\ [Next]_vars
      => [Contract!CNext]_(Contract!cvars)
  <2> SUFFICES ASSUME TypeOK, SyncInv, SyncInv', [Next]_vars
               PROVE  [Contract!CNext]_(Contract!cvars)
    OBVIOUS
  <2>1. ASSUME NEW t \in Threads, Calls(t) \/ Run(t) \/ PollInterrupted(t)
        PROVE  [Contract!CNext]_(Contract!cvars)
    <3>1. PollInterrupted(t) => Owner(t)
      BY DEF PollInterrupted, Goto, SyncInv, StopperInv
    <3> QED BY <2>1, <3>1, SyncOwnerSimulates, SyncStopperSimulates
  <2>2. CASE UNCHANGED <<flags, pc, ready, ret>>
    BY <2>2 DEF Contract!cvars, phaseBar, admittedBar, busyBar, waitingBar, InRunServer, CalledBack
  <2>3. CASE Clients \/ Finished \/ UNCHANGED vars
    BY <2>2, <2>3 DEF Clients, ClientConnects, ClientAborts, Finished, vars, baseVars, objVars
  <2> QED BY <2>1, <2>3 DEF Next
<1> QED BY <1>1, <1>2, SyncInvariant, PTL DEF Spec, ImplementsContract, Contract!CSpec

=============================================================================
