------------------------- MODULE TcpServerAsyncProofs ------------------------
(***************************************************************************)
(* Theorems about TcpServerAsync, for all values of its constants.         *)
(***************************************************************************)
EXTENDS TcpServerAsync, TLAPS

-----------------------------------------------------------------------------
(* Type correctness.                                                       *)

(* A jump to a label keeps pc in its domain.                               *)
LEMMA GotoType ==
  ASSUME TypeOK, NEW t \in Threads, NEW from, NEW to \in AsyncLabels, Goto(t, from, to)
  PROVE  pc' \in [Threads -> AsyncLabels]
BY DEF TypeOK, Goto

(* A store to one flag leaves a flag word.                                 *)
LEMMA SetFlagType ==
  ASSUME TypeOK, NEW t \in Threads, NEW f \in FlagNames, NEW v \in BOOLEAN,
         SetFlag(t, f, v)
  PROVE  flags' \in Word /\ reg' \in [Threads -> Word \cup {NoWord}]
<1>1. reg[t] # NoWord => reg[t] \in Word
  BY DEF TypeOK, BaseTypeOK
<1>2. (IF SplitFlagStores THEN reg[t] ELSE flags) \in Word
  BY <1>1 DEF TypeOK, BaseTypeOK, SetFlag
<1>3. flags' \in Word
  BY <1>2 DEF SetFlag, Word
<1>4. reg' \in [Threads -> Word \cup {NoWord}]
  BY DEF SetFlag, TypeOK, BaseTypeOK
<1> QED BY <1>3, <1>4

(* The initial state is well typed.                                        *)
LEMMA TypeInit == Init => TypeOK
<1> SUFFICES ASSUME Init PROVE TypeOK
  OBVIOUS
<1>1. AllFalse \in Word
  BY DEF AllFalse, Word
<1>2. BaseTypeOK
  BY <1>1, BaseAssumption DEF Init, BaseInit, BaseTypeOK, ReturnLabels, Sockets
<1>3. pc \in [Threads -> AsyncLabels]
  BY DEF Init, AsyncLabels, BaseLabels
<1> QED BY <1>2, <1>3, AsyncAssumption DEF Init, TypeOK

(* A jump that changes only flags, thread ids, return labels and the       *)
(* booleans keeps the state well typed.                                    *)
LEMMA JumpType ==
  ASSUME TypeOK, NEW t \in Threads, NEW from, NEW to \in AsyncLabels, Goto(t, from, to),
         flags' \in Word, reg' \in [Threads -> Word \cup {NoWord}],
         ret' \in [Threads -> ReturnLabels],
         serverTid' \in Threads \cup {NoTid},
         UNCHANGED <<netVars, ready, server_thread, inServerTid>>,
         started' \in BOOLEAN, freed' \in BOOLEAN, fault' \in BOOLEAN
  PROVE  TypeOK'
<1>1. pc' \in [Threads -> AsyncLabels]
  BY GotoType
<1> QED BY <1>1 DEF TypeOK, BaseTypeOK, netVars

(* A jump that changes nothing else, and a jump that stores a flag.        *)
LEMMA PlainJumpType ==
  ASSUME TypeOK, NEW t \in Threads, NEW from, NEW to \in AsyncLabels, Goto(t, from, to),
         UNCHANGED <<objVars, netVars, ready, ret, asyncVars>>
  PROVE  TypeOK'
<1>1. /\ flags' \in Word /\ reg' \in [Threads -> Word \cup {NoWord}]
      /\ ret' \in [Threads -> ReturnLabels] /\ serverTid' \in Threads \cup {NoTid}
      /\ started' \in BOOLEAN /\ freed' \in BOOLEAN /\ fault' \in BOOLEAN
  BY DEF TypeOK, BaseTypeOK, objVars, asyncVars
<1> QED BY <1>1, JumpType DEF asyncVars

(* The jump that stores one flag.                                          *)
LEMMA FlagJumpType ==
  ASSUME TypeOK, NEW t \in Threads, NEW from, NEW to \in AsyncLabels, Goto(t, from, to),
         NEW f \in FlagNames, NEW v \in BOOLEAN, SetFlag(t, f, v),
         UNCHANGED <<serverTid, netVars, ready, ret, asyncVars>>
  PROVE  TypeOK'
<1>1. flags' \in Word /\ reg' \in [Threads -> Word \cup {NoWord}]
  BY SetFlagType
<1>2. /\ ret' \in [Threads -> ReturnLabels] /\ serverTid' \in Threads \cup {NoTid}
      /\ started' \in BOOLEAN /\ freed' \in BOOLEAN /\ fault' \in BOOLEAN
  BY DEF TypeOK, BaseTypeOK, asyncVars
<1> QED BY <1>1, <1>2, JumpType DEF asyncVars

(* Every step of the accept loop keeps the state well typed.               *)
LEMMA AcceptLoopType ==
  ASSUME TypeOK, NEW t \in Threads, AcceptLoop(t), UNCHANGED asyncVars
  PROVE  TypeOK'
<1> USE DEF AsyncLabels, BaseLabels, RunLabels, LoopLabels, FlagNames
<1>1. CASE RunTid(t)
  <2>1. pc' \in [Threads -> AsyncLabels]
    BY <1>1, GotoType DEF RunTid
  <2> QED BY <1>1, <2>1 DEF RunTid, TypeOK, BaseTypeOK, netVars, asyncVars
<1>2. CASE RunMark(t)
  BY <1>2, FlagJumpType DEF RunMark
<1>3. CASE LoopTest(t)
  BY <1>3, PlainJumpType DEF LoopTest
<1>4. CASE Enter(t)
  BY <1>4, FlagJumpType DEF Enter
<1>5. CASE PollReady(t)
  <2>1. pc' \in [Threads -> AsyncLabels]
    BY <1>5, GotoType DEF PollReady
  <2>2. Readable \in SUBSET Sockets
    BY DEF Readable, TypeOK, BaseTypeOK
  <2> QED BY <1>5, <2>1, <2>2 DEF PollReady, TypeOK, BaseTypeOK, netVars, objVars, asyncVars
<1>6. CASE Woke(t)
  <2>1. AfterPoll(t) \in AsyncLabels
    BY DEF AfterPoll
  <2> QED BY <1>6, <2>1, PlainJumpType DEF Woke
<1>7. CASE Drain(t)
  <2>1. pc' \in [Threads -> AsyncLabels]
    BY <1>7, GotoType DEF Drain
  <2>2. pol' \in 0..PolCap
    BY <1>7, BaseAssumption DEF Drain, DrainPol, TypeOK, BaseTypeOK
  <2> QED BY <1>7, <2>1, <2>2 DEF Drain, TypeOK, BaseTypeOK, objVars, asyncVars
<1>8. CASE Accept(t)
  <2>1. pc' \in [Threads -> AsyncLabels]
    BY <1>8, GotoType DEF Accept
  <2>2. backlog' \in 0..MaxClients
    BY <1>8, BaseAssumption DEF Accept, TypeOK, BaseTypeOK
  <2> QED BY <1>8, <2>1, <2>2 DEF Accept, TypeOK, BaseTypeOK, objVars, asyncVars
<1>9. CASE CallbackReturns(t)
  BY <1>9, PlainJumpType DEF CallbackReturns
<1>10. CASE Leave(t)
  <2>1. pc' \in [Threads -> AsyncLabels]
    BY <1>10, GotoType DEF Leave
  <2>2. flags' \in Word /\ reg' \in [Threads -> Word \cup {NoWord}]
    BY <1>10, SetFlagType DEF Leave
  <2> QED BY <1>10, <2>1, <2>2 DEF Leave, TypeOK, BaseTypeOK, netVars, asyncVars
<1>11. CASE BigTest(t)
  BY <1>11, PlainJumpType DEF BigTest
<1>12. CASE Unmark(t)
  BY <1>12, FlagJumpType DEF Unmark
<1> QED
  BY <1>1, <1>2, <1>3, <1>4, <1>5, <1>6, <1>7, <1>8, <1>9, <1>10, <1>11, <1>12
  DEF AcceptLoop

(* So does every step of a server thread outside the accept loop, ...      *)
LEMMA ServerThreadType ==
  ASSUME TypeOK, NEW w \in Threads, ServerThread(w)
  PROVE  TypeOK'
<1> USE DEF AsyncLabels, BaseLabels, RunLabels, FlagNames
<1>1. CASE New(w)
  <2>1. flags' \in Word /\ reg' \in [Threads -> Word \cup {NoWord}]
    BY <1>1 DEF New, TypeOK, BaseTypeOK
  <2> QED BY <1>1, <2>1, JumpType DEF New, TypeOK, BaseTypeOK, asyncVars
<1>2. CASE Mark(w)
  BY <1>2, FlagJumpType DEF Mark
<1>3. CASE Post(w)
  BY <1>3, JumpType DEF Post, TypeOK, BaseTypeOK, objVars
<1>4. CASE Extra(w)
  BY <1>4, PlainJumpType DEF Extra
<1>5. CASE ClearTid(w, "extra") /\ UNCHANGED asyncVars
  BY <1>5, JumpType DEF ClearTid, TypeOK, BaseTypeOK, asyncVars
<1>6. CASE AcceptLoop(w) /\ UNCHANGED asyncVars
  BY <1>6, AcceptLoopType
<1> QED
  BY <1>1, <1>2, <1>3, <1>4, <1>5, <1>6 DEF ServerThread

(* ... every step of StopServer and DestroyServer, ...                     *)
LEMMA StopType ==
  ASSUME TypeOK, NEW t \in Threads, Stop(t)
  PROVE  TypeOK'
<1> USE DEF AsyncLabels, BaseLabels, StopLabels, DestroyLabels, FlagNames
<1>1. AfterStop(t) \in AsyncLabels /\ AfterDestroy(t) \in AsyncLabels
  BY DEF AfterStop, AfterDestroy, TypeOK, BaseTypeOK, ReturnLabels, RunLabels, LoopLabels
<1>2. CASE StopTest(t)
  BY <1>1, <1>2, PlainJumpType DEF StopTest
<1>3. CASE StopRead(t)
  <2>1. pc' \in [Threads -> AsyncLabels]
    BY <1>3, GotoType DEF StopRead
  <2> QED BY <1>3, <2>1 DEF StopRead, TypeOK, BaseTypeOK, objVars, netVars
<1>4. CASE Join(t)
  <2>1. pc' \in [Threads -> AsyncLabels]
    BY <1>1, <1>4 DEF Join, TypeOK
  <2> QED BY <1>4, <2>1 DEF Join, TypeOK, BaseTypeOK, objVars, netVars
<1>5. CASE Detach(t)
  <2>1. pc' \in [Threads -> AsyncLabels]
    BY <1>1, <1>5, GotoType DEF Detach
  <2> QED BY <1>5, <2>1 DEF Detach, TypeOK, BaseTypeOK, objVars, netVars
<1>6. CASE ReapThrows(t)
  BY <1>6, JumpType DEF ReapThrows, TypeOK, BaseTypeOK, objVars
<1>7. CASE Free(t)
  BY <1>7, JumpType DEF Free, TypeOK, BaseTypeOK, objVars
<1>8. CASE StopCall(t, "reap") /\ UNCHANGED asyncVars
  <2>1. CASE StopRun(t)
    BY <1>8, <2>1, FlagJumpType DEF StopRun
  <2>2. CASE StopBig(t)
    BY <1>8, <2>2, FlagJumpType DEF StopBig
  <2>3. CASE StopTid(t, "reap")
    BY <1>8, <2>3, PlainJumpType DEF StopTid
  <2>4. CASE StopSelf(t, "reap")
    BY <1>8, <2>4, FlagJumpType DEF StopSelf
  <2>5. CASE StopSend(t)
    <3>1. pc' \in [Threads -> AsyncLabels]
      BY <2>5, GotoType DEF StopSend
    <3>2. pol' \in 0..PolCap
      BY <2>5, BaseAssumption DEF StopSend, SendStop, TypeOK, BaseTypeOK
    <3> QED BY <1>8, <2>5, <3>1, <3>2 DEF StopSend, TypeOK, BaseTypeOK, objVars, asyncVars
  <2>6. CASE StopWait(t, "reap")
    BY <1>8, <2>6, PlainJumpType DEF StopWait
  <2> QED
    BY <1>8, <2>1, <2>2, <2>3, <2>4, <2>5, <2>6 DEF StopCall
<1>9. CASE DestroyCall(t, AfterDestroy(t)) /\ UNCHANGED asyncVars
  <2>1. CASE DestroyTest(t, AfterDestroy(t))
    BY <1>1, <1>9, <2>1, PlainJumpType DEF DestroyTest
  <2>2. CASE CloseAll(t, AfterDestroy(t))
    <3>1. pc' \in [Threads -> AsyncLabels]
      BY <1>1, <2>2, GotoType DEF CloseAll
    <3>2. flags' \in Word /\ 0 \in 0..PolCap /\ 0 \in 0..MaxClients
      BY <2>2, BaseAssumption DEF CloseAll, AllFalse, Word
    <3> QED BY <1>9, <2>2, <3>1, <3>2 DEF CloseAll, TypeOK, BaseTypeOK, asyncVars
  <2> QED BY <1>9, <2>1, <2>2 DEF DestroyCall
<1> QED
  BY <1>2, <1>3, <1>4, <1>5, <1>6, <1>7, <1>8, <1>9 DEF Stop

(* ... every step of the start, ...                                        *)
LEMMA StartType ==
  ASSUME TypeOK, NEW t \in Threads, Start(t)
  PROVE  TypeOK'
<1> USE DEF AsyncLabels, BaseLabels, FlagNames
<1>1. CASE StartTest(t)
  BY <1>1, PlainJumpType DEF StartTest
<1>2. CASE StartRun(t)
  BY <1>2, FlagJumpType DEF StartRun
<1>3. CASE StartBig(t)
  BY <1>3, FlagJumpType DEF StartBig
<1>4. CASE Spawn(t)
  <2>1. pc' \in [Threads -> AsyncLabels]
    BY <1>4 DEF Spawn, TypeOK
  <2> QED BY <1>4, <2>1 DEF Spawn, TypeOK, BaseTypeOK, objVars, netVars
<1>5. CASE SpawnTerminates(t)
  BY <1>5, JumpType DEF SpawnTerminates, TypeOK, BaseTypeOK, objVars
<1>6. CASE SpawnFails(t)
  BY <1>6, PlainJumpType DEF SpawnFails
<1>7. CASE StartWait(t)
  BY <1>7, PlainJumpType DEF StartWait
<1> QED
  BY <1>1, <1>2, <1>3, <1>4, <1>5, <1>6, <1>7 DEF Start

(* ... and every call.                                                     *)
LEMMA CreateType ==
  ASSUME TypeOK, CreateSucceeds \/ CreateFails
  PROVE  /\ flags' \in Word /\ open' \subseteq Sockets
         /\ backlog' \in 0..MaxClients /\ pol' \in 0..PolCap
<1>1. flags' \in Word
  BY DEF CreateSucceeds, CreateFails, CreateRawFails, CreateStopperFails, TypeOK,
         BaseTypeOK, Word
<1>2. open' \subseteq Sockets
  BY DEF CreateSucceeds, CreateFails, CreateRawFails, CreateStopperFails, TypeOK,
         BaseTypeOK
<1>3. backlog' \in 0..MaxClients /\ pol' \in 0..PolCap
  BY BaseAssumption DEF CreateSucceeds, CreateFails, CreateRawFails, CreateStopperFails,
         TypeOK, BaseTypeOK
<1> QED BY <1>1, <1>2, <1>3

(* So do the calls that the application makes.                             *)
LEMMA CallsType ==
  ASSUME TypeOK, NEW t \in Threads, Calls(t) \/ CallbackCalls(t)
  PROVE  TypeOK'
<1> USE DEF AsyncLabels, BaseLabels, StopLabels, DestroyLabels
<1>1. CASE CreateServer(t)
  BY <1>1, CreateType DEF CreateServer, TypeOK, BaseTypeOK, asyncVars
<1>2. CASE CreateAndStart(t)
  <2>1. pc' \in [Threads -> AsyncLabels]
    BY <1>2, GotoType DEF CreateAndStart, TypeOK
  <2>2. /\ flags' \in Word /\ open' \subseteq Sockets
        /\ backlog' \in 0..MaxClients /\ pol' \in 0..PolCap
    BY <1>2, CreateType DEF CreateAndStart, TypeOK, BaseTypeOK, netVars
  <2> QED BY <1>2, <2>1, <2>2 DEF CreateAndStart, TypeOK, BaseTypeOK, asyncVars
<1>3. CASE CallStart(t)
  BY <1>3, PlainJumpType DEF CallStart
<1>4. CASE CallStop(t) \/ CallDestroy(t) \/ CallDelete(t)
  <2>1. ret' \in [Threads -> ReturnLabels]
    BY <1>4 DEF CallStop, CallDestroy, CallDelete, TypeOK, BaseTypeOK, ReturnLabels
  <2>2. pc' \in [Threads -> AsyncLabels]
    BY <1>4, GotoType DEF CallStop, CallDestroy, CallDelete
  <2> QED BY <1>4, <2>1, <2>2
       DEF CallStop, CallDestroy, CallDelete, TypeOK, BaseTypeOK, objVars, netVars, asyncVars
<1>5. CASE CallbackCalls(t)
  <2>1. ret' \in [Threads -> ReturnLabels]
    BY <1>5 DEF CallbackCalls, TypeOK, BaseTypeOK, ReturnLabels
  <2>2. pc' \in [Threads -> AsyncLabels]
    BY <1>5, GotoType DEF CallbackCalls
  <2> QED BY <1>5, <2>1, <2>2
       DEF CallbackCalls, TypeOK, BaseTypeOK, objVars, netVars, asyncVars
<1> QED
  BY <1>1, <1>2, <1>3, <1>4, <1>5 DEF Calls

(* TypeOK is inductive.                                                    *)
LEMMA TypeNext == TypeOK /\ [Next]_vars => TypeOK'
<1> SUFFICES ASSUME TypeOK, [Next]_vars PROVE TypeOK'
  OBVIOUS
<1>1. CASE UNCHANGED vars
  BY <1>1 DEF vars, baseVars, asyncVars, TypeOK, BaseTypeOK
<1>2. ASSUME NEW t \in Threads, Calls(t) \/ CallbackCalls(t)
      PROVE  TypeOK'
  BY <1>2, CallsType
<1>3. ASSUME NEW t \in Threads, Run(t)
      PROVE  TypeOK'
  <2>1. CASE LoadFlags(t) /\ UNCHANGED asyncVars
    BY <2>1 DEF LoadFlags, TypeOK, BaseTypeOK, netVars, asyncVars
  <2> QED BY <1>3, <2>1, StartType, StopType, ServerThreadType DEF Run
<1>4. ASSUME NEW w \in Workers, PollInterrupted(w), UNCHANGED asyncVars
      PROVE  TypeOK'
  <2>1. w \in Threads
    BY AsyncAssumption
  <2>2. pc' \in [Threads -> AsyncLabels]
    BY <1>4, <2>1, GotoType
    DEF PollInterrupted, AsyncLabels, BaseLabels, RunLabels, LoopLabels
  <2> QED BY <1>4, <2>1, <2>2
       DEF PollInterrupted, TypeOK, BaseTypeOK, netVars, objVars, asyncVars
<1>5. CASE Clients /\ UNCHANGED asyncVars
  <2>1. backlog' \in 0..MaxClients
    BY <1>5, BaseAssumption DEF Clients, ClientConnects, ClientAborts, TypeOK, BaseTypeOK
  <2> QED BY <1>5, <2>1
       DEF Clients, ClientConnects, ClientAborts, TypeOK, BaseTypeOK, objVars, asyncVars
<1> QED
  BY <1>1, <1>2, <1>3, <1>4, <1>5 DEF Next, Finished

(* Every variable stays in its domain, whatever the callers, the callback  *)
(* and the races on the flag word do.                                      *)
THEOREM TypeCorrect == Spec => []TypeOK
<1>1. Init => TypeOK
  BY TypeInit
<1>2. TypeOK /\ [Next]_vars => TypeOK'
  BY TypeNext
<1> QED BY <1>1, <1>2, PTL DEF Spec

-----------------------------------------------------------------------------
(* One application thread makes every call.                                *)

(* The hypothesis of the theorems below: a single application thread, an   *)
(* accept callback that does not call the server, flag stores that do not  *)
(* overwrite each other, and semaphores that can be made.                  *)
SingleOwner ==
  /\ \E o : Callers = {o}
  /\ CallbackApi = {}
  /\ ~SplitFlagStores
  /\ ~SemaMayFail

(* Under it a flag store changes that flag and nothing else.               *)
LEMMA StoreOne ==
  ASSUME SingleOwner, TypeOK, NEW t \in Threads, NEW f \in FlagNames, NEW v \in BOOLEAN,
         SetFlag(t, f, v)
  PROVE  /\ flags'[f] = v
         /\ \A g \in FlagNames \ {f} : flags'[g] = flags[g]
BY DEF SingleOwner, SetFlag, TypeOK, BaseTypeOK, Word

(* The invariant holds initially.                                          *)
LEMMA OwnerInit == Init => SingleOwnerInv
<1> SUFFICES ASSUME Init PROVE SingleOwnerInv
  OBVIOUS
<1>1. \A t \in Callers : OwnerInv(t)
  BY AsyncAssumption, BaseAssumption
  DEF Init, BaseInit, OwnerInv, AllFalse, FlagNames, OwnerCalm, OwnerStarting, OwnerHolding,
      OwnerStopping, OwnerOver, Owned
<1>2. \A w \in Workers : ServerInv(w)
  BY AsyncAssumption, BaseAssumption
  DEF Init, BaseInit, ServerInv, ServerLabels, EarlyLabels, LateLabels, MarkedLabels,
      SocketLabels
<1> QED
  BY <1>1, <1>2, AsyncAssumption, BaseAssumption
  DEF Init, BaseInit, SingleOwnerInv, Owned, AllFalse, FlagNames

(* A step of the server thread w that leaves the sockets, the flags of the *)
(* owner and the std::thread member alone has to show only that w goes on  *)
(* as ServerInv says.                                                      *)
LEMMA ServerJump ==
  ASSUME SingleOwner, TypeOK, SingleOwnerInv,
         NEW w \in Workers, NEW from, NEW to, from # "none", Goto(w, from, to),
         \A f \in {"shouldRun", "shouldRunBig", "isCreated", "hasError"} :
            flags'[f] = flags[f],
         serverTid' = serverTid \/ serverTid' \in Workers \cup {NoTid},
         started => started',
         UNCHANGED <<open, ret, server_thread, inServerTid, freed, fault>>,
         ServerInv(w)'
  PROVE  SingleOwnerInv'
<1>1. serverTid' \notin Callers
  BY AsyncAssumption, BaseAssumption DEF SingleOwnerInv
<1>2. ASSUME NEW t \in Callers PROVE OwnerInv(t)'
  <2>1. t # w /\ pc'[t] = pc[t]
    BY AsyncAssumption DEF Goto, TypeOK
  <2>2. OwnerInv(t)
    BY DEF SingleOwnerInv
  <2> QED BY <2>1, <2>2 DEF OwnerInv, Owned
<1>3. ASSUME NEW v \in Workers PROVE ServerInv(v)'
  <2>1. CASE v = w
    BY <2>1
  <2>2. CASE v # w
    <3>1. pc[w] # "none" /\ server_thread = w
      BY DEF Goto, SingleOwnerInv, ServerInv
    <3>2. pc[v] = "none" /\ pc'[v] = "none"
      BY <2>2, <3>1, AsyncAssumption DEF Goto, SingleOwnerInv, ServerInv, TypeOK
    <3> QED BY <2>2, <3>1, <3>2
         DEF ServerInv, ServerLabels, EarlyLabels, LateLabels, MarkedLabels, SocketLabels
  <2> QED BY <2>1, <2>2
<1> QED BY <1>1, <1>2, <1>3 DEF SingleOwnerInv, Owned

(* Every step of a server thread preserves the invariant.                  *)
LEMMA ServerSteps ==
  ASSUME SingleOwner, TypeOK, SingleOwnerInv, NEW w \in Workers, ServerThread(w)
  PROVE  SingleOwnerInv'
<1> USE DEF ServerInv, ServerLabels, EarlyLabels, LateLabels, MarkedLabels, SocketLabels,
           LoopLabels
<1>1. w \in Threads /\ ServerInv(w)
  BY AsyncAssumption DEF SingleOwnerInv
<1>2. CASE New(w)
  <2>1. ServerInv(w)'
    BY <1>1, <1>2 DEF New, Goto, TypeOK, netVars, asyncVars
  <2> QED BY <1>2, <2>1, ServerJump DEF New, netVars, asyncVars
<1>3. CASE Mark(w)
  <2>1. /\ flags'["serverRunning"]
        /\ \A f \in FlagNames \ {"serverRunning"} : flags'[f] = flags[f]
    BY <1>1, <1>3, StoreOne DEF Mark, FlagNames
  <2>2. ServerInv(w)'
    BY <1>1, <1>3, <2>1 DEF Mark, Goto, TypeOK, netVars, asyncVars, FlagNames
  <2> QED BY <1>3, <2>1, <2>2, ServerJump DEF Mark, netVars, asyncVars, FlagNames
<1>4. CASE Post(w)
  <2>1. ServerInv(w)'
    BY <1>1, <1>4 DEF Post, Goto, TypeOK, netVars, objVars
  <2> QED BY <1>4, <2>1, ServerJump DEF Post, netVars, objVars
<1>5. CASE Extra(w)
  <2>1. ServerInv(w)'
    BY <1>1, <1>5 DEF Extra, Goto, TypeOK, netVars, objVars, asyncVars
  <2> QED BY <1>5, <2>1, ServerJump DEF Extra, netVars, objVars, asyncVars
<1>6. CASE ClearTid(w, "extra") /\ UNCHANGED asyncVars
  <2>1. ServerInv(w)'
    BY <1>1, <1>6 DEF ClearTid, Goto, TypeOK, netVars, asyncVars
  <2> QED BY <1>6, <2>1, ServerJump DEF ClearTid, netVars, asyncVars
<1>7. CASE AcceptLoop(w) /\ UNCHANGED asyncVars
  <2>1. CASE RunTid(w)
    <3>1. ServerInv(w)'
      BY <1>1, <1>7, <2>1 DEF RunTid, Goto, TypeOK, netVars, asyncVars
    <3> QED BY <1>7, <2>1, <3>1, ServerJump DEF RunTid, netVars, asyncVars
  <2>2. CASE RunMark(w)
    <3>1. /\ flags'["serverRunning"]
          /\ \A f \in FlagNames \ {"serverRunning"} : flags'[f] = flags[f]
      BY <1>1, <2>2, StoreOne DEF RunMark, FlagNames
    <3>2. ServerInv(w)'
      BY <1>1, <1>7, <2>2, <3>1 DEF RunMark, Goto, TypeOK, netVars, asyncVars, FlagNames
    <3> QED BY <1>7, <2>2, <3>1, <3>2, ServerJump DEF RunMark, netVars, asyncVars, FlagNames
  <2>3. CASE LoopTest(w)
    <3>1. MayServe => open = Sockets
      BY <1>1, <2>3, AsyncAssumption, BaseAssumption
        DEF MayServe, LoopTest, Goto, SingleOwnerInv, Owned
    <3>2. ServerInv(w)'
      BY <1>1, <1>7, <2>3, <3>1 DEF LoopTest, Goto, TypeOK, netVars, objVars, asyncVars
    <3> QED BY <1>7, <2>3, <3>2, ServerJump DEF LoopTest, netVars, objVars, asyncVars
  <2>4. CASE Enter(w) \/ Leave(w)
    <3>1. \A f \in FlagNames \ {"inAcceptStack"} : flags'[f] = flags[f]
      BY <1>1, <2>4, StoreOne DEF Enter, Leave, FlagNames
    <3>2. ServerInv(w)'
      BY <1>1, <1>7, <2>4, <3>1 DEF Enter, Leave, Goto, TypeOK, netVars, asyncVars, FlagNames
    <3> QED BY <1>7, <2>4, <3>1, <3>2, ServerJump
         DEF Enter, Leave, netVars, asyncVars, FlagNames
  <2>5. CASE PollReady(w)
    <3>1. ServerInv(w)'
      BY <1>1, <1>7, <2>5 DEF PollReady, Goto, TypeOK, netVars, objVars, asyncVars
    <3> QED BY <1>7, <2>5, <3>1, ServerJump DEF PollReady, netVars, objVars, asyncVars
  <2>6. CASE Woke(w)
    <3>1. /\ AfterPoll(w) \in {"leave", "drain", "accept"}
          /\ AfterPoll(w) = "accept" => "serv" \in ready[w]
      BY DEF AfterPoll
    <3>2. ServerInv(w)'
      BY <1>1, <1>7, <2>6, <3>1 DEF Woke, Goto, TypeOK, netVars, objVars, asyncVars
    <3> QED BY <1>7, <2>6, <3>2, ServerJump DEF Woke, netVars, objVars, asyncVars
  <2>7. CASE Drain(w)
    <3>1. ServerInv(w)'
      BY <1>1, <1>7, <2>7 DEF Drain, Goto, TypeOK, objVars, asyncVars
    <3> QED BY <1>7, <2>7, <3>1, ServerJump DEF Drain, objVars, asyncVars
  <2>8. CASE Accept(w)
    <3>1. ServerInv(w)'
      BY <1>1, <1>7, <2>8 DEF Accept, Goto, TypeOK, objVars, asyncVars
    <3> QED BY <1>7, <2>8, <3>1, ServerJump DEF Accept, objVars, asyncVars
  <2>9. CASE CallbackReturns(w)
    <3>1. ServerInv(w)'
      BY <1>1, <1>7, <2>9 DEF CallbackReturns, Goto, TypeOK, netVars, objVars, asyncVars
    <3> QED BY <1>7, <2>9, <3>1, ServerJump DEF CallbackReturns, netVars, objVars, asyncVars
  <2>10. CASE BigTest(w)
    <3>1. ServerInv(w)'
      BY <1>1, <1>7, <2>10 DEF BigTest, Goto, TypeOK, netVars, objVars, asyncVars
    <3> QED BY <1>7, <2>10, <3>1, ServerJump DEF BigTest, netVars, objVars, asyncVars
  <2>11. CASE Unmark(w)
    <3>1. \A f \in FlagNames \ {"serverRunning"} : flags'[f] = flags[f]
      BY <1>1, <2>11, StoreOne DEF Unmark, FlagNames
    <3>2. ServerInv(w)'
      BY <1>1, <1>7, <2>11, <3>1 DEF Unmark, Goto, TypeOK, netVars, asyncVars, FlagNames
    <3> QED BY <1>7, <2>11, <3>1, <3>2, ServerJump DEF Unmark, netVars, asyncVars, FlagNames
  <2> QED
    BY <1>7, <2>1, <2>2, <2>3, <2>4, <2>5, <2>6, <2>7, <2>8, <2>9, <2>10, <2>11
    DEF AcceptLoop
<1> QED
  BY <1>2, <1>3, <1>4, <1>5, <1>6, <1>7 DEF ServerThread
(* A step of the owner t that leaves the sockets, the server thread and    *)
(* what it reads alone, ...                                                *)
LEMMA OwnerJump ==
  ASSUME SingleOwner, TypeOK, SingleOwnerInv,
         NEW t \in Callers, NEW from, NEW to, Goto(t, from, to),
         \A f \in {"serverRunning", "isCreated", "hasError"} : flags'[f] = flags[f],
         flags'["shouldRunBig"] => flags["shouldRunBig"],
         UNCHANGED <<open, ready, serverTid, server_thread, started, fault>>,
         OwnerInv(t)'
  PROVE  SingleOwnerInv'
<1>1. ASSUME NEW u \in Callers PROVE OwnerInv(u)'
  BY DEF SingleOwner
<1>2. ASSUME NEW w \in Workers PROVE ServerInv(w)'
  <2>1. t # w /\ pc'[w] = pc[w]
    BY AsyncAssumption DEF Goto, TypeOK
  <2>2. ServerInv(w)
    BY DEF SingleOwnerInv
  <2> QED BY <2>1, <2>2 DEF ServerInv
<1> QED BY <1>1, <1>2 DEF SingleOwnerInv, Owned

(* ... and a step of the owner while it owns no server thread.             *)
LEMMA LonelyJump ==
  ASSUME SingleOwner, TypeOK, SingleOwnerInv, NEW t \in Callers, ~Owned,
         \A u \in Threads : u # t => pc'[u] = pc[u],
         serverTid' \notin Callers,
         UNCHANGED <<server_thread, fault>>,
         flags'["isCreated"] /\ ~flags'["hasError"] => open' = Sockets,
         OwnerInv(t)'
  PROVE  SingleOwnerInv'
<1>1. ASSUME NEW u \in Callers PROVE OwnerInv(u)'
  BY DEF SingleOwner
<1>2. ASSUME NEW w \in Workers PROVE ServerInv(w)'
  <2>1. t # w /\ w \in Threads /\ w # NoTid
    BY AsyncAssumption, BaseAssumption
  <2>2. pc[w] = "none"
    BY <2>1 DEF SingleOwnerInv, ServerInv, Owned
  <2> QED BY <2>1, <2>2
       DEF ServerInv, ServerLabels, EarlyLabels, LateLabels, MarkedLabels, SocketLabels, Owned
<1> QED BY <1>1, <1>2 DEF SingleOwnerInv, Owned

(* A server thread that the owner has started and not stopped is marked    *)
(* running.                                                                *)
LEMMA OwnedRunning ==
  ASSUME TypeOK, SingleOwnerInv, NEW t \in Callers, pc[t] \in OwnerCalm, Owned
  PROVE  flags["serverRunning"]
<1>1. started /\ flags["shouldRunBig"]
  BY DEF SingleOwnerInv, OwnerInv, OwnerCalm, OwnerStopping
<1>2. PICK w \in Workers : server_thread = w
  BY DEF TypeOK, Owned
<1>3. ServerInv(w)
  BY DEF SingleOwnerInv
<1> QED
  BY <1>1, <1>2, <1>3
  DEF ServerInv, ServerLabels, EarlyLabels, LateLabels, MarkedLabels, LoopLabels

(* The calls of the owner preserve the invariant, ...                      *)
LEMMA OwnerCalls ==
  ASSUME SingleOwner, TypeOK, SingleOwnerInv, NEW t \in Callers, Calls(t)
  PROVE  SingleOwnerInv'
<1> USE DEF OwnerInv, OwnerCalm, OwnerStarting, OwnerHolding, OwnerStopping, OwnerOver
<1>1. t \in Threads /\ OwnerInv(t)
  BY AsyncAssumption DEF SingleOwnerInv
<1>2. pc[t] = "idle" /\ ~freed
  BY <1>1 DEF Calls, CreateServer, CreateAndStart, CallStart, CallStop, CallDestroy,
              CallDelete, CanCall
<1>3. ASSUME ~flags["shouldRun"], CreateSucceeds \/ CreateFails
      PROVE  /\ ~Owned
             /\ \A f \in {"shouldRun", "shouldRunBig"} : flags'[f] = flags[f]
             /\ flags'["isCreated"] /\ ~flags'["hasError"] => open' = Sockets
  BY <1>1, <1>2, <1>3
  DEF CreateSucceeds, CreateFails, CreateRawFails, CreateStopperFails, TypeOK, BaseTypeOK,
      Word, FlagNames
<1>4. CASE CreateServer(t)
  <2>1. OwnerInv(t)'
    BY <1>1, <1>2, <1>3, <1>4 DEF CreateServer, asyncVars, Owned
  <2> QED BY <1>3, <1>4, <2>1, LonelyJump DEF CreateServer, SingleOwnerInv, asyncVars
<1>5. CASE CreateAndStart(t)
  <2>1. CASE flags["isCreated"]
    <3>1. OwnerInv(t)'
      BY <1>1, <1>2, <1>5, <2>1 DEF CreateAndStart, Goto, TypeOK, asyncVars, Owned
    <3> QED BY <1>5, <2>1, <3>1, OwnerJump DEF CreateAndStart, netVars, asyncVars
  <2>2. CASE ~flags["isCreated"]
    <3>1. ~Owned /\ ~flags["shouldRun"]
      BY <1>1, <1>2, <2>2 DEF SingleOwnerInv
    <3>2. OwnerInv(t)'
      BY <1>1, <1>2, <1>3, <1>5, <2>2, <3>1
      DEF CreateAndStart, Goto, TypeOK, asyncVars, Owned
    <3> QED BY <1>3, <1>5, <2>2, <3>1, <3>2, LonelyJump
         DEF CreateAndStart, Goto, TypeOK, SingleOwnerInv, asyncVars
  <2> QED BY <2>1, <2>2
<1>6. CASE CallStart(t)
  <2>1. OwnerInv(t)'
    BY <1>1, <1>2, <1>6 DEF CallStart, Goto, TypeOK, objVars, asyncVars, Owned
  <2> QED BY <1>6, <2>1, OwnerJump DEF CallStart, objVars, netVars, asyncVars
<1>7. CASE CallStop(t) \/ CallDestroy(t) \/ CallDelete(t)
  <2>1. OwnerInv(t)'
    BY <1>1, <1>2, <1>7
    DEF CallStop, CallDestroy, CallDelete, Goto, TypeOK, BaseTypeOK, objVars, asyncVars, Owned
  <2> QED BY <1>7, <2>1, OwnerJump
       DEF CallStop, CallDestroy, CallDelete, objVars, netVars, asyncVars
<1> QED
  BY <1>4, <1>5, <1>6, <1>7 DEF Calls

(* ... so do the steps of the start, ...                                   *)
LEMMA OwnerStarts ==
  ASSUME SingleOwner, TypeOK, SingleOwnerInv, NEW t \in Callers, Start(t)
  PROVE  SingleOwnerInv'
<1> USE DEF OwnerInv, OwnerCalm, OwnerStarting, OwnerHolding, OwnerStopping, OwnerOver
<1>1. t \in Threads /\ OwnerInv(t)
  BY AsyncAssumption DEF SingleOwnerInv
<1>2. CASE StartTest(t)
  <2>1. OwnerInv(t)'
    BY <1>1, <1>2 DEF StartTest, StartAllowed, Goto, TypeOK, objVars, asyncVars, Owned
  <2> QED BY <1>2, <2>1, OwnerJump DEF StartTest, objVars, netVars, asyncVars
<1>3. CASE StartRun(t)
  <2>1. /\ flags'["shouldRun"]
        /\ \A f \in FlagNames \ {"shouldRun"} : flags'[f] = flags[f]
    BY <1>1, <1>3, StoreOne DEF StartRun, FlagNames
  <2>2. OwnerInv(t)'
    BY <1>1, <1>3, <2>1 DEF StartRun, Goto, TypeOK, asyncVars, Owned, FlagNames
  <2> QED BY <1>3, <2>1, <2>2, OwnerJump DEF StartRun, netVars, asyncVars, FlagNames
<1>4. CASE StartBig(t)
  <2>1. /\ flags'["shouldRunBig"]
        /\ \A f \in FlagNames \ {"shouldRunBig"} : flags'[f] = flags[f]
    BY <1>1, <1>4, StoreOne DEF StartBig, FlagNames
  <2>2. OwnerInv(t)' /\ ~Owned
    BY <1>1, <1>4, <2>1 DEF StartBig, Goto, TypeOK, asyncVars, Owned, FlagNames
  <2>3. flags'["isCreated"] /\ ~flags'["hasError"] => open' = Sockets
    BY <1>4, <2>1 DEF StartBig, SingleOwnerInv, netVars, FlagNames
  <2> QED BY <1>4, <2>2, <2>3, LonelyJump
       DEF StartBig, Goto, TypeOK, SingleOwnerInv, asyncVars
<1>5. CASE Spawn(t)
  <2>1. ~Owned /\ pc[t] = "spawn" /\ ~freed
    BY <1>1, <1>5 DEF Spawn
  <2>2. PICK w \in Workers : /\ pc[w] = "none"
                             /\ server_thread' = w
                             /\ pc' = [pc EXCEPT ![t] = "startWait", ![w] = "new"]
    BY <1>5 DEF Spawn
  <2>3. t # w /\ w \in Threads /\ w # NoTid
    BY AsyncAssumption, BaseAssumption
  <2>4. OwnerInv(t)'
    BY <1>1, <1>5, <2>1, <2>2, <2>3 DEF Spawn, TypeOK, objVars, Owned
  <2>5. ASSUME NEW v \in Workers PROVE ServerInv(v)'
    <3>1. v \in Threads /\ v # t /\ v # NoTid
      BY AsyncAssumption, BaseAssumption
    <3>2. v # w => pc[v] = "none" /\ pc'[v] = "none"
      BY <2>1, <2>2, <3>1 DEF SingleOwnerInv, ServerInv, Owned, TypeOK
    <3>3. pc'[w] = "new"
      BY <2>2, <2>3 DEF TypeOK
    <3> QED BY <1>5, <2>2, <3>1, <3>2, <3>3
         DEF Spawn, ServerInv, ServerLabels, EarlyLabels, LateLabels, MarkedLabels,
             SocketLabels
  <2> QED BY <1>1, <1>5, <2>1, <2>4, <2>5
       DEF Spawn, SingleOwnerInv, SingleOwner, objVars, netVars, Owned
<1>6. CASE SpawnTerminates(t)
  BY <1>1, <1>6 DEF SpawnTerminates, Goto, Owned
<1>7. CASE SpawnFails(t)
  BY <1>7 DEF SpawnFails, SingleOwner
<1>8. CASE StartWait(t)
  <2>1. OwnerInv(t)'
    BY <1>1, <1>8 DEF StartWait, Goto, TypeOK, objVars, asyncVars, Owned
  <2> QED BY <1>8, <2>1, OwnerJump DEF StartWait, objVars, netVars, asyncVars
<1> QED
  BY <1>2, <1>3, <1>4, <1>5, <1>6, <1>7, <1>8 DEF Start

(* ... and of StopServer, DestroyServer and the destructor.                *)
LEMMA OwnerStops ==
  ASSUME SingleOwner, TypeOK, SingleOwnerInv, NEW t \in Callers, Stop(t)
  PROVE  SingleOwnerInv'
<1> USE DEF OwnerInv, OwnerCalm, OwnerStarting, OwnerHolding, OwnerStopping, OwnerOver
<1>1. t \in Threads /\ OwnerInv(t) /\ ret[t] \in {"idle", "dtor"}
  BY AsyncAssumption DEF SingleOwnerInv, TypeOK, BaseTypeOK, ReturnLabels
<1>2. CASE StopTest(t)
  <2>1. OwnerInv(t)'
    BY <1>1, <1>2 DEF StopTest, AfterStop, Goto, TypeOK, objVars, asyncVars, Owned
  <2> QED BY <1>2, <2>1, OwnerJump DEF StopTest, objVars, netVars, asyncVars
<1>3. CASE StopRead(t)
  <2>1. OwnerInv(t)'
    BY <1>1, <1>3 DEF StopRead, Goto, TypeOK, SingleOwnerInv, objVars, Owned
  <2> QED BY <1>3, <2>1, OwnerJump DEF StopRead, objVars, netVars
<1>4. CASE Join(t)
  <2>1. PICK w \in Workers : /\ w = server_thread
                             /\ pc[w] = "done"
                             /\ pc' = [pc EXCEPT ![t] = AfterStop(t), ![w] = "none"]
    BY <1>4 DEF Join
  <2>2. t # w /\ w \in Threads /\ pc[t] = "reap"
    BY <1>4, AsyncAssumption DEF Join
  <2>3. OwnerInv(t)'
    BY <1>1, <1>4, <2>1, <2>2 DEF Join, AfterStop, TypeOK, objVars, Owned
  <2>4. ASSUME NEW v \in Workers PROVE ServerInv(v)'
    <3>1. v \in Threads /\ v # t /\ v # NoTid
      BY AsyncAssumption, BaseAssumption
    <3>2. pc'[v] = "none"
      BY <2>1, <3>1 DEF SingleOwnerInv, ServerInv, TypeOK
    <3> QED BY <1>4, <3>1, <3>2
         DEF Join, ServerInv, ServerLabels, EarlyLabels, LateLabels, MarkedLabels, SocketLabels
  <2> QED BY <1>1, <1>4, <2>3, <2>4
       DEF Join, SingleOwnerInv, SingleOwner, objVars, netVars, Owned
<1>5. CASE Detach(t)
  BY <1>1, <1>5 DEF Detach, Joins
<1>6. CASE ReapThrows(t)
  BY <1>1, <1>6 DEF ReapThrows, Goto, Owned
<1>7. CASE Free(t)
  <2>1. OwnerInv(t)'
    BY <1>1, <1>7 DEF Free, Goto, TypeOK, objVars, Owned
  <2> QED BY <1>7, <2>1, OwnerJump DEF Free, objVars, netVars
<1>8. CASE StopCall(t, "reap") /\ UNCHANGED asyncVars
  <2>1. CASE StopRun(t)
    <3>1. /\ ~flags'["shouldRun"]
          /\ \A f \in FlagNames \ {"shouldRun"} : flags'[f] = flags[f]
      BY <1>1, <2>1, StoreOne DEF StopRun, FlagNames
    <3>2. OwnerInv(t)'
      BY <1>1, <1>8, <2>1, <3>1 DEF StopRun, Goto, TypeOK, asyncVars, Owned, FlagNames
    <3> QED BY <1>8, <2>1, <3>1, <3>2, OwnerJump DEF StopRun, netVars, asyncVars, FlagNames
  <2>2. CASE StopBig(t)
    <3>1. /\ ~flags'["shouldRunBig"]
          /\ \A f \in FlagNames \ {"shouldRunBig"} : flags'[f] = flags[f]
      BY <1>1, <2>2, StoreOne DEF StopBig, FlagNames
    <3>2. OwnerInv(t)'
      BY <1>1, <1>8, <2>2, <3>1 DEF StopBig, Goto, TypeOK, asyncVars, Owned, FlagNames
    <3> QED BY <1>8, <2>2, <3>1, <3>2, OwnerJump DEF StopBig, netVars, asyncVars, FlagNames
  <2>3. CASE StopTid(t, "reap")
    <3>1. ~StopsItself(t)
      BY DEF StopsItself, SingleOwnerInv
    <3>2. OwnerInv(t)'
      BY <1>1, <1>8, <2>3, <3>1 DEF StopTid, Goto, TypeOK, objVars, asyncVars, Owned
    <3> QED BY <1>8, <2>3, <3>2, OwnerJump DEF StopTid, objVars, netVars, asyncVars
  <2>4. CASE StopSelf(t, "reap")
    BY <1>1, <2>4 DEF StopSelf, Goto
  <2>5. CASE StopSend(t)
    <3>1. OwnerInv(t)'
      BY <1>1, <1>8, <2>5 DEF StopSend, Goto, TypeOK, objVars, asyncVars, Owned
    <3> QED BY <1>8, <2>5, <3>1, OwnerJump DEF StopSend, objVars, asyncVars
  <2>6. CASE StopWait(t, "reap")
    <3>1. OwnerInv(t)'
      BY <1>1, <1>8, <2>6 DEF StopWait, Goto, TypeOK, objVars, asyncVars, Owned
    <3> QED BY <1>8, <2>6, <3>1, OwnerJump DEF StopWait, objVars, netVars, asyncVars
  <2> QED
    BY <1>8, <2>1, <2>2, <2>3, <2>4, <2>5, <2>6 DEF StopCall
<1>9. CASE DestroyCall(t, AfterDestroy(t)) /\ UNCHANGED asyncVars
  <2>1. CASE DestroyTest(t, AfterDestroy(t))
    <3>1. DestroyAllowed => ~Owned
      BY <2>1, OwnedRunning DEF DestroyTest, Goto, DestroyAllowed
    <3>2. OwnerInv(t)'
      BY <1>1, <1>9, <2>1, <3>1
      DEF DestroyTest, AfterDestroy, Goto, TypeOK, objVars, asyncVars, Owned
    <3> QED BY <1>9, <2>1, <3>2, OwnerJump DEF DestroyTest, objVars, netVars, asyncVars
  <2>2. CASE CloseAll(t, AfterDestroy(t))
    <3>1. ~Owned /\ \A f \in FlagNames : ~flags'[f]
      BY <1>1, <2>2 DEF CloseAll, Goto, AllFalse
    <3>2. OwnerInv(t)'
      BY <1>1, <1>9, <2>2, <3>1
      DEF CloseAll, AfterDestroy, Goto, TypeOK, asyncVars, Owned, FlagNames
    <3> QED BY <1>9, <2>2, <3>1, <3>2, LonelyJump, AsyncAssumption, BaseAssumption
         DEF CloseAll, Goto, TypeOK, asyncVars, FlagNames
  <2> QED BY <1>9, <2>1, <2>2 DEF DestroyCall
<1> QED
  BY <1>2, <1>3, <1>4, <1>5, <1>6, <1>7, <1>8, <1>9 DEF Stop
(* Which thread can take which steps: an application thread is never at a  *)
(* label of the accept loop, a server thread never at one of the calls.    *)
LEMMA StepsByKind ==
  ASSUME SingleOwner, TypeOK, SingleOwnerInv, NEW t \in Threads,
         Calls(t) \/ CallbackCalls(t) \/ Run(t)
  PROVE  \/ t \in Callers /\ (Calls(t) \/ Start(t) \/ Stop(t))
         \/ t \in Workers /\ ServerThread(t)
<1>1. ~(LoadFlags(t) /\ UNCHANGED asyncVars) /\ ~CallbackCalls(t)
  BY DEF LoadFlags, CallbackCalls, SingleOwner
<1>2. CASE t \in Callers
  <2>1. pc[t] \in OwnerCalm \cup OwnerStarting \cup OwnerHolding \cup OwnerStopping
                    \cup OwnerOver
    BY <1>2 DEF SingleOwnerInv, OwnerInv
  <2>2. ~ServerThread(t)
    BY <2>1
    DEF ServerThread, New, Mark, Post, Extra, AcceptLoop, ClearTid, RunTid, RunMark,
        LoopTest, Enter, PollReady, Woke, Drain, Accept, CallbackReturns, Leave, BigTest,
        Unmark, Goto, OwnerCalm, OwnerStarting, OwnerHolding, OwnerStopping, OwnerOver
  <2> QED BY <1>1, <1>2, <2>2 DEF Run
<1>3. CASE t \in Workers
  <2>1. pc[t] \in ServerLabels /\ t \notin Callers
    BY <1>3, AsyncAssumption DEF SingleOwnerInv, ServerInv
  <2>2. ~Calls(t)
    BY <2>1
    DEF Calls, CreateServer, CreateAndStart, CallStart, CallStop, CallDestroy, CallDelete,
        CanCall
  <2>3. ~Start(t)
    BY <2>1
    DEF Start, StartTest, StartRun, StartBig, Spawn, SpawnTerminates, SpawnFails, StartWait,
        Goto, ServerLabels, EarlyLabels, LateLabels, LoopLabels
  <2>4. ~Stop(t)
    BY <2>1
    DEF Stop, StopTest, StopRead, Join, Detach, ReapThrows, Free, StopCall, StopRun, StopBig,
        StopTid, StopSelf, StopSend, StopWait, DestroyCall, DestroyTest, CloseAll, Goto,
        ServerLabels, EarlyLabels, LateLabels, LoopLabels
  <2> QED BY <1>1, <1>3, <2>2, <2>3, <2>4 DEF Run
<1> QED BY <1>2, <1>3, AsyncAssumption

(* SingleOwnerInv is inductive.                                            *)
LEMMA OwnerNext ==
  ASSUME SingleOwner
  PROVE  TypeOK /\ SingleOwnerInv /\ [Next]_vars => SingleOwnerInv'
<1> SUFFICES ASSUME TypeOK, SingleOwnerInv, [Next]_vars PROVE SingleOwnerInv'
  OBVIOUS
<1>1. CASE UNCHANGED vars
  BY <1>1 DEF vars, baseVars, asyncVars, SingleOwnerInv, OwnerInv, ServerInv, Owned
<1>2. ASSUME NEW t \in Threads, Calls(t) \/ CallbackCalls(t) \/ Run(t)
      PROVE  SingleOwnerInv'
  BY <1>2, StepsByKind, OwnerCalls, OwnerStarts, OwnerStops, ServerSteps
<1>3. ASSUME NEW w \in Workers, PollInterrupted(w), UNCHANGED asyncVars
      PROVE  SingleOwnerInv'
  <2>1. w \in Threads /\ ServerInv(w)
    BY AsyncAssumption DEF SingleOwnerInv
  <2>2. ServerInv(w)'
    BY <1>3, <2>1
    DEF PollInterrupted, Goto, TypeOK, netVars, objVars, asyncVars, ServerInv, ServerLabels,
        EarlyLabels, LateLabels, MarkedLabels, SocketLabels, LoopLabels
  <2> QED BY <1>3, <2>2, ServerJump DEF PollInterrupted, netVars, objVars, asyncVars
<1>4. CASE Clients /\ UNCHANGED asyncVars
  BY <1>4
  DEF Clients, ClientConnects, ClientAborts, objVars, asyncVars, SingleOwnerInv, OwnerInv,
      ServerInv, Owned
<1> QED
  BY <1>1, <1>2, <1>3, <1>4 DEF Next, Finished

(* With one application thread, the position of this thread in its calls   *)
(* determines what the server thread may do and what the flags say.        *)
THEOREM OwnerInvariant ==
  ASSUME SingleOwner
  PROVE  Spec => [](TypeOK /\ SingleOwnerInv)
<1>1. Init => TypeOK /\ SingleOwnerInv
  BY TypeInit, OwnerInit
<1>2. TypeOK /\ SingleOwnerInv /\ [Next]_vars => (TypeOK /\ SingleOwnerInv)'
  BY TypeNext, OwnerNext
<1> QED BY <1>1, <1>2, PTL DEF Spec

(* Then no std::thread is joined, detached or assigned at the wrong time.  *)
THEOREM ThreadSafe ==
  ASSUME SingleOwner
  PROVE  Spec => []NoThreadFault
<1>1. SingleOwnerInv => NoThreadFault
  BY DEF SingleOwnerInv, NoThreadFault
<1> QED BY <1>1, OwnerInvariant, PTL

(* DestroyServer never closes a socket that the server thread polls, reads *)
(* or accepts on.                                                          *)
THEOREM SocketsSafe ==
  ASSUME SingleOwner
  PROVE  Spec => []SocketsOpenInAccept
<1>1. SingleOwnerInv => SocketsOpenInAccept
  BY DEF SingleOwnerInv, ServerInv, SocketsOpenInAccept, Sockets
<1> QED BY <1>1, OwnerInvariant, PTL

(* A server thread that nobody owns is not alive.                          *)
LEMMA NotOwnedNotAlive ==
  ASSUME SingleOwnerInv, ~Owned
  PROVE  NoServerThread
BY AsyncAssumption, BaseAssumption DEF SingleOwnerInv, ServerInv, Owned, NoServerThread, Alive

(* The object is not deleted while a server thread is left.                *)
THEOREM DeleteSafe ==
  ASSUME SingleOwner
  PROVE  Spec => []NoUseAfterFree
<1>1. SingleOwnerInv => NoUseAfterFree
  <2> SUFFICES ASSUME SingleOwnerInv, freed PROVE NoServerThread
    BY DEF NoUseAfterFree, NoServerThread
  <2>1. PICK t \in Callers : TRUE
    BY DEF SingleOwner
  <2>2. pc[t] = "gone" /\ ~Owned
    BY DEF SingleOwnerInv, OwnerInv, OwnerOver
  <2> QED BY <2>2, NotOwnedNotAlive
<1> QED BY <1>1, OwnerInvariant, PTL

-----------------------------------------------------------------------------
(* "stops and waits to stop"                                               *)

(* A step of a server thread changes neither the owner's position nor what *)
(* the owner decides.                                                      *)
LEMMA ServerFrame ==
  ASSUME SingleOwner, TypeOK, NEW w \in Workers, ServerThread(w)
  PROVE  /\ \A t \in Callers : pc'[t] = pc[t]
         /\ flags'["shouldRun"] = flags["shouldRun"]
         /\ server_thread' = server_thread
         /\ \E from, to : Goto(w, from, to)
<1>1. w \in Threads /\ w \notin Callers /\ Callers \subseteq Threads
  BY AsyncAssumption
<1>2. server_thread' = server_thread /\ \E from, to : Goto(w, from, to)
  BY DEF ServerThread, New, Mark, Post, Extra, AcceptLoop, ClearTid, RunTid, RunMark,
         LoopTest, Enter, PollReady, Woke, Drain, Accept, CallbackReturns, Leave, BigTest,
         Unmark, asyncVars
<1>3. flags' = flags \/ \E f \in FlagNames \ {"shouldRun"}, v \in BOOLEAN : SetFlag(w, f, v)
  BY DEF ServerThread, New, Mark, Post, Extra, AcceptLoop, ClearTid, RunTid, RunMark,
         LoopTest, Enter, PollReady, Woke, Drain, Accept, CallbackReturns, Leave, BigTest,
         Unmark, objVars, FlagNames
<1>4. flags'["shouldRun"] = flags["shouldRun"]
  BY <1>1, <1>3, StoreOne DEF FlagNames
<1> QED BY <1>1, <1>2, <1>4 DEF Goto, TypeOK

(* The step with which a stop request of the owner ends leaves it without  *)
(* a server thread.                                                        *)
LEMMA StopEndsUnowned ==
  ASSUME SingleOwner, TypeOK, SingleOwnerInv, [Next]_vars, NEW t \in Callers,
         pc[t] \in StopLabels \cup {"reap"}, pc'[t] \in {"idle", "destroy"}
  PROVE  ~Owned'
<1> USE DEF StopLabels
<1>1. t \in Threads /\ OwnerInv(t)
  BY AsyncAssumption DEF SingleOwnerInv
<1>2. pc'[t] # pc[t]
  OBVIOUS
<1>3. PICK u \in Threads : Calls(u) \/ CallbackCalls(u) \/ Run(u)
  <2>1. ~(\E w \in Workers : PollInterrupted(w))
    BY <1>1, <1>2, AsyncAssumption DEF PollInterrupted, Goto, TypeOK
  <2>2. ~Clients /\ ~Finished /\ ~UNCHANGED vars
    BY <1>2 DEF Clients, ClientConnects, ClientAborts, Finished, vars, baseVars
  <2> QED BY <2>1, <2>2 DEF Next
<1>4. u = t /\ (Calls(t) \/ Start(t) \/ Stop(t))
  BY <1>2, <1>3, StepsByKind, ServerFrame DEF SingleOwner
<1>5. ~Calls(t) /\ ~Start(t)
  BY DEF Calls, CreateServer, CreateAndStart, CallStart, CallStop, CallDestroy, CallDelete,
         CanCall, Start, StartTest, StartRun, StartBig, Spawn, SpawnTerminates, SpawnFails,
         StartWait, Goto
<1>6. ~DestroyCall(t, AfterDestroy(t)) /\ ~Free(t) /\ ~StopRead(t) /\ ~ReapThrows(t)
  BY <1>1 DEF DestroyCall, DestroyTest, CloseAll, Free, StopRead, ReapThrows, Goto, TypeOK
<1>7. ~StopCall(t, "reap")
  BY <1>1 DEF StopCall, StopRun, StopBig, StopTid, StopSelf, StopSend, StopWait, Goto, TypeOK
<1>8. CASE StopTest(t)
  <2>1. pc[t] = "stop" /\ ~flags["shouldRun"] /\ server_thread' = server_thread
    BY <1>1, <1>8 DEF StopTest, Goto, TypeOK, asyncVars
  <2> QED BY <1>1, <2>1 DEF OwnerInv, OwnerCalm, Owned
<1>9. CASE Join(t) \/ Detach(t)
  BY <1>9 DEF Join, Detach, Owned
<1> QED
  BY <1>4, <1>5, <1>6, <1>7, <1>8, <1>9 DEF Stop

(* When a StopServer call returns, no server thread is left.               *)
THEOREM StopWaits ==
  ASSUME SingleOwner
  PROVE  Spec => StopReturnsStopped
<1>1. TypeOK /\ SingleOwnerInv /\ (TypeOK /\ SingleOwnerInv)' /\ [Next]_vars
      => [\A t \in Callers :
            pc[t] \in StopLabels \cup {"reap"} /\ pc'[t] \in {"idle", "destroy"}
              => \A w \in Workers : ~Alive(w)']_vars
  <2> SUFFICES ASSUME TypeOK, SingleOwnerInv, SingleOwnerInv', [Next]_vars,
                      NEW t \in Callers,
                      pc[t] \in StopLabels \cup {"reap"}, pc'[t] \in {"idle", "destroy"},
                      NEW w \in Workers
               PROVE  ~Alive(w)'
    OBVIOUS
  <2>1. ~Owned'
    BY StopEndsUnowned
  <2> QED BY <2>1, AsyncAssumption, BaseAssumption DEF SingleOwnerInv, ServerInv, Owned, Alive
<1> QED BY <1>1, OwnerInvariant, PTL DEF Spec, StopReturnsStopped
-----------------------------------------------------------------------------
(* The server implements ServerContract.                                   *)

OwnerWaiting == {"stopBig", "stopTid", "stopSend", "stopWait", "reap"}

(* The mapped variables, by the positions of the owner and of the server   *)
(* thread, before and after a step.                                        *)
LEMMA OwnerBar ==
  ASSUME SingleOwner, SingleOwnerInv, SingleOwnerInv', NEW t \in Callers
  PROVE  /\ waitingBar <=> pc[t] \in OwnerWaiting
         /\ waitingBar' <=> pc'[t] \in OwnerWaiting
BY DEF SingleOwner, SingleOwnerInv, OwnerInv, waitingBar, OwnerWaiting, OwnerCalm,
       OwnerStarting, OwnerHolding, OwnerStopping, OwnerOver

(* With one server thread alive its own position gives the values of the   *)
(* contract's variables.                                                   *)
LEMMA ServerBars ==
  ASSUME SingleOwnerInv, SingleOwnerInv', NEW w \in Workers,
         server_thread = w, server_thread' = w
  PROVE  /\ admittedBar <=> pc[w] \in {"drain", "accept"} /\ "serv" \in ready[w]
         /\ admittedBar' <=> pc'[w] \in {"drain", "accept"} /\ "serv" \in ready'[w]
         /\ busyBar <=> pc[w] = "cb"
         /\ busyBar' <=> pc'[w] = "cb"
         /\ NoServerThread <=> pc[w] = "done"
         /\ NoServerThread' <=> pc'[w] = "done"
BY DEF SingleOwnerInv, ServerInv, admittedBar, busyBar, NoServerThread, Alive

(* Without a server thread the contract's server is down and idle.         *)
LEMMA NoBars ==
  ASSUME SingleOwnerInv, ~Owned
  PROVE  ~admittedBar /\ ~busyBar /\ NoServerThread
BY AsyncAssumption, BaseAssumption
DEF SingleOwnerInv, ServerInv, Owned, admittedBar, busyBar, NoServerThread, Alive

(* A step of the server thread is a step of the contract, or none.         *)
LEMMA ServerSimulates ==
  ASSUME SingleOwner, TypeOK, SingleOwnerInv, SingleOwnerInv', NEW w \in Workers,
         ServerThread(w)
  PROVE  [Contract!CNext]_(Contract!cvars)
<1> USE DEF Contract!cvars, phaseBar
<1>1. PICK t \in Callers : TRUE
  BY DEF SingleOwner
<1>2. /\ pc'[t] = pc[t] /\ flags'["shouldRun"] = flags["shouldRun"]
      /\ server_thread' = server_thread /\ w \in Threads
  BY ServerFrame, AsyncAssumption
<1>3. waitingBar' = waitingBar /\ waitingBar \in BOOLEAN
  BY <1>2, OwnerBar DEF waitingBar
<1>4. ServerInv(w) /\ ServerInv(w)' /\ OwnerInv(t)
  BY DEF SingleOwnerInv
<1>5. server_thread = w /\ pc[w] # "none"
  <2>1. pc[w] # "none"
    BY DEF ServerThread, New, Mark, Post, Extra, AcceptLoop, ClearTid, RunTid, RunMark,
           LoopTest, Enter, PollReady, Woke, Drain, Accept, CallbackReturns, Leave, BigTest,
           Unmark, Goto
  <2> QED BY <2>1, <1>4 DEF ServerInv
<1>6. /\ admittedBar <=> pc[w] \in {"drain", "accept"} /\ "serv" \in ready[w]
      /\ admittedBar' <=> pc'[w] \in {"drain", "accept"} /\ "serv" \in ready'[w]
      /\ busyBar <=> pc[w] = "cb"
      /\ busyBar' <=> pc'[w] = "cb"
      /\ NoServerThread <=> pc[w] = "done"
      /\ NoServerThread' <=> pc'[w] = "done"
  BY <1>2, <1>5, ServerBars
<1>7. admittedBar \in BOOLEAN /\ busyBar \in BOOLEAN /\ admittedBar' \in BOOLEAN
      /\ busyBar' \in BOOLEAN
  BY DEF admittedBar, busyBar
<1>8. CASE Woke(w)
  <2>1. pc[w] = "woke" /\ pc'[w] = AfterPoll(w) /\ ready' = ready
    BY <1>2, <1>8 DEF Woke, Goto, TypeOK
  <2>2. CASE AfterPoll(w) \in {"drain", "accept"} /\ "serv" \in ready[w]
    <3>1. flags["shouldRun"]
      BY <2>2 DEF AfterPoll
    <3>2. Contract!Admit
      BY <1>2, <1>3, <1>6, <1>7, <2>1, <2>2, <3>1 DEF Contract!Admit
    <3> QED BY <3>2 DEF Contract!CNext
  <2>3. CASE ~(AfterPoll(w) \in {"drain", "accept"} /\ "serv" \in ready[w])
    <3>1. AfterPoll(w) \in {"leave", "drain", "accept"}
      BY DEF AfterPoll
    <3> QED BY <1>2, <1>3, <1>6, <1>7, <2>1, <2>3, <3>1
  <2> QED BY <2>2, <2>3
<1>9. CASE Drain(w)
  <2>1. /\ pc[w] = "drain" /\ ready' = ready
        /\ pc'[w] = IF "serv" \in ready[w] THEN "accept" ELSE "leave"
    BY <1>2, <1>9 DEF Drain, Goto, TypeOK
  <2> QED BY <1>2, <1>3, <1>6, <1>7, <2>1
<1>10. CASE Accept(w)
  <2>1. /\ pc[w] = "accept" /\ ready' = ready /\ "serv" \in ready[w]
        /\ pc'[w] \in {"cb", "leave"}
    BY <1>2, <1>4, <1>10 DEF Accept, Goto, TypeOK, ServerInv
  <2>2. Contract!BeginCallback \/ Contract!Withdraw
    BY <1>2, <1>3, <1>6, <1>7, <2>1 DEF Contract!BeginCallback, Contract!Withdraw
  <2> QED BY <2>2 DEF Contract!CNext
<1>11. CASE CallbackReturns(w)
  <2>1. pc[w] = "cb" /\ pc'[w] = "leave"
    BY <1>2, <1>11 DEF CallbackReturns, Goto, TypeOK
  <2>2. Contract!EndCallback
    BY <1>2, <1>3, <1>6, <1>7, <2>1 DEF Contract!EndCallback
  <2> QED BY <2>2 DEF Contract!CNext
<1>12. CASE Extra(w)
  <2>1. pc[w] = "extra" /\ pc'[w] = "done"
    BY <1>2, <1>5, <1>12 DEF Extra, Goto, TypeOK
  <2>2. ~flags["shouldRunBig"]
    BY <1>4, <2>1 DEF ServerInv, LateLabels
  <2>3. ~flags["shouldRun"]
    BY <1>4, <1>5, <2>2, AsyncAssumption, BaseAssumption
    DEF OwnerInv, Owned, OwnerCalm, OwnerStarting, OwnerHolding, OwnerStopping, OwnerOver
  <2>4. Contract!GoDown
    BY <1>2, <1>3, <1>6, <1>7, <2>1, <2>3 DEF Contract!GoDown
  <2> QED BY <2>4 DEF Contract!CNext
<1>13. ASSUME \/ New(w) \/ Mark(w) \/ Post(w) \/ ClearTid(w, "extra") \/ RunTid(w)
              \/ RunMark(w) \/ LoopTest(w) \/ Enter(w) \/ PollReady(w) \/ Leave(w)
              \/ BigTest(w) \/ Unmark(w)
       PROVE  UNCHANGED Contract!cvars
  <2>1. pc[w] \notin {"drain", "accept", "cb", "done"}
        /\ pc'[w] \notin {"drain", "accept", "cb", "done"}
    BY <1>2, <1>13
    DEF New, Mark, Post, ClearTid, RunTid, RunMark, LoopTest, Enter, PollReady, Leave,
        BigTest, Unmark, Goto, TypeOK
  <2> QED BY <1>2, <1>3, <1>6, <1>7, <2>1
<1> QED
  BY <1>8, <1>9, <1>10, <1>11, <1>12, <1>13 DEF ServerThread, AcceptLoop

(* A step of the owner that neither creates nor joins the server thread    *)
(* and neither begins nor ends a stop request is no step of the contract.  *)
LEMMA OwnerStutters ==
  ASSUME SingleOwner, SingleOwnerInv, SingleOwnerInv', NEW t \in Callers,
         \A u \in Threads : u # t => pc'[u] = pc[u],
         ready' = ready, server_thread' = server_thread,
         Owned => flags'["shouldRun"] = flags["shouldRun"],
         pc[t] \in OwnerWaiting <=> pc'[t] \in OwnerWaiting
  PROVE  UNCHANGED Contract!cvars
<1>1. waitingBar' = waitingBar
  BY OwnerBar DEF waitingBar
<1>2. \A w \in Workers : pc'[w] = pc[w]
  BY AsyncAssumption
<1>3. /\ admittedBar' = admittedBar
      /\ busyBar' = busyBar
      /\ NoServerThread' = NoServerThread
  BY <1>2 DEF admittedBar, busyBar, NoServerThread, Alive
<1>4. ~Owned => NoServerThread
  BY NotOwnedNotAlive
<1>5. phaseBar' = phaseBar
  BY <1>3, <1>4 DEF phaseBar
<1> QED BY <1>1, <1>3, <1>5 DEF Contract!cvars

(* The creation of the server thread takes the contract up, ...            *)
LEMMA SpawnGoesUp ==
  ASSUME SingleOwner, TypeOK, SingleOwnerInv, SingleOwnerInv', NEW t \in Callers, Spawn(t)
  PROVE  Contract!GoUp
<1>1. PICK w \in Workers : /\ server_thread' = w
                           /\ pc' = [pc EXCEPT ![t] = "startWait", ![w] = "new"]
  BY DEF Spawn
<1>2. t # w /\ t \in Threads /\ w \in Threads
  BY AsyncAssumption
<1>3. pc'[t] = "startWait" /\ pc'[w] = "new" /\ pc[t] = "spawn"
  BY <1>1, <1>2 DEF Spawn, TypeOK
<1>4. ~waitingBar /\ ~waitingBar'
  BY <1>3, OwnerBar DEF OwnerWaiting
<1>5. ~Owned /\ flags["shouldRun"] /\ flags' = flags
  BY <1>3 DEF SingleOwnerInv, OwnerInv, OwnerStarting, Spawn, objVars
<1>6. ~admittedBar /\ ~busyBar /\ NoServerThread
  BY <1>5, NoBars
<1>7. \A v \in Workers : pc'[v] \in {"new", "none"}
  BY <1>1, <1>3 DEF SingleOwnerInv, ServerInv
<1>8. ~admittedBar' /\ ~busyBar' /\ ~NoServerThread'
  BY <1>3, <1>7 DEF admittedBar, busyBar, NoServerThread, Alive
<1> QED
  BY <1>4, <1>5, <1>6, <1>8
  DEF Contract!GoUp, phaseBar, waitingBar, admittedBar, busyBar

(* ... clearing shouldRun is the request to stop, ...                      *)
LEMMA StopRunRequests ==
  ASSUME SingleOwner, TypeOK, SingleOwnerInv, SingleOwnerInv', NEW t \in Callers, StopRun(t),
         server_thread' = server_thread
  PROVE  Contract!RequestStop
<1>1. /\ t \in Threads /\ pc[t] = "stopRun" /\ pc'[t] = "stopBig" /\ ready' = ready
      /\ \A w \in Workers : pc'[w] = pc[w]
  BY AsyncAssumption DEF StopRun, Goto, TypeOK
<1>2. ~waitingBar /\ waitingBar'
  BY <1>1, OwnerBar DEF OwnerWaiting
<1>3. flags["shouldRun"] /\ ~flags'["shouldRun"]
  BY <1>1 DEF SingleOwnerInv, OwnerInv, OwnerHolding, OwnerStopping
<1>4. /\ admittedBar' = admittedBar
      /\ busyBar' = busyBar
      /\ NoServerThread' = NoServerThread
  BY <1>1 DEF admittedBar, busyBar, NoServerThread, Alive
<1> QED BY <1>2, <1>3, <1>4 DEF Contract!RequestStop, phaseBar, waitingBar

(* ... and the join answers it.                                            *)
LEMMA JoinAnswers ==
  ASSUME SingleOwner, TypeOK, SingleOwnerInv, SingleOwnerInv', NEW t \in Callers, Join(t)
  PROVE  Contract!AnswerStop
<1>1. PICK w \in Workers : /\ w = server_thread
                           /\ pc[w] = "done"
                           /\ pc' = [pc EXCEPT ![t] = AfterStop(t), ![w] = "none"]
  BY DEF Join
<1>2. t # w /\ t \in Threads /\ w \in Threads /\ pc[t] = "reap" /\ ready' = ready
  BY AsyncAssumption DEF Join
<1>3. pc'[t] \in {"destroy", "idle"}
  BY <1>1, <1>2 DEF AfterStop, SingleOwnerInv, OwnerInv, TypeOK, BaseTypeOK, ReturnLabels
<1>4. waitingBar /\ ~waitingBar'
  BY <1>2, <1>3, OwnerBar DEF OwnerWaiting
<1>5. \A v \in Workers : pc[v] \in {"none", "done"} /\ pc'[v] \in {"none", "done"}
  BY <1>1, <1>2, AsyncAssumption DEF SingleOwnerInv, ServerInv, TypeOK
<1>6. /\ ~admittedBar /\ ~busyBar /\ NoServerThread
      /\ ~admittedBar' /\ ~busyBar' /\ NoServerThread'
  BY <1>5 DEF admittedBar, busyBar, NoServerThread, Alive
<1> QED
  BY <1>4, <1>6 DEF Contract!AnswerStop, phaseBar, waitingBar, admittedBar, busyBar

(* A step of the owner is a step of the contract, or none.                 *)
LEMMA OwnerSimulates ==
  ASSUME SingleOwner, TypeOK, SingleOwnerInv, SingleOwnerInv', NEW t \in Callers,
         Calls(t) \/ Start(t) \/ Stop(t)
  PROVE  [Contract!CNext]_(Contract!cvars)
<1> USE DEF OwnerWaiting
<1>1. t \in Threads /\ OwnerInv(t) /\ ret[t] \in {"idle", "dtor"}
  BY AsyncAssumption DEF SingleOwnerInv, OwnerInv, TypeOK, BaseTypeOK, ReturnLabels
<1>2. CASE Calls(t)
  <2>1. /\ pc[t] = "idle" /\ ready' = ready /\ server_thread' = server_thread
        /\ \A u \in Threads : u # t => pc'[u] = pc[u]
        /\ pc'[t] \in {"idle", "start", "stop", "destroy"}
    BY <1>1, <1>2
    DEF Calls, CreateServer, CreateAndStart, CallStart, CallStop, CallDestroy, CallDelete,
        CanCall, Goto, asyncVars, TypeOK
  <2>2. flags'["shouldRun"] = flags["shouldRun"]
    BY <1>2
    DEF Calls, CreateServer, CreateAndStart, CallStart, CallStop, CallDestroy, CallDelete,
        CreateSucceeds, CreateFails, CreateRawFails, CreateStopperFails, objVars, TypeOK,
        BaseTypeOK, Word, FlagNames
  <2> QED BY <2>1, <2>2, OwnerStutters
<1>3. CASE Start(t)
  <2>1. CASE Spawn(t)
    BY <2>1, SpawnGoesUp DEF Contract!CNext
  <2>2. ~SpawnTerminates(t) /\ ~SpawnFails(t)
    BY <1>1
    DEF SpawnTerminates, SpawnFails, Goto, SingleOwner, OwnerInv, OwnerStarting, Owned
  <2>3. CASE StartTest(t) \/ StartWait(t) \/ StartRun(t) \/ StartBig(t)
    <3>1. /\ ready' = ready /\ server_thread' = server_thread
          /\ \A u \in Threads : u # t => pc'[u] = pc[u]
          /\ pc[t] \notin OwnerWaiting /\ pc'[t] \notin OwnerWaiting
      BY <1>1, <2>3
      DEF StartTest, StartRun, StartBig, StartWait, Goto, asyncVars, TypeOK
    <3>2. Owned => flags'["shouldRun"] = flags["shouldRun"]
      BY <1>1, <2>3
      DEF StartTest, StartRun, StartBig, StartWait, Goto, OwnerInv, OwnerStarting, objVars
    <3> QED BY <3>1, <3>2, OwnerStutters
  <2> QED BY <1>3, <2>1, <2>2, <2>3 DEF Start
<1>4. CASE Stop(t)
  <2>1. CASE Join(t)
    BY <2>1, JoinAnswers DEF Contract!CNext
  <2>2. CASE StopRun(t) /\ UNCHANGED asyncVars
    <3>1. server_thread' = server_thread
      BY <2>2 DEF asyncVars
    <3> QED BY <2>2, <3>1, StopRunRequests DEF Contract!CNext
  <2>3. ~Detach(t) /\ ~ReapThrows(t) /\ ~StopSelf(t, "reap")
    BY <1>1 DEF Detach, ReapThrows, StopSelf, Joins, Goto, OwnerInv, OwnerCalm, OwnerStarting,
                OwnerHolding, OwnerStopping, OwnerOver, Owned
  <2>4. CASE StopTest(t) \/ StopRead(t) \/ Free(t)
    <3>1. /\ ready' = ready /\ server_thread' = server_thread /\ flags' = flags
          /\ \A u \in Threads : u # t => pc'[u] = pc[u]
          /\ pc[t] \notin OwnerWaiting /\ pc'[t] \notin OwnerWaiting
      BY <1>1, <2>4
      DEF StopTest, StopRead, Free, AfterStop, Goto, asyncVars, objVars, TypeOK
    <3> QED BY <3>1, OwnerStutters
  <2>5. CASE (StopBig(t) \/ StopTid(t, "reap") \/ StopSend(t) \/ StopWait(t, "reap"))
             /\ UNCHANGED asyncVars
    <3>1. ~StopsItself(t)
      BY DEF StopsItself, SingleOwnerInv
    <3>2. /\ ready' = ready /\ server_thread' = server_thread
          /\ \A u \in Threads : u # t => pc'[u] = pc[u]
          /\ pc[t] \in OwnerWaiting /\ pc'[t] \in OwnerWaiting
      BY <1>1, <2>5, <3>1
      DEF StopBig, StopTid, StopSend, StopWait, Goto, asyncVars, TypeOK
    <3>3. flags'["shouldRun"] = flags["shouldRun"]
      BY <1>1, <2>5, StoreOne
      DEF StopBig, StopTid, StopSend, StopWait, objVars, FlagNames
    <3> QED BY <3>2, <3>3, OwnerStutters
  <2>6. CASE DestroyCall(t, AfterDestroy(t)) /\ UNCHANGED asyncVars
    <3>1. /\ ready' = ready /\ server_thread' = server_thread
          /\ \A u \in Threads : u # t => pc'[u] = pc[u]
          /\ pc[t] \notin OwnerWaiting /\ pc'[t] \notin OwnerWaiting
      BY <1>1, <2>6
      DEF DestroyCall, DestroyTest, CloseAll, AfterDestroy, Goto, asyncVars, TypeOK
    <3>2. Owned => flags'["shouldRun"] = flags["shouldRun"]
      BY <1>1, <2>6
      DEF DestroyCall, DestroyTest, CloseAll, Goto, OwnerInv, OwnerOver, objVars
    <3> QED BY <3>1, <3>2, OwnerStutters
  <2> QED
    BY <1>4, <2>1, <2>2, <2>3, <2>4, <2>5, <2>6 DEF Stop, StopCall
<1> QED BY <1>2, <1>3, <1>4

(* The accept loop and the two calls together never serve a connection     *)
(* after the stop was answered, never serve two at once, and never answer  *)
(* a stop request before the server thread has ended: every step of the    *)
(* server is a step of ServerContract, or none.                            *)
THEOREM KeepsContract ==
  ASSUME SingleOwner
  PROVE  Spec => ImplementsContract
<1>1. Init => Contract!CInit
  <2> SUFFICES ASSUME Init PROVE Contract!CInit
    OBVIOUS
  <2>1. \A t \in Threads : pc[t] \in {"none", "idle"}
    BY DEF Init
  <2>2. \A w \in Workers : pc[w] = "none"
    BY AsyncAssumption DEF Init
  <2> QED BY <2>1, <2>2, AsyncAssumption
       DEF Contract!CInit, phaseBar, admittedBar, busyBar, waitingBar, NoServerThread, Alive
<1>2. TypeOK /\ SingleOwnerInv /\ (TypeOK /\ SingleOwnerInv)' /\ [Next]_vars
      => [Contract!CNext]_(Contract!cvars)
  <2> SUFFICES ASSUME TypeOK, SingleOwnerInv, SingleOwnerInv', [Next]_vars
               PROVE  [Contract!CNext]_(Contract!cvars)
    OBVIOUS
  <2>1. CASE pc' = pc /\ ready' = ready /\ flags' = flags
    BY <2>1 DEF Contract!cvars, phaseBar, admittedBar, busyBar, waitingBar, NoServerThread,
                Alive
  <2>2. ASSUME NEW w \in Workers, PollInterrupted(w), UNCHANGED asyncVars
        PROVE  UNCHANGED Contract!cvars
    <3>1. /\ w \in Threads /\ pc[w] = "poll" /\ pc'[w] = "woke"
          /\ server_thread' = server_thread /\ flags' = flags
          /\ \A t \in Callers : pc'[t] = pc[t]
      BY <2>2, AsyncAssumption DEF PollInterrupted, Goto, TypeOK, asyncVars, objVars
    <3>2. server_thread = w
      BY <3>1 DEF SingleOwnerInv, ServerInv
    <3>3. /\ admittedBar' = admittedBar
          /\ busyBar' = busyBar
          /\ NoServerThread' = NoServerThread
      BY <3>1, <3>2, ServerBars DEF admittedBar, busyBar, NoServerThread
    <3>4. waitingBar' = waitingBar
      BY <3>1, OwnerBar DEF SingleOwner, waitingBar
    <3> QED BY <3>1, <3>3, <3>4 DEF Contract!cvars, phaseBar
  <2>3. ASSUME NEW t \in Threads, Calls(t) \/ CallbackCalls(t) \/ Run(t)
        PROVE  [Contract!CNext]_(Contract!cvars)
    BY <2>3, StepsByKind, OwnerSimulates, ServerSimulates
  <2>4. CASE Clients \/ Finished \/ UNCHANGED vars
    BY <2>1, <2>4 DEF Clients, ClientConnects, ClientAborts, Finished, vars, baseVars, objVars
  <2> QED BY <2>2, <2>3, <2>4 DEF Next
<1> QED BY <1>1, <1>2, OwnerInvariant, PTL DEF Spec, ImplementsContract, Contract!CSpec
=============================================================================
