-------------------------- MODULE StopperDataProofs --------------------------
(***************************************************************************)
(* Theorems about StopperData, for any threads, ports and counts: one      *)
(* application thread makes the calls of the server, any thread may call   *)
(* GetStopperData, and the application takes the care that Cares names.    *)
(***************************************************************************)
EXTENDS StopperData, SequenceTheorems, TLAPS

(* A thread of the application that calls more than GetStopperData.        *)
Owner(t) == Api[t] # {}

(* What the application takes care of ...                                  *)
Careful ==
  /\ \A t, u \in Threads : Owner(t) /\ Owner(u) => t = u
  /\ Care = Cares

(* ... and that ConnectV4 neither is ended by a signal nor fails to bind.  *)
NoFaults == ConnectFaults = {}

(* All that GetStopperData has but the histories and who is inside.        *)
coreVars == <<got, clbk, callVars, pairVars>>

-----------------------------------------------------------------------------
(* The inductive invariant.                                                *)

InLoop == LoopLabels \cup {"big"} \cup DispatchLabels
BeforeRun == {"get", "getSave", "getRun"}
AfterLoop == {"getTid", "getJoin"}
(* The caller has saved the flag word and not yet restored it.             *)
SavedLabels == {"getRun", "getClbk", "getWait"} \cup InLoop

(* No connection of the temporary thread is in the queue or in a callback. *)
NoOwn ==
  /\ \A i \in 1..Len(queue) : queue[i] \notin Ports
  /\ \A t \in Threads : got[t] \notin Ports

(* At most one is, the one that the temporary thread waits for.            *)
OneOwn ==
  /\ \A i \in 1..Len(queue) : queue[i] \in Ports =>
       /\ queue[i] = clientAddr
       /\ \A j \in 1..Len(queue) : queue[j] \in Ports => i = j
       /\ \A t \in Threads : got[t] \notin Ports
  /\ \A t \in Threads : got[t] \in Ports =>
       /\ got[t] = clientAddr
       /\ \A u \in Threads : got[u] \in Ports => t = u

(* What the temporary thread and the callback have stored of each          *)
(* connection.                                                             *)
LinkInv ==
  /\ OneOwn
  /\ tmp # "wait" \/ permits # 0 => NoOwn
  /\ tmp \in {"none", "connect", "done"} =>
       permits = 0 /\ pols = stps
  /\ tmp \in {"none", "connect"} => clientAddr = NoAddr
  /\ tmp = "none" => pols = <<>>
  /\ tmp \in {"connect", "wait", "store"} => Len(stps) < Wanted
  /\ tmp \in {"wait", "store"} => clientAddr \in Ports
  /\ tmp = "wait" => permits \in {0, 1} /\ (permits = 0 => pols = stps)
  /\ tmp = "store" => permits = 0
  /\ tmp = "store" \/ permits # 0 => pols = Append(stps, clientAddr)
  /\ tmp = "done" => Len(pols) = Wanted

(* Where the caller of GetStopperData is tells how far the call has come.  *)
CallInv ==
  /\ caller = NoTid => tmp = "none" /\ clbk = "app" /\ fin = "none" /\ from = "idle"
  /\ fin = "posted" => clbk = "app" /\ Len(pols) = Wanted
  /\ caller # NoTid =>
       /\ pc[caller] \in GetLabels \cup InLoop
       /\ from # "idle" => Owner(caller)
       /\ ~flags["hasError"]
       /\ pc[caller] # "get" => flags["isCreated"]
       /\ pc[caller] \in BeforeRun <=> tmp = "none"
       /\ pc[caller] \in BeforeRun \cup {"getClbk"} => clbk = "app"
       /\ pc[caller] = "getClbk" =>
            tmp \in {"connect", "wait"} /\ permits = 0 /\ pols = <<>> /\ flags["shouldRun"]
       /\ fin # "none" => pc[caller] \in GetLabels
       /\ pc[caller] \in InLoop \cup {"getWait"} =>
            IF clbk = "extra" THEN flags["shouldRun"] ELSE Len(pols) = Wanted
       /\ pc[caller] \in {"big"} \cup AfterLoop => clbk = "app" /\ Len(pols) = Wanted
       /\ pc[caller] \in SavedLabels => saved.word["isCreated"] /\ ~saved.word["hasError"]

(* Where every thread is, and what it needs there.                         *)
PlaceInv(t) ==
  /\ pc[t] \notin {"createAndStart", "startRunOnly"}
  /\ ~Owner(t) /\ t # caller => pc[t] = "idle"
  /\ pc[t] \in GetLabels => t = caller
  /\ caller \notin {t, NoTid} /\ pc[t] # "idle" =>
       /\ pc[t] \in InLoop
       /\ flags["shouldRunBig"]
       /\ pc[caller] \in SavedLabels => saved.word["shouldRunBig"]
  /\ pc[t] = "call" <=> got[t] # NoAddr
  /\ pc[t] = "finish" =>
       /\ clbk = "extra" /\ Len(pols) = Wanted
       /\ \A u \in Threads : pc[u] = "finish" => t = u
  /\ pc[t] = "startRun" => flags["isCreated"]
  /\ pc[t] \in SocketLabels \cup {"enter"} => "serv" \in open
  /\ pc[t] \in SocketLabels \ {"poll"} => ready[t] \subseteq open

(* A server that may serve has its listener.                               *)
ListenInv ==
  /\ flags["shouldRun"] /\ ~flags["hasError"] => flags["isCreated"]
  /\ flags["isCreated"] /\ ~flags["hasError"] => "serv" \in open

(* CreateServer gets the two sockets of the server's own pair.             *)
CreateInv ==
  from = "create" =>
    /\ pols # <<>> => "pol" \in open /\ pol \in {0, 1} /\ (clbk = "extra" => pol = 0)
    /\ stps # <<>> => "stp" \in open

(* A thread inside the wrapper is in the application's callback; it has    *)
(* left before the thread that serves tells the caller so.                 *)
InsideInv ==
  /\ \A t \in inside : t \in Threads /\ pc[t] = "cb"
  /\ caller = NoTid \/ fin = "posted" => inside = {}
  /\ mishaps \subseteq Faults \cup {"strayed"}

(* Everything but the types.                                               *)
SdFacts ==
  /\ LinkInv /\ CallInv /\ ListenInv /\ CreateInv
  /\ \A t \in Threads : PlaceInv(t)

SdInv == GetTypeOK /\ SdFacts

-----------------------------------------------------------------------------
(* Constants and operators.                                                *)

SdLabels == SyncLabels \cup GetLabels \cup DispatchLabels

(* Addresses of connections differ, and so do threads and no thread.       *)
LEMMA Distinct ==
  /\ NoTid \notin Threads /\ NoAddr \notin Ports /\ Client \notin Ports
  /\ NoAddr # Client /\ Count >= 1 /\ Count \in Nat /\ Wanted >= 1 /\ Wanted \in Nat
  /\ Wanted <= Count /\ PolCap >= 1 /\ PolCap \in Nat /\ MaxClients \in Nat
BY BaseAssumption, StopperDataAssumption DEF NoAddr, Client, Wanted

(* A flag store changes one flag.                                          *)
LEMMA StoresFlag ==
  ASSUME GetTypeOK, NEW t \in Threads, NEW f \in FlagNames, NEW v \in BOOLEAN,
         SetFlag(t, f, v)
  PROVE  /\ flags' \in Word /\ reg' \in [Threads -> Word \cup {NoWord}]
         /\ flags'[f] = v /\ \A g \in FlagNames \ {f} : flags'[g] = flags[g]
BY StopperDataAssumption DEF SetFlag, GetTypeOK, BaseTypeOK, Word

(* A jump moves one thread.                                                *)
LEMMA Jumps ==
  ASSUME GetTypeOK, NEW t \in Threads, NEW a, NEW b \in SdLabels, Goto(t, a, b)
  PROVE  /\ pc' \in [Threads -> SdLabels] /\ pc[t] = a /\ pc'[t] = b
         /\ \A u \in Threads \ {t} : pc'[u] = pc[u]
BY DEF Goto, GetTypeOK, SdLabels

(* A step of tcp_server_sync leaves what GetStopperData has.               *)
LEMMA KeptType ==
  ASSUME GetTypeOK, BaseTypeOK', freed' \in BOOLEAN, pc' \in [Threads -> SdLabels],
         KeepsQueue, backlog' = backlog \/ backlog' = 0, UNCHANGED coreVars
  PROVE  GetTypeOK' /\ (queue' = queue \/ queue' = <<>>)
<1>1. /\ queue' \in Seq(Ports \cup {Client}) /\ Len(queue') = backlog'
      /\ (queue' = queue \/ queue' = <<>>)
  <2>1. CASE backlog' = 0
    BY <2>1, EmptySeq DEF KeepsQueue
  <2>2. CASE backlog' # 0
    BY <2>2 DEF KeepsQueue, GetTypeOK
  <2> QED BY <2>1, <2>2
<1> QED BY <1>1 DEF GetTypeOK, SdLabels, coreVars, callVars, pairVars

(* What GetStopperData has stored stays true while nobody changes it.      *)
LEMMA LinkKept ==
  ASSUME LinkInv, UNCHANGED <<got, from, permits, tmp, clientAddr, pols, stps>>,
         queue' = queue \/ queue' = <<>>
  PROVE  LinkInv'
<1>1. CASE queue' = queue
  BY <1>1 DEF LinkInv, OneOwn, NoOwn, Wanted
<1>2. CASE queue' = <<>>
  <2>1. \A i \in 1..Len(queue') : FALSE
    BY <1>2
  <2>2. OneOwn' /\ (NoOwn => NoOwn')
    BY <2>1 DEF OneOwn, LinkInv, NoOwn
  <2> QED BY <2>2 DEF LinkInv, Wanted
<1> QED BY <1>1, <1>2

-----------------------------------------------------------------------------
(* Steps of the accept loop, in a GetStopperData call and outside.         *)

(* A step of the loop that closes nothing and stores no flag but           *)
(* inAcceptStack keeps everything, ...                                     *)
LEMMA LoopJump ==
  ASSUME SdInv, NEW t \in Threads, NEW a \in InLoop \ DispatchLabels,
         NEW b \in (InLoop \ DispatchLabels) \cup {"unmark"}, Goto(t, a, b),
         \A f \in FlagNames \ {"inAcceptStack"} : flags'[f] = flags[f],
         UNCHANGED <<open, queue, coreVars>>,
         pol' = pol \/ (pol' = pol - 1 /\ pol > 0),
         \A u \in Threads \ {t} : ready'[u] = ready[u],
         caller # NoTid => b # "unmark",
         t = caller => a # "big",
         t = caller /\ b = "big" => ~MayServe,
         b \in SocketLabels \cup {"enter"} => "serv" \in open,
         b \in SocketLabels \ {"poll"} => ready'[t] \subseteq open
  PROVE  SdFacts'
<1> USE DEF SdInv, SdFacts, coreVars, callVars, pairVars
<1>1. /\ pc[t] = a /\ pc'[t] = b /\ \A u \in Threads \ {t} : pc'[u] = pc[u]
  BY Jumps DEF SdLabels, SyncLabels, BaseLabels, RunLabels, InLoop, DispatchLabels
<1>2. \A f \in {"shouldRun", "shouldRunBig", "isCreated", "hasError"} : flags'[f] = flags[f]
  BY DEF FlagNames
<1>3. LinkInv'
  BY LinkKept
<1>4. ListenInv'
  BY <1>2 DEF ListenInv
<1>5. CreateInv'
  BY DEF CreateInv, GetTypeOK, BaseTypeOK
<1>6. a # "big" \/ t # caller
  OBVIOUS
<1>7. caller # NoTid => caller \in Threads
  BY DEF GetTypeOK
<1>8. CallInv'
  <2>1. CASE caller = NoTid
    BY <2>1, <1>2 DEF CallInv, Wanted
  <2>2. CASE caller # NoTid /\ t # caller
    BY <2>2, <1>1, <1>2, <1>7 DEF CallInv, Wanted
  <2>3. CASE t = caller
    <3>1. b \in InLoop /\ caller # NoTid
      BY <2>3, Distinct
    <3>2. b = "big" => clbk = "app" /\ Len(pols) = Wanted
      BY <2>3, <3>1, <1>1 DEF CallInv, MayServe, InLoop, LoopLabels, DispatchLabels, GetLabels,
         GetTypeOK
    <3> QED BY <2>3, <3>1, <3>2, <1>1, <1>2 DEF CallInv, Wanted, InLoop, LoopLabels,
               DispatchLabels, GetLabels, BeforeRun, AfterLoop, SavedLabels
  <2> QED BY <2>1, <2>2, <2>3
<1>9. ASSUME NEW u \in Threads PROVE PlaceInv(u)'
  <2>1. PlaceInv(u) /\ PlaceInv(t)
    OBVIOUS
  <2>2. a \in SavedLabels /\ (caller = t => b \in SavedLabels)
    BY <1>7, Distinct DEF SavedLabels
  <2>3. \A v \in Threads : pc'[v] = "finish" => pc[v] = "finish"
    BY <1>1 DEF InLoop, LoopLabels, DispatchLabels
  <2>4. pc[caller] \notin SavedLabels => pc'[caller] \notin SavedLabels \/ caller = NoTid
    BY <1>1, <1>7, <2>2
  <2>5. CASE u # t
    BY <2>1, <2>3, <2>4, <2>5, <1>1, <1>2, Distinct DEF PlaceInv, Wanted
  <2>6. CASE u = t
    BY <2>1, <2>3, <2>4, <2>6, <1>1, <1>2, Distinct DEF PlaceInv, Wanted, InLoop, LoopLabels,
       DispatchLabels, GetLabels, SocketLabels
  <2> QED BY <2>5, <2>6
<1> QED BY <1>3, <1>4, <1>5, <1>8, <1>9

(* ... and so does, while nobody is in GetStopperData, any jump of the     *)
(* owner that leaves the listener where it is needed.                      *)
LEMMA OwnerAlone ==
  ASSUME SdInv, caller = NoTid, NEW t \in Threads, pc[t] # "idle" \/ Owner(t), Careful
  PROVE  /\ Owner(t)
         /\ \A u \in Threads \ {t} : pc[u] = "idle" /\ ~Owner(u) /\ got[u] = NoAddr
BY Distinct DEF SdInv, SdFacts, PlaceInv, Careful

LEMMA OutsideJump ==
  ASSUME SdInv, Careful, caller = NoTid, NEW t \in Threads, Owner(t),
         NEW b \in SyncLabels \ {"createAndStart", "startRunOnly"},
         pc'[t] = b, \A u \in Threads \ {t} : pc'[u] = pc[u],
         pc[t] # "call", UNCHANGED coreVars, queue' = queue \/ queue' = <<>>,
         ListenInv',
         b = "startRun" => flags'["isCreated"],
         b \in SocketLabels \cup {"enter"} => "serv" \in open',
         b \in SocketLabels \ {"poll"} => ready'[t] \subseteq open'
  PROVE  SdFacts'
<1> USE DEF SdInv, SdFacts, coreVars, callVars, pairVars
<1>1. \A u \in Threads \ {t} : pc[u] = "idle" /\ ~Owner(u) /\ got[u] = NoAddr
  BY OwnerAlone
<1>2. LinkInv'
  BY LinkKept
<1>3. CallInv'
  BY Distinct DEF CallInv, Wanted
<1>4. CreateInv'
  BY DEF CallInv, CreateInv
<1>5. /\ b \notin GetLabels \cup DispatchLabels
  BY DEF SyncLabels, BaseLabels, RunLabels, LoopLabels, StopLabels, DestroyLabels,
         StartLabels, GetLabels, DispatchLabels
<1>6. ASSUME NEW u \in Threads PROVE PlaceInv(u)'
  <2>1. CASE u # t
    BY <2>1, <1>1, Distinct DEF PlaceInv, GetLabels, SocketLabels, Owner
  <2>2. CASE u = t
    BY <2>2, <1>5 DEF PlaceInv, DispatchLabels, Owner
  <2> QED BY <2>1, <2>2
<1> QED BY <1>2, <1>3, <1>4, <1>6

(* Only the accept loop runs during a GetStopperData call.                 *)
LEMMA Outside ==
  ASSUME SdInv, NEW t \in Threads, pc[t] \notin {"idle"} \cup InLoop \cup GetLabels
  PROVE  caller = NoTid
BY DEF SdInv, SdFacts, CallInv, PlaceInv

(* The types after a step of tcp_server_sync, by what it changes.          *)
LEMMA SyncType ==
  ASSUME GetTypeOK, NEW t \in Threads, NEW a, NEW b \in SdLabels, Goto(t, a, b),
         flags' \in Word, reg' \in [Threads -> Word \cup {NoWord}],
         serverTid' \in Threads \cup {NoTid}, open' \subseteq Sockets,
         backlog' = backlog \/ backlog' = 0, pol' \in 0..PolCap,
         ready' \in [Threads -> SUBSET Sockets], ret' \in [Threads -> ReturnLabels],
         freed' \in BOOLEAN, KeepsQueue, UNCHANGED coreVars
  PROVE  GetTypeOK' /\ (queue' = queue \/ queue' = <<>>)
<1>1. backlog' \in 0..MaxClients
  BY Distinct DEF GetTypeOK, BaseTypeOK
<1>2. BaseTypeOK'
  BY <1>1 DEF BaseTypeOK
<1>3. pc' \in [Threads -> SdLabels]
  BY Jumps
<1> QED BY <1>2, <1>3, KeptType

(* A step takes one stop message at most.                                  *)
PolFalls == pol' \in 0..PolCap /\ (pol' = pol \/ (pol' = pol - 1 /\ pol > 0))

LEMMA PolStays ==
  ASSUME GetTypeOK, pol' = pol
  PROVE  PolFalls
BY DEF PolFalls, GetTypeOK, BaseTypeOK

LEMMA PolDrained ==
  ASSUME GetTypeOK, DrainPol
  PROVE  PolFalls
<1>1. PolCap \in Nat /\ pol \in Nat /\ pol <= PolCap
  BY BaseAssumption DEF GetTypeOK, BaseTypeOK
<1>2. pol' = pol \/ (pol' = pol - 1 /\ pol > 0)
  <2>1. CASE pol > 0 /\ pol' = pol - 1
    BY <2>1
  <2>2. CASE pol' = pol
    BY <2>2
  <2> QED BY <2>1, <2>2 DEF DrainPol
<1>3. pol' \in 0..PolCap
  BY <1>1, <1>2
<1> QED BY <1>2, <1>3 DEF PolFalls

(* What such a step may do.                                                *)
InnerStep(t, a, b) ==
  /\ a \in InLoop \ DispatchLabels /\ b \in (InLoop \ DispatchLabels) \cup {"unmark"}
  /\ Goto(t, a, b)
  /\ flags' \in Word /\ \A f \in FlagNames \ {"inAcceptStack"} : flags'[f] = flags[f]
  /\ reg' \in [Threads -> Word \cup {NoWord}]
  /\ PolFalls
  /\ ready' \in [Threads -> SUBSET Sockets]
  /\ \A u \in Threads \ {t} : ready'[u] = ready[u]
  /\ UNCHANGED <<serverTid, open, backlog, ret>>
  /\ caller # NoTid => b # "unmark"
  /\ t = caller => a # "big" /\ (b = "big" => ~MayServe)
  /\ b \in SocketLabels \cup {"enter"} => "serv" \in open
  /\ b \in SocketLabels \ {"poll"} => ready'[t] \subseteq open

LEMMA LoopStep ==
  ASSUME SdInv, NEW t \in Threads, NEW a, NEW b, InnerStep(t, a, b),
         UNCHANGED freed, UNCHANGED coreVars, KeepsQueue
  PROVE  SdInv'
<1> USE DEF SdInv, InnerStep, PolFalls
<1>1. /\ serverTid' \in Threads \cup {NoTid} /\ open' \subseteq Sockets
      /\ ret' \in [Threads -> ReturnLabels] /\ freed' \in BOOLEAN
  BY DEF GetTypeOK, BaseTypeOK
<1>2. b \in SdLabels
  BY DEF SdLabels, SyncLabels, BaseLabels, RunLabels, InLoop, DispatchLabels
<1>3. GetTypeOK'
  BY <1>1, <1>2, SyncType
<1>4. queue' = queue
  <2>1. backlog = 0 => queue = <<>>
    BY EmptySeq DEF GetTypeOK
  <2> QED BY <2>1 DEF KeepsQueue
<1>5. SdFacts'
  BY <1>4, LoopJump
<1> QED BY <1>3, <1>5

(* A step of the owner while nobody is in GetStopperData.                  *)
OuterStep(t, a, b) ==
  /\ b \in SyncLabels \ {"createAndStart", "startRunOnly"} /\ a \notin DispatchLabels
  /\ Goto(t, a, b)
  /\ flags' \in Word /\ reg' \in [Threads -> Word \cup {NoWord}]
  /\ serverTid' \in Threads \cup {NoTid} /\ open' \subseteq Sockets
  /\ backlog' = backlog \/ backlog' = 0
  /\ pol' \in 0..PolCap
  /\ ready' \in [Threads -> SUBSET Sockets] /\ ret' \in [Threads -> ReturnLabels]
  /\ freed' \in BOOLEAN
  /\ ListenInv'
  /\ b = "startRun" => flags'["isCreated"]
  /\ b \notin SocketLabels \cup {"enter"}

LEMMA OuterKeeps ==
  ASSUME SdInv, Careful, caller = NoTid, NEW t \in Threads, Owner(t) \/ pc[t] # "idle",
         NEW a, NEW b, OuterStep(t, a, b), KeepsQueue, UNCHANGED coreVars
  PROVE  SdInv'
<1>1. GetTypeOK /\ Owner(t)
  BY OwnerAlone DEF SdInv
<1>2. b \in SdLabels
  BY DEF SdLabels, OuterStep
<1>3. GetTypeOK' /\ (queue' = queue \/ queue' = <<>>)
  BY <1>1, <1>2, SyncType DEF OuterStep
<1>4. pc'[t] = b /\ pc[t] = a /\ \A u \in Threads \ {t} : pc'[u] = pc[u]
  BY <1>1, <1>2, Jumps DEF OuterStep
<1>5. SdFacts'
  BY <1>1, <1>3, <1>4, OutsideJump DEF OuterStep, DispatchLabels
<1> QED BY <1>3, <1>5 DEF SdInv

(* Flags and sockets between which the listener is where it is needed.     *)
LEMMA ListenKept ==
  ASSUME ListenInv, UNCHANGED open,
         \A f \in {"isCreated", "hasError"} : flags'[f] = flags[f],
         flags'["shouldRun"] => flags["shouldRun"] \/ flags["isCreated"]
  PROVE  ListenInv'
BY DEF ListenInv

(* The steps of RunServer.                                                 *)
LEMMA LoopSteps ==
  ASSUME SdInv, Careful, NEW t \in Threads,
         AcceptLoop(t) \/ PollInterrupted(t), pc[t] # "accept", t = caller => pc[t] # "big",
         UNCHANGED freed, KeepsQueue, UNCHANGED coreVars
  PROVE  SdInv'
<1> USE DEF InLoop, LoopLabels, DispatchLabels, SocketLabels
<1>1. /\ flags \in Word /\ reg \in [Threads -> Word \cup {NoWord}]
      /\ serverTid \in Threads \cup {NoTid} /\ open \subseteq Sockets
      /\ (pol' = pol => PolFalls /\ pol' \in 0..PolCap) /\ (DrainPol => PolFalls)
      /\ ready \in [Threads -> SUBSET Sockets] /\ ret \in [Threads -> ReturnLabels]
      /\ freed \in BOOLEAN
  BY PolStays, PolDrained DEF SdInv, GetTypeOK, BaseTypeOK, PolFalls
<1>2. PlaceInv(t) /\ GetTypeOK /\ ListenInv
  BY DEF SdInv, SdFacts
<1>3. CASE LoopTest(t)
  <2>1. PICK b \in {"enter", "big"} : Goto(t, "loop", b) /\ b = IF MayServe THEN "enter" ELSE "big"
    BY <1>3 DEF LoopTest
  <2>2. MayServe => "serv" \in open
    BY <1>2 DEF ListenInv, MayServe
  <2>3. InnerStep(t, "loop", b)
    BY <1>1, <1>3, <2>1, <2>2 DEF InnerStep, LoopTest, objVars, netVars
  <2> QED BY <2>3, LoopStep
<1>4. CASE Enter(t)
  <2>1. /\ Goto(t, "enter", "poll") /\ SetFlag(t, "inAcceptStack", TRUE)
        /\ UNCHANGED <<serverTid, open, backlog, pol, ready, ret>>
    BY <1>4 DEF Enter, netVars
  <2>2. /\ flags' \in Word /\ reg' \in [Threads -> Word \cup {NoWord}]
        /\ \A f \in FlagNames \ {"inAcceptStack"} : flags'[f] = flags[f]
    BY <1>2, <2>1, StoresFlag DEF FlagNames
  <2>3. "serv" \in open
    BY <1>2, <2>1 DEF PlaceInv, Goto
  <2>4. InnerStep(t, "enter", "poll")
    BY <1>1, <2>1, <2>2, <2>3 DEF InnerStep
  <2> QED BY <2>4, LoopStep
<1>5. CASE PollReady(t) \/ PollInterrupted(t)
  <2>1. PICK r \in SUBSET open : /\ Goto(t, "poll", "woke") /\ ready' = [ready EXCEPT ![t] = r]
                                 /\ UNCHANGED <<flags, serverTid, reg, open, backlog, pol, ret>>
    BY <1>5 DEF PollReady, PollInterrupted, Readable, objVars, netVars
  <2>2. "serv" \in open
    BY <1>2, <2>1 DEF PlaceInv, Goto
  <2>3. ready' \in [Threads -> SUBSET Sockets] /\ ready'[t] = r
        /\ \A u \in Threads \ {t} : ready'[u] = ready[u]
    BY <1>1, <2>1
  <2>4. InnerStep(t, "poll", "woke")
    BY <1>1, <2>1, <2>2, <2>3 DEF InnerStep
  <2> QED BY <2>4, LoopStep
<1>6. CASE Woke(t)
  <2>1. PICK b \in {"leave", "drain", "accept"} : Goto(t, "woke", b)
    BY <1>6 DEF Woke, AfterPoll
  <2>2. "serv" \in open /\ ready[t] \subseteq open
    BY <1>2, <2>1 DEF PlaceInv, Goto
  <2>3. InnerStep(t, "woke", b)
    BY <1>1, <1>6, <2>1, <2>2 DEF InnerStep, Woke, objVars, netVars
  <2> QED BY <2>3, LoopStep
<1>7. CASE Drain(t)
  <2>1. PICK b \in {"leave", "accept"} : Goto(t, "drain", b)
    BY <1>7 DEF Drain
  <2>2. "serv" \in open /\ ready[t] \subseteq open
    BY <1>2, <2>1 DEF PlaceInv, Goto
  <2>3. PolFalls
    BY <1>1, <1>7 DEF Drain
  <2>4. InnerStep(t, "drain", b)
    BY <1>1, <1>7, <2>1, <2>2, <2>3 DEF InnerStep, Drain, objVars
  <2> QED BY <2>4, LoopStep
<1>8. CASE CallbackReturns(t)
  <2>1. InnerStep(t, "cb", "leave")
    BY <1>1, <1>8 DEF InnerStep, CallbackReturns, objVars, netVars
  <2> QED BY <2>1, LoopStep
<1>9. CASE Leave(t)
  <2>1. /\ Goto(t, "leave", "loop") /\ SetFlag(t, "inAcceptStack", FALSE)
        /\ UNCHANGED <<serverTid, open, backlog, pol, ret>>
        /\ ready' = [ready EXCEPT ![t] = {}]
    BY <1>9 DEF Leave, netVars
  <2>2. /\ flags' \in Word /\ reg' \in [Threads -> Word \cup {NoWord}]
        /\ \A f \in FlagNames \ {"inAcceptStack"} : flags'[f] = flags[f]
    BY <1>2, <2>1, StoresFlag DEF FlagNames
  <2>3. ready' \in [Threads -> SUBSET Sockets] /\ \A u \in Threads \ {t} : ready'[u] = ready[u]
    BY <1>1, <2>1
  <2>4. InnerStep(t, "leave", "loop")
    BY <1>1, <2>1, <2>2, <2>3 DEF InnerStep
  <2> QED BY <2>4, LoopStep
<1>10. CASE BigTest(t)
  <2>1. PICK b \in {"loop", "unmark"} :
          Goto(t, "big", b) /\ b = IF flags["shouldRunBig"] THEN "loop" ELSE "unmark"
    BY <1>10 DEF BigTest
  <2>2. caller # NoTid => b # "unmark"
    BY <1>2, <2>1 DEF PlaceInv, Goto
  <2>3. InnerStep(t, "big", b)
    BY <1>1, <1>10, <2>1, <2>2 DEF InnerStep, BigTest, Goto, objVars, netVars
  <2> QED BY <2>3, LoopStep
<1>11. CASE RunTid(t)
  <2>1. caller = NoTid /\ pc[t] = "runTid"
    BY <1>11, Outside DEF RunTid, Goto, GetLabels
  <2>2. OuterStep(t, "runTid", "runMark")
    BY <1>1, <1>2, <1>11, ListenKept DEF OuterStep, RunTid, objVars, netVars, SyncLabels,
       BaseLabels, RunLabels
  <2> QED BY <2>1, <2>2, OuterKeeps
<1>12. CASE RunMark(t)
  <2>1. caller = NoTid /\ pc[t] = "runMark"
    BY <1>12, Outside DEF RunMark, Goto, GetLabels
  <2>2. OuterStep(t, "runMark", "loop")
    BY <1>1, <1>2, <1>12, StoresFlag, ListenKept DEF OuterStep, RunMark, netVars, SyncLabels,
       BaseLabels, RunLabels, FlagNames
  <2> QED BY <2>1, <2>2, OuterKeeps
<1>13. CASE Unmark(t)
  <2>1. caller = NoTid /\ pc[t] = "unmark"
    BY <1>13, Outside DEF Unmark, Goto, GetLabels
  <2>2. OuterStep(t, "unmark", "clearTid")
    BY <1>1, <1>2, <1>13, StoresFlag, ListenKept DEF OuterStep, Unmark, netVars, SyncLabels,
       BaseLabels, RunLabels, FlagNames
  <2> QED BY <2>1, <2>2, OuterKeeps
<1>14. ~Accept(t)
  BY DEF Accept, Goto
<1> QED
  BY <1>3, <1>4, <1>5, <1>6, <1>7, <1>8, <1>9, <1>10, <1>11, <1>12, <1>13, <1>14
  DEF AcceptLoop

(* The steps of StartSyncServer.                                           *)
LEMMA StartSteps ==
  ASSUME SdInv, Careful, NEW t \in Threads, Start(t), KeepsQueue, UNCHANGED coreVars
  PROVE  SdInv'
<1> USE DEF StartLabels, SyncLabels, BaseLabels, RunLabels, StopLabels, DestroyLabels,
            LoopLabels, DispatchLabels, SocketLabels, FlagNames
<1>1. GetTypeOK /\ PlaceInv(t) /\ ListenInv
  BY DEF SdInv, SdFacts
<1>2. /\ flags \in Word /\ reg \in [Threads -> Word \cup {NoWord}]
      /\ serverTid \in Threads \cup {NoTid} /\ open \subseteq Sockets
      /\ pol \in 0..PolCap
      /\ ready \in [Threads -> SUBSET Sockets] /\ ret \in [Threads -> ReturnLabels]
      /\ freed \in BOOLEAN
  BY <1>1 DEF GetTypeOK, BaseTypeOK
<1>3. pc[t] \in {"start", "startRun", "startBig"}
  BY <1>1 DEF Start, StartTest, StartRun, StartBig, CreateAndStart, Goto, PlaceInv
<1>4. caller = NoTid
  BY <1>3, Outside DEF InLoop, GetLabels
<1>5. CASE StartTest(t)
  <2>1. PICK b \in {"startRun", "idle"} : Goto(t, "start", b) /\ (b = "startRun" => flags["isCreated"])
    BY <1>5 DEF StartTest, StartAllowed
  <2>2. OuterStep(t, "start", b)
    BY <1>1, <1>2, <1>5, <2>1, ListenKept DEF OuterStep, StartTest, objVars, netVars
  <2> QED BY <1>3, <1>4, <2>2, OuterKeeps
<1>6. CASE StartRun(t)
  <2>1. Goto(t, "startRun", "startBig") /\ flags["isCreated"]
    BY <1>1, <1>3, <1>6 DEF StartRun, Goto, PlaceInv
  <2>2. OuterStep(t, "startRun", "startBig")
    BY <1>1, <1>2, <1>6, <2>1, StoresFlag, ListenKept DEF OuterStep, StartRun, netVars
  <2> QED BY <1>3, <1>4, <2>2, OuterKeeps
<1>7. CASE StartBig(t)
  <2>1. OuterStep(t, "startBig", "runTid")
    BY <1>1, <1>2, <1>7, StoresFlag, ListenKept DEF OuterStep, StartBig, netVars
  <2> QED BY <1>3, <1>4, <2>1, OuterKeeps
<1> QED BY <1>3, <1>5, <1>6, <1>7 DEF Start, CreateAndStart, Goto

(* A stop message keeps the count of unread messages in its domain.        *)
LEMMA SendsInRange ==
  ASSUME GetTypeOK, SendStop
  PROVE  pol' \in 0..PolCap
<1>1. PolCap \in Nat /\ pol \in Nat /\ pol <= PolCap
  BY BaseAssumption DEF GetTypeOK, BaseTypeOK
<1>2. CASE pol < PolCap /\ pol' = pol + 1
  BY <1>1, <1>2
<1>3. CASE pol' = pol
  BY <1>1, <1>3
<1> QED BY <1>2, <1>3 DEF SendStop

(* The steps of StopServer, DestroyServer and the destructor.              *)
LEMMA StopSteps ==
  ASSUME SdInv, Careful, NEW t \in Threads, Stop(t), KeepsQueue, UNCHANGED coreVars
  PROVE  SdInv'
<1> USE DEF StartLabels, SyncLabels, BaseLabels, RunLabels, StopLabels, DestroyLabels,
            LoopLabels, DispatchLabels, SocketLabels, FlagNames
<1>1. GetTypeOK /\ PlaceInv(t) /\ ListenInv
  BY DEF SdInv, SdFacts
<1>2. /\ flags \in Word /\ reg \in [Threads -> Word \cup {NoWord}]
      /\ serverTid \in Threads \cup {NoTid} /\ open \subseteq Sockets
      /\ pol \in 0..PolCap
      /\ ready \in [Threads -> SUBSET Sockets] /\ ret \in [Threads -> ReturnLabels]
      /\ freed \in BOOLEAN
  BY <1>1 DEF GetTypeOK, BaseTypeOK
<1>3. /\ AfterStop(t) \in {"idle", "cb", "destroy"}
      /\ AfterDestroy(t) \in {"idle", "cb", "free"}
  BY <1>2 DEF AfterStop, AfterDestroy, ReturnLabels
<1>4. pc[t] \in StopLabels \cup DestroyLabels \cup {"free"}
  BY DEF Stop, StopTest, Free, StopCall, DestroyCall, StopRun, StopBig, StopTid, StopSelf,
         StopSend, StopWait, DestroyTest, CloseAll, Goto
<1>5. caller = NoTid
  BY <1>4, Outside DEF InLoop, GetLabels
<1>6. CASE StopTest(t)
  <2>1. PICK b \in {"stopRun", "idle", "cb", "destroy"} : Goto(t, "stop", b)
    BY <1>3, <1>6 DEF StopTest
  <2>2. OuterStep(t, "stop", b)
    BY <1>1, <1>2, <1>6, <2>1, ListenKept DEF OuterStep, StopTest, objVars, netVars
  <2> QED BY <1>4, <1>5, <2>2, OuterKeeps
<1>7. CASE Free(t)
  <2>1. OuterStep(t, "free", "gone")
    BY <1>1, <1>2, <1>7, ListenKept DEF OuterStep, Free, objVars, netVars
  <2> QED BY <1>4, <1>5, <2>1, OuterKeeps
<1>8. CASE StopRun(t) /\ UNCHANGED freed
  <2>1. OuterStep(t, "stopRun", "stopBig")
    BY <1>1, <1>2, <1>8, StoresFlag, ListenKept DEF OuterStep, StopRun, netVars
  <2> QED BY <1>4, <1>5, <2>1, OuterKeeps
<1>9. CASE StopBig(t) /\ UNCHANGED freed
  <2>1. OuterStep(t, "stopBig", "stopTid")
    BY <1>1, <1>2, <1>9, StoresFlag, ListenKept DEF OuterStep, StopBig, netVars
  <2> QED BY <1>4, <1>5, <2>1, OuterKeeps
<1>10. CASE StopTid(t, AfterStop(t)) /\ UNCHANGED freed
  <2>1. PICK b \in {"stopSelf", "stopSend", "idle", "cb", "destroy"} : Goto(t, "stopTid", b)
    BY <1>3, <1>10 DEF StopTid
  <2>2. OuterStep(t, "stopTid", b)
    BY <1>1, <1>2, <1>10, <2>1, ListenKept DEF OuterStep, StopTid, objVars, netVars
  <2> QED BY <1>4, <1>5, <2>2, OuterKeeps
<1>11. CASE StopSelf(t, AfterStop(t)) /\ UNCHANGED freed
  <2>1. OuterStep(t, "stopSelf", AfterStop(t))
    BY <1>1, <1>2, <1>3, <1>11, StoresFlag, ListenKept DEF OuterStep, StopSelf, netVars
  <2> QED BY <1>4, <1>5, <2>1, OuterKeeps
<1>12. CASE StopSend(t) /\ UNCHANGED freed
  <2>1. pol' \in 0..PolCap
    BY <1>1, <1>12, SendsInRange DEF StopSend
  <2>2. OuterStep(t, "stopSend", "stopWait")
    BY <1>1, <1>2, <1>12, <2>1, ListenKept DEF OuterStep, StopSend, objVars
  <2> QED BY <1>4, <1>5, <2>2, OuterKeeps
<1>13. CASE StopWait(t, AfterStop(t)) /\ UNCHANGED freed
  <2>1. PICK b \in {"stopSend", "idle", "cb", "destroy"} : Goto(t, "stopWait", b)
    BY <1>3, <1>13 DEF StopWait
  <2>2. OuterStep(t, "stopWait", b)
    BY <1>1, <1>2, <1>13, <2>1, ListenKept DEF OuterStep, StopWait, objVars, netVars
  <2> QED BY <1>4, <1>5, <2>2, OuterKeeps
<1>14. CASE DestroyTest(t, AfterDestroy(t)) /\ UNCHANGED freed
  <2>1. PICK b \in {"close", "idle", "cb", "free"} : Goto(t, "destroy", b)
    BY <1>3, <1>14 DEF DestroyTest
  <2>2. OuterStep(t, "destroy", b)
    BY <1>1, <1>2, <1>14, <2>1, ListenKept DEF OuterStep, DestroyTest, objVars, netVars
  <2> QED BY <1>4, <1>5, <2>2, OuterKeeps
<1>15. CASE CloseAll(t, AfterDestroy(t)) /\ UNCHANGED freed
  <2>1. flags' \in Word /\ ~flags'["isCreated"] /\ ~flags'["shouldRun"]
    BY <1>15 DEF CloseAll, AllFalse, Word
  <2>2. ListenInv'
    BY <2>1 DEF ListenInv
  <2>3. pol' \in 0..PolCap
    BY <1>15, BaseAssumption DEF CloseAll
  <2>4. OuterStep(t, "close", AfterDestroy(t))
    BY <1>2, <1>3, <1>15, <2>1, <2>2, <2>3 DEF OuterStep, CloseAll
  <2> QED BY <1>4, <1>5, <2>4, OuterKeeps
<1> QED
  BY <1>6, <1>7, <1>8, <1>9, <1>10, <1>11, <1>12, <1>13, <1>14, <1>15
  DEF Stop, StopCall, DestroyCall

(* Every step of tcp_server_sync.                                          *)
LEMMA SyncStepsKeep ==
  ASSUME SdInv, Careful, NEW t \in Threads, SyncSteps(t)
  PROVE  SdInv'
<1>1. KeepsQueue /\ UNCHANGED coreVars /\ pc[t] # "accept" /\ (t = caller => pc[t] # "big")
  BY DEF SyncSteps, LeavesWrapper, coreVars
<1>2. CASE AcceptLoop(t) /\ UNCHANGED freed
  BY <1>1, <1>2, LoopSteps
<1>3. CASE ClearTid(t, "idle") /\ UNCHANGED freed
  <2>1. caller = NoTid /\ pc[t] = "clearTid"
    BY <1>3, Outside DEF ClearTid, Goto, GetLabels, InLoop, LoopLabels, DispatchLabels
  <2>2. GetTypeOK /\ ListenInv
    BY DEF SdInv, SdFacts
  <2>3. OuterStep(t, "clearTid", "idle")
    BY <1>3, <2>2, ListenKept DEF OuterStep, ClearTid, netVars, SyncLabels, BaseLabels,
       LoopLabels, DispatchLabels, SocketLabels, GetTypeOK, BaseTypeOK
  <2> QED BY <1>1, <2>1, <2>3, OuterKeeps
<1>4. ~LoadFlags(t)
  BY StopperDataAssumption DEF LoadFlags
<1> QED BY <1>1, <1>2, <1>3, <1>4, StartSteps, StopSteps DEF SyncSteps, Run

-----------------------------------------------------------------------------
(* Calls of the application, and its clients.                              *)

(* A call only goes to the label where it begins.                          *)
LEMMA CallsBegin ==
  ASSUME SdInv, Careful, NEW t \in Threads, SyncCalls(t)
  PROVE  SdInv'
<1> USE DEF SyncLabels, BaseLabels, RunLabels, StopLabels, DestroyLabels,
            LoopLabels, DispatchLabels, SocketLabels, StartLabels, ReturnLabels
<1>1. caller = NoTid /\ KeepsQueue /\ UNCHANGED coreVars
  BY DEF SyncCalls, IsApart, Uncalled, Careful, Cares, getVars, wrapVars, coreVars
<1>2. GetTypeOK /\ ListenInv
  BY DEF SdInv, SdFacts
<1>3. PICK a \in {"idle", "cb"}, b \in {"start", "stop", "destroy"}, back \in ReturnLabels :
         CallReturningTo(t, a, b, back) /\ (a = "cb" \/ Owner(t))
  <2>1. CASE CallStart(t)
    BY <2>1, StopperDataAssumption DEF CallStart, CanCall, Owner
  <2>2. CASE CallStop(t)
    BY <2>2 DEF CallStop, CanCall, Owner
  <2>3. CASE CallDestroy(t)
    BY <2>3 DEF CallDestroy, CanCall, Owner
  <2>4. CASE CallDelete(t)
    BY <2>4 DEF CallDelete, CanCall, Owner
  <2>5. CASE CallbackCalls(t)
    BY <2>5 DEF CallbackCalls
  <2> QED BY <2>1, <2>2, <2>3, <2>4, <2>5 DEF SyncCalls
<1>4. Owner(t) \/ pc[t] # "idle"
  BY <1>3 DEF CallReturningTo, Goto
<1>5. OuterStep(t, a, b)
  <2>1. /\ UNCHANGED <<flags, serverTid, reg, open, backlog, pol, ready, freed>>
        /\ Goto(t, a, b) /\ ret' = [ret EXCEPT ![t] = back]
    BY <1>3 DEF CallReturningTo, objVars, netVars
  <2>2. ListenInv'
    BY <1>2, <2>1, ListenKept
  <2> QED BY <1>2, <2>1, <2>2 DEF OuterStep, GetTypeOK, BaseTypeOK
<1> QED BY <1>1, <1>4, <1>5, OuterKeeps

(* A signal interrupts poll.                                               *)
LEMMA InterruptedKeeps ==
  ASSUME SdInv, Careful, NEW t \in Threads, Interrupted(t)
  PROVE  SdInv'
<1>1. backlog = 0 => queue = <<>>
  BY EmptySeq DEF SdInv, GetTypeOK
<1>2. KeepsQueue /\ pc[t] = "poll" /\ UNCHANGED freed /\ UNCHANGED coreVars
  BY <1>1 DEF Interrupted, PollInterrupted, netVars, KeepsQueue, Goto, getVars, wrapVars, coreVars
<1> QED BY <1>2, LoopSteps DEF Interrupted

(* Outside a call the application's callback is in place already.          *)
LEMMA ChangeKeeps ==
  ASSUME SdInv, Careful, NEW t \in Threads, ChangeAcceptCallback(t)
  PROVE  SdInv'
<1>1. caller = NoTid
  BY DEF ChangeAcceptCallback, IsApart, Uncalled, Careful, Cares
<1>2. clbk' = clbk
  BY <1>1 DEF ChangeAcceptCallback, SdInv, SdFacts, CallInv
<1>3. UNCHANGED <<flags, serverTid, open, backlog, pol, pc, reg, ready, ret, freed, queue, got,
                  caller, from, saved, fin, permits, tmp, clientAddr, pols, stps>>
  BY DEF ChangeAcceptCallback, vars, baseVars, callVars, pairVars
<1>4. GetTypeOK'
  BY <1>2, <1>3 DEF SdInv, GetTypeOK, BaseTypeOK
<1>5. LinkInv'
  BY <1>3, LinkKept DEF SdInv, SdFacts
<1>6. CallInv' /\ ListenInv' /\ CreateInv'
  BY <1>2, <1>3 DEF SdInv, SdFacts, CallInv, ListenInv, CreateInv, Wanted
<1>7. ASSUME NEW u \in Threads PROVE PlaceInv(u)'
  BY <1>2, <1>3 DEF SdInv, SdFacts, PlaceInv, Wanted
<1> QED BY <1>4, <1>5, <1>6, <1>7 DEF SdInv, SdFacts

(* A step that changes nothing but the queue, and there only the place of  *)
(* the connections.                                                        *)
LEMMA QueueJump ==
  ASSUME SdInv,
         UNCHANGED <<flags, serverTid, open, pol, pc, reg, ready, ret, freed, coreVars>>,
         backlog' \in 0..MaxClients, queue' \in Seq(Ports \cup {Client}), Len(queue') = backlog',
         LinkInv'
  PROVE  SdInv'
<1>1. UNCHANGED <<got, clbk, caller, from, saved, fin, permits, tmp, clientAddr, pols, stps>>
  BY DEF coreVars, callVars, pairVars
<1>2. GetTypeOK'
  BY <1>1 DEF SdInv, GetTypeOK, BaseTypeOK
<1>3. CallInv' /\ ListenInv' /\ CreateInv'
  BY <1>1 DEF SdInv, SdFacts, CallInv, ListenInv, CreateInv, Wanted
<1>4. ASSUME NEW u \in Threads PROVE PlaceInv(u)'
  BY <1>1 DEF SdInv, SdFacts, PlaceInv, Wanted
<1> QED BY <1>2, <1>3, <1>4 DEF SdInv, SdFacts

(* Connections that were in the queue before, each in a place of its own.  *)
LEMMA QueueLink ==
  ASSUME LinkInv, UNCHANGED <<got, from, permits, tmp, clientAddr, pols, stps>>,
         NEW place, \A i \in 1..Len(queue') : queue'[i] \in Ports =>
           /\ place[i] \in 1..Len(queue) /\ queue[place[i]] = queue'[i]
           /\ \A j \in 1..Len(queue') : place[i] = place[j] => i = j
  PROVE  LinkInv'
<1>1. NoOwn => NoOwn'
  BY DEF NoOwn
<1>2. OneOwn'
  <2>1. ASSUME NEW i \in 1..Len(queue'), queue'[i] \in Ports
        PROVE  /\ queue'[i] = clientAddr'
               /\ \A j \in 1..Len(queue') : queue'[j] \in Ports => i = j
               /\ \A t \in Threads : got'[t] \notin Ports
    BY <2>1 DEF LinkInv, OneOwn
  <2> QED BY <2>1 DEF LinkInv, OneOwn
<1> QED BY <1>1, <1>2 DEF LinkInv, Wanted

(* A sequence without one of its elements.                                 *)
Without(q, i) == SubSeq(q, 1, i - 1) \o SubSeq(q, i + 1, Len(q))

LEMMA Removed ==
  ASSUME NEW S, NEW q \in Seq(S), NEW i \in 1..Len(q)
  PROVE  /\ Without(q, i) \in Seq(S) /\ Len(Without(q, i)) = Len(q) - 1
         /\ \A j \in 1..Len(Without(q, i)) : Without(q, i)[j] = q[IF j < i THEN j ELSE j + 1]
<1>0. PICK r : r = Without(q, i)
  OBVIOUS
<1>1. PICK n \in Nat : n = Len(q)
  BY LenProperties
<1>2. i \in Nat /\ 1 <= i /\ i <= n /\ \A j \in 1..n : q[j] \in S
  BY <1>1, ElementOfSeq
<1>3. PICK a : a = SubSeq(q, 1, i - 1)
  OBVIOUS
<1>4. PICK b : b = SubSeq(q, i + 1, n)
  OBVIOUS
<1>5. a \in Seq(S) /\ Len(a) = i - 1 /\ \A j \in 1..(i - 1) : a[j] = q[j]
  <2>1. i - 1 \in Int /\ 1 \in Int /\ \A j \in 1..(i - 1) : q[j] \in S
    BY <1>2
  <2>2. /\ a \in Seq(S) /\ Len(a) = IF 1 <= i - 1 THEN i - 1 - 1 + 1 ELSE 0
        /\ \A j \in 1 .. i - 1 - 1 + 1 : a[j] = q[1 + j - 1]
    BY <1>3, <2>1, SubSeqProperties
  <2> QED BY <1>2, <2>2
<1>6. b \in Seq(S) /\ Len(b) = n - i /\ \A j \in 1..(n - i) : b[j] = q[i + j]
  <2>1. i + 1 \in Int /\ n \in Int /\ \A j \in (i + 1)..n : q[j] \in S
    BY <1>2
  <2>2. /\ b \in Seq(S) /\ Len(b) = IF i + 1 <= n THEN n - (i + 1) + 1 ELSE 0
        /\ \A j \in 1 .. n - (i + 1) + 1 : b[j] = q[i + 1 + j - 1]
    BY <1>4, <2>1, SubSeqProperties
  <2>3. n - (i + 1) + 1 = n - i /\ (i + 1 <= n \/ n - i = 0)
    BY <1>2
  <2>4. ASSUME NEW j \in 1..(n - i) PROVE b[j] = q[i + j]
    <3>1. i + 1 + j - 1 = i + j
      BY <1>2
    <3> QED BY <2>2, <2>3, <3>1
  <2> QED BY <2>2, <2>3, <2>4
<1>7. /\ r \in Seq(S) /\ Len(r) = Len(a) + Len(b)
      /\ \A j \in 1 .. Len(a) + Len(b) : r[j] = IF j <= Len(a) THEN a[j] ELSE b[j - Len(a)]
  <2>1. r = a \o b
    BY <1>0, <1>1, <1>3, <1>4 DEF Without
  <2>2. a \in Seq(S) /\ b \in Seq(S)
    BY <1>5, <1>6
  <2>3. /\ a \o b \in Seq(S) /\ Len(a \o b) = Len(a) + Len(b)
        /\ \A j \in 1 .. Len(a) + Len(b) :
             (a \o b)[j] = IF j <= Len(a) THEN a[j] ELSE b[j - Len(a)]
    BY <2>2, ConcatProperties, Zenon
  <2> QED BY <2>1, <2>3, Zenon
<1>8. Len(a) + Len(b) = n - 1
  BY <1>2, <1>5, <1>6
<1>9. ASSUME NEW j \in 1..(n - 1) PROVE r[j] = q[IF j < i THEN j ELSE j + 1]
  <2>1. CASE j < i
    <3>1. j \in 1..(i - 1) /\ j <= Len(a)
      BY <2>1, <1>2, <1>5
    <3> QED BY <2>1, <3>1, <1>5, <1>7, <1>8
  <2>2. CASE ~(j < i)
    <3>1. r[j] = b[j - (i - 1)]
      <4>1. ~(j <= Len(a)) /\ j \in 1 .. Len(a) + Len(b)
        BY <2>2, <1>2, <1>5, <1>8
      <4> QED BY <4>1, <1>5, <1>7
    <3>2. j - (i - 1) \in 1..(n - i) /\ i + (j - (i - 1)) = j + 1
      BY <2>2, <1>2
    <3> QED BY <2>2, <3>1, <3>2, <1>6
  <2> QED BY <2>1, <2>2
<1> QED BY <1>0, <1>1, <1>7, <1>8, <1>9

(* A client joins the queue at its end ...                                 *)
LEMMA ArrivalKeeps ==
  ASSUME SdInv, ClientArrives
  PROVE  SdInv'
<1>1. /\ queue' = Append(queue, Client) /\ backlog' = backlog + 1 /\ backlog < MaxClients - 1
      /\ UNCHANGED <<flags, serverTid, open, pol, pc, reg, ready, ret, freed, coreVars>>
  BY DEF ClientArrives, ClientConnects, objVars, getVars, wrapVars, coreVars
<1>2. /\ queue \in Seq(Ports \cup {Client}) /\ Len(queue) = backlog /\ backlog \in 0..MaxClients
      /\ MaxClients \in Nat
  BY BaseAssumption DEF SdInv, GetTypeOK, BaseTypeOK
<1>3. /\ queue' \in Seq(Ports \cup {Client}) /\ Len(queue') = backlog'
      /\ backlog' \in 0..MaxClients
  BY <1>1, <1>2
<1>4. PICK place : place = [i \in 1..Len(queue') |-> i]
  OBVIOUS
<1>5. \A i \in 1..Len(queue') : queue'[i] \in Ports =>
        /\ place[i] \in 1..Len(queue) /\ queue[place[i]] = queue'[i]
        /\ \A j \in 1..Len(queue') : place[i] = place[j] => i = j
  BY <1>1, <1>2, <1>4, Distinct
<1>6. LinkInv'
  BY <1>1, <1>5, QueueLink DEF SdInv, SdFacts, coreVars, callVars, pairVars
<1> QED BY <1>1, <1>3, <1>6, QueueJump

(* ... and one that gives up leaves the others in their order.             *)
LEMMA GivesUpKeeps ==
  ASSUME SdInv, ClientGivesUp
  PROVE  SdInv'
<1>1. PICK i \in 1..Len(queue) :
         /\ queue' = Without(queue, i)
         /\ backlog' = backlog - 1 /\ backlog > 0
         /\ UNCHANGED <<flags, serverTid, open, pol, pc, reg, ready, ret, freed, coreVars>>
  BY DEF ClientGivesUp, ClientAborts, Without, objVars, getVars, wrapVars, coreVars
<1>2. /\ queue \in Seq(Ports \cup {Client}) /\ Len(queue) = backlog /\ backlog \in 0..MaxClients
      /\ MaxClients \in Nat
  BY BaseAssumption DEF SdInv, GetTypeOK, BaseTypeOK
<1>3. /\ queue' \in Seq(Ports \cup {Client}) /\ Len(queue') = Len(queue) - 1
      /\ \A j \in 1..Len(queue') : queue'[j] = queue[IF j < i THEN j ELSE j + 1]
  <2>1. PICK S : S = Ports \cup {Client}
    OBVIOUS
  <2>2. queue \in Seq(S)
    BY <1>2, <2>1
  <2>3. /\ Without(queue, i) \in Seq(S) /\ Len(Without(queue, i)) = Len(queue) - 1
        /\ \A j \in 1..Len(Without(queue, i)) :
             Without(queue, i)[j] = queue[IF j < i THEN j ELSE j + 1]
    BY <2>2, Removed
  <2> QED BY <1>1, <2>1, <2>3
<1>4. backlog' \in 0..MaxClients /\ Len(queue') = backlog'
  BY <1>1, <1>2, <1>3
<1>5. PICK place : place = [j \in 1..Len(queue') |-> IF j < i THEN j ELSE j + 1]
  OBVIOUS
<1>6. \A k \in 1..Len(queue') : queue'[k] \in Ports =>
        /\ place[k] \in 1..Len(queue) /\ queue[place[k]] = queue'[k]
        /\ \A j \in 1..Len(queue') : place[k] = place[j] => k = j
  BY <1>2, <1>3, <1>5
<1>7. LinkInv'
  BY <1>1, <1>6, QueueLink DEF SdInv, SdFacts, coreVars, callVars, pairVars
<1> QED BY <1>1, <1>3, <1>4, <1>7, QueueJump

-----------------------------------------------------------------------------
(* The statements of GetStopperData.                                       *)

(* The thread at them is the caller.                                       *)
LEMMA CallerIs ==
  ASSUME SdInv, NEW t \in Threads, pc[t] \in GetLabels
  PROVE  caller = t /\ caller # NoTid /\ got[t] = NoAddr
BY Distinct DEF SdInv, SdFacts, PlaceInv, GetLabels

(* The caller goes on; the connections are as they were, and so is what    *)
(* the other threads need.                                                 *)
GetStep(t, a, b) ==
  /\ Goto(t, a, b) /\ a \in GetLabels \cup {"big"}
  /\ b \in GetLabels \cup {"loop"}
  /\ flags' \in Word /\ serverTid' \in Threads \cup {NoTid}
  /\ reg' \in [Threads -> Word \cup {NoWord}]
  /\ saved' \in [word : Word, tid : Threads \cup {NoTid}]
  /\ fin' \in {"none", "made", "posted"} /\ clbk' \in {"app", "extra"}
  /\ tmp' \in {"none", "connect", "wait", "store", "done"}
  /\ UNCHANGED <<open, backlog, pol, ready, ret, freed, queue, got, caller, from, permits,
                 clientAddr, pols, stps>>

LEMMA GetStepType ==
  ASSUME GetTypeOK, NEW t \in Threads, NEW a, NEW b, GetStep(t, a, b)
  PROVE  /\ GetTypeOK' /\ pc'[t] = b /\ pc[t] = a
         /\ \A u \in Threads \ {t} : pc'[u] = pc[u]
<1>1. b \in SdLabels
  BY DEF GetStep, SdLabels, SyncLabels, BaseLabels, RunLabels, LoopLabels
<1>2. /\ pc' \in [Threads -> SdLabels] /\ pc[t] = a /\ pc'[t] = b
      /\ \A u \in Threads \ {t} : pc'[u] = pc[u]
  BY <1>1, Jumps DEF GetStep
<1> QED BY <1>2 DEF GetStep, GetTypeOK, BaseTypeOK, SdLabels

LEMMA GetStepKeeps ==
  ASSUME SdInv, NEW t \in Threads, NEW a, NEW b, GetStep(t, a, b), caller = t,
         LinkInv', CallInv',
         flags'["isCreated"] = flags["isCreated"], flags'["hasError"] = flags["hasError"],
         flags["isCreated"],
         clbk' = clbk \/ (clbk = "app" /\ pols = <<>>),
         \A u \in Threads \ {t} : pc[u] # "idle" =>
           /\ flags'["shouldRunBig"]
           /\ b \in SavedLabels => saved'.word["shouldRunBig"]
  PROVE  SdInv'
<1> USE DEF SdInv, SdFacts
<1>1. /\ GetTypeOK' /\ pc'[t] = b /\ pc[t] = a
      /\ \A u \in Threads \ {t} : pc'[u] = pc[u]
  BY GetStepType
<1>2. /\ a \notin {"call", "finish"} /\ b \notin {"call", "finish", "idle"}
      /\ b \notin SocketLabels \cup {"enter", "startRun", "createAndStart", "startRunOnly"}
  BY DEF GetStep, GetLabels, SocketLabels
<1>3. ListenInv'
  BY DEF ListenInv, GetStep
<1>4. CreateInv'
  BY DEF CreateInv, GetStep
<1>5. clbk' = clbk \/ Len(pols) # Wanted
  BY Distinct
<1>6. PlaceInv(t)'
  BY <1>1, <1>2 DEF PlaceInv, GetStep
<1>7. ASSUME NEW u \in Threads \ {t} PROVE PlaceInv(u)'
  BY <1>1, <1>2, <1>5 DEF PlaceInv, GetStep, Wanted
<1> QED BY <1>1, <1>3, <1>4, <1>6, <1>7

(* The call is entered with the server created; the word is saved; ...     *)
LEMMA GetTestKeeps ==
  ASSUME SdInv, NEW t \in Threads, GetTest(t)
  PROVE  SdInv'
<1> USE DEF GetLabels
<1>1. /\ Goto(t, "get", "getSave") /\ flags["isCreated"]
      /\ saved' = [saved EXCEPT !.tid = serverTid]
      /\ fin' \in {"none", "made"}
      /\ UNCHANGED <<flags, serverTid, reg, open, backlog, pol, ready, ret, freed, queue, got,
                     clbk, caller, from, permits, tmp, clientAddr, pols, stps>>
  BY DEF GetTest, objVars, netVars, localVars, wrapVars, pairVars
<1>2. GetTypeOK /\ LinkInv /\ CallInv /\ PlaceInv(t)
  BY DEF SdInv, SdFacts
<1>3. caller = t /\ caller # NoTid /\ pc[t] = "get"
  BY <1>1, CallerIs DEF Goto
<1>4. GetStep(t, "get", "getSave")
  BY <1>1, <1>2 DEF GetStep, GetTypeOK, BaseTypeOK
<1>5. pc'[t] = "getSave"
  BY <1>2, <1>4, GetStepType
<1>6. LinkInv'
  BY <1>1, <1>2, LinkKept
<1>7. CallInv'
  BY <1>1, <1>2, <1>3, <1>5 DEF CallInv, BeforeRun, SavedLabels, InLoop, LoopLabels,
     DispatchLabels, AfterLoop, Wanted
<1>8. \A u \in Threads \ {t} : pc[u] # "idle" => flags'["shouldRunBig"]
  BY <1>1, <1>3 DEF SdInv, SdFacts, PlaceInv
<1>9. "getSave" \notin SavedLabels
  BY DEF SavedLabels, InLoop, LoopLabels, DispatchLabels
<1> QED BY <1>1, <1>3, <1>4, <1>6, <1>7, <1>8, <1>9, GetStepKeeps

LEMMA GetSaveKeeps ==
  ASSUME SdInv, NEW t \in Threads, GetSave(t)
  PROVE  SdInv'
<1> USE DEF GetLabels
<1>1. /\ Goto(t, "getSave", "getRun")
      /\ saved' = [saved EXCEPT !.word = flags]
      /\ UNCHANGED <<flags, serverTid, reg, open, backlog, pol, ready, ret, freed, queue, got,
                     clbk, caller, from, fin, permits, tmp, clientAddr, pols, stps>>
  BY DEF GetSave, objVars, netVars, localVars, wrapVars, pairVars
<1>2. GetTypeOK /\ LinkInv /\ CallInv
  BY DEF SdInv, SdFacts
<1>3. caller = t /\ caller # NoTid /\ pc[t] = "getSave"
  BY <1>1, CallerIs DEF Goto
<1>4. GetStep(t, "getSave", "getRun")
  BY <1>1, <1>2 DEF GetStep, GetTypeOK, BaseTypeOK
<1>5. pc'[t] = "getRun"
  BY <1>2, <1>4, GetStepType
<1>6. LinkInv'
  BY <1>1, <1>2, LinkKept
<1>7. saved'.word = flags
  BY <1>1, <1>2 DEF GetTypeOK
<1>8. CallInv'
  BY <1>1, <1>2, <1>3, <1>5, <1>7 DEF CallInv, BeforeRun, InLoop, LoopLabels, DispatchLabels,
     AfterLoop, Wanted
<1>9. flags["isCreated"] /\ \A u \in Threads \ {t} : pc[u] # "idle" => flags["shouldRunBig"]
  BY <1>2, <1>3 DEF SdInv, SdFacts, PlaceInv, CallInv
<1> QED BY <1>1, <1>3, <1>4, <1>6, <1>7, <1>8, <1>9, GetStepKeeps

(* ... shouldRun is set and the temporary thread starts; ...               *)
LEMMA GetRunKeeps ==
  ASSUME SdInv, NEW t \in Threads, GetRun(t)
  PROVE  SdInv'
<1> USE DEF GetLabels, FlagNames
<1>1. /\ Goto(t, "getRun", "getClbk") /\ SetFlag(t, "shouldRun", TRUE) /\ tmp' = "connect"
      /\ UNCHANGED <<serverTid, open, backlog, pol, ready, ret, freed, queue, got,
                     clbk, caller, from, saved, fin, permits, clientAddr, pols, stps>>
  BY DEF GetRun, netVars, localVars, wrapVars, callVars
<1>2. GetTypeOK /\ LinkInv /\ CallInv
  BY DEF SdInv, SdFacts
<1>3. caller = t /\ caller # NoTid /\ pc[t] = "getRun"
  BY <1>1, CallerIs DEF Goto
<1>4. /\ flags' \in Word /\ reg' \in [Threads -> Word \cup {NoWord}] /\ flags'["shouldRun"]
      /\ \A f \in {"shouldRunBig", "isCreated", "hasError"} : flags'[f] = flags[f]
  BY <1>1, <1>2, StoresFlag
<1>5. GetStep(t, "getRun", "getClbk")
  BY <1>1, <1>2, <1>4 DEF GetStep, GetTypeOK, BaseTypeOK
<1>6. pc'[t] = "getClbk"
  BY <1>2, <1>5, GetStepType
<1>7. tmp = "none" /\ pols = <<>> /\ stps = <<>> /\ permits = 0
  BY <1>2, <1>3 DEF CallInv, LinkInv, BeforeRun
<1>8. LinkInv'
  <2>1. Len(stps) < Wanted
    BY <1>7, Distinct
  <2> QED BY <1>1, <1>2, <1>7, <2>1 DEF LinkInv, OneOwn, NoOwn, Wanted
<1>9. CallInv'
  BY <1>1, <1>2, <1>3, <1>4, <1>6, <1>7 DEF CallInv, BeforeRun, SavedLabels, InLoop,
     LoopLabels, DispatchLabels, AfterLoop, Wanted
<1>10. /\ flags["isCreated"]
       /\ \A u \in Threads \ {t} : pc[u] # "idle" => flags["shouldRunBig"] /\ saved.word["shouldRunBig"]
  BY <1>2, <1>3 DEF SdInv, SdFacts, PlaceInv, CallInv, SavedLabels
<1> QED BY <1>1, <1>3, <1>4, <1>5, <1>8, <1>9, <1>10, GetStepKeeps

(* ... the callback that recognises its connections is in place; ...       *)
LEMMA GetClbkKeeps ==
  ASSUME SdInv, NEW t \in Threads, GetClbk(t)
  PROVE  SdInv'
<1> USE DEF GetLabels
<1>1. PICK b \in {"loop", "getWait"} :
      /\ Goto(t, "getClbk", b) /\ clbk' = "extra" /\ (b = "loop" <=> fin = "none")
      /\ UNCHANGED <<flags, serverTid, reg, open, backlog, pol, ready, ret, freed, queue, got,
                     caller, from, saved, fin, permits, tmp, clientAddr, pols, stps>>
  BY DEF GetClbk, objVars, netVars, localVars, callVars, pairVars
<1>2. GetTypeOK /\ LinkInv /\ CallInv
  BY DEF SdInv, SdFacts
<1>3. caller = t /\ caller # NoTid /\ pc[t] = "getClbk"
  BY <1>1, CallerIs DEF Goto
<1>4. GetStep(t, "getClbk", b)
  BY <1>1, <1>2 DEF GetStep, GetTypeOK, BaseTypeOK
<1>5. pc'[t] = b
  BY <1>2, <1>4, GetStepType
<1>6. LinkInv'
  BY <1>1, <1>2, LinkKept
<1>7. /\ clbk = "app" /\ pols = <<>> /\ tmp \in {"connect", "wait"} /\ flags["shouldRun"]
      /\ flags["isCreated"]
      /\ fin # "posted"
  BY <1>2, <1>3, Distinct DEF CallInv
<1>8. CallInv'
  BY <1>1, <1>2, <1>3, <1>5, <1>7 DEF CallInv, BeforeRun, SavedLabels, InLoop, LoopLabels,
     DispatchLabels, AfterLoop, Wanted
<1>9. \A u \in Threads \ {t} : pc[u] # "idle" => flags["shouldRunBig"] /\ saved.word["shouldRunBig"]
  BY <1>2, <1>3 DEF SdInv, SdFacts, PlaceInv, SavedLabels
<1> QED BY <1>1, <1>3, <1>4, <1>6, <1>7, <1>8, <1>9, GetStepKeeps

(* ... after the last connection the flag word is restored, ...            *)
LEMMA GetRestoreKeeps ==
  ASSUME SdInv, NEW t \in Threads, GetRestore(t)
  PROVE  SdInv'
<1>1. PICK a \in {"getWait", "big"} :
      /\ Goto(t, a, "getTid") /\ (a = "getWait" => fin = "posted") /\ (a = "big" => caller = t)
      /\ flags' = saved.word
      /\ UNCHANGED <<serverTid, reg, open, backlog, pol, ready, ret, freed, queue, got, clbk,
                     caller, from, saved, fin, permits, tmp, clientAddr, pols, stps>>
  BY DEF GetRestore, netVars, localVars, wrapVars, callVars, pairVars
<1>2. GetTypeOK /\ LinkInv /\ CallInv
  BY DEF SdInv, SdFacts
<1>3. caller = t /\ caller # NoTid /\ pc[t] = a
  BY <1>1, CallerIs, Distinct DEF Goto, GetLabels
<1>4. /\ flags["isCreated"] /\ ~flags["hasError"]
      /\ saved.word["isCreated"] /\ ~saved.word["hasError"]
      /\ clbk = "app" /\ Len(pols) = Wanted
  BY <1>1, <1>2, <1>3 DEF CallInv, SavedLabels, InLoop
<1>5. GetStep(t, a, "getTid")
  BY <1>1, <1>2 DEF GetStep, GetTypeOK, BaseTypeOK, GetLabels
<1>6. pc'[t] = "getTid"
  BY <1>2, <1>5, GetStepType
<1>7. LinkInv'
  BY <1>1, <1>2, LinkKept
<1>8. tmp # "none"
  BY <1>2, <1>3 DEF CallInv, BeforeRun
<1>9. CallInv'
  BY <1>1, <1>2, <1>3, <1>4, <1>6, <1>8 DEF CallInv, GetLabels, BeforeRun, SavedLabels, InLoop,
     LoopLabels, DispatchLabels, AfterLoop, Wanted
<1>10. \A u \in Threads \ {t} : pc[u] # "idle" => saved.word["shouldRunBig"]
  BY <1>2, <1>3 DEF SdInv, SdFacts, PlaceInv, SavedLabels, InLoop
<1>11. \A f \in {"isCreated", "hasError"} : flags'[f] = flags[f]
  BY <1>1, <1>2, <1>4 DEF GetTypeOK, BaseTypeOK, Word, FlagNames
<1>12. "getTid" \notin SavedLabels
  BY DEF SavedLabels, InLoop, LoopLabels, DispatchLabels
<1> QED BY <1>1, <1>3, <1>4, <1>5, <1>7, <1>9, <1>10, <1>11, <1>12, GetStepKeeps

(* ... and serverTid.                                                      *)
LEMMA GetTidKeeps ==
  ASSUME SdInv, NEW t \in Threads, GetTid(t)
  PROVE  SdInv'
<1> USE DEF GetLabels
<1>1. /\ Goto(t, "getTid", "getJoin") /\ serverTid' = saved.tid
      /\ UNCHANGED <<flags, reg, open, backlog, pol, ready, ret, freed, queue, got, clbk,
                     caller, from, saved, fin, permits, tmp, clientAddr, pols, stps>>
  BY DEF GetTid, netVars, localVars, wrapVars, callVars, pairVars
<1>2. GetTypeOK /\ LinkInv /\ CallInv
  BY DEF SdInv, SdFacts
<1>3. caller = t /\ caller # NoTid /\ pc[t] = "getTid"
  BY <1>1, CallerIs DEF Goto
<1>4. GetStep(t, "getTid", "getJoin")
  BY <1>1, <1>2 DEF GetStep, GetTypeOK, BaseTypeOK
<1>5. pc'[t] = "getJoin"
  BY <1>2, <1>4, GetStepType
<1>6. LinkInv'
  BY <1>1, <1>2, LinkKept
<1>7. CallInv'
  BY <1>1, <1>2, <1>3, <1>5 DEF CallInv, BeforeRun, SavedLabels, InLoop, LoopLabels,
     DispatchLabels, AfterLoop, Wanted
<1>8. flags["isCreated"] /\ \A u \in Threads \ {t} : pc[u] # "idle" => flags["shouldRunBig"]
  BY <1>2, <1>3 DEF SdInv, SdFacts, PlaceInv, CallInv
<1>9. "getJoin" \notin SavedLabels
  BY DEF SavedLabels, InLoop, LoopLabels, DispatchLabels
<1> QED BY <1>1, <1>3, <1>4, <1>6, <1>7, <1>8, <1>9, GetStepKeeps

(* The call ends: none of its connections is anywhere, and the callback of *)
(* the application is back.                                                *)
LEMMA CallEnds ==
  ASSUME SdInv, NEW t \in Threads, pc[t] \in {"get", "getJoin"}, tmp \in {"none", "done"},
         EndsCall(t), UNCHANGED <<serverTid, reg, ready, ret, freed, got, clbk>>,
         flags' \in Word, open' \subseteq Sockets,
         open' = open \/ \A u \in Threads \ {t} : pc[u] = "idle",
         backlog' = backlog \/ backlog' = 0, pol' = pol, KeepsQueue, ListenInv'
  PROVE  SdInv'
<1> USE DEF SdInv, SdFacts
<1>1. caller = t /\ caller # NoTid /\ got[t] = NoAddr
  BY CallerIs DEF GetLabels
<1>2. clbk = "app" /\ NoOwn
  BY <1>1 DEF CallInv, LinkInv, BeforeRun, AfterLoop
<1>3. from = "cb" => Owner(t)
  BY <1>1 DEF CallInv
<1>4. /\ caller' = NoTid /\ from' = "idle" /\ fin' = "none"
      /\ saved' = [word |-> AllFalse, tid |-> NoTid]
      /\ permits' = 0 /\ tmp' = "none" /\ clientAddr' = NoAddr /\ pols' = <<>> /\ stps' = <<>>
  BY DEF EndsCall
<1>5. /\ pc' \in [Threads -> SdLabels] /\ pc'[t] \in {"idle", "cb"}
      /\ (pc'[t] = "cb" => Owner(t))
      /\ \A u \in Threads \ {t} : pc'[u] = pc[u]
  BY <1>3 DEF EndsCall, GetTypeOK, SdLabels, SyncLabels, BaseLabels, RunLabels, LoopLabels
<1>6. /\ queue' \in Seq(Ports \cup {Client}) /\ Len(queue') = backlog'
      /\ (queue' = queue \/ queue' = <<>>)
  <2>1. CASE backlog' = 0
    BY <2>1, EmptySeq DEF KeepsQueue
  <2>2. CASE backlog' # 0
    BY <2>2 DEF KeepsQueue, GetTypeOK
  <2> QED BY <2>1, <2>2
<1>7. GetTypeOK'
  <2>1. AllFalse \in Word
    BY DEF AllFalse, Word
  <2>2. backlog' \in 0..MaxClients
    BY BaseAssumption DEF GetTypeOK, BaseTypeOK
  <2>3. BaseTypeOK'
    BY <2>2 DEF GetTypeOK, BaseTypeOK
  <2>4. pols' \in Seq(Ports) /\ stps' \in Seq(Ports)
    BY <1>4, EmptySeq
  <2>5. permits' \in 0..Count
    BY <1>4, Distinct
  <2> QED BY <1>4, <1>5, <1>6, <2>1, <2>3, <2>4, <2>5 DEF GetTypeOK, SdLabels
<1>8. LinkInv'
  <2>1. NoOwn'
    BY <1>2, <1>6 DEF NoOwn
  <2> QED BY <1>4, <2>1 DEF LinkInv, NoOwn, OneOwn
<1>9. CallInv'
  BY <1>2, <1>4 DEF CallInv
<1>10. CreateInv'
  BY <1>4 DEF CreateInv
<1>11. PlaceInv(t)'
  BY <1>1, <1>4, <1>5 DEF PlaceInv, GetLabels, SocketLabels
<1>12. ASSUME NEW u \in Threads \ {t} PROVE PlaceInv(u)'
  <2>1. PlaceInv(u) /\ pc[u] # "finish" /\ pc[u] # "startRun" /\ pc[u] \notin GetLabels
    BY <1>1, <1>2 DEF PlaceInv, InLoop, LoopLabels, DispatchLabels
  <2>2. pc'[u] = pc[u]
    BY <1>5
  <2>3. pc[u] = "idle" => pc[u] \notin SocketLabels \cup {"enter"}
    BY DEF SocketLabels
  <2>4. caller' = NoTid
    BY <1>4
  <2> QED BY <1>1, <2>1, <2>2, <2>3, <2>4 DEF PlaceInv
<1> QED BY <1>7, <1>8, <1>9, <1>10, <1>11, <1>12

LEMMA GetReturnsKeeps ==
  ASSUME SdInv, NEW t \in Threads, GetReturns(t)
  PROVE  SdInv'
<1>1. /\ pc[t] = "getJoin" /\ tmp = "done" /\ EndsCall(t)
      /\ UNCHANGED <<flags, serverTid, reg, open, backlog, pol, ready, ret, freed, queue, got,
                     clbk>>
  BY DEF GetReturns, EndsCall, objVars, netVars, localVars
<1>2. GetTypeOK /\ ListenInv
  BY DEF SdInv, SdFacts
<1>3. KeepsQueue
  BY <1>1, <1>2, EmptySeq DEF KeepsQueue, GetTypeOK
<1>4. flags' \in Word /\ open' \subseteq Sockets /\ ListenInv'
  BY <1>1, <1>2 DEF GetTypeOK, BaseTypeOK, ListenInv
<1> QED BY <1>1, <1>3, <1>4, CallEnds

(* Inside CreateServer no other thread is in the server.                   *)
LEMMA CreatorAlone ==
  ASSUME SdInv, Careful, from = "create"
  PROVE  caller # NoTid /\ \A u \in Threads \ {caller} : pc[u] = "idle" /\ ~Owner(u)
<1>1. caller # NoTid /\ caller \in Threads /\ Owner(caller)
  BY DEF SdInv, SdFacts, CallInv, GetTypeOK
<1> QED BY <1>1 DEF SdInv, SdFacts, PlaceInv, Careful

LEMMA GetFailsKeeps ==
  ASSUME SdInv, Careful, NEW t \in Threads, GetFails(t)
  PROVE  SdInv'
<1>1. /\ pc[t] = "get" /\ EndsCall(t) /\ KeepsQueue
      /\ IF from = "create" THEN CreateStopperFails ELSE UNCHANGED <<flags, open, backlog, pol>>
      /\ UNCHANGED <<serverTid, reg, ready, ret, freed, got, clbk>>
  BY DEF GetFails, EndsCall, netVars, localVars
<1>2. GetTypeOK /\ ListenInv /\ CallInv
  BY DEF SdInv, SdFacts
<1>3. caller = t /\ tmp = "none"
  BY <1>1, <1>2, CallerIs DEF CallInv, GetLabels, BeforeRun
<1>4. CASE from = "create"
  <2>1. /\ flags' \in Word /\ flags'["hasError"] /\ open' \subseteq Sockets
        /\ backlog' = 0 /\ pol' = pol
    <3>1. /\ flags' = [flags EXCEPT !["hasError"] = TRUE, !["isCreated"] = FALSE]
          /\ open' = open \ {"serv"} /\ backlog' = 0 /\ pol' = pol
      BY <1>1, <1>4 DEF CreateStopperFails
    <3>2. flags \in Word /\ open \subseteq Sockets
      BY <1>2 DEF GetTypeOK, BaseTypeOK
    <3>3. flags' \in Word /\ flags'["hasError"]
      BY <3>1, <3>2 DEF Word, FlagNames
    <3> QED BY <3>1, <3>2, <3>3
  <2>2. \A u \in Threads \ {t} : pc[u] = "idle"
    BY <1>3, <1>4, CreatorAlone
  <2>3. ListenInv'
    BY <2>1 DEF ListenInv
  <2> QED BY <1>1, <1>3, <2>1, <2>2, <2>3, CallEnds
<1>5. CASE from # "create"
  <2>1. flags' \in Word /\ open' \subseteq Sockets /\ ListenInv'
    BY <1>1, <1>2, <1>5 DEF GetTypeOK, BaseTypeOK, ListenInv
  <2> QED BY <1>1, <1>3, <1>5, <2>1, CallEnds
<1> QED BY <1>4, <1>5

(* Every statement of the caller.                                          *)
LEMMA GetKeeps ==
  ASSUME SdInv, Careful, NEW t \in Threads, Get(t)
  PROVE  SdInv'
BY GetTestKeeps, GetSaveKeeps, GetRunKeeps, GetClbkKeeps, GetRestoreKeeps, GetTidKeeps,
   GetReturnsKeeps, GetFailsKeeps DEF Get

(* A thread enters GetStopperData: the others are idle or serve ...        *)
LEMMA CallGetKeeps ==
  ASSUME SdInv, Careful, NEW t \in Threads, CallGet(t)
  PROVE  SdInv'
<1> USE DEF SdInv, SdFacts
<1>1. PICK a \in {"idle", "cb"} :
         /\ from' = a /\ Goto(t, a, "get") /\ caller = NoTid /\ caller' = t /\ MayGet(t)
         /\ UNCHANGED <<flags, serverTid, reg, open, backlog, pol, ready, ret, freed, queue,
                        got,
                        clbk, saved, fin, permits, tmp, clientAddr, pols, stps>>
  BY DEF CallGet, Uncalled, objVars, netVars, localVars, wrapVars, pairVars
<1>2. "get" \in SdLabels
  BY DEF SdLabels, GetLabels
<1>3. /\ pc' \in [Threads -> SdLabels] /\ pc[t] = a /\ pc'[t] = "get"
      /\ \A u \in Threads \ {t} : pc'[u] = pc[u]
  BY <1>1, <1>2, Jumps
<1>4. GetTypeOK'
  BY <1>1, <1>3 DEF GetTypeOK, BaseTypeOK, SdLabels
<1>5. /\ tmp = "none" /\ clbk = "app" /\ fin = "none" /\ from = "idle"
      /\ pols = <<>> /\ stps = <<>> /\ permits = 0 /\ NoOwn
  BY <1>1 DEF CallInv, LinkInv
<1>6. LinkInv'
  BY <1>1, <1>5 DEF LinkInv, NoOwn, OneOwn
<1>7. /\ ~flags["hasError"]
      /\ \A u \in Threads \ {t} : pc[u] # "idle" => pc[u] \in InLoop /\ flags["shouldRunBig"]
  BY <1>1 DEF MayGet, Careful, Cares, Serves, InLoop
<1>8. a = "cb" => Owner(t)
  BY <1>1, <1>3, Distinct DEF PlaceInv
<1>9. CallInv'
  BY <1>1, <1>3, <1>5, <1>7, <1>8, Distinct DEF CallInv, GetLabels, BeforeRun, SavedLabels,
     InLoop, LoopLabels, DispatchLabels, AfterLoop
<1>10. ListenInv' /\ CreateInv'
  BY <1>1, <1>5 DEF ListenInv, CreateInv
<1>11. "get" \notin SavedLabels
  BY DEF SavedLabels, InLoop, LoopLabels, DispatchLabels
<1>12. got[t] = NoAddr
  BY <1>1, <1>3 DEF PlaceInv
<1>13. PlaceInv(t)'
  BY <1>1, <1>3, <1>12 DEF PlaceInv, SocketLabels
<1>14. ASSUME NEW u \in Threads \ {t} PROVE PlaceInv(u)'
  <2>1. PlaceInv(u) /\ pc'[u] = pc[u] /\ caller # u /\ pc[u] \notin GetLabels /\ pc[u] # "finish"
    BY <1>1, <1>3, <1>5, Distinct DEF PlaceInv
  <2> QED BY <2>1, <1>1, <1>3, <1>7, <1>11 DEF PlaceInv
<1> QED BY <1>4, <1>6, <1>9, <1>10, <1>13, <1>14

(* ... and the owner enters CreateServer, or fails at once.                *)
LEMMA CallCreateKeeps ==
  ASSUME SdInv, Careful, NEW t \in Threads, CallCreate(t)
  PROVE  SdInv'
<1> USE DEF SdInv, SdFacts
<1>1. /\ pc[t] = "idle" /\ Owner(t) /\ caller = NoTid /\ queue' = <<>> /\ backlog' = 0
      /\ pol' = pol
      /\ UNCHANGED <<serverTid, reg, ready, ret, freed, got, clbk, saved, fin, permits, tmp,
                     clientAddr, pols, stps>>
  BY DEF CallCreate, CanCall, Owner, Uncalled, CreateRawFails, localVars, wrapVars, pairVars
<1>2. \A u \in Threads : pc[u] = "idle" /\ got[u] = NoAddr /\ (u # t => ~Owner(u))
  BY <1>1, OwnerAlone, Distinct DEF PlaceInv
<1>3. /\ tmp = "none" /\ clbk = "app" /\ fin = "none" /\ from = "idle"
      /\ pols = <<>> /\ stps = <<>> /\ permits = 0 /\ clientAddr = NoAddr
  BY <1>1 DEF CallInv, LinkInv
<1>4. LinkInv'
  BY <1>1, <1>2, <1>3, Distinct DEF LinkInv, NoOwn, OneOwn
<1>5. flags \in Word /\ open \subseteq Sockets
  BY DEF GetTypeOK, BaseTypeOK
<1>6. CASE CreateRawFails /\ UNCHANGED <<pc, caller, from>>
  <2>1. flags' = [flags EXCEPT !["hasError"] = TRUE] /\ open' = open \ {"serv"}
    BY <1>6 DEF CreateRawFails
  <2>2. flags' \in Word /\ flags'["hasError"]
    BY <1>5, <2>1 DEF Word, FlagNames
  <2>3. open' \subseteq Sockets
    BY <1>5, <2>1
  <2>4. GetTypeOK'
    BY <1>1, <1>6, <2>2, <2>3, EmptySeq, BaseAssumption DEF GetTypeOK, BaseTypeOK
  <2>5. CallInv' /\ ListenInv' /\ CreateInv'
    BY <1>1, <1>3, <1>6, <2>2 DEF CallInv, ListenInv, CreateInv
  <2>6. ASSUME NEW u \in Threads PROVE PlaceInv(u)'
    BY <1>1, <1>2, <1>6 DEF PlaceInv, GetLabels, SocketLabels, Owner
  <2> QED BY <1>4, <2>4, <2>5, <2>6
<1>7. CASE /\ caller' = t /\ from' = "create" /\ Goto(t, "idle", "get")
           /\ flags' = [flags EXCEPT !["hasError"] = FALSE, !["isCreated"] = TRUE]
           /\ open' = open \cup {"serv"}
  <2>1. flags' \in Word /\ ~flags'["hasError"] /\ flags'["isCreated"]
    BY <1>5, <1>7 DEF Word, FlagNames
  <2>2. open' \subseteq Sockets
    BY <1>5, <1>7 DEF Sockets
  <2>3. "get" \in SdLabels
    BY DEF SdLabels, GetLabels
  <2>4. /\ pc' \in [Threads -> SdLabels] /\ pc'[t] = "get"
        /\ \A u \in Threads \ {t} : pc'[u] = "idle"
    BY <1>2, <1>7, <2>3, Jumps
  <2>5. GetTypeOK'
    <3>1. backlog' \in 0..MaxClients /\ queue' \in Seq(Ports \cup {Client}) /\ Len(queue') = backlog'
      BY <1>1, EmptySeq, BaseAssumption
    <3> QED BY <1>1, <1>7, <2>1, <2>2, <2>4, <3>1 DEF GetTypeOK, BaseTypeOK, SdLabels
  <2>6. CallInv'
    BY <1>1, <1>3, <1>7, <2>1, <2>4, Distinct DEF CallInv, GetLabels, BeforeRun, SavedLabels,
       InLoop, LoopLabels, DispatchLabels, AfterLoop
  <2>7. ListenInv' /\ CreateInv'
    BY <1>1, <1>3, <1>7, <2>1 DEF ListenInv, CreateInv
  <2>8. ASSUME NEW u \in Threads PROVE PlaceInv(u)'
    BY <1>1, <1>2, <1>7, <2>4 DEF PlaceInv, GetLabels, SocketLabels, Owner
  <2> QED BY <1>4, <2>5, <2>6, <2>7, <2>8
<1> QED BY <1>1, <1>6, <1>7 DEF CallCreate

-----------------------------------------------------------------------------
(* A connection is accepted and handed to the callback.                    *)

(* One thread goes on, inside the accept loop.                             *)
DispatchStep(t, a, b) ==
  /\ Goto(t, a, b) /\ a \in {"accept"} \cup DispatchLabels
  /\ b \in DispatchLabels \cup {"cb", "leave"}
  /\ flags' \in Word /\ \A f \in FlagNames \ {"shouldRun"} : flags'[f] = flags[f]
  /\ flags'["shouldRun"] => flags["shouldRun"]
  /\ got' \in [Threads -> Ports \cup {NoAddr, Client}]
  /\ b = "call" <=> got'[t] # NoAddr
  /\ \A u \in Threads \ {t} : got'[u] = got[u]
  /\ open \subseteq open'
  /\ UNCHANGED <<serverTid, ready, ret, freed, caller, from, saved, tmp, clientAddr, stps>>

(* The callback of the application stays as it is; the wrapper stays until *)
(* it has all connections, and one thread only finds that it has.          *)
WrapperStep ==
  /\ clbk = "app" => UNCHANGED <<clbk, fin, flags, permits, pols>>
  /\ clbk = "extra" =>
       /\ IF clbk' = "extra" THEN flags'["shouldRun"] ELSE Len(pols') = Wanted
       /\ fin' = "posted" => clbk' = "app"
       /\ fin' # "none" => fin # "none"
  /\ \A u \in Threads : pc'[u] = "finish" =>
       /\ clbk' = "extra" /\ Len(pols') = Wanted
       /\ \A v \in Threads : pc'[v] = "finish" => u = v

LEMMA DispatchStepKeeps ==
  ASSUME SdInv, NEW t \in Threads, NEW a, NEW b, DispatchStep(t, a, b),
         GetTypeOK', LinkInv', CreateInv', clbk = "extra" \/ UNCHANGED clbk, WrapperStep
  PROVE  SdInv'
<1> USE DEF SdInv, SdFacts, DispatchStep
<1>1. b \in SdLabels
  BY DEF SdLabels, SyncLabels, BaseLabels, RunLabels, LoopLabels, DispatchLabels
<1>2. pc[t] = a /\ pc'[t] = b /\ \A u \in Threads \ {t} : pc'[u] = pc[u]
  BY <1>1, Jumps
<1>3. \A f \in {"shouldRunBig", "isCreated", "hasError"} : flags'[f] = flags[f]
  BY DEF FlagNames
<1>4. /\ a \in InLoop \ {"big"} /\ b \in InLoop \ {"big"} /\ a \in SavedLabels
      /\ b \in SavedLabels
      /\ a \notin GetLabels /\ b \notin GetLabels /\ a # "idle" /\ a # "startRun"
     
      /\ b \notin SocketLabels \cup {"enter", "startRun", "createAndStart", "startRunOnly", "idle"}
  BY DEF InLoop, LoopLabels, DispatchLabels, SavedLabels, GetLabels, SocketLabels
<1>5. clbk \in {"app", "extra"} /\ clbk' \in {"app", "extra"} /\ (caller # NoTid => caller \in Threads)
  BY DEF GetTypeOK
<1>6. ListenInv'
  BY <1>3 DEF ListenInv
<1>7. CallInv'
  <2>1. CASE clbk = "app"
    <3>1. UNCHANGED <<clbk, fin, flags, permits, pols>>
      BY <2>1 DEF WrapperStep
    <3>2. CASE caller = NoTid
      BY <2>1, <3>1, <3>2 DEF CallInv, Wanted
    <3>3. CASE caller # NoTid /\ caller # t
      BY <1>2, <1>5, <2>1, <3>1, <3>3 DEF CallInv, Wanted
    <3>4. CASE caller # NoTid /\ caller = t
      BY <1>2, <1>4, <1>5, <2>1, <3>1, <3>4 DEF CallInv, Wanted, BeforeRun, AfterLoop, GetLabels
    <3> QED BY <3>2, <3>3, <3>4
  <2>2. CASE clbk = "extra"
    <3>1. /\ IF clbk' = "extra" THEN flags'["shouldRun"] ELSE Len(pols') = Wanted
          /\ fin' = "posted" => clbk' = "app"
          /\ fin' # "none" => fin # "none"
          /\ Wanted' = Wanted
      BY <2>2 DEF WrapperStep, Wanted
    <3>2. caller # NoTid /\ pc[caller] \notin BeforeRun \cup {"getClbk", "big"} \cup AfterLoop
      BY <2>2 DEF CallInv
    <3>3. CASE caller # t
      BY <1>2, <1>3, <1>5, <3>1, <3>2, <3>3 DEF CallInv
    <3>4. CASE caller = t
      <4>1. /\ b \notin BeforeRun \cup {"getClbk", "big", "get"} \cup AfterLoop
            /\ a # "get" /\ pc[caller] = a /\ pc'[caller] = b
        BY <1>2, <1>4, <3>4 DEF BeforeRun, AfterLoop, GetLabels
      <4>2. b \in InLoop /\ a \in InLoop /\ a \in SavedLabels /\ a \notin BeforeRun
        BY <1>4, <3>2, <4>1
      <4>3. fin = "none" /\ fin' = "none"
        BY <1>4, <3>1, <3>2, <3>4, <4>1 DEF CallInv
      <4> QED BY <1>3, <1>5, <3>1, <3>2, <3>4, <4>1, <4>2, <4>3 DEF CallInv
    <3> QED BY <3>3, <3>4
  <2> QED BY <1>5, <2>1, <2>2
<1>8. \A u \in Threads : pc'[u] = "finish" =>
        /\ clbk' = "extra" /\ Len(pols') = Wanted'
        /\ \A v \in Threads : pc'[v] = "finish" => u = v
  BY DEF WrapperStep, Wanted
<1>9. pc[caller] \notin SavedLabels => pc'[caller] \notin SavedLabels \/ caller = NoTid
  BY <1>2, <1>4, <1>5
<1>10. PlaceInv(t)'
  BY <1>2, <1>3, <1>4, <1>8, <1>9 DEF PlaceInv
<1>11. ASSUME NEW u \in Threads \ {t} PROVE PlaceInv(u)'
  <2>1. pc[u] \in SocketLabels \ {"poll"} => ready'[u] \subseteq open'
    BY DEF PlaceInv
  <2> QED BY <1>2, <1>3, <1>8, <1>9, <2>1 DEF PlaceInv
<1> QED BY <1>6, <1>7, <1>10, <1>11

(* The first connection of the queue becomes the one of the thread.        *)
LEMMA TailIs ==
  ASSUME NEW S, NEW q \in Seq(S), q # <<>>
  PROVE  /\ Head(q) = q[1] /\ Head(q) \in S /\ Tail(q) \in Seq(S) /\ Len(Tail(q)) = Len(q) - 1
         /\ Len(q) \in Nat \ {0} /\ \A i \in 1..Len(Tail(q)) : Tail(q)[i] = q[i + 1]
<1>1. Len(q) \in Nat \ {0}
  BY EmptySeq
<1>2. Head(q) = q[1] /\ Head(q) \in S
  BY <1>1, ElementOfSeq
<1>3. /\ Tail(q) \in Seq(S) /\ Len(Tail(q)) = Len(q) - 1
      /\ \A i \in 1..Len(Tail(q)) : Tail(q)[i] = q[i + 1]
  BY <1>1, HeadTailProperties
<1> QED BY <1>1, <1>2, <1>3

LEMMA AcceptConnectionKeeps ==
  ASSUME SdInv, Careful, NEW t \in Threads, AcceptConnection(t)
  PROVE  SdInv'
<1> USE DEF DispatchLabels
<1>1. /\ UNCHANGED <<flags, serverTid, reg, open, pol, ready, ret, freed, clbk, caller, from,
                     saved,
                     fin, permits, tmp, clientAddr, pols, stps>>
      /\ pc[t] = "accept"
  BY DEF AcceptConnection, objVars, localVars, wrapVars, callVars, pairVars, Goto
<1>2. GetTypeOK /\ LinkInv /\ CallInv /\ CreateInv
  BY DEF SdInv, SdFacts
<1>3. \A u \in Threads : PlaceInv(u)
  BY DEF SdInv, SdFacts
<1>4. CASE queue = <<>> /\ Goto(t, "accept", "leave") /\ UNCHANGED <<got, queue, backlog>>
  <2>1. KeepsQueue /\ UNCHANGED coreVars
    BY <1>1, <1>4 DEF KeepsQueue, coreVars, callVars, pairVars
  <2>2. InnerStep(t, "accept", "leave")
    BY <1>1, <1>2, <1>4, PolStays DEF InnerStep, InLoop, LoopLabels, SocketLabels, GetTypeOK,
       BaseTypeOK
  <2> QED BY <1>1, <2>1, <2>2, LoopStep
<1>5. CASE /\ queue # <<>> /\ Goto(t, "accept", "call")
           /\ got' = [got EXCEPT ![t] = Head(queue)]
           /\ queue' = Tail(queue) /\ backlog' = backlog - 1
  <2>1. PICK S : S = Ports \cup {Client}
    OBVIOUS
  <2>2. queue \in Seq(S) /\ Len(queue) = backlog
    BY <1>2, <2>1 DEF GetTypeOK
  <2>3. /\ Head(queue) = queue[1] /\ Head(queue) \in S /\ Tail(queue) \in Seq(S)
        /\ Len(Tail(queue)) = Len(queue) - 1 /\ Len(queue) \in Nat \ {0}
        /\ \A i \in 1..Len(Tail(queue)) : Tail(queue)[i] = queue[i + 1]
    BY <1>5, <2>2, TailIs
  <2>4. PICK x \in Ports \cup {Client} : x = queue[1] /\ got' = [got EXCEPT ![t] = x]
    BY <1>5, <2>1, <2>3
  <2>5. x # NoAddr /\ got[t] = NoAddr /\ got'[t] = x /\ \A u \in Threads \ {t} : got'[u] = got[u]
    BY <1>1, <1>2, <1>3, <2>4, Distinct DEF PlaceInv, GetTypeOK
  <2>6. backlog' \in 0..MaxClients
    BY <1>2, <1>5, <2>2, <2>3, Distinct DEF GetTypeOK, BaseTypeOK
  <2>7. got' \in [Threads -> Ports \cup {NoAddr, Client}]
    BY <1>2, <2>4 DEF GetTypeOK
  <2>8. "call" \in SdLabels
    BY DEF SdLabels
  <2>9. pc' \in [Threads -> SdLabels] /\ pc'[t] = "call" /\ \A u \in Threads \ {t} : pc'[u] = pc[u]
    BY <1>2, <1>5, <2>8, Jumps
  <2>10. GetTypeOK'
    BY <1>1, <1>2, <1>5, <2>1, <2>2, <2>3, <2>6, <2>7, <2>9 DEF GetTypeOK, BaseTypeOK, SdLabels
  <2>11. LinkInv'
    <3>1. /\ \A i \in 1..Len(queue') : i + 1 \in 1..Len(queue) /\ queue'[i] = queue[i + 1] /\ i + 1 # 1
          /\ \A i, j \in 1..Len(queue') : i + 1 = j + 1 => i = j
          /\ 1 \in 1..Len(queue)
      BY <1>5, <2>3
    <3>2. NoOwn => NoOwn'
      BY <2>4, <2>5, <3>1 DEF NoOwn
    <3>3. OneOwn'
      <4>1. OneOwn
        BY <1>2 DEF LinkInv
      <4>2. ASSUME NEW i \in 1..Len(queue'), queue'[i] \in Ports
            PROVE  /\ queue'[i] = clientAddr'
                   /\ \A j \in 1..Len(queue') : queue'[j] \in Ports => i = j
                   /\ \A u \in Threads : got'[u] \notin Ports
        <5>1. queue[i + 1] \in Ports /\ queue[i + 1] = queue'[i] /\ i + 1 \in 1..Len(queue)
          BY <3>1, <4>2
        <5>2. /\ queue[i + 1] = clientAddr /\ x \notin Ports
              /\ \A j \in 1..Len(queue) : queue[j] \in Ports => i + 1 = j
              /\ \A u \in Threads : got[u] \notin Ports
          BY <2>4, <3>1, <4>1, <5>1 DEF OneOwn
        <5> QED BY <1>1, <2>5, <3>1, <5>1, <5>2
      <4>3. ASSUME NEW u \in Threads, got'[u] \in Ports
            PROVE  got'[u] = clientAddr' /\ \A v \in Threads : got'[v] \in Ports => u = v
        <5>1. CASE x \in Ports
          <6>1. x = clientAddr /\ \A v \in Threads : got[v] \notin Ports
            BY <2>4, <3>1, <4>1, <5>1 DEF OneOwn
          <6> QED BY <1>1, <2>5, <4>3, <6>1
        <5>2. CASE x \notin Ports
          BY <1>1, <2>5, <4>1, <4>3, <5>2 DEF OneOwn
        <5> QED BY <5>1, <5>2
      <4> QED BY <4>2, <4>3 DEF OneOwn
    <3> QED BY <1>1, <1>2, <3>2, <3>3 DEF LinkInv, Wanted
  <2>12. CreateInv'
    BY <1>1, <1>2 DEF CreateInv
  <2>13. DispatchStep(t, "accept", "call")
    BY <1>1, <1>2, <1>5, <2>5, <2>7 DEF DispatchStep, GetTypeOK, BaseTypeOK
  <2>14. WrapperStep
    <3>1. clbk = "extra" => flags["shouldRun"] /\ fin # "posted"
      BY <1>2, Distinct DEF CallInv, BeforeRun, AfterLoop, GetTypeOK, SdLabels, GetLabels
    <3>2. \A u \in Threads : pc'[u] = "finish" => pc[u] = "finish"
      BY <2>9
    <3>3. Wanted' = Wanted
      BY <1>1 DEF Wanted
    <3> QED BY <1>1, <1>3, <3>1, <3>2, <3>3 DEF WrapperStep, PlaceInv
  <2> QED BY <1>1, <2>10, <2>11, <2>12, <2>13, <2>14, DispatchStepKeeps
<1> QED BY <1>4, <1>5 DEF AcceptConnection

(* Any connection that the wrapper does not know goes to the application.  *)
LEMMA PassOnKeeps ==
  ASSUME SdInv, Careful, NEW t \in Threads, PassOn(t)
  PROVE  SdInv'
<1> USE DEF DispatchLabels
<1>1. /\ UNCHANGED <<flags, serverTid, reg, open, backlog, pol, ready, ret, freed, queue, clbk,
                     caller,
                     from, saved, fin, permits, tmp, clientAddr, pols, stps>>
      /\ Goto(t, "call", "cb") /\ got' = [got EXCEPT ![t] = NoAddr]
  BY DEF PassOn, objVars, netVars, localVars, callVars, pairVars
<1>2. GetTypeOK /\ LinkInv /\ CallInv /\ CreateInv
  BY DEF SdInv, SdFacts
<1>3. \A u \in Threads : PlaceInv(u)
  BY DEF SdInv, SdFacts
<1>4. "cb" \in SdLabels
  BY DEF SdLabels, SyncLabels, BaseLabels, RunLabels, LoopLabels
<1>5. pc' \in [Threads -> SdLabels] /\ pc'[t] = "cb" /\ \A u \in Threads \ {t} : pc'[u] = pc[u]
  BY <1>1, <1>2, <1>4, Jumps
<1>6. /\ got' \in [Threads -> Ports \cup {NoAddr, Client}] /\ got'[t] = NoAddr
      /\ \A u \in Threads \ {t} : got'[u] = got[u]
  BY <1>1, <1>2 DEF GetTypeOK
<1>7. GetTypeOK'
  BY <1>1, <1>2, <1>5, <1>6 DEF GetTypeOK, BaseTypeOK, SdLabels
<1>8. LinkInv'
  BY <1>1, <1>2, <1>6, Distinct DEF LinkInv, NoOwn, OneOwn, Wanted
<1>9. CreateInv'
  BY <1>1, <1>2 DEF CreateInv
<1>10. DispatchStep(t, "call", "cb")
  BY <1>1, <1>2, <1>6 DEF DispatchStep, GetTypeOK, BaseTypeOK
<1>11. WrapperStep
  <2>1. clbk = "extra" => flags["shouldRun"] /\ fin # "posted"
    BY <1>2, Distinct DEF CallInv, BeforeRun, AfterLoop, GetTypeOK, SdLabels, GetLabels
  <2>2. \A u \in Threads : pc'[u] = "finish" => pc[u] = "finish"
    BY <1>5
  <2>3. Wanted' = Wanted
    BY <1>1 DEF Wanted
  <2> QED BY <1>1, <1>3, <2>1, <2>2, <2>3 DEF WrapperStep, PlaceInv
<1> QED BY <1>1, <1>7, <1>8, <1>9, <1>10, <1>11, DispatchStepKeeps

(* A connection of the temporary thread in a callback is the one it waits  *)
(* for, and its pol socket is not stored yet.                              *)
LEMMA OwnAwaited ==
  ASSUME SdInv, NEW t \in Threads, got[t] \in Ports
  PROVE  /\ got[t] = clientAddr /\ (clbk = "extra" \/ pc[caller] = "getClbk")
         /\ tmp = "wait" /\ permits = 0 /\ pols = stps
         /\ Len(pols) < Wanted /\ caller # NoTid
         /\ \A i \in 1..Len(queue) : queue[i] \notin Ports
         /\ \A u \in Threads \ {t} : got[u] \notin Ports /\ pc[u] # "finish"
<1> USE DEF SdInv, SdFacts
<1>1. /\ got[t] = clientAddr /\ \A i \in 1..Len(queue) : queue[i] \notin Ports
      /\ \A u \in Threads \ {t} : got[u] \notin Ports
  BY DEF LinkInv, OneOwn
<1>2. tmp = "wait" /\ permits = 0 /\ pols = stps /\ Len(pols) < Wanted
  BY DEF LinkInv, NoOwn
<1>3. caller # NoTid /\ caller \in Threads
  BY <1>2 DEF CallInv, GetTypeOK
<1>4. Len(pols) # Wanted
  <2>1. Len(pols) \in Nat /\ Wanted \in Nat
    BY Distinct DEF GetTypeOK
  <2> QED BY <1>2, <2>1
<1>5. clbk = "extra" \/ pc[caller] = "getClbk"
  BY <1>2, <1>3, <1>4 DEF CallInv, GetTypeOK, SdLabels, GetLabels, BeforeRun, AfterLoop
<1>6. \A u \in Threads : pc[u] # "finish"
  BY <1>4 DEF PlaceInv
<1> QED BY <1>1, <1>2, <1>3, <1>5, <1>6

(* The wrapper keeps the connection it knows.                              *)
LEMMA KeepOwnKeeps ==
  ASSUME SdInv, Careful, NEW t \in Threads, KeepOwn(t)
  PROVE  SdInv'
<1> USE DEF DispatchLabels
<1>1. PICK b \in {"finish", "leave"} :
      /\ Goto(t, "call", b) /\ b = IF Len(pols) + 1 >= Wanted THEN "finish" ELSE "leave"
      /\ pols' = Append(pols, got[t]) /\ permits' = permits + 1
      /\ IF from = "create" THEN open' = open \cup {"pol"} /\ pol' = 0
                            ELSE UNCHANGED <<open, pol>>
      /\ got' = [got EXCEPT ![t] = NoAddr]
      /\ got[t] = clientAddr /\ clbk = "extra"
      /\ UNCHANGED <<flags, serverTid, reg, backlog, ready, ret, freed, queue, clbk, caller,
                     from, saved, fin, tmp, clientAddr, stps>>
  BY DEF KeepOwn, Recognises, Signals, objVars, localVars, wrapVars, callVars
<1>2. GetTypeOK /\ LinkInv /\ CallInv /\ CreateInv
  BY DEF SdInv, SdFacts
<1>3. \A u \in Threads : PlaceInv(u)
  BY DEF SdInv, SdFacts
<1>4. b \in SdLabels
  BY DEF SdLabels, SyncLabels, BaseLabels, RunLabels, LoopLabels
<1>5. /\ pc' \in [Threads -> SdLabels] /\ pc[t] = "call" /\ pc'[t] = b
      /\ \A u \in Threads \ {t} : pc'[u] = pc[u]
  BY <1>1, <1>2, <1>4, Jumps
<1>6. got[t] \in Ports
  <2>1. got[t] # NoAddr
    BY <1>3, <1>5 DEF PlaceInv
  <2> QED BY <1>1, <1>2, <2>1 DEF GetTypeOK
<1>7. /\ clbk = "extra" /\ tmp = "wait" /\ permits = 0 /\ pols = stps
      /\ Len(pols) < Wanted /\ caller # NoTid
      /\ \A i \in 1..Len(queue) : queue[i] \notin Ports
      /\ \A u \in Threads \ {t} : got[u] \notin Ports /\ pc[u] # "finish"
  BY <1>1, <1>6, OwnAwaited
<1>8. /\ got' \in [Threads -> Ports \cup {NoAddr, Client}] /\ got'[t] = NoAddr
      /\ \A u \in Threads \ {t} : got'[u] = got[u]
  BY <1>1, <1>2 DEF GetTypeOK
<1>9. pols' \in Seq(Ports) /\ Len(pols') = Len(pols) + 1 /\ Len(pols) \in Nat /\ pols' # <<>>
  <2>1. pols \in Seq(Ports)
    BY <1>2 DEF GetTypeOK
  <2> QED BY <1>1, <1>6, <2>1, EmptySeq
<1>10. permits' = 1 /\ permits' \in 0..Count
  BY <1>1, <1>7, Distinct
<1>11. GetTypeOK'
  <2>1. open \subseteq Sockets /\ pol \in 0..PolCap /\ 0 \in 0..PolCap
    BY <1>2, Distinct DEF GetTypeOK, BaseTypeOK
  <2>2. open' \subseteq Sockets /\ pol' \in 0..PolCap
    <3>1. CASE from = "create"
      BY <1>1, <2>1, <3>1 DEF Sockets
    <3>2. CASE from # "create"
      BY <1>1, <2>1, <3>2
    <3> QED BY <3>1, <3>2
  <2> QED BY <1>1, <1>2, <1>5, <1>8, <1>9, <1>10, <2>2 DEF GetTypeOK, BaseTypeOK, SdLabels
<1>12. LinkInv'
  <2>1. NoOwn'
    BY <1>1, <1>7, <1>8, Distinct DEF NoOwn
  <2>2. OneOwn'
    BY <2>1 DEF NoOwn, OneOwn
  <2>3. clientAddr' \in Ports /\ pols' = Append(stps', clientAddr') /\ Len(stps') < Wanted'
    BY <1>1, <1>6, <1>7 DEF Wanted
  <2> QED BY <1>1, <1>7, <1>10, <2>1, <2>2, <2>3 DEF LinkInv
<1>13. CreateInv'
  BY <1>1, <1>2 DEF CreateInv
<1>14. DispatchStep(t, "call", b)
  BY <1>1, <1>2, <1>8 DEF DispatchStep, GetTypeOK, BaseTypeOK
<1>15. WrapperStep
  <2>1. flags["shouldRun"] /\ fin # "posted"
    BY <1>2, <1>7, Distinct DEF CallInv, BeforeRun, AfterLoop, GetTypeOK, SdLabels, GetLabels
  <2>2. b = "finish" => Len(pols') = Wanted'
    <3>1. Wanted' = Wanted /\ Wanted \in Nat
      BY <1>1, Distinct DEF Wanted
    <3> QED BY <1>1, <1>7, <1>9, <3>1
  <2>3. Wanted' = Wanted
    BY <1>1 DEF Wanted
  <2> QED BY <1>1, <1>5, <1>7, <2>1, <2>2, <2>3 DEF WrapperStep
<1> QED BY <1>1, <1>7, <1>11, <1>12, <1>13, <1>14, <1>15, DispatchStepKeeps

(* With the last one the callback of the application is put back.          *)
LEMMA FinishKeeps ==
  ASSUME SdInv, Careful, NEW t \in Threads, Finish(t)
  PROVE  SdInv'
<1> USE DEF DispatchLabels
<1>1. /\ Goto(t, "finish", "leave") /\ clbk' = "app"
      /\ UNCHANGED <<serverTid, open, backlog, ready, ret, freed, queue, got, caller, from,
                     saved,
                     permits, tmp, clientAddr, pols, stps>>
  BY DEF Finish, AppCallback, localVars, pairVars
<1>2. GetTypeOK /\ LinkInv /\ CallInv /\ CreateInv
  BY DEF SdInv, SdFacts
<1>3. \A u \in Threads : PlaceInv(u)
  BY DEF SdInv, SdFacts
<1>4. "leave" \in SdLabels
  BY DEF SdLabels, SyncLabels, BaseLabels, RunLabels, LoopLabels
<1>5. /\ pc' \in [Threads -> SdLabels] /\ pc[t] = "finish" /\ pc'[t] = "leave"
      /\ \A u \in Threads \ {t} : pc'[u] = pc[u]
  BY <1>1, <1>2, <1>4, Jumps
<1>6. /\ clbk = "extra" /\ Len(pols) = Wanted /\ got[t] = NoAddr
      /\ \A u \in Threads : pc'[u] # "finish"
  BY <1>3, <1>5 DEF PlaceInv
<1>7. /\ flags' \in Word /\ reg' \in [Threads -> Word \cup {NoWord}]
      /\ \A f \in FlagNames \ {"shouldRun"} : flags'[f] = flags[f]
      /\ flags'["shouldRun"] => flags["shouldRun"]
  <2>1. CASE UNCHANGED <<flags, reg>>
    BY <1>2, <2>1 DEF GetTypeOK, BaseTypeOK
  <2>2. CASE SetFlag(t, "shouldRun", FALSE)
    BY <1>2, <2>2, StoresFlag DEF FlagNames
  <2> QED BY <2>1, <2>2 DEF Finish
<1>8. pol' \in 0..PolCap
  <2>1. CASE pol' = pol
    BY <1>2, <2>1 DEF GetTypeOK, BaseTypeOK
  <2>2. CASE SendStop
    BY <1>2, <2>2, SendsInRange
  <2> QED BY <2>1, <2>2 DEF Finish, SendsOwnStop
<1>9. fin' \in {"none", "made", "posted"}
  BY <1>2 DEF Finish, GetTypeOK
<1>10. GetTypeOK'
  BY <1>1, <1>2, <1>5, <1>7, <1>8, <1>9 DEF GetTypeOK, BaseTypeOK, SdLabels
<1>11. LinkInv'
  BY <1>1, <1>2, LinkKept
<1>12. CreateInv'
  <2>1. SUFFICES ASSUME from = "create", pols # <<>> PROVE pol' \in {0, 1}
    BY <1>1, <1>2 DEF CreateInv
  <2>2. pol = 0 /\ PolCap \in Nat /\ PolCap >= 1
    BY <1>2, <1>6, <2>1, Distinct DEF CreateInv
  <2>3. pol' = pol \/ SendStop
    BY DEF Finish, SendsOwnStop
  <2>4. SendStop => pol' \in {0, 1}
    BY <2>2 DEF SendStop
  <2> QED BY <2>2, <2>3, <2>4
<1>13. DispatchStep(t, "finish", "leave")
  BY <1>1, <1>2, <1>6, <1>7 DEF DispatchStep, GetTypeOK, BaseTypeOK
<1>14. WrapperStep
  <2>1. fin' # "none" => fin # "none"
    BY DEF Finish
  <2> QED BY <1>1, <1>6, <2>1 DEF WrapperStep
<1> QED BY <1>6, <1>10, <1>11, <1>12, <1>13, <1>14, DispatchStepKeeps

LEMMA DispatchKeeps ==
  ASSUME SdInv, Careful, NEW t \in Threads, Dispatch(t)
  PROVE  SdInv'
BY AcceptConnectionKeeps, KeepOwnKeeps, PassOnKeeps, FinishKeeps DEF Dispatch

-----------------------------------------------------------------------------
(* The temporary thread.                                                   *)

LEMMA TmpStepKeeps ==
  ASSUME SdInv, tmp # "none", tmp' # "none",
         pc[caller] = "getClbk" => tmp' \in {"connect", "wait"} /\ permits' = 0,
         UNCHANGED <<flags, serverTid, pol, pc, reg, ready, ret, freed, got, clbk, caller, from,
                     saved, fin, pols>>,
         open \subseteq open', GetTypeOK', LinkInv', CreateInv'
  PROVE  SdInv'
<1> USE DEF SdInv, SdFacts
<1>1. Wanted' = Wanted
  BY DEF Wanted
<1>2. caller # NoTid
  BY DEF CallInv
<1>3. CallInv'
  BY <1>1, <1>2 DEF CallInv
<1>4. ListenInv'
  BY DEF ListenInv
<1>5. ASSUME NEW u \in Threads PROVE PlaceInv(u)'
  BY <1>1 DEF PlaceInv
<1> QED BY <1>3, <1>4, <1>5

(* Its connection joins a queue without any of its connections.            *)
LEMMA ConnectKeeps ==
  ASSUME SdInv, Careful, Connect, mishaps' \cap Faults = {}
  PROVE  SdInv'
<1> USE DEF SdInv, SdFacts
<1>0. PICK p \in FreePorts, faults \in SUBSET ConnectFaults :
      /\ queue' = Append(queue, p)
      /\ clientAddr' = IF "unbound" \in faults THEN NoAddr ELSE p
      /\ tmp' = IF "abandons" \in faults THEN "connect" ELSE "wait"
      /\ mishaps' = mishaps \cup faults
  BY DEF Connect
<1>1. /\ tmp = "connect" /\ Len(queue) < MaxClients
      /\ queue' = Append(queue, p) /\ clientAddr' = p /\ backlog' = backlog + 1 /\ tmp' = "wait"
      /\ UNCHANGED <<flags, serverTid, reg, open, pol, pc, ready, ret, freed, got, clbk,
                     caller, from,
                     saved, fin, permits, pols, stps>>
  BY <1>0, StopperDataAssumption DEF Connect, Faults, objVars, localVars, callVars
<1>2. /\ permits = 0 /\ pols = stps /\ NoOwn /\ Len(stps) < Wanted
  BY <1>1 DEF LinkInv
<1>3. p \in Ports
  BY DEF FreePorts
<1>4. /\ queue \in Seq(Ports \cup {Client}) /\ Len(queue) = backlog /\ backlog \in 0..MaxClients
      /\ MaxClients \in Nat
  BY Distinct DEF GetTypeOK, BaseTypeOK
<1>5. /\ queue' \in Seq(Ports \cup {Client}) /\ Len(queue') = backlog'
      /\ backlog' \in 0..MaxClients
      /\ Len(queue') = Len(queue) + 1 /\ Len(queue) \in Nat
      /\ \A i \in 1..Len(queue) : queue'[i] = queue[i]
      /\ queue'[Len(queue) + 1] = p
  BY <1>1, <1>3, <1>4
<1>6. GetTypeOK'
  BY <1>1, <1>3, <1>5 DEF GetTypeOK, BaseTypeOK
<1>7. \A i \in 1..Len(queue') : queue'[i] \in Ports => i = Len(queue) + 1
  BY <1>2, <1>5 DEF NoOwn
<1>8. OneOwn'
  BY <1>1, <1>2, <1>5, <1>7 DEF OneOwn, NoOwn
<1>9. LinkInv'
  <2>1. Wanted' = Wanted
    BY <1>1 DEF Wanted
  <2> QED BY <1>1, <1>2, <1>3, <1>8, <2>1 DEF LinkInv
<1>10. CreateInv'
  BY <1>1 DEF CreateInv
<1> QED BY <1>1, <1>2, <1>6, <1>9, <1>10, TmpStepKeeps

(* It is told that its connection was accepted, and stores the stp socket. *)
LEMMA AcceptAwaitedKeeps ==
  ASSUME SdInv, Careful, AcceptAwaited
  PROVE  SdInv'
<1> USE DEF SdInv, SdFacts
<1>1. /\ tmp = "wait" /\ permits > 0 /\ permits' = permits - 1 /\ tmp' = "store"
      /\ UNCHANGED <<flags, serverTid, open, backlog, pol, pc, reg, ready, ret, freed, queue,
                     got,
                     clbk, caller, from, saved, fin, clientAddr, pols, stps>>
  BY DEF AcceptAwaited, vars, baseVars, wrapVars, callVars
<1>2. /\ permits = 1 /\ NoOwn /\ pols = Append(stps, clientAddr)
  BY <1>1 DEF LinkInv
<1>3. permits' = 0 /\ permits' \in 0..Count
  BY <1>1, <1>2, Distinct
<1>4. GetTypeOK'
  BY <1>1, <1>3 DEF GetTypeOK, BaseTypeOK
<1>5. LinkInv'
  BY <1>1, <1>2, <1>3 DEF LinkInv, NoOwn, OneOwn, Wanted
<1>6. CreateInv'
  BY <1>1 DEF CreateInv
<1>7. pc[caller] # "getClbk"
  BY <1>1 DEF CallInv
<1> QED BY <1>1, <1>4, <1>5, <1>6, <1>7, TmpStepKeeps

LEMMA StoreStpKeeps ==
  ASSUME SdInv, Careful, StoreStp
  PROVE  SdInv'
<1> USE DEF SdInv, SdFacts
<1>1. /\ tmp = "store" /\ stps' = Append(stps, clientAddr)
      /\ tmp' = IF Len(stps') < Wanted THEN "connect" ELSE "done"
      /\ clientAddr' = IF Len(stps') < Wanted THEN NoAddr ELSE clientAddr
      /\ open' = IF from = "create" THEN open \cup {"stp"} ELSE open
      /\ UNCHANGED <<flags, serverTid, reg, backlog, pol, pc, ready, ret, freed, queue, got,
                     clbk,
                     caller, from, saved, fin, permits, pols>>
  BY DEF StoreStp, objVars, localVars, wrapVars, callVars
<1>2. /\ NoOwn /\ pols = Append(stps, clientAddr) /\ permits = 0 /\ clientAddr \in Ports
      /\ Len(stps) < Wanted /\ Wanted \in Nat /\ Wanted' = Wanted
  BY <1>1, Distinct DEF LinkInv, Wanted
<1>3. stps' \in Seq(Ports) /\ Len(stps') = Len(stps) + 1 /\ Len(stps) \in Nat /\ stps' = pols
  BY <1>1, <1>2 DEF GetTypeOK
<1>4. GetTypeOK'
  <2>1. /\ tmp' \in {"none", "connect", "wait", "store", "done"}
        /\ clientAddr' \in Ports \cup {NoAddr}
    BY <1>1, <1>2
  <2>2. open' \subseteq Sockets
    BY <1>1 DEF GetTypeOK, BaseTypeOK, Sockets
  <2> QED BY <1>1, <1>3, <2>1, <2>2 DEF GetTypeOK, BaseTypeOK
<1>5. LinkInv'
  <2>1. NoOwn' /\ OneOwn'
    BY <1>1, <1>2 DEF NoOwn, OneOwn
  <2>2. /\ tmp' \in {"connect", "done"}
        /\ tmp' = "connect" => clientAddr' = NoAddr /\ Len(stps') < Wanted
    BY <1>1
  <2>3. tmp' = "done" => Len(pols') = Wanted
    BY <1>1, <1>2, <1>3
  <2> QED BY <1>1, <1>2, <1>3, <2>1, <2>2, <2>3 DEF LinkInv
<1>6. CreateInv'
  <2>1. "stp" \in open' \/ from # "create"
    BY <1>1
  <2> QED BY <1>1, <2>1 DEF CreateInv
<1>7. pc[caller] # "getClbk"
  BY <1>1 DEF CallInv
<1>8. tmp' # "none" /\ open \subseteq open'
  BY <1>1
<1> QED BY <1>1, <1>4, <1>5, <1>6, <1>7, <1>8, TmpStepKeeps

-----------------------------------------------------------------------------
(* The invariant, and what follows from it.                                *)

(* No server, no connection, no call.                                      *)
LEMMA SdInitInv ==
  ASSUME Careful, SdInit
  PROVE  SdInv
<1>1. /\ flags = AllFalse /\ serverTid = NoTid /\ open = {} /\ backlog = 0 /\ pol = 0
      /\ reg = [t \in Threads |-> NoWord] /\ ready = [t \in Threads |-> {}]
      /\ ret = [t \in Threads |-> "idle"] /\ pc = [t \in Threads |-> "idle"] /\ freed = FALSE
      /\ queue = <<>> /\ got = [t \in Threads |-> NoAddr] /\ clbk = "app"
      /\ caller = NoTid /\ from = "idle" /\ fin = "none"
      /\ saved = [word |-> AllFalse, tid |-> NoTid]
      /\ permits = 0 /\ tmp = "none" /\ clientAddr = NoAddr /\ pols = <<>> /\ stps = <<>>
  BY DEF SdInit, Init, BaseInit, GetInit
<1>2. AllFalse \in Word /\ \A f \in FlagNames : ~AllFalse[f]
  BY DEF AllFalse, Word
<1>3. BaseTypeOK
  BY <1>1, <1>2, Distinct DEF BaseTypeOK, ReturnLabels
<1>4. GetTypeOK
  <2>1. /\ queue \in Seq(Ports \cup {Client}) /\ Len(queue) = backlog
        /\ pols \in Seq(Ports) /\ stps \in Seq(Ports)
    BY <1>1, EmptySeq
  <2>2. permits \in 0..Count
    BY <1>1, Distinct
  <2>3. saved \in [word : Word, tid : Threads \cup {NoTid}]
    BY <1>1, <1>2
  <2>4. pc \in [Threads -> SyncLabels \cup GetLabels \cup DispatchLabels]
    BY <1>1 DEF SyncLabels, BaseLabels
  <2> QED BY <1>1, <1>3, <2>1, <2>2, <2>3, <2>4 DEF GetTypeOK
<1>5. LinkInv
  BY <1>1, Distinct DEF LinkInv, OneOwn, NoOwn
<1>6. CallInv /\ CreateInv
  BY <1>1 DEF CallInv, CreateInv
<1>7. ListenInv
  BY <1>1, <1>2 DEF ListenInv, FlagNames
<1>8. ASSUME NEW u \in Threads PROVE PlaceInv(u)
  BY <1>1 DEF PlaceInv, GetLabels, SocketLabels
<1> QED BY <1>4, <1>5, <1>6, <1>7, <1>8 DEF SdInv, SdFacts

LEMMA SdStep ==
  ASSUME Careful, SdInv, [SdNext]_sdVars, mishaps' \cap Faults = {}
  PROVE  SdInv'
<1>1. CASE UNCHANGED sdVars
  <2>1. UNCHANGED <<flags, serverTid, open, backlog, pol, pc, reg, ready, ret, freed, queue,
                    got, clbk,
                    caller, from, saved, fin, permits, tmp, clientAddr, pols, stps>>
    BY <1>1 DEF sdVars, vars, baseVars, getVars, wrapVars, callVars, pairVars
  <2>2. GetTypeOK'
    BY <2>1 DEF SdInv, GetTypeOK, BaseTypeOK
  <2>3. LinkInv'
    BY <2>1, LinkKept DEF SdInv, SdFacts
  <2>4. CallInv' /\ ListenInv' /\ CreateInv'
    BY <2>1 DEF SdInv, SdFacts, CallInv, ListenInv, CreateInv, Wanted
  <2>5. ASSUME NEW u \in Threads PROVE PlaceInv(u)'
    BY <2>1 DEF SdInv, SdFacts, PlaceInv, Wanted
  <2> QED BY <2>2, <2>3, <2>4, <2>5 DEF SdInv, SdFacts
<1>2. CASE \E t \in Threads : CallGet(t) \/ CallCreate(t) \/ ChangeAcceptCallback(t) \/ SyncCalls(t)
  BY <1>2, CallGetKeeps, CallCreateKeeps, ChangeKeeps, CallsBegin
<1>3. CASE \E t \in Threads : Get(t) \/ Dispatch(t) \/ SyncSteps(t) \/ Interrupted(t)
  BY <1>3, GetKeeps, DispatchKeeps, SyncStepsKeep, InterruptedKeeps
<1>4. CASE TmpThread
  BY <1>4, ConnectKeeps, AcceptAwaitedKeeps, StoreStpKeeps DEF TmpThread
<1>5. CASE ClientArrives \/ ClientGivesUp
  BY <1>5, ArrivalKeeps, GivesUpKeeps
<1>6. CASE Deleted
  <2>1. UNCHANGED sdVars
    BY <1>6 DEF Deleted, Finished, sdVars
  <2> QED BY <1>1, <2>1
<1> QED BY <1>1, <1>2, <1>3, <1>4, <1>5, <1>6 DEF SdNext

(* At the end of the call both ends of every connection are stored.        *)
LEMMA PairsFollow ==
  ASSUME SdInv
  PROVE  PairsConnected /\ NotBlockedOnDestroyed
<1> USE DEF SdInv, SdFacts
<1>1. SUFFICES ASSUME NEW t \in Threads, pc[t] = "getJoin"
               PROVE  /\ tmp = "done" => /\ stps = pols /\ Len(pols) = Wanted
                                         /\ from = "create" => open = Sockets /\ pol <= 1
                      /\ tmp = "wait" => permits > 0
  BY DEF PairsConnected, NotBlockedOnDestroyed
<1>2. /\ caller = t /\ Len(pols) = Wanted /\ flags["isCreated"] /\ ~flags["hasError"]
  BY <1>1, CallerIs DEF CallInv, AfterLoop, GetLabels
<1>3. Wanted \in Nat /\ Wanted >= 1
  BY Distinct
<1>4. tmp = "wait" => permits > 0
  BY <1>2, <1>3 DEF LinkInv
<1>5. tmp = "done" => stps = pols
  BY DEF LinkInv
<1>6. ASSUME tmp = "done", from = "create" PROVE open = Sockets /\ pol <= 1
  <2>1. pols # <<>> /\ stps # <<>>
    BY <1>2, <1>3, <1>5, <1>6, EmptySeq
  <2>2. "pol" \in open /\ "stp" \in open /\ pol \in {0, 1}
    BY <1>6, <2>1 DEF CreateInv
  <2>3. "serv" \in open
    BY <1>2 DEF ListenInv
  <2>4. open \subseteq Sockets
    BY DEF GetTypeOK, BaseTypeOK
  <2>5. open = Sockets
    BY <2>2, <2>3, <2>4 DEF Sockets
  <2>6. pol <= 1
    BY <2>2
  <2> QED BY <2>5, <2>6
<1> QED BY <1>2, <1>4, <1>5, <1>6

(* A step of tcp_server_sync moves one thread, from a label of its own; a  *)
(* callback only returns.                                                  *)
LEMMA RunJumps ==
  ASSUME GetTypeOK, NEW t \in Threads, Run(t) \/ PollInterrupted(t)
  PROVE  /\ pc[t] # "call" /\ (pc[t] = "cb" => pc'[t] = "leave")
         /\ \A u \in Threads \ {t} : pc'[u] = pc[u]
<1> USE DEF Goto, GetTypeOK
<1>1. CASE Start(t)
  BY <1>1 DEF Start, StartTest, StartRun, StartBig, CreateAndStart
<1>2. CASE StopTest(t) \/ Free(t) \/ StopCall(t, AfterStop(t))
  BY <1>2 DEF StopTest, Free, StopCall, StopRun, StopBig, StopTid, StopSelf, StopSend, StopWait
<1>3. CASE DestroyCall(t, AfterDestroy(t))
  BY <1>3 DEF DestroyCall, DestroyTest, CloseAll
<1>4. CASE AcceptLoop(t) \/ PollInterrupted(t)
  BY <1>4 DEF AcceptLoop, RunTid, RunMark, LoopTest, Enter, PollReady, Woke, Drain, Accept,
     CallbackReturns, Leave, BigTest, Unmark, PollInterrupted
<1>5. CASE ClearTid(t, "idle") \/ LoadFlags(t)
  BY <1>5, StopperDataAssumption DEF ClearTid, LoadFlags
<1> QED BY <1>1, <1>2, <1>3, <1>4, <1>5 DEF Run, Stop

(* Only PassOn takes a thread from the wrapper to the callback of the      *)
(* application.                                                            *)
LEMMA JumpsFromCall ==
  ASSUME GetTypeOK, NEW t \in Threads, pc[t] = "call", NEW u \in Threads, NEW a, NEW b,
         Goto(u, a, b), a # "call"
  PROVE  pc'[t] = "call"
BY DEF Goto, GetTypeOK

LEMMA PassesOn ==
  ASSUME GetTypeOK, NEW t \in Threads, pc[t] = "call", pc'[t] = "cb", SdNext
  PROVE  PassOn(t)
<1>1. ASSUME NEW u \in Threads, CallGet(u) \/ CallCreate(u) \/ ChangeAcceptCallback(u)
      PROVE  FALSE
  <2>1. CASE CallGet(u)
    <3>1. PICK a \in {"idle", "cb"} : Goto(u, a, "get")
      BY <2>1 DEF CallGet
    <3> QED BY <3>1, JumpsFromCall
  <2>2. CASE CallCreate(u)
    BY <2>2, JumpsFromCall DEF CallCreate, CreateRawFails
  <2>3. CASE ChangeAcceptCallback(u)
    BY <2>3 DEF ChangeAcceptCallback, vars, baseVars
  <2> QED BY <1>1, <2>1, <2>2, <2>3
<1>2. ASSUME NEW u \in Threads, SyncCalls(u)
      PROVE  FALSE
  BY <1>2, JumpsFromCall DEF SyncCalls, CallStart, CallStop, CallDestroy, CallDelete,
     CallbackCalls,
     CallReturningTo
<1>3. ASSUME NEW u \in Threads, Get(u)
      PROVE  FALSE
  <2>1. CASE GetFails(u) \/ GetReturns(u)
    BY <2>1 DEF GetFails, GetReturns, EndsCall, GetTypeOK
  <2>2. CASE GetClbk(u)
    <3>1. PICK b : Goto(u, "getClbk", b)
      BY <2>2 DEF GetClbk
    <3> QED BY <3>1, JumpsFromCall
  <2>3. CASE GetTest(u) \/ GetSave(u) \/ GetRun(u) \/ GetRestore(u) \/ GetTid(u)
    BY <2>3, JumpsFromCall DEF GetTest, GetSave, GetRun, GetRestore, GetTid
  <2> QED BY <1>3, <2>1, <2>2, <2>3 DEF Get
<1>4. ASSUME NEW u \in Threads, Dispatch(u)
      PROVE  PassOn(t)
  <2>1. CASE AcceptConnection(u) \/ Finish(u)
    BY <2>1, JumpsFromCall DEF AcceptConnection, Finish
  <2>2. CASE KeepOwn(u)
    <3>1. PICK b \in {"finish", "leave"} : Goto(u, "call", b)
      BY <2>2 DEF KeepOwn
    <3> QED BY <3>1 DEF Goto, GetTypeOK
  <2>3. CASE PassOn(u)
    BY <2>3 DEF PassOn, Goto, GetTypeOK
  <2> QED BY <1>4, <2>1, <2>2, <2>3 DEF Dispatch
<1>5. ASSUME NEW u \in Threads, Run(u) \/ PollInterrupted(u)
      PROVE  FALSE
  BY <1>5, RunJumps
<1>6. ASSUME TmpThread \/ ClientArrives \/ ClientGivesUp \/ Deleted
      PROVE  FALSE
  BY <1>6 DEF TmpThread, Connect, AcceptAwaited, StoreStp, ClientArrives, ClientConnects,
     ClientGivesUp, ClientAborts, Deleted, Finished, vars, baseVars
<1> QED BY <1>1, <1>2, <1>3, <1>4, <1>5, <1>6 DEF SdNext, SyncSteps, Interrupted

-----------------------------------------------------------------------------
(* Who is inside the wrapper, and the histories.                           *)

(* A step that lets nobody in.                                             *)
LEMMA NobodyEnters ==
  ASSUME InsideInv, inside' \subseteq inside, \A t \in inside' : pc'[t] = pc[t],
         caller' = NoTid => caller = NoTid, fin' = "posted" => fin = "posted",
         mishaps' \subseteq Faults \cup {"strayed"}
  PROVE  InsideInv'
BY DEF InsideInv

LEMMA CallsKeepInside ==
  ASSUME SdInv, Careful, InsideInv, NEW t \in Threads,
         CallGet(t) \/ CallCreate(t) \/ ChangeAcceptCallback(t) \/ SyncCalls(t)
  PROVE  InsideInv'
<1>1. caller = NoTid /\ fin = "none" /\ fin' = fin /\ UNCHANGED <<inside, mishaps>>
  BY DEF SdInv, SdFacts, CallInv, CallGet, CallCreate, ChangeAcceptCallback, SyncCalls, IsApart,
     Uncalled, Careful, Cares, getVars, callVars, wrapVars
<1>2. inside = {}
  BY <1>1 DEF InsideInv
<1> QED BY <1>1, <1>2 DEF InsideInv

LEMMA GetKeepsInside ==
  ASSUME SdInv, InsideInv, NEW t \in Threads, Get(t)
  PROVE  InsideInv'
<1>1. CASE GetFails(t) \/ GetReturns(t)
  BY <1>1 DEF GetFails, GetReturns, EndsCall, InsideInv
<1>2. CASE GetTest(t) \/ GetSave(t) \/ GetRun(t) \/ GetClbk(t) \/ GetRestore(t) \/ GetTid(t)
  <2>1. /\ \E b : \E a \in GetLabels \cup {"big"} : Goto(t, a, b)
        /\ UNCHANGED <<inside, mishaps, caller>>
        /\ fin' = "posted" => fin = "posted"
    BY <1>2 DEF GetTest, GetSave, GetRun, GetClbk, GetRestore, GetTid, GetLabels, wrapVars,
       callVars
  <2>2. \A u \in inside : pc'[u] = pc[u]
    BY <2>1 DEF InsideInv, SdInv, GetTypeOK, Goto, GetLabels
  <2>3. mishaps' \subseteq Faults \cup {"strayed"}
    BY <2>1 DEF InsideInv
  <2> QED BY <2>1, <2>2, <2>3, NobodyEnters
<1> QED BY <1>1, <1>2 DEF Get

(* The thread that tells the caller is the only one that serves, and it is *)
(* in the wrapper itself then.                                             *)
LEMMA FinishKeepsInside ==
  ASSUME SdInv, Careful, InsideInv, NEW t \in Threads, Finish(t)
  PROVE  InsideInv'
<1> USE DEF SdInv, SdFacts
<1>1. /\ Goto(t, "finish", "leave") /\ pc[t] = "finish"
      /\ UNCHANGED <<inside, mishaps, caller>>
      /\ fin' = "posted" => fin \in {"made", "posted"}
  BY DEF Finish, Goto
<1>2. \A u \in inside : pc'[u] = pc[u]
  BY <1>1 DEF InsideInv, GetTypeOK, Goto
<1>3. mishaps' \subseteq Faults \cup {"strayed"}
  BY <1>1 DEF InsideInv
<1>4. CASE fin' = "posted" /\ fin = "made"
  <2>1. caller # NoTid /\ pc[caller] \in GetLabels
    BY <1>4 DEF CallInv
  <2>2. \A u \in Threads : pc[u] \in {"cb", "finish"} => u # caller /\ Owner(u)
    BY <2>1 DEF PlaceInv, GetLabels
  <2>3. inside = {}
    BY <1>1, <2>2 DEF InsideInv, Careful
  <2> QED BY <1>1, <1>3, <2>3 DEF InsideInv
<1>5. CASE ~(fin' = "posted" /\ fin = "made")
  BY <1>1, <1>2, <1>3, <1>5, NobodyEnters
<1> QED BY <1>4, <1>5

LEMMA DispatchKeepsInside ==
  ASSUME SdInv, Careful, InsideInv, NEW t \in Threads, Dispatch(t)
  PROVE  InsideInv'
<1> USE DEF SdInv, SdFacts
<1>1. CASE AcceptConnection(t) \/ KeepOwn(t)
  <2>1. /\ \E b : \E a \in {"accept", "call"} : Goto(t, a, b)
        /\ UNCHANGED <<inside, mishaps, caller, fin>>
    BY <1>1 DEF AcceptConnection, KeepOwn, wrapVars, callVars
  <2>2. \A u \in inside : pc'[u] = pc[u]
    BY <2>1 DEF InsideInv, GetTypeOK, Goto
  <2>3. mishaps' \subseteq Faults \cup {"strayed"}
    BY <2>1 DEF InsideInv
  <2> QED BY <2>1, <2>2, <2>3, NobodyEnters
<1>2. CASE PassOn(t)
  <2>1. /\ Goto(t, "call", "cb") /\ UNCHANGED <<caller, fin>>
        /\ inside' \subseteq inside \cup {t} /\ (clbk # "extra" => inside' = inside)
        /\ mishaps' \subseteq mishaps \cup {"strayed"}
    BY <1>2 DEF PassOn, callVars
  <2>2. pc'[t] = "cb" /\ \A u \in Threads \ {t} : pc'[u] = pc[u]
    BY <2>1 DEF GetTypeOK, Goto
  <2>3. clbk = "extra" => caller # NoTid /\ fin # "posted"
    BY DEF CallInv
  <2> QED BY <2>1, <2>2, <2>3 DEF InsideInv
<1> QED BY <1>1, <1>2, FinishKeepsInside DEF Dispatch

LEMMA SyncStepsKeepInside ==
  ASSUME SdInv, InsideInv, NEW t \in Threads, SyncSteps(t) \/ Interrupted(t)
  PROVE  InsideInv'
<1>1. CASE SyncSteps(t)
  <2>1. /\ Run(t) /\ UNCHANGED <<mishaps, caller, fin>>
        /\ inside' = IF pc'[t] = "leave" THEN inside \ {t} ELSE inside
    BY <1>1 DEF SyncSteps, LeavesWrapper, callVars
  <2>2. \A u \in inside' : pc'[u] = pc[u]
    BY <2>1, RunJumps DEF InsideInv, SdInv
  <2>3. mishaps' \subseteq Faults \cup {"strayed"}
    BY <2>1 DEF InsideInv
  <2> QED BY <2>1, <2>2, <2>3, NobodyEnters
<1>2. CASE Interrupted(t)
  <2>1. UNCHANGED <<inside, mishaps, caller, fin>> /\ pc[t] = "poll" /\ PollInterrupted(t)
    BY <1>2 DEF Interrupted, PollInterrupted, Goto, getVars, wrapVars, callVars
  <2>2. \A u \in inside' : pc'[u] = pc[u]
    BY <2>1, RunJumps DEF InsideInv, SdInv
  <2>3. mishaps' \subseteq Faults \cup {"strayed"}
    BY <2>1 DEF InsideInv
  <2> QED BY <2>1, <2>2, <2>3, NobodyEnters
<1> QED BY <1>1, <1>2

LEMMA InsideStep ==
  ASSUME Careful, SdInv, InsideInv, [SdNext]_sdVars
  PROVE  InsideInv'
<1>1. CASE \E t \in Threads : CallGet(t) \/ CallCreate(t) \/ ChangeAcceptCallback(t) \/ SyncCalls(t)
  BY <1>1, CallsKeepInside
<1>2. CASE \E t \in Threads : Get(t) \/ Dispatch(t) \/ SyncSteps(t) \/ Interrupted(t)
  BY <1>2, GetKeepsInside, DispatchKeepsInside, SyncStepsKeepInside
<1>3. CASE TmpThread
  <2>1. UNCHANGED <<inside, pc, caller, fin>> /\ mishaps' \subseteq mishaps \cup ConnectFaults
    BY <1>3 DEF TmpThread, Connect, AcceptAwaited, StoreStp, vars, baseVars, wrapVars, callVars
  <2> QED BY <2>1, StopperDataAssumption DEF InsideInv
<1>4. CASE ClientArrives \/ ClientGivesUp \/ Deleted \/ UNCHANGED sdVars
  <2>1. UNCHANGED <<inside, pc, caller, fin, mishaps>>
    BY <1>4 DEF ClientArrives, ClientConnects, ClientGivesUp, ClientAborts, Deleted, Finished,
       objVars, sdVars, vars, baseVars, getVars, wrapVars, callVars
  <2> QED BY <2>1 DEF InsideInv
<1> QED BY <1>1, <1>2, <1>3, <1>4 DEF SdNext

(* Only a fault of ConnectV4 is noted as one, and it stays so.             *)
LEMMA FaultsGrow ==
  ASSUME [SdNext]_sdVars
  PROVE  mishaps \cap Faults \subseteq mishaps' \cap Faults
         /\ mishaps' \cap Faults \subseteq mishaps \cup ConnectFaults
<1>1. CASE \E t \in Threads : CallGet(t) \/ CallCreate(t) \/ ChangeAcceptCallback(t) \/ SyncCalls(t)
  BY <1>1 DEF CallGet, CallCreate, ChangeAcceptCallback, SyncCalls, getVars, wrapVars
<1>2. CASE \E t \in Threads : Get(t)
  BY <1>2 DEF Get, GetFails, GetReturns, EndsCall, GetTest, GetSave, GetRun, GetClbk, GetRestore,
     GetTid, wrapVars
<1>3. CASE \E t \in Threads : Dispatch(t)
  BY <1>3 DEF Dispatch, AcceptConnection, KeepOwn, PassOn, Finish, wrapVars, Faults
<1>4. CASE \E t \in Threads : SyncSteps(t) \/ Interrupted(t)
  BY <1>4 DEF SyncSteps, LeavesWrapper, Interrupted, getVars, wrapVars
<1>5. CASE TmpThread
  BY <1>5 DEF TmpThread, Connect, AcceptAwaited, StoreStp, wrapVars
<1>6. CASE ClientArrives \/ ClientGivesUp \/ Deleted \/ UNCHANGED sdVars
  BY <1>6 DEF ClientArrives, ClientGivesUp, Deleted, sdVars, getVars, wrapVars
<1> QED BY <1>1, <1>2, <1>3, <1>4, <1>5, <1>6 DEF SdNext

(* The invariants hold until ConnectV4 has met a fault.                    *)
UntilFault == mishaps \cap Faults = {} => SdInv /\ InsideInv

LEMMA UntilFaultHolds ==
  ASSUME Careful
  PROVE  SdSpec => []UntilFault
<1>1. SdInit => UntilFault
  BY SdInitInv DEF UntilFault, InsideInv, SdInit, GetInit
<1>2. UntilFault /\ [SdNext]_sdVars => UntilFault'
  <2>1. SUFFICES ASSUME UntilFault, [SdNext]_sdVars, mishaps' \cap Faults = {}
                 PROVE  SdInv' /\ InsideInv'
    BY DEF UntilFault
  <2>2. SdInv /\ InsideInv
    BY <2>1, FaultsGrow DEF UntilFault
  <2> QED BY <2>1, <2>2, SdStep, InsideStep
<1> QED BY <1>1, <1>2, PTL DEF SdSpec

(* Without faults they hold always.                                        *)
LEMMA InvHolds ==
  ASSUME Careful, NoFaults
  PROVE  SdSpec => [](SdInv /\ InsideInv)
<1> DEFINE NoneYet == mishaps \cap Faults = {}
<1>1. SdInit => NoneYet
  BY DEF SdInit, GetInit
<1>2. NoneYet /\ [SdNext]_sdVars => NoneYet'
  BY FaultsGrow DEF NoFaults
<1>3. UntilFault /\ NoneYet => SdInv /\ InsideInv
  BY DEF UntilFault
<1> HIDE DEF NoneYet
<1> QED BY <1>1, <1>2, <1>3, UntilFaultHolds, PTL DEF SdSpec

-----------------------------------------------------------------------------
(* Theorems.                                                               *)

(* Every variable stays in its domain: the accept queue has as many        *)
(* addresses as tcp_server_sync counts connections in it, and the          *)
(* semaphore of GetStopperData has never more than a_count permits.        *)
THEOREM SdTypes ==
  ASSUME Careful, NoFaults
  PROVE  SdSpec => []SdTypeOK
<1>1. SdInv /\ InsideInv => SdTypeOK
  BY DEF SdInv, InsideInv, SdTypeOK
<1> QED BY <1>1, InvHolds, PTL

(* Whoever runs the accept loop, and whatever clients connect or give up   *)
(* meanwhile: when GetStopperData is about to return 0 the pairs it stored *)
(* are the two ends of a_count connections, in the same order.             *)
THEOREM PairsAreConnected ==
  ASSUME Careful, NoFaults
  PROVE  SdSpec => []PairsConnected
<1>1. SdInv => PairsConnected
  BY PairsFollow
<1> QED BY <1>1, InvHolds, PTL

(* A temporary thread that is blocked on the semaphore when GetStopperData *)
(* destroys it has a permit, and so is about to go on.                     *)
THEOREM NotBlocked ==
  ASSUME Careful, NoFaults
  PROVE  SdSpec => []NotBlockedOnDestroyed
<1>1. SdInv => NotBlockedOnDestroyed
  BY PairsFollow
<1> QED BY <1>1, InvHolds, PTL

(* Outside a call no thread is where the wrapper ends, and the wrapper is  *)
(* not the server's callback; a call that the thread that serves has       *)
(* answered leaves it neither there nor in the application's callback      *)
(* through the wrapper.  Of a call that runs its own accept loop beside    *)
(* that thread this says nothing of the latter.                            *)
THEOREM WrapperIsGone ==
  ASSUME Careful, NoFaults
  PROVE  SdSpec => []WrapperGone
<1>1. ASSUME SdInv, InsideInv
      PROVE  WrapperGone
  <2>1. CallInv /\ \A t \in Threads : PlaceInv(t)
    BY <1>1 DEF SdInv, SdFacts
  <2>2. ASSUME NEW t \in Threads, pc[t] = "finish"
        PROVE  caller # NoTid /\ fin # "posted"
    BY <2>1, <2>2 DEF CallInv, PlaceInv
  <2> QED BY <1>1, <2>1, <2>2 DEF CallInv, InsideInv, WrapperGone
<1> QED BY <1>1, InvHolds, PTL

(* The accept loop polls, reads and accepts only on open sockets, also     *)
(* when CreateServer runs it to get the server's own pair.                 *)
THEOREM PolledAreOpen ==
  ASSUME Careful, NoFaults
  PROVE  SdSpec => []PolledStayOpen
<1>1. SdInv => PolledStayOpen
  BY DEF SdInv, SdFacts, PlaceInv, PolledStayOpen
<1> QED BY <1>1, InvHolds, PTL

(* The callback of the application gets a connection that the server made  *)
(* to itself only while the caller of GetStopperData has started the       *)
(* temporary thread and not yet stored the wrapper, or after a fault of    *)
(* ConnectV4, whatever faults there are.                                   *)
THEOREM OwnAreKept ==
  ASSUME Careful
  PROVE  SdSpec => OwnStayInside
<1>1. ASSUME UntilFault, [SdNext]_sdVars
      PROVE  [\A t \in Threads : pc[t] = "call" /\ pc'[t] = "cb" /\ got[t] # Client =>
                mishaps \cap Faults # {} \/ \E u \in Threads : pc[u] = "getClbk"]_sdVars
  <2>1. SUFFICES ASSUME SdNext, SdInv, NEW t \in Threads,
                        pc[t] = "call", pc'[t] = "cb", got[t] # Client
                 PROVE  \E u \in Threads : pc[u] = "getClbk"
    BY <1>1 DEF UntilFault
  <2>2. PassOn(t)
    BY <2>1, PassesOn DEF SdInv
  <2>3. got[t] \in Ports
    BY <2>1 DEF SdInv, SdFacts, PlaceInv, GetTypeOK
  <2>4. ~(clbk = "extra" /\ got[t] = clientAddr)
    BY <2>2 DEF PassOn, Recognises
  <2>5. pc[caller] = "getClbk" /\ caller # NoTid
    BY <2>1, <2>3, <2>4, OwnAwaited
  <2>6. caller \in Threads
    BY <2>1, <2>5 DEF SdInv, GetTypeOK
  <2> QED BY <2>5, <2>6
<1> QED BY <1>1, UntilFaultHolds, PTL DEF SdSpec, OwnStayInside

=============================================================================
