------------------------------ MODULE StopperData -----------------------------
(***************************************************************************)
(* GetStopperData: the server connects to itself, so that the two ends of  *)
(* each connection make a pair with which a thread can be woken.  A        *)
(* temporary thread connects; the accept loop, run by the caller or by the *)
(* thread that serves already, hands each connection to a callback that    *)
(* wraps the application's, recognises the server's own connections by     *)
(* their port and keeps them.  CreateServer uses it for the pair of the    *)
(* server itself.                                                          *)
(*                                                                         *)
(* The module adds this to tcp_server_sync: CreateServer and Accept are    *)
(* replaced by detailed actions, the others are used as they are.  Flag    *)
(* stores are single steps here, and "create" stands for the part of       *)
(* CreateAndStartSyncServerOnThisThread that creates the server, too.      *)
(***************************************************************************)
EXTENDS TcpServerSync, Sequences

CONSTANTS
  Getters,        \* threads that call GetStopperData while they serve nobody
  CallbackGets,   \* the accept callback calls GetStopperData
  Count,          \* a_count of the application's calls
  Ports,          \* bound: local ports of the server's own connections
  ConnectFaults,  \* what may go wrong in ConnectV4: see Faults
  Care            \* what the application takes care of: see Cares

(* "abandons": a signal ends ConnectV4 after the kernel has queued the     *)
(* connection.  "unbound": bind fails, and the connection is made from a   *)
(* port that clientAddr does not tell.                                     *)
Faults == {"abandons", "unbound"}

(* "apart": a GetStopperData call does not overlap with the start or the   *)
(* end of the server on another thread, nor with a call that stops or      *)
(* destroys it.  "sound": GetStopperData is not called after a             *)
(* CreateServer that failed.  The API offers no call for either.           *)
Cares == {"apart", "sound"}

(* Addresses of connections: cleared, of any client, or a port of ours.    *)
NoAddr == 0
Client == 1

ASSUME StopperDataAssumption ==
  /\ ~SplitFlagStores
  /\ \A t \in Threads : "createAndStart" \notin Api[t]
  /\ Getters \subseteq Threads /\ CallbackGets \in BOOLEAN
  /\ Count \in Nat \ {0}
  /\ Ports \subseteq Nat \ {NoAddr, Client}
  /\ ConnectFaults \subseteq Faults
  /\ Care \subseteq Cares

VARIABLES
  queue,       \* the accept queue: the address of each connection
  got,         \* the connection each thread has accepted
  clbk,        \* clbk: the application's ("app") or the wrapper ("extra")
  inside,      \* the threads that are in (*aClbkIn_p), through the wrapper
  caller,      \* the thread in GetStopperData, or NoTid
  from,        \* its context: "create", "idle" or "cb"
  saved,       \* inFlagsAll and inServerTid
  fin,         \* sema_for_to_finish_p: "none", "made" or "posted"
  permits,     \* value of sema_to_wait_for_accept
  tmp,         \* where the temporary thread is
  clientAddr,  \* the address it connects from
  pols,        \* the pol sockets stored so far, by the address of the peer
  stps,        \* the stp sockets stored so far, by their own address
  mishaps      \* history: the faults of ConnectV4, and "strayed": the
               \* application's callback got an own connection

localVars == <<ready, ret, freed>>
callVars == <<caller, from, saved, fin>>
pairVars == <<permits, tmp, clientAddr, pols, stps>>
wrapVars == <<clbk, inside, mishaps>>
getVars  == <<got, wrapVars, callVars, pairVars>>
sdVars   == <<vars, queue, getVars>>

GetLabels == {"get", "getSave", "getRun", "getClbk", "getWait", "getTid", "getJoin"}
DispatchLabels == {"call", "finish"}

InUse == {queue[i] : i \in 1..Len(queue)} \cup {got[t] : t \in Threads}
           \cup {pols[i] : i \in 1..Len(pols)}
FreePorts == Ports \ InUse
Wanted == IF from = "create" THEN 1 ELSE Count

-----------------------------------------------------------------------------
(* Bound: one GetStopperData call at a time.                               *)
Uncalled == caller = NoTid
IsApart == "apart" \in Care => Uncalled
Serves(u) == /\ pc[u] \in LoopLabels \cup {"big"}
             /\ flags["serverRunning"] /\ flags["shouldRunBig"]
MayGet(t) ==
  /\ "apart" \in Care => \A u \in Threads \ {t} : pc[u] = "idle" \/ Serves(u)
  /\ "sound" \in Care => ~flags["hasError"]

(* The queue in a step that TcpServerSync describes by its length.         *)
KeepsQueue == queue' = IF backlog' = 0 THEN <<>> ELSE queue

-----------------------------------------------------------------------------
(* GetStopperData on thread t.                                             *)

CallGet(t) ==
  /\ Uncalled /\ ~freed /\ MayGet(t)
  /\ from' \in {c \in {"idle", "cb"} : IF c = "cb" THEN CallbackGets ELSE t \in Getters}
  /\ Goto(t, from', "get")
  /\ caller' = t
  /\ UNCHANGED <<objVars, netVars, localVars, queue, got, wrapVars, saved, fin, pairVars>>

(* CreateServer: the listener first, then the pair of the server itself.   *)
CallCreate(t) ==
  /\ CanCall(t, "create")
  /\ NobodyServes /\ Uncalled
  /\ \/ /\ caller' = t /\ from' = "create"
        /\ Goto(t, "idle", "get")
        /\ flags' = [flags EXCEPT !["hasError"] = FALSE, !["isCreated"] = TRUE]
        /\ open' = open \cup {"serv"}
        /\ backlog' = 0
        /\ pol' = pol
     \/ CreateRawFails /\ UNCHANGED <<pc, caller, from>>
  /\ queue' = <<>>
  /\ UNCHANGED <<serverTid, reg, localVars, got, wrapVars, saved, fin, pairVars>>

(* The call ends: what it kept on its stack is gone, and what the wrapper  *)
(* refers to is deleted, whoever is inside.                                *)
EndsCall(t) ==
  /\ pc' = [pc EXCEPT ![t] = IF from = "cb" THEN "cb" ELSE "idle"]
  /\ caller' = NoTid /\ from' = "idle" /\ fin' = "none"
  /\ saved' = [word |-> AllFalse, tid |-> NoTid]
  /\ permits' = 0 /\ tmp' = "none" /\ clientAddr' = NoAddr
  /\ pols' = <<>> /\ stps' = <<>>
  /\ inside' = {}
  /\ UNCHANGED <<clbk, mishaps>>

(* The server is not created, or there is no semaphore.                    *)
GetFails(t) ==
  /\ pc[t] = "get"
  /\ EndsCall(t)
  /\ IF from = "create" THEN CreateStopperFails ELSE UNCHANGED <<flags, netVars>>
  /\ KeepsQueue
  /\ UNCHANGED <<serverTid, reg, localVars, got>>

Awaits(t) == flags["serverRunning"] /\ ~flags["inAcceptStack"] /\ serverTid # t

GetTest(t) ==
  /\ flags["isCreated"]
  /\ Goto(t, "get", "getSave")
  /\ saved' = [saved EXCEPT !.tid = serverTid]
  /\ fin' = IF Awaits(t) THEN "made" ELSE "none"
  /\ UNCHANGED <<objVars, netVars, localVars, queue, got, wrapVars, caller, from, pairVars>>

GetSave(t) ==
  /\ Goto(t, "getSave", "getRun")
  /\ saved' = [saved EXCEPT !.word = flags]
  /\ UNCHANGED <<objVars, netVars, localVars, queue, got, wrapVars, caller, from, fin, pairVars>>

(* shouldRun is set and the temporary thread is started ...                *)
GetRun(t) ==
  /\ Goto(t, "getRun", "getClbk")
  /\ SetFlag(t, "shouldRun", TRUE)
  /\ tmp' = "connect"
  /\ UNCHANGED <<serverTid, netVars, localVars, queue, got, wrapVars, callVars, permits, clientAddr, pols, stps>>

(* ... before the callback that recognises its connections is in place.    *)
GetClbk(t) ==
  /\ Goto(t, "getClbk", IF fin = "none" THEN "loop" ELSE "getWait")
  /\ clbk' = "extra" /\ UNCHANGED <<inside, mishaps>>
  /\ UNCHANGED <<objVars, netVars, localVars, queue, got, callVars, pairVars>>

(* The server thread has taken every connection, or the caller has left    *)
(* its own accept loop: the flag word of before is stored.                 *)
GetRestore(t) ==
  /\ \/ Goto(t, "getWait", "getTid") /\ fin = "posted"
     \/ Goto(t, "big", "getTid") /\ caller = t
  /\ flags' = saved.word
  /\ UNCHANGED <<serverTid, reg, netVars, localVars, queue, got, wrapVars, callVars, pairVars>>

GetTid(t) ==
  /\ Goto(t, "getTid", "getJoin")
  /\ serverTid' = saved.tid
  /\ UNCHANGED <<flags, reg, netVars, localVars, queue, got, wrapVars, callVars, pairVars>>

GetReturns(t) ==
  /\ pc[t] = "getJoin"
  /\ tmp = "done"
  /\ EndsCall(t)
  /\ UNCHANGED <<objVars, netVars, localVars, queue, got>>

Get(t) == \/ GetFails(t) \/ GetTest(t) \/ GetSave(t) \/ GetRun(t) \/ GetClbk(t)
          \/ GetRestore(t) \/ GetTid(t) \/ GetReturns(t)

-----------------------------------------------------------------------------
(* The temporary thread.                                                   *)

(* clientAddr is stored before connect; the kernel queues the connection.  *)
(* ConnectV4 returns 0, or -1: then it is tried again.                     *)
Connect ==
  /\ tmp = "connect"
  /\ Len(queue) < MaxClients /\ "serv" \in open
  /\ \E p \in FreePorts, faults \in SUBSET ConnectFaults :
       /\ \A q \in FreePorts : p <= q
       /\ queue' = Append(queue, p)
       /\ clientAddr' = IF "unbound" \in faults THEN NoAddr ELSE p
       /\ tmp' = IF "abandons" \in faults THEN "connect" ELSE "wait"
       /\ mishaps' = mishaps \cup faults
  /\ backlog' = backlog + 1
  /\ UNCHANGED <<objVars, open, pol, pc, localVars, got, clbk, inside, callVars, permits, pols, stps>>

(* The semaphore tells that the loop has accepted.                         *)
AcceptAwaited ==
  /\ tmp = "wait"
  /\ permits > 0 /\ permits' = permits - 1
  /\ tmp' = "store"
  /\ UNCHANGED <<vars, queue, got, wrapVars, callVars, clientAddr, pols, stps>>

StoreStp ==
  /\ tmp = "store"
  /\ stps' = Append(stps, clientAddr)
  /\ tmp' = IF Len(stps') < Wanted THEN "connect" ELSE "done"
  /\ clientAddr' = IF Len(stps') < Wanted THEN NoAddr ELSE clientAddr
  /\ open' = IF from = "create" THEN open \cup {"stp"} ELSE open
  /\ UNCHANGED <<objVars, backlog, pol, pc, localVars, queue, got, wrapVars, callVars, permits, pols>>

TmpThread == Connect \/ AcceptAwaited \/ StoreStp

-----------------------------------------------------------------------------
(* accept, and the callback that it calls, on the thread t that serves.    *)

AcceptConnection(t) ==
  /\ \/ /\ queue # <<>>
        /\ Goto(t, "accept", "call")
        /\ got' = [got EXCEPT ![t] = Head(queue)]
        /\ queue' = Tail(queue)
        /\ backlog' = backlog - 1
     \/ /\ queue = <<>>
        /\ Goto(t, "accept", "leave")
        /\ UNCHANGED <<got, queue, backlog>>
  /\ UNCHANGED <<objVars, open, pol, localVars, wrapVars, callVars, pairVars>>

Recognises_Any(t) == clbk = "extra"
Recognises_ByThread(t) == clbk = "extra" /\ t = caller /\ got[t] = clientAddr
(* The wrapper knows a connection of the temporary thread by its port.     *)
Recognises(t) == clbk = "extra" /\ got[t] = clientAddr

Signals_Never == permits' = permits
Signals == permits' = permits + 1

(* Its own connection: store the pol socket and post the semaphore.  The   *)
(* pol socket of a pair of the server itself has no message unread.        *)
KeepOwn(t) ==
  /\ Recognises(t)
  /\ Goto(t, "call", IF Len(pols) + 1 >= Wanted THEN "finish" ELSE "leave")
  /\ pols' = Append(pols, got[t])
  /\ Signals
  /\ IF from = "create" THEN open' = open \cup {"pol"} /\ pol' = 0
                        ELSE UNCHANGED <<open, pol>>
  /\ got' = [got EXCEPT ![t] = NoAddr]
  /\ UNCHANGED <<objVars, backlog, localVars, queue, wrapVars, callVars, tmp, clientAddr, stps>>

(* Any other connection goes to the callback of the application: directly, *)
(* or from the wrapper to the copy that this refers to.                    *)
PassOn(t) ==
  /\ ~Recognises(t)
  /\ Goto(t, "call", "cb")
  /\ got' = [got EXCEPT ![t] = NoAddr]
  /\ inside' = IF clbk = "extra" THEN inside \cup {t} ELSE inside
  /\ mishaps' = IF got[t] \in Ports THEN mishaps \cup {"strayed"} ELSE mishaps
  /\ UNCHANGED <<objVars, netVars, localVars, queue, clbk, callVars, pairVars>>

AppCallback_Stays == "extra"
AppCallback == "app"

(* The message to the pair of the server reaches pol if it is one pair:    *)
(* not while CreateServer has stored pol and not yet stp.                  *)
SendsOwnStop == IF from = "create" /\ stps = <<>> THEN pol' = pol ELSE SendStop

(* The last connection: the application's callback is put back, and the    *)
(* caller is told, or the loop is made to end.                             *)
Finish(t) ==
  /\ Goto(t, "finish", "leave")
  /\ clbk' = AppCallback /\ UNCHANGED <<inside, mishaps>>
  /\ IF fin = "made"
     THEN fin' = "posted" /\ UNCHANGED <<flags, reg, pol>>
     ELSE SetFlag(t, "shouldRun", FALSE) /\ SendsOwnStop /\ fin' = fin
  /\ UNCHANGED <<serverTid, open, backlog, localVars, queue, got, caller, from, saved, pairVars>>

Dispatch(t) == AcceptConnection(t) \/ KeepOwn(t) \/ PassOn(t) \/ Finish(t)

-----------------------------------------------------------------------------
(* ChangeAcceptCallback, from the application or from the callback.        *)
ChangeAcceptCallback(t) ==
  /\ pc[t] \in {"idle", "cb"} /\ ~freed /\ IsApart
  /\ clbk' = "app"
  /\ UNCHANGED <<vars, queue, got, inside, mishaps, callVars, pairVars>>

(* What tcp_server_sync does, but for the actions replaced above.          *)
SyncCalls(t) ==
  /\ IsApart
  /\ CallStart(t) \/ CallStop(t) \/ CallDestroy(t) \/ CallDelete(t) \/ CallbackCalls(t)
  /\ KeepsQueue /\ UNCHANGED getVars

(* The callback of the application returns, and with it the wrapper.       *)
LeavesWrapper(t) ==
  /\ inside' = IF pc'[t] = "leave" THEN inside \ {t} ELSE inside
  /\ UNCHANGED <<got, clbk, mishaps, callVars, pairVars>>

SyncSteps(t) ==
  /\ pc[t] # "accept"
  /\ pc[t] = "big" => caller # t
  /\ Run(t)
  /\ KeepsQueue /\ LeavesWrapper(t)

(* Bound: a place of the queue is left for the server's own connection.    *)
ClientArrives ==
  /\ backlog < MaxClients - 1 /\ ClientConnects
  /\ queue' = Append(queue, Client)
  /\ UNCHANGED <<freed, getVars>>

ClientGivesUp ==
  /\ ClientAborts
  /\ \E i \in 1..Len(queue) :
       /\ queue[i] = Client
       /\ queue' = SubSeq(queue, 1, i - 1) \o SubSeq(queue, i + 1, Len(queue))
  /\ UNCHANGED <<freed, getVars>>

-----------------------------------------------------------------------------
GetInit ==
  /\ queue = <<>> /\ got = [t \in Threads |-> NoAddr]
  /\ clbk = "app" /\ inside = {} /\ mishaps = {}
  /\ caller = NoTid /\ from = "idle" /\ fin = "none"
  /\ saved = [word |-> AllFalse, tid |-> NoTid]
  /\ permits = 0 /\ tmp = "none" /\ clientAddr = NoAddr /\ pols = <<>> /\ stps = <<>>

SdInit == Init /\ GetInit

Interrupted(t) == PollInterrupted(t) /\ UNCHANGED <<freed, queue, getVars>>
Deleted == Finished /\ UNCHANGED <<queue, getVars>>

SdNext ==
  \/ \E t \in Threads :
       \/ CallGet(t) \/ CallCreate(t) \/ ChangeAcceptCallback(t) \/ SyncCalls(t)
       \/ Get(t) \/ Dispatch(t) \/ SyncSteps(t) \/ Interrupted(t)
  \/ TmpThread \/ ClientArrives \/ ClientGivesUp \/ Deleted

AppReturns(t) == CallbackReturns(t) /\ LeavesWrapper(t) /\ UNCHANGED <<freed, queue>>

(* As for the server: each thread takes its steps, poll returns in the     *)
(* end, and so does the accept callback, both inside a GetStopperData call *)
(* and outside, whatever calls it has made.  A connection that finds the   *)
(* queue full is tried again by the kernel until there is room.            *)
SdFairness ==
  /\ \A t \in Threads :
       /\ WF_sdVars(Get(t) \/ Dispatch(t) \/ SyncSteps(t))
       /\ SF_sdVars(PollReady(t) /\ UNCHANGED <<freed, queue, getVars>>)
       /\ SF_sdVars(AppReturns(t) /\ caller = t)
       /\ SF_sdVars(AppReturns(t) /\ caller # t)
  /\ SF_sdVars(TmpThread)

SdSpec == SdInit /\ [][SdNext]_sdVars /\ SdFairness

-----------------------------------------------------------------------------
(* Properties.                                                             *)

(* What the call and its connections consist of stays in its domain ...    *)
GetTypeOK ==
  /\ BaseTypeOK /\ freed \in BOOLEAN
  /\ pc \in [Threads -> SyncLabels \cup GetLabels \cup DispatchLabels]
  /\ queue \in Seq(Ports \cup {Client}) /\ Len(queue) = backlog
  /\ got \in [Threads -> Ports \cup {NoAddr, Client}]
  /\ clbk \in {"app", "extra"}
  /\ caller \in Threads \cup {NoTid} /\ from \in {"create", "idle", "cb"}
  /\ saved \in [word : Word, tid : Threads \cup {NoTid}]
  /\ fin \in {"none", "made", "posted"} /\ permits \in 0..Count
  /\ tmp \in {"none", "connect", "wait", "store", "done"}
  /\ clientAddr \in Ports \cup {NoAddr}
  /\ pols \in Seq(Ports) /\ stps \in Seq(Ports)

(* ... and so does every variable.                                         *)
SdTypeOK ==
  /\ GetTypeOK
  /\ inside \subseteq Threads /\ mishaps \subseteq Faults \cup {"strayed"}

(* When GetStopperData is about to return 0, every stp and pol it has      *)
(* stored are the two ends of one connection, and there are a_count of     *)
(* them; when it is CreateServer that returns, the server has its          *)
(* listener, its pair, and at most one stop message unread.                *)
PairsConnected ==
  \A t \in Threads : pc[t] = "getJoin" /\ tmp = "done" =>
    /\ stps = pols /\ Len(pols) = Wanted
    /\ from = "create" => open = Sockets /\ pol <= 1

(* sema_to_wait_for_accept is destroyed before the temporary thread is     *)
(* joined: by then this thread is not blocked on it.                       *)
NotBlockedOnDestroyed ==
  \A t \in Threads : pc[t] = "getJoin" /\ tmp = "wait" => permits > 0

(* The wrapper and what it refers to are deleted at the end of the call:   *)
(* it is not the server's callback then, nobody is where it ends, and a    *)
(* call that another thread has served leaves nobody in the application's  *)
(* callback through it.  (A call that ran its own accept loop beside a     *)
(* thread that serves may leave that thread in there.)                     *)
WrapperGone ==
  /\ caller = NoTid => clbk = "app"
  /\ \A t \in Threads : pc[t] = "finish" => caller # NoTid /\ fin # "posted"
  /\ fin = "posted" => inside = {}

(* The application's callback gets a connection of the server's own only   *)
(* before the wrapper is stored: later the wrapper keeps them all, unless  *)
(* a ConnectV4 was ended by a signal or could not bind.                    *)
OwnStayInside ==
  [][\A t \in Threads : pc[t] = "call" /\ pc'[t] = "cb" /\ got[t] # Client =>
       mishaps \cap Faults # {} \/ \E u \in Threads : pc[u] = "getClbk"]_sdVars

(* The thread that serves polls, reads and accepts only on open sockets,   *)
(* also while CreateServer serves and has no pair yet.                     *)
PolledStayOpen ==
  \A t \in Threads :
    pc[t] \in SocketLabels => "serv" \in open /\ (pc[t] # "poll" => ready[t] \subseteq open)

(* A GetStopperData call, and with it CreateServer, returns ...            *)
GetEnds == caller # NoTid ~> caller = NoTid
(* ... as long as the application's callback got no connection of its own. *)
GetEndsOrStrays == caller # NoTid ~> caller = NoTid \/ mishaps # {}

(* StartSyncServer returns to the application after StopServer was called  *)
(* in the accept callback; the GetStopperData calls of the callback and    *)
(* the flag word they store do not undo the stop.                          *)
StopIsNotUndone ==
  \A t \in Runners : pc[t] = "stopRun" ~>
    ~InRunServer(t) /\ pc[t] \notin StartLabels \cup GetLabels \cup DispatchLabels
=============================================================================
