---------------------------- MODULE TcpServerBase ----------------------------
(***************************************************************************)
(* The part that tcp_server_sync and tcp_server_async share, class         *)
(* tcp_server_base_p: the listening socket and its stopper pair, the flag  *)
(* word, the accept loop RunServer / RunServerInline / ServerAcceptInline, *)
(* StopServer, CreateServer and DestroyServer.  Every action takes the     *)
(* thread that executes it; the two derived modules say which threads run  *)
(* which calls.                                                            *)
(*                                                                         *)
(* A step is one access to state that other threads see: one flag store,   *)
(* one test of the flags, one socket call.                                 *)
(***************************************************************************)
EXTENDS Naturals

CONSTANTS
  Threads,          \* every thread that may execute code of the server
  NoTid,            \* serverTid = 0: no thread
  NoWord,           \* no flag word loaded
  MaxClients,       \* bound: client connections waiting at once
  PolCap,           \* bound: stop messages unread on the pol socket
  SplitFlagStores,  \* a bit-field store is a load and a store of the word
  SendMayBlock      \* PolCap is the real buffer size and a full buffer blocks

ASSUME BaseAssumption ==
  /\ NoTid \notin Threads
  /\ MaxClients \in Nat \ {0}
  /\ PolCap \in Nat \ {0}
  /\ SplitFlagStores \in BOOLEAN
  /\ SendMayBlock \in BOOLEAN

FlagNames == {"shouldRun", "shouldRunBig", "serverRunning",
              "isCreated", "hasError", "inAcceptStack"}
Word == [FlagNames -> BOOLEAN]
ASSUME NoWordAssumption == NoWord \notin Word

(* The sockets of the server: the listener, and the two ends of the        *)
(* connection that is used to wake poll (struct StopperData).              *)
Sockets == {"serv", "stp", "pol"}

VARIABLES
  flags,      \* the bi-state flag word
  serverTid,  \* the thread that runs the accept loop, or NoTid
  open,       \* the sockets that are not CPPUTILS_SOCKS_CLOSE_SOCK
  backlog,    \* connections in the accept queue of serv
  pol,        \* stop messages sent on stp and not yet read from pol
  pc,         \* where each thread is
  reg,        \* flag word a thread has loaded for its next store
  ready,      \* the revents that a thread in ServerAcceptInline has
  ret         \* where a StopServer or DestroyServer call returns to

objVars  == <<flags, serverTid, reg>>
netVars  == <<open, backlog, pol>>
baseVars == <<flags, serverTid, open, backlog, pol, pc, reg, ready, ret>>

-----------------------------------------------------------------------------
(* Labels: a thread at a label is about to execute that statement.         *)

ReturnLabels == {"idle", "cb", "dtor"}
LoopLabels == {"loop", "enter", "poll", "woke", "drain", "accept", "cb", "leave"}
RunLabels == {"runTid", "runMark", "big", "unmark", "clearTid"} \cup LoopLabels
StopLabels == {"stop", "stopRead", "stopRun", "stopBig", "stopTid", "stopSelf",
               "stopSend", "stopWait"}
DestroyLabels == {"destroy", "close"}
BaseLabels == {"idle"} \cup RunLabels \cup StopLabels \cup DestroyLabels
(* A thread holds the listening and pol descriptors it polls, reads and    *)
(* accepts on at these labels.                                             *)
SocketLabels == {"poll", "woke", "drain", "accept"}

Goto(t, from, to) == pc[t] = from /\ pc' = [pc EXCEPT ![t] = to]

(* A store to one bit field of the flag word.  With SplitFlagStores the    *)
(* compiler's read-modify-write is two steps, and a store made by another  *)
(* thread in between is overwritten (a data race on one memory location).  *)
SetFlag(t, f, v) ==
  /\ SplitFlagStores => reg[t] # NoWord
  /\ flags' = [IF SplitFlagStores THEN reg[t] ELSE flags EXCEPT ![f] = v]
  /\ reg' = [reg EXCEPT ![t] = NoWord]

FlagStoreLabels == {"startRun", "startRunOnly", "startBig", "mark", "runMark", "enter", "leave",
                    "unmark", "stopRun", "stopBig", "stopSelf"}
LoadFlags(t) ==
  /\ SplitFlagStores
  /\ pc[t] \in FlagStoreLabels
  /\ reg[t] = NoWord
  /\ reg' = [reg EXCEPT ![t] = flags]
  /\ UNCHANGED <<flags, serverTid, netVars, pc, ready, ret>>

AllFalse == [f \in FlagNames |-> FALSE]

-----------------------------------------------------------------------------
(* RunServer and the accept loop, executed by thread t.                    *)
(*                                                                         *)
(* A definition named after another with a suffix, here and in the modules *)
(* that extend this one, is that definition with a plausible bug; no other *)
(* definition uses it.                                                     *)

RunTid(t) ==
  /\ Goto(t, "runTid", "runMark")
  /\ serverTid' = t
  /\ UNCHANGED <<flags, reg, netVars, ready, ret>>

RunMark(t) ==
  /\ Goto(t, "runMark", "loop")
  /\ SetFlag(t, "serverRunning", TRUE)
  /\ UNCHANGED <<serverTid, netVars, ready, ret>>

MayServe == flags["shouldRun"] /\ ~flags["hasError"]

LoopTest(t) ==
  /\ Goto(t, "loop", IF MayServe THEN "enter" ELSE "big")
  /\ UNCHANGED <<objVars, netVars, ready, ret>>

(* inAcceptStack is set and the poll set is filled in.                     *)
Enter(t) ==
  /\ Goto(t, "enter", "poll")
  /\ SetFlag(t, "inAcceptStack", TRUE)
  /\ UNCHANGED <<serverTid, netVars, ready, ret>>

Readable_PolOnly == {s \in open : s = "pol" /\ pol > 0}
Readable == {s \in open : \/ s = "serv" /\ backlog > 0
                          \/ s = "pol" /\ pol > 0}

PollReady(t) ==
  /\ Readable # {}
  /\ Goto(t, "poll", "woke")
  /\ ready' = [ready EXCEPT ![t] = Readable]
  /\ UNCHANGED <<objVars, netVars, ret>>

(* poll returns -1 with EINTR and leaves every revents at 0.               *)
PollInterrupted(t) ==
  /\ Goto(t, "poll", "woke")
  /\ ready' = [ready EXCEPT ![t] = {}]
  /\ UNCHANGED <<objVars, netVars, ret>>

AfterPoll_NoRecheck(t) ==
  IF "pol" \in ready[t] THEN "drain"
  ELSE IF "serv" \in ready[t] THEN "accept"
  ELSE "leave"

(* The flag is tested again after poll, then the revents decide.           *)
AfterPoll(t) ==
  IF ~flags["shouldRun"] THEN "leave"
  ELSE IF "pol" \in ready[t] THEN "drain"
  ELSE IF "serv" \in ready[t] THEN "accept"
  ELSE "leave"

Woke(t) ==
  /\ Goto(t, "woke", AfterPoll(t))
  /\ UNCHANGED <<objVars, netVars, ready, ret>>

(* One stop message is read; the read waits for all of it (MSG_WAITALL).   *)
(* Without SendMayBlock the value PolCap stands for "PolCap or more".      *)
(* On a closed descriptor the read fails at once.                          *)
DrainPol ==
  \/ pol > 0 /\ pol' = pol - 1
  \/ ~SendMayBlock /\ pol = PolCap /\ pol' = pol
  \/ "pol" \notin open /\ pol' = pol

Drain(t) ==
  /\ Goto(t, "drain", IF "serv" \in ready[t] THEN "accept" ELSE "leave")
  /\ DrainPol
  /\ UNCHANGED <<objVars, open, backlog, ready, ret>>

(* The listener is non-blocking: with no connection left accept fails.     *)
Accept(t) ==
  /\ \/ /\ backlog > 0
        /\ backlog' = backlog - 1
        /\ Goto(t, "accept", "cb")
     \/ /\ backlog = 0
        /\ backlog' = backlog
        /\ Goto(t, "accept", "leave")
  /\ UNCHANGED <<objVars, open, pol, ready, ret>>

CallbackReturns(t) ==
  /\ Goto(t, "cb", "leave")
  /\ UNCHANGED <<objVars, netVars, ready, ret>>

Leave(t) ==
  /\ Goto(t, "leave", "loop")
  /\ SetFlag(t, "inAcceptStack", FALSE)
  /\ ready' = [ready EXCEPT ![t] = {}]
  /\ UNCHANGED <<serverTid, netVars, ret>>

BigTest(t) ==
  /\ Goto(t, "big", IF flags["shouldRunBig"] THEN "loop" ELSE "unmark")
  /\ UNCHANGED <<objVars, netVars, ready, ret>>

Unmark(t) ==
  /\ Goto(t, "unmark", "clearTid")
  /\ SetFlag(t, "serverRunning", FALSE)
  /\ UNCHANGED <<serverTid, netVars, ready, ret>>

ClearTid(t, to) ==
  /\ Goto(t, "clearTid", to)
  /\ serverTid' = NoTid
  /\ UNCHANGED <<flags, reg, netVars, ready, ret>>

(* Everything but the interruption of poll, which the loop cannot rely on. *)
AcceptLoop(t) ==
  \/ RunTid(t) \/ RunMark(t) \/ LoopTest(t) \/ Enter(t)
  \/ PollReady(t) \/ Woke(t) \/ Drain(t)
  \/ Accept(t) \/ CallbackReturns(t) \/ Leave(t)
  \/ BigTest(t) \/ Unmark(t)

-----------------------------------------------------------------------------
(* tcp_server_base_p::StopServer, executed by thread t; "to" is where the  *)
(* public StopServer goes on.                                              *)

StopRun(t) ==
  /\ Goto(t, "stopRun", "stopBig")
  /\ SetFlag(t, "shouldRun", FALSE)
  /\ UNCHANGED <<serverTid, netVars, ready, ret>>

StopBig_StaysSet(t) ==
  /\ Goto(t, "stopBig", "stopTid")
  /\ UNCHANGED <<objVars, netVars, ready, ret>>

StopBig(t) ==
  /\ Goto(t, "stopBig", "stopTid")
  /\ SetFlag(t, "shouldRunBig", FALSE)
  /\ UNCHANGED <<serverTid, netVars, ready, ret>>

(* Is this call made by the thread that runs the accept loop?              *)
StopsItself_Never(t) == FALSE
StopsItself(t) == serverTid = t

(* From here on the call uses its own copy of stp: without a stopper pair  *)
(* it neither sends nor waits, with one it waits also when DestroyServer   *)
(* has closed the socket.                                                  *)
StopTid(t, to) ==
  /\ Goto(t, "stopTid", IF StopsItself(t) THEN "stopSelf"
                        ELSE IF "stp" \in open THEN "stopSend" ELSE to)
  /\ UNCHANGED <<objVars, netVars, ready, ret>>

StopSelf(t, to) ==
  /\ Goto(t, "stopSelf", to)
  /\ SetFlag(t, "serverRunning", FALSE)
  /\ UNCHANGED <<serverTid, netVars, ready, ret>>

SendStop_Dropped == pol' = pol

(* sendSimple on the copy of stp; on a closed descriptor it fails and      *)
(* changes nothing.  A pair made anew has the number of the one before.    *)
SendStop ==
  IF "stp" \in open
  THEN IF pol < PolCap THEN pol' = pol + 1
                       ELSE ~SendMayBlock /\ pol' = pol
  ELSE pol' = pol

StopSend(t) ==
  /\ Goto(t, "stopSend", "stopWait")
  /\ SendStop
  /\ UNCHANGED <<objVars, open, backlog, ready, ret>>

StillRunning_NoWait == FALSE
StillRunning == flags["serverRunning"]

StopWait(t, to) ==
  /\ Goto(t, "stopWait", IF StillRunning THEN "stopSend" ELSE to)
  /\ UNCHANGED <<objVars, netVars, ready, ret>>

StopCall(t, to) ==
  \/ StopRun(t) \/ StopBig(t) \/ StopTid(t, to) \/ StopSelf(t, to)
  \/ StopSend(t) \/ StopWait(t, to)

-----------------------------------------------------------------------------
(* CreateServer: CreateServerRaw, then GetStopperData for the server's own *)
(* stopper pair, which leaves zero or one stop message unread on pol.      *)

CreateSucceeds ==
  /\ flags' = [flags EXCEPT !["hasError"] = FALSE, !["isCreated"] = TRUE]
  /\ open' = Sockets
  /\ backlog' = 0
  /\ pol' \in {0, 1}

(* socket, bind, listen or getsockname failed.                             *)
CreateRawFails ==
  /\ flags' = [flags EXCEPT !["hasError"] = TRUE]
  /\ open' = open \ {"serv"}
  /\ backlog' = 0
  /\ pol' = pol

(* The listener is up but no semaphore could be made for GetStopperData.   *)
CreateStopperFails ==
  /\ flags' = [flags EXCEPT !["hasError"] = TRUE, !["isCreated"] = FALSE]
  /\ open' = open \ {"serv"}
  /\ backlog' = 0
  /\ pol' = pol

CreateFails == CreateRawFails \/ CreateStopperFails

DestroyAllowed_WhileRunning == flags["isCreated"]

(* DestroyServer refuses a server that is not created or still runs.       *)
DestroyAllowed == flags["isCreated"] /\ ~flags["serverRunning"]

DestroyTest(t, back) ==
  /\ Goto(t, "destroy", IF DestroyAllowed THEN "close" ELSE back)
  /\ UNCHANGED <<objVars, netVars, ready, ret>>

CloseAll(t, back) ==
  /\ Goto(t, "close", back)
  /\ serverTid' = NoTid
  /\ open' = {}
  /\ backlog' = 0
  /\ pol' = 0
  /\ flags' = AllFalse
  /\ UNCHANGED <<reg, ready, ret>>

DestroyCall(t, back) == DestroyTest(t, back) \/ CloseAll(t, back)

-----------------------------------------------------------------------------
(* The environment: TCP clients of the server.                             *)

ClientConnects ==
  /\ "serv" \in open
  /\ backlog < MaxClients
  /\ backlog' = backlog + 1
  /\ UNCHANGED <<objVars, open, pol, pc, ready, ret>>

(* A connection is reset before it is accepted.                            *)
ClientAborts ==
  /\ backlog > 0
  /\ backlog' = backlog - 1
  /\ UNCHANGED <<objVars, open, pol, pc, ready, ret>>

Clients == ClientConnects \/ ClientAborts

-----------------------------------------------------------------------------
BaseTypeOK ==
  /\ flags \in Word
  /\ serverTid \in Threads \cup {NoTid}
  /\ open \subseteq Sockets
  /\ backlog \in 0..MaxClients
  /\ pol \in 0..PolCap
  /\ reg \in [Threads -> Word \cup {NoWord}]
  /\ ready \in [Threads -> SUBSET Sockets]
  /\ ret \in [Threads -> ReturnLabels]

BaseInit ==
  /\ flags = AllFalse
  /\ serverTid = NoTid
  /\ open = {}
  /\ backlog = 0
  /\ pol = 0
  /\ reg = [t \in Threads |-> NoWord]
  /\ ready = [t \in Threads |-> {}]
  /\ ret = [t \in Threads |-> "idle"]
=============================================================================
