------------------------------ MODULE StprSocks ------------------------------
(***************************************************************************)
(* CStprSocks: a connected pair of sockets with which one thread wakes     *)
(* another out of poll.  interrupBlockingSocksCall sends a stop message on *)
(* wUp; waitForAction and waitForActionRaw poll the other end, pol,        *)
(* together with sockets of the caller, and read one stop message.         *)
(*                                                                         *)
(* As in TcpServerBase, a suffixed definition is a variant with a bug.     *)
(***************************************************************************)
EXTENDS Naturals

CONSTANTS
  Waiters,       \* threads that wait
  Interrupters,  \* threads that interrupt them
  Kinds,         \* the calls they make: see CallKinds
  PolCap,        \* bound: stop messages unread; PolCap is "PolCap or more"
  MayTimeOut     \* the calls have a timeout

(* waitForAction without and with a socket of the caller, waitForActionRaw *)
CallKinds == {"alone", "with", "raw"}

ASSUME StprAssumption ==
  /\ Kinds \subseteq CallKinds
  /\ PolCap \in Nat \ {0}
  /\ MayTimeOut \in BOOLEAN

VARIABLES
  pol,     \* stop messages unread
  data,    \* the caller's socket is readable
  pc,      \* where each waiter is
  kind,    \* which call it is in
  ready,   \* revents of its poll
  polled,  \* the result of poll: "events", "timeout" or "error"
  drained, \* the call has read a stop message
  told     \* what the call has returned

vars == <<pol, data, pc, kind, ready, polled, drained, told>>

Goto(t, from, to) == pc[t] = from /\ pc' = [pc EXCEPT ![t] = to]

-----------------------------------------------------------------------------
Send == pol' = IF pol < PolCap THEN pol + 1 ELSE pol

Interrupt ==
  /\ Interrupters # {}
  /\ Send
  /\ UNCHANGED <<data, pc, kind, ready, polled, drained, told>>

(* The peer of the caller's socket sends; the caller reads it when it is   *)
(* not waiting.                                                            *)
DataComes ==
  /\ ~data /\ data' = TRUE
  /\ UNCHANGED <<pol, pc, kind, ready, polled, drained, told>>

DataIsRead(t) ==
  /\ pc[t] = "idle" /\ data
  /\ data' = FALSE
  /\ UNCHANGED <<pol, pc, kind, ready, polled, drained, told>>

-----------------------------------------------------------------------------
(* waitForAction and waitForActionRaw on thread t.                         *)

Call(t) ==
  /\ Goto(t, "idle", "poll")
  /\ \E k \in Kinds : kind' = [kind EXCEPT ![t] = k]
  /\ ready' = [ready EXCEPT ![t] = {}]
  /\ drained' = [drained EXCEPT ![t] = FALSE]
  /\ told' = [told EXCEPT ![t] = "nothing"]
  /\ UNCHANGED <<pol, data, polled>>

Watched_DataOnly(t) == IF data THEN {"data"} ELSE {}
Watched(t) == {s \in {"pol", "data"} : \/ s = "pol" /\ pol > 0
                                       \/ s = "data" /\ data /\ kind[t] # "alone"}

Drains_Always(t) == TRUE
Drains(t) == "pol" \in Watched(t)

PollReady(t) ==
  /\ Watched(t) # {}
  /\ Goto(t, "poll", IF Drains(t) THEN "drain" ELSE "return")
  /\ ready' = [ready EXCEPT ![t] = Watched(t)]
  /\ polled' = [polled EXCEPT ![t] = "events"]
  /\ UNCHANGED <<pol, data, kind, drained, told>>

PollEnds(t) ==
  /\ Goto(t, "poll", "return")
  /\ \E r \in {"error"} \cup (IF MayTimeOut THEN {"timeout"} ELSE {}) :
       polled' = [polled EXCEPT ![t] = r]
  /\ UNCHANGED <<pol, data, kind, ready, drained, told>>

(* The value PolCap stands for PolCap or more.                             *)
Taken == \/ pol' = pol - 1
         \/ pol = PolCap /\ pol' = pol

(* tcp_socket(&pol) makes the descriptor blocking and receiveAll waits for *)
(* a whole message.                                                        *)
MessageThere == pol > 0

Drain(t) ==
  /\ MessageThere
  /\ Goto(t, "drain", "return")
  /\ Taken
  /\ drained' = [drained EXCEPT ![t] = TRUE]
  /\ UNCHANGED <<data, kind, ready, polled, told>>

(* A signal ends the recv: the message, if there is one, stays unread.     *)
DrainInterrupted(t) ==
  /\ Goto(t, "drain", "return")
  /\ UNCHANGED <<pol, data, kind, ready, polled, drained, told>>

Result_NoFlag(t) ==
  IF polled[t] # "events" THEN polled[t] ELSE IF "data" \in ready[t] THEN "data" ELSE "timeout"

(* waitForActionRaw tells a stop by *a_isStp_p.  waitForAction returns -2  *)
(* if it has polled pol only, and else the revents of the caller's socket. *)
Result(t) ==
  IF polled[t] # "events" THEN polled[t]
  ELSE CASE kind[t] = "alone" -> "stopped"
         [] kind[t] = "raw" -> IF "pol" \in ready[t] THEN "stopped" ELSE "data"
         [] kind[t] = "with" -> IF "data" \in ready[t] THEN "data" ELSE "timeout"

Return(t) ==
  /\ Goto(t, "return", "idle")
  /\ told' = [told EXCEPT ![t] = Result(t)]
  /\ UNCHANGED <<pol, data, kind, ready, polled, drained>>

Wait(t) == PollReady(t) \/ Drain(t) \/ Return(t)

-----------------------------------------------------------------------------
Init ==
  /\ pol = 0 /\ data = FALSE
  /\ pc = [t \in Waiters |-> "idle"]
  /\ kind \in [Waiters -> Kinds]
  /\ ready = [t \in Waiters |-> {}]
  /\ polled = [t \in Waiters |-> "events"]
  /\ drained = [t \in Waiters |-> FALSE]
  /\ told = [t \in Waiters |-> "nothing"]

Next ==
  \/ Interrupt \/ DataComes
  \/ \E t \in Waiters :
       Call(t) \/ Wait(t) \/ PollEnds(t) \/ DrainInterrupted(t) \/ DataIsRead(t)

(* A thread that is in a call takes its steps; nothing makes anybody call, *)
(* interrupt or send.                                                      *)
Spec == Init /\ [][Next]_vars
FairSpec == Spec /\ \A t \in Waiters : WF_vars(Wait(t))

-----------------------------------------------------------------------------
(* Properties.                                                             *)

(* Every variable stays in its domain.                                     *)
TypeOK ==
  /\ pol \in 0..PolCap /\ data \in BOOLEAN
  /\ pc \in [Waiters -> {"idle", "poll", "drain", "return"}]
  /\ kind \in [Waiters -> Kinds]
  /\ ready \in [Waiters -> SUBSET {"pol", "data"}]
  /\ polled \in [Waiters -> {"events", "timeout", "error"}]
  /\ drained \in [Waiters -> BOOLEAN]
  /\ told \in [Waiters -> {"nothing", "timeout", "error", "data", "stopped"}]

(* tcp_server.hpp: "-2 stopping was done", and the out parameter of        *)
(* waitForActionRaw.  A stop message that a call has read is reported to   *)
(* its caller, data or not.  A waitForAction with a socket swallows it: it *)
(* answers data if there is some, or 0 as it does for a timeout.           *)
StopReported ==
  \A t \in Waiters : pc[t] = "idle" /\ drained[t] =>
    told[t] = IF kind[t] # "with" THEN "stopped"
              ELSE IF "data" \in ready[t] THEN "data" ELSE "timeout"

(* One interruption ends one wait: while a message is unread nobody stays  *)
(* in poll.                                                                *)
InterruptWakes ==
  \A t \in Waiters : pc[t] = "poll" /\ pol > 0 ~> pc[t] # "poll" \/ pol = 0
=============================================================================
