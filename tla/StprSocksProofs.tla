--------------------------- MODULE StprSocksProofs ---------------------------
(***************************************************************************)
(* Theorems about StprSocks: which calls tell their caller of a stop       *)
(* message that they have read and which swallow it, for any number of     *)
(* waiting threads that share one pair, any mixture of calls, messages,    *)
(* data, signals and timeouts.                                             *)
(***************************************************************************)
EXTENDS StprSocks, TLAPS

(* StopReported and what it needs while a call is in progress: only a      *)
(* thread that poll has told of pol reads from it, and nothing that it     *)
(* decides its result by changes on the way to the return.                 *)
DrainInv(t) ==
  /\ pc[t] = "poll" => ~drained[t]
  /\ pc[t] = "drain" => polled[t] = "events" /\ "pol" \in ready[t] /\ ~drained[t]
  /\ pc[t] = "return" /\ drained[t] => polled[t] = "events" /\ "pol" \in ready[t]
  /\ pc[t] = "idle" /\ drained[t] =>
       told[t] = IF kind[t] # "with" THEN "stopped"
                 ELSE IF "data" \in ready[t] THEN "data" ELSE "timeout"

WaitInv == TypeOK /\ \A t \in Waiters : DrainInv(t)

-----------------------------------------------------------------------------
(* Type correctness: the reader takes no message that is not there.        *)
LEMMA WaitType ==
  ASSUME TypeOK, Next
  PROVE  TypeOK'
<1> USE StprAssumption DEF TypeOK
<1>1. CASE Interrupt \/ DataComes
  <2>1. pol' \in 0..PolCap
    BY <1>1 DEF Interrupt, Send, DataComes
  <2> QED BY <1>1, <2>1 DEF Interrupt, DataComes
<1>2. ASSUME NEW t \in Waiters, Call(t) PROVE TypeOK'
  BY <1>2 DEF Call, Goto
<1>3. ASSUME NEW t \in Waiters, PollReady(t) PROVE TypeOK'
  <2>1. Watched(t) \in SUBSET {"pol", "data"}
    BY DEF Watched
  <2> QED BY <1>3, <2>1 DEF PollReady, Goto
<1>4. ASSUME NEW t \in Waiters, Drain(t) PROVE TypeOK'
  BY <1>4 DEF Drain, Goto, Taken, MessageThere
<1>5. ASSUME NEW t \in Waiters, Return(t) PROVE TypeOK'
  <2>1. Result(t) \in {"timeout", "error", "data", "stopped"}
    <3>1. kind[t] \in {"alone", "with", "raw"} /\ polled[t] \in {"events", "timeout", "error"}
      BY DEF CallKinds
    <3> QED BY <3>1 DEF Result
  <2> QED BY <1>5, <2>1 DEF Return, Goto
<1>6. ASSUME NEW t \in Waiters, PollEnds(t) \/ DrainInterrupted(t) PROVE TypeOK'
  BY <1>6 DEF PollEnds, DrainInterrupted, Goto
<1>7. ASSUME NEW t \in Waiters, DataIsRead(t) PROVE TypeOK'
  BY <1>7 DEF DataIsRead
<1> QED BY <1>1, <1>2, <1>3, <1>4, <1>5, <1>6, <1>7 DEF Next, Wait

(* A step of one thread, or of the others, keeps what is true of a thread. *)
LEMMA DrainNext ==
  ASSUME TypeOK, NEW t \in Waiters, DrainInv(t), Next
  PROVE  DrainInv(t)'
<1> USE DEF TypeOK, DrainInv, Goto
<1>1. CASE Interrupt \/ DataComes
  BY <1>1 DEF Interrupt, DataComes
<1>2. ASSUME NEW u \in Waiters,
             Call(u) \/ PollEnds(u) \/ DrainInterrupted(u) \/ DataIsRead(u)
      PROVE  DrainInv(t)'
  BY <1>2 DEF Call, PollEnds, DrainInterrupted, DataIsRead
<1>3. ASSUME NEW u \in Waiters, PollReady(u) PROVE DrainInv(t)'
  BY <1>3 DEF PollReady, Drains
<1>4. ASSUME NEW u \in Waiters, Drain(u) PROVE DrainInv(t)'
  BY <1>4 DEF Drain
<1>5. ASSUME NEW u \in Waiters, Return(u) PROVE DrainInv(t)'
  <2>1. kind[u] \in {"alone", "with", "raw"}
    BY StprAssumption DEF CallKinds
  <2>2. drained[u] /\ u = t =>
          Result(u) = IF kind[u] # "with" THEN "stopped"
                      ELSE IF "data" \in ready[u] THEN "data" ELSE "timeout"
    BY <1>5, <2>1 DEF Return, Result
  <2> QED BY <1>5, <2>2 DEF Return
<1> QED BY <1>1, <1>2, <1>3, <1>4, <1>5 DEF Next, Wait

LEMMA WaitNext == WaitInv /\ [Next]_vars => WaitInv'
<1> SUFFICES ASSUME WaitInv, [Next]_vars PROVE WaitInv'
  OBVIOUS
<1>1. CASE Next
  BY <1>1, WaitType, DrainNext DEF WaitInv
<1>2. CASE UNCHANGED vars
  BY <1>2 DEF vars, WaitInv, TypeOK, DrainInv
<1> QED BY <1>1, <1>2

LEMMA WaitInit == Init => WaitInv
<1> SUFFICES ASSUME Init PROVE WaitInv
  OBVIOUS
<1>1. pol \in 0..PolCap
  BY StprAssumption DEF Init
<1>2. TypeOK
  BY <1>1 DEF Init, TypeOK
<1>3. \A t \in Waiters : DrainInv(t)
  BY DEF Init, DrainInv
<1> QED BY <1>2, <1>3 DEF WaitInv

(* No call of waitForActionRaw, nor of waitForAction without a socket,     *)
(* swallows a stop message that it has read, whichever of the waiting      *)
(* threads it is; waitForAction with a socket always does.                 *)
THEOREM StopsAreReported == Spec => [](TypeOK /\ StopReported)
<1>1. WaitInv => TypeOK /\ StopReported
  BY DEF WaitInv, DrainInv, StopReported
<1> QED BY <1>1, WaitInit, WaitNext, PTL DEF Spec

=============================================================================
