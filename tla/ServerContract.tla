---------------------------- MODULE ServerContract ---------------------------
(***************************************************************************)
(* What tcp_server.hpp promises of a server that is started and stopped:   *)
(* "stops and waits to stop".  A server is up or down; accept callbacks    *)
(* run one at a time and only for a connection that was admitted while the *)
(* server was up; a stop request is not answered before the server is down.*)
(***************************************************************************)
VARIABLES
  phase,     \* "down", "up" or "stopping"
  admitted,  \* the server has decided to accept a connection
  busy,      \* the accept callback is running
  waiting    \* a stop request is waiting for its answer

cvars == <<phase, admitted, busy, waiting>>

CInit == phase = "down" /\ admitted = FALSE /\ busy = FALSE /\ waiting = FALSE

GoUp ==
  /\ phase = "down" /\ ~waiting
  /\ phase' = "up"
  /\ UNCHANGED <<admitted, busy, waiting>>

Admit ==
  /\ phase = "up" /\ ~admitted /\ ~busy
  /\ admitted' = TRUE
  /\ UNCHANGED <<phase, busy, waiting>>

(* The connection is gone when the server wants to accept it.              *)
Withdraw ==
  /\ admitted
  /\ admitted' = FALSE
  /\ UNCHANGED <<phase, busy, waiting>>

BeginCallback ==
  /\ admitted /\ ~busy
  /\ admitted' = FALSE
  /\ busy' = TRUE
  /\ UNCHANGED <<phase, waiting>>

EndCallback ==
  /\ busy
  /\ busy' = FALSE
  /\ UNCHANGED <<phase, admitted, waiting>>

RequestStop ==
  /\ ~waiting
  /\ waiting' = TRUE
  /\ phase' = IF phase = "up" THEN "stopping" ELSE phase
  /\ UNCHANGED <<admitted, busy>>

(* The accept callback asks for a stop too, and waits for nothing.         *)
RequestStopFromCallback ==
  /\ busy /\ phase = "up"
  /\ phase' = "stopping"
  /\ UNCHANGED <<admitted, busy, waiting>>

GoDown ==
  /\ phase = "stopping" /\ ~admitted /\ ~busy
  /\ phase' = "down"
  /\ UNCHANGED <<admitted, busy, waiting>>

AnswerStop ==
  /\ waiting /\ phase = "down"
  /\ waiting' = FALSE
  /\ UNCHANGED <<phase, admitted, busy>>

CNext == \/ GoUp \/ Admit \/ Withdraw \/ BeginCallback \/ EndCallback
         \/ RequestStop \/ RequestStopFromCallback \/ GoDown \/ AnswerStop

CSpec == CInit /\ [][CNext]_cvars
CFairSpec ==
  /\ CSpec
  /\ WF_cvars(EndCallback)
  /\ WF_cvars(Withdraw \/ BeginCallback)
  /\ WF_cvars(GoDown)
  /\ WF_cvars(AnswerStop)
=============================================================================
