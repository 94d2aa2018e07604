------------------------------- MODULE MCAsync -------------------------------
(* Values for the constants of TcpServerAsync.                             *)
EXTENDS TcpServerAsync

CONSTANTS o, s, w1

OneCaller == {o}
TwoCallers == {o, s}
OneWorker == {w1}
Threads_1_1 == {o, w1}
Threads_2_1 == {o, s, w1}

(* One application thread makes every call.                                *)
OwnerOnly == [t \in {o} |-> ApiCalls]
(* A second application thread may stop the server too.                    *)
OwnerAndStopper == [t \in {o, s} |-> IF t = o THEN ApiCalls \ {"delete"} ELSE {"stop"}]
(* The owner destroys while s stops, or it only deletes.                   *)
OwnerDestroys == [t \in {o, s} |-> IF t = o THEN {"destroy"} ELSE {"stop"}]
OwnerCreatesStartsDeletes == [t \in {o} |-> {"createAndStart", "delete"}]
CallbackStops == {"stop"}
CallbackStopsAndDestroys == {"stop", "destroy"}

(* The server as the owner's CreateAndStart leaves it: w1 is in its loop.  *)
StartedInit ==
  /\ flags = [AllFalse EXCEPT !["shouldRun"] = TRUE, !["shouldRunBig"] = TRUE,
                              !["serverRunning"] = TRUE, !["isCreated"] = TRUE]
  /\ serverTid = w1
  /\ open = Sockets
  /\ backlog = 0
  /\ pol \in {0, 1}
  /\ reg = [t \in Threads |-> NoWord]
  /\ ready = [t \in Threads |-> {}]
  /\ ret = [t \in Threads |-> "idle"]
  /\ pc = [t \in Threads |-> IF t = w1 THEN "loop" ELSE IF t \in Workers THEN "none" ELSE "idle"]
  /\ server_thread = w1
  /\ inServerTid = [t \in Threads |-> NoTid]
  /\ started = TRUE
  /\ freed = FALSE
  /\ fault = FALSE
StartedSpec == StartedInit /\ [][Next]_vars /\ Fairness
=============================================================================
