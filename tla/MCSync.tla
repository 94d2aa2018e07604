-------------------------------- MODULE MCSync -------------------------------
(* Values for the constants of TcpServerSync.                              *)
EXTENDS TcpServerSync

CONSTANTS r, s

OneThread == {r}
TwoThreads == {r, s}

(* r makes every call but the stop, s stops the server.                    *)
RunnerAndStopper ==
  [t \in {r, s} |-> IF t = r THEN {"create", "start", "createAndStart", "destroy", "delete"}
                             ELSE {"stop"}]
(* s stops the server that r runs, and then runs it itself.                *)
StopperTakesOver == [t \in {r, s} |-> IF t = r THEN {} ELSE {"start", "stop"}]
(* One thread, whose accept callback stops the server.                     *)
RunnerOnly == [t \in {r} |-> ApiCalls]
(* Both threads make every call.                                           *)
BothEveryCall == [t \in {r, s} |-> ApiCalls]
CallbackStopsAndDestroys == {"stop", "destroy"}

(* The server is created and r is in its loop.                             *)
RunningInit ==
  /\ flags = [AllFalse EXCEPT !["shouldRun"] = TRUE, !["shouldRunBig"] = TRUE,
                              !["serverRunning"] = TRUE, !["isCreated"] = TRUE]
  /\ serverTid = r
  /\ open = Sockets
  /\ backlog = 0
  /\ pol \in {0, 1}
  /\ reg = [t \in Threads |-> NoWord]
  /\ ready = [t \in Threads |-> {}]
  /\ ret = [t \in Threads |-> "idle"]
  /\ pc = [t \in Threads |-> IF t = r THEN "loop" ELSE "idle"]
  /\ freed = FALSE
RunningSpec == RunningInit /\ [][Next]_vars /\ Fairness

WithoutStopWhenRunning == Disciplines \ {"stopWhenRunning"}
WithoutStartAfterStop == Disciplines \ {"startAfterStop"}
WithoutStopAlone == Disciplines \ {"stopAlone"}
WithoutStartSound == Disciplines \ {"startSound"}
=============================================================================
