----------------------------- MODULE MCStopperData ----------------------------
(* Values for the constants of StopperData.                                *)
EXTENDS StopperData

CONSTANTS r, s

OneThread == {r}
TwoThreads == {r, s}
OnePort == {2}
TwoPorts == {2, 3}

(* r makes the calls of the server, s only calls GetStopperData.           *)
RunnerAndGetter == [t \in {r, s} |-> IF t = r THEN ApiCalls \ {"createAndStart"} ELSE {}]
NoCalls == [t \in {r, s} |-> {}]
GetterOnly == {s}
CallbackStopsAndDestroys == {"stop", "destroy"}

(* The server is created and r is in its loop.                             *)
ServingInit ==
  /\ flags = [AllFalse EXCEPT !["shouldRun"] = TRUE, !["shouldRunBig"] = TRUE,
                              !["serverRunning"] = TRUE, !["isCreated"] = TRUE]
  /\ serverTid = r
  /\ open = Sockets
  /\ backlog = 0
  /\ pol \in {0, 1}
  /\ reg = [t \in Threads |-> NoWord]
  /\ ready = [t \in Threads |-> {}]
  /\ ret = [t \in Threads |-> "idle"]
  /\ pc = [t \in Threads |-> IF t = r THEN "loop" ELSE "idle"]
  /\ freed = FALSE
  /\ GetInit
ServingSpec == ServingInit /\ [][SdNext]_sdVars /\ SdFairness
=============================================================================
