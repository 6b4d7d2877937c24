----------------------------- MODULE MCServices -----------------------------
(* A model-checking instance of four small objects that share no state: the  *)
(* rate limiter in front of the handlers, the connection manager they take   *)
(* their client from, the logs they write to until the process ends, and the *)
(* collector.  A behaviour is one of one object, the others stay as they     *)
(* start.                                                                    *)
EXTENDS ConnManager, RateLimit, Shutdown, Collector

VARIABLE object         \* the object this behaviour is about

mcVars == <<object, vars, limitVars, shutVars, colVars>>

MCInit ==
  /\ object \in {"limiter", "manager", "shutdown", "collector"}
  /\ Init /\ LimitInit /\ ShutInit /\ ColInit
MCNext ==
  /\ UNCHANGED object
  /\ \/ object = "manager" /\ Next /\ UNCHANGED <<limitVars, shutVars, colVars>>
     \/ object = "limiter" /\ LimitNext /\ UNCHANGED <<vars, shutVars, colVars>>
     \/ object = "shutdown" /\ ShutNext /\ UNCHANGED <<vars, limitVars, colVars>>
     \/ object = "collector" /\ ColNext /\ UNCHANGED <<vars, limitVars, shutVars>>

(* The fairness of ShutSpec and ColSpec.                                     *)
MCFairness ==
  /\ WF_shutVars(object = "shutdown" /\ MainSteps)
  /\ WF_shutVars(object = "shutdown" /\ AuditSteps)
  /\ WF_shutVars(object = "shutdown" /\ SenderSteps)
  /\ WF_colVars(object = "collector" /\ Poll)
  /\ WF_colVars(object = "collector" /\ Push)
  /\ WF_colVars(object = "collector" /\ ConnectWs)
  /\ WF_colVars(object = "collector" /\ (Deliver \/ SendInVain))
  /\ SF_colVars(object = "collector" /\ SendFails)

MCSpec == MCInit /\ [][MCNext]_mcVars /\ MCFairness

(* What must come about, comes about: a signal ends the process, unless a    *)
(* dial hangs, and the collector notices that its connection broke and opens *)
(* another.                                                                  *)
ServicesProgress == ShutdownEndsUnlessDialling /\ LinkRestored
=============================================================================
