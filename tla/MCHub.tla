-------------------------------- MODULE MCHub -------------------------------
(* A model-checking instance of Hub for its liveness, which starts late, in  *)
(* two states that Spec reaches: either all broadcasts were made before      *)
(* anybody connected, and messages go from one connection to another, or     *)
(* every connection but a sender's has come and gone, and a connection alone *)
(* sees all messages and broadcasts.                                         *)
EXTENDS Hub

(* The peers of `past' left, and Run and both pumps are done with them.      *)
After(past, broadcasts) ==
  /\ servePc = [c \in Client |-> IF c \in past THEN "served" ELSE "idle"]
  /\ conn = [c \in Client |-> IF c \in past THEN "closed" ELSE "none"]
  /\ peer = [c \in Client |-> IF c \in past THEN "gone" ELSE "up"]
  /\ closed = [c \in Client |-> c \in past]
  /\ readPc = [c \in Client |-> IF c \in past THEN "exited" ELSE "off"]
  /\ writePc = readPc
  /\ issued = broadcasts /\ runMsg = <<Server, broadcasts>>
  /\ runClient \in past \cup {CHOOSE c \in Client : TRUE}
  /\ runPc = "select" /\ runTodo = {} /\ bq = <<>>
  /\ clients = {} /\ stop = FALSE /\ panicked = FALSE
  /\ send = [c \in Client |-> <<>>] /\ got = send
  /\ readMsg = [c \in Client |-> <<c, 0>>]
  /\ readTodo = [c \in Client |-> {}]
  /\ sent = [c \in Client |-> 0]

MCInit == After({}, MaxBroadcasts) \/ After(Client \ Sender, 0)
MCSpec == /\ MCInit /\ [][Next]_vars
          /\ RunFairness /\ \A c \in Client : PumpFairness(c)
=============================================================================
