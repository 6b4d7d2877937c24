------------------------------ MODULE MCBackend -----------------------------
(* A model-checking instance of two parts of the backend that share no       *)
(* state, the hub and provisioning: a behaviour is one of one part, the      *)
(* other stays as it starts.  Connections are interchangeable.  Of the       *)
(* requests, which meet in the task file only, there is one of each kind.    *)
EXTENDS Hub, Provision, TLC

VARIABLE part           \* the part this behaviour is about

OneOfEach ==
  CHOOSE f \in [Request -> {"single", "replica"}] : \A q, r \in Request : q # r => f[q] # f[r]
MCInit ==
  /\ part \in {"hub", "provisioning"} /\ Init /\ ProvisionInit
  /\ kind = OneOfEach
  /\ part = "hub" => provider = [r \in Request |-> "docker"]
MCNext ==
  /\ UNCHANGED part
  /\ \/ part = "hub" /\ Next /\ UNCHANGED provisionVars
     \/ part = "provisioning" /\ ProvisionNext /\ UNCHANGED vars
MCSpec == MCInit /\ [][MCNext]_<<part, vars, provisionVars>>

Symmetry == Permutations(Client)
=============================================================================
