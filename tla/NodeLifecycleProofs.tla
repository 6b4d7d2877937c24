------------------------- MODULE NodeLifecycleProofs -------------------------
(***************************************************************************)
(* Proofs about NodeLifecycle, for any nodes, settings and requests: what  *)
(* the status "ready" of a node says of its connection, and that the       *)
(* connection manager keeps its promise among the requests.                *)
(***************************************************************************)
EXTENDS NodeLifecycle, TLAPS

Calls == {"idle", "register", "connecting", "dial", "ready", "failed", "deactivated", "get",
          "probe", "registerOnly", "dialOnly"}
Numbers == 1..MaxClients
Statuses == {"unknown", "connecting", "ready", "failed"}
Types ==
  /\ status \in [Node -> Statuses]
  /\ pc \in [Request -> Calls]
  /\ nodeCfg \in [Node -> Config \cup {NoConfig}]
  /\ target \in [Request -> Entry] /\ readCfg \in [Request -> Config \cup {NoConfig}]
  /\ cfgStore \in [Entry -> Config \cup {NoConfig}]
  /\ settled \in [Node -> BOOLEAN]
  /\ conns \in [Entry -> Numbers \cup {0}]
  /\ usedCfg \in [Numbers -> Config \cup {NoConfig}]
  /\ fresh \in 1..(MaxClients + 1)

(* What may be written back are settings and statuses.                     *)
PastIn == past \in [Node -> SUBSET ((Config \cup {NoConfig}) \X Statuses)]

(* A client that is held has a number below the next one.                  *)
Numbered == \A n \in Entry : conns[n] < fresh

(***************************************************************************)
(* The inductive invariant, for one node.  As long as it is settled there  *)
(* is one request on it at most, and what that request has done so far is  *)
(* still so (Stage): it has read, and then registered, the settings of the *)
(* workspace, and is to record "ready" only when it has dialled with them; *)
(* one that opens a connection without recording it does so only for a     *)
(* node that is not "ready".  Without a request, "ready" is true.          *)
(***************************************************************************)
Ready(n) == nodeCfg[n] # NoConfig /\ status[n] = "ready"
Connected(n) == conns[n] # 0 /\ usedCfg[conns[n]] = nodeCfg[n]
Stage(r, n) ==
  /\ pc[r] = "register" => readCfg[r] = nodeCfg[n]
  /\ pc[r] \in {"connecting", "dial"} => cfgStore[n] = nodeCfg[n]
  /\ pc[r] = "ready" => Connected(n)
  /\ pc[r] = "get" => (Ready(n) => Connected(n))
  /\ pc[r] \in {"probe", "registerOnly", "dialOnly"} => ~Ready(n)
On(r, n) == pc[r] # "idle" /\ target[r] = n
Steady(n) ==
  settled[n] =>
    /\ \A r, q \in Request : On(r, n) /\ On(q, n) => r = q
    /\ (\A r \in Request : ~On(r, n)) => (Ready(n) => Connected(n))
    /\ \A r \in Request : On(r, n) => Stage(r, n)
Inv == Types /\ Numbered /\ \A n \in Node : Steady(n)

(* What a step leaves alone of a node.                                     *)
Same(n) ==
  /\ cfgStore'[n] = cfgStore[n] /\ conns'[n] = conns[n] /\ nodeCfg'[n] = nodeCfg[n]
  /\ status'[n] = status[n] /\ (conns[n] # 0 => usedCfg'[conns[n]] = usedCfg[conns[n]])

(* A node that nothing happened to stays steady.                           *)
LEMMA SameSteady ==
  ASSUME NEW n \in Node, Steady(n), Same(n), settled'[n] => settled[n],
         \A r \in Request : On(r, n)' <=> On(r, n),
         \A r \in Request : On(r, n) => pc'[r] = pc[r] /\ readCfg'[r] = readCfg[r]
  PROVE  Steady(n)'
<1> SUFFICES ASSUME settled'[n] PROVE Steady(n)'
  BY DEF Steady
<1>1. Ready(n)' <=> Ready(n)
  BY DEF Same, Ready
<1>2. Connected(n)' <=> Connected(n)
  BY DEF Same, Connected
<1>3. ASSUME NEW r \in Request, On(r, n) PROVE Stage(r, n)'
  <2>1. Stage(r, n)
    BY <1>3 DEF Steady
  <2>2. pc'[r] = pc[r] /\ readCfg'[r] = readCfg[r]
    BY <1>3
  <2> QED BY <1>1, <1>2, <2>1, <2>2 DEF Stage, Same
<1>4. /\ \A r, q \in Request : On(r, n) /\ On(q, n) => r = q
      /\ (\A r \in Request : ~On(r, n)) => (Ready(n) => Connected(n))
  BY DEF Steady
<1>5. (\A r, q \in Request : On(r, n) /\ On(q, n) => r = q)'
  BY <1>4
<1>6. (\A r \in Request : ~On(r, n))' => (Ready(n) => Connected(n))'
  BY <1>1, <1>2, <1>4
<1>7. (\A r \in Request : On(r, n) => Stage(r, n))'
  BY <1>3
<1> QED BY <1>5, <1>6, <1>7 DEF Steady

(* A request makes its next call, which concerns its own node only.        *)
LEMMA CallSteady ==
  ASSUME Inv, NEW r \in Request, NEW next \in Calls, pc[r] # "idle",
         pc' = [pc EXCEPT ![r] = next], UNCHANGED <<target, readCfg>>,
         \A n \in Node : settled'[n] => settled[n],
         \A n \in Node : n # target[r] => Same(n),
         ASSUME target[r] \in Node, settled'[target[r]], Stage(r, target[r])
         PROVE  IF next = "idle" THEN (Ready(target[r]) => Connected(target[r]))'
                                 ELSE Stage(r, target[r])'
  PROVE  (\A n \in Node : Steady(n))'
<1>0. Types /\ \A n \in Node : Steady(n)
  BY DEF Inv
<1>1. \A q \in Request : q # r => pc'[q] = pc[q]
  BY <1>0 DEF Types
<1>2. pc'[r] = next
  BY <1>0 DEF Types
<1>3. ASSUME NEW n \in Node PROVE Steady(n)'
  <2>1. CASE n # target[r]
    <3>1. \A q \in Request : On(q, n)' <=> On(q, n)
      BY <1>1, <2>1 DEF On
    <3>2. \A q \in Request : On(q, n) => pc'[q] = pc[q] /\ readCfg'[q] = readCfg[q]
      BY <1>1, <2>1 DEF On
    <3> QED BY <1>0, <2>1, <3>1, <3>2, SameSteady
  <2>2. CASE n = target[r]
    <3> SUFFICES ASSUME settled'[n] PROVE Steady(n)'
      BY DEF Steady
    <3>1. On(r, n) /\ settled[n]
      BY <2>2 DEF On
    <3>2. \A q \in Request : On(q, n) => q = r
      BY <1>0, <3>1 DEF Steady
    <3>3. Stage(r, n)
      BY <1>0, <3>1 DEF Steady
    <3>4. \A q \in Request : On(q, n)' => q = r
      BY <1>1, <3>2 DEF On
    <3>5. CASE next = "idle"
      <4>1. \A q \in Request : ~On(q, n)'
        BY <1>2, <3>4, <3>5 DEF On
      <4>2. (Ready(n) => Connected(n))'
        BY <2>2, <3>3, <3>5
      <4> QED BY <4>1, <4>2 DEF Steady
    <3>6. CASE next # "idle"
      <4>1. On(r, n)'
        BY <1>2, <2>2, <3>6 DEF On
      <4>2. Stage(r, n)'
        BY <2>2, <3>3, <3>6
      <4>3. \A q \in Request : On(q, n)' => Stage(q, n)'
        BY <3>4, <4>2
      <4>4. ~(\A q \in Request : ~On(q, n))'
        BY <4>1
      <4>5. (\A p, q \in Request : On(p, n) /\ On(q, n) => p = q)'
        BY <3>4
      <4> QED BY <4>3, <4>4, <4>5 DEF Steady
    <3> QED BY <3>5, <3>6
  <2> QED BY <2>1, <2>2
<1> QED BY <1>3

(* A request starts: a node that stays settled had none.                   *)
LEMMA StartSteady ==
  ASSUME Inv, NEW r \in Request, NEW n \in Entry, NEW c, NEW next, NEW settles \in BOOLEAN,
         Start(r, n, c, next, settles), next # "idle",
         \A m \in Node : m # n => Same(m),
         ASSUME n \in Node, settles \/ settled[n], \A q \in Request : ~On(q, n)
         PROVE  Stage(r, n)'
  PROVE  (\A m \in Node : Steady(m))'
<1>0. Types /\ \A m \in Node : Steady(m)
  BY DEF Inv
<1>1. /\ pc[r] = "idle" /\ pc' = [pc EXCEPT ![r] = next]
      /\ target' = [target EXCEPT ![r] = n] /\ readCfg' = [readCfg EXCEPT ![r] = c]
      /\ settled' = [m \in Node |-> IF m # n THEN settled[m]
                                    ELSE Busy(n) = {} /\ (settles \/ settled[m])]
  BY DEF Start
<1>2. /\ pc'[r] = next /\ target'[r] = n
      /\ \A q \in Request : q # r =>
           pc'[q] = pc[q] /\ target'[q] = target[q] /\ readCfg'[q] = readCfg[q]
  BY <1>0, <1>1 DEF Types
<1>3. ASSUME NEW m \in Node PROVE Steady(m)'
  <2>1. CASE m # n
    <3>1. \A q \in Request : On(q, m)' <=> On(q, m)
      BY <1>1, <1>2, <2>1 DEF On
    <3>2. \A q \in Request : On(q, m) => pc'[q] = pc[q] /\ readCfg'[q] = readCfg[q]
      BY <1>1, <1>2 DEF On
    <3>3. settled'[m] = settled[m]
      BY <1>1, <2>1
    <3> QED BY <1>0, <2>1, <3>1, <3>2, <3>3, SameSteady
  <2>2. CASE m = n
    <3> SUFFICES ASSUME settled'[n] PROVE Steady(n)'
      BY <2>2 DEF Steady
    <3>1. Busy(n) = {} /\ (settles \/ settled[n])
      BY <1>1, <2>2
    <3>2. \A q \in Request : ~On(q, n)
      BY <3>1 DEF Busy, On
    <3>3. Stage(r, n)'
      BY <2>2, <3>1, <3>2
    <3>4. \A q \in Request : On(q, n)' => q = r
      BY <1>2, <3>2 DEF On
    <3>5. On(r, n)'
      BY <1>2 DEF On
    <3>6. \A q \in Request : On(q, n)' => Stage(q, n)'
      BY <3>3, <3>4
    <3>7. ~(\A q \in Request : ~On(q, n))'
      BY <3>5
    <3>8. (\A p, q \in Request : On(p, n) /\ On(q, n) => p = q)'
      BY <3>4
    <3> QED BY <3>6, <3>7, <3>8 DEF Steady
  <2> QED BY <2>1, <2>2
<1> QED BY <1>3

(* The types a request's start keeps.                                      *)
LEMMA StartTypes ==
  ASSUME Types, NEW r \in Request, NEW n \in Entry, NEW c \in Config \cup {NoConfig},
         NEW next \in Calls, NEW settles \in BOOLEAN, Start(r, n, c, next, settles)
  PROVE  /\ pc' \in [Request -> Calls] /\ target' \in [Request -> Entry]
         /\ readCfg' \in [Request -> Config \cup {NoConfig}] /\ settled' \in [Node -> BOOLEAN]
         /\ pc'[r] = next /\ readCfg'[r] = c
<1>1. settled' \in [Node -> BOOLEAN]
  <2>1. \A m \in Node : settled[m] \in BOOLEAN
    BY DEF Types
  <2> QED BY <2>1 DEF Start
<1> QED BY <1>1 DEF Start, Types

-----------------------------------------------------------------------------
(* The requests of handlers that read the settings.                        *)
LEMMA RequestInv ==
  ASSUME Inv, NEW r \in Request, NEW n \in Node,
         ActivateRequest(r, n) \/ OverviewRequest(r, n)
  PROVE  Inv'
<1>0. Types /\ Numbered /\ Steady(n)
  BY DEF Inv
<1>1. UNCHANGED <<mgrVars, wsVars>>
  BY DEF ActivateRequest, OverviewRequest
<1>2. UNCHANGED <<cfgStore, conns, fresh, usedCfg, nodeCfg, status>>
  BY <1>1 DEF mgrVars, wsVars
<1>3. n \in Entry /\ nodeCfg[n] \in Config \cup {NoConfig}
  BY <1>0 DEF Entry, Types
<1>4. PICK next \in {"register", "get"}, settles \in BOOLEAN :
        Start(r, n, nodeCfg[n], next, settles) /\ settles = (next = "register")
  BY DEF ActivateRequest, OverviewRequest
<1>5. next \in Calls /\ next # "idle"
  BY DEF Calls
<1>6. /\ pc' \in [Request -> Calls] /\ target' \in [Request -> Entry]
      /\ readCfg' \in [Request -> Config \cup {NoConfig}] /\ settled' \in [Node -> BOOLEAN]
      /\ pc'[r] = next /\ readCfg'[r] = nodeCfg[n]
  <2>1. CASE ActivateRequest(r, n)
    <3>1. Start(r, n, nodeCfg[n], next, TRUE) /\ TRUE \in BOOLEAN
      BY <1>4, <2>1 DEF ActivateRequest, Start
    <3> QED BY <1>0, <1>3, <1>5, <3>1, StartTypes
  <2>2. CASE OverviewRequest(r, n)
    <3>1. Start(r, n, nodeCfg[n], next, FALSE) /\ FALSE \in BOOLEAN
      BY <1>4, <2>2 DEF OverviewRequest, Start
    <3> QED BY <1>0, <1>3, <1>5, <3>1, StartTypes
  <2> QED BY <2>1, <2>2
<1>7. Types' /\ Numbered'
  BY <1>0, <1>2, <1>6 DEF Types, Numbered
<1>8. \A m \in Node : m # n => Same(m)
  BY <1>2 DEF Same
<1>9. ASSUME settles \/ settled[n], \A q \in Request : ~On(q, n) PROVE Stage(r, n)'
  <2>1. CASE next = "register"
    BY <1>2, <1>6, <2>1 DEF Stage
  <2>2. CASE next = "get"
    <3>1. Ready(n) => Connected(n)
      BY <1>0, <1>4, <1>9, <2>2 DEF Steady
    <3> QED BY <1>2, <1>6, <2>2, <3>1 DEF Stage, Ready, Connected
  <2> QED BY <2>1, <2>2
<1>10. (\A m \in Node : Steady(m))'
  BY <1>3, <1>4, <1>5, <1>8, <1>9, StartSteady
<1> QED BY <1>7, <1>10 DEF Inv

(* POST /api/connect is about no node of the workspace.                    *)
LEMMA ConnectInv ==
  ASSUME Inv, NEW r \in Request, NEW c \in Config, ConnectRequest(r, c)
  PROVE  Inv'
<1>0. Types /\ Numbered
  BY DEF Inv
<1>1. UNCHANGED <<cfgStore, conns, fresh, usedCfg, nodeCfg, status>>
  BY DEF ConnectRequest, mgrVars, wsVars
<1>2. Start(r, Direct, c, "probe", FALSE) /\ Direct \in Entry /\ "probe" \in Calls
  BY DEF ConnectRequest, Entry, Calls
<1>3. /\ pc' \in [Request -> Calls] /\ target' \in [Request -> Entry]
      /\ readCfg' \in [Request -> Config \cup {NoConfig}] /\ settled' \in [Node -> BOOLEAN]
  BY <1>0, <1>2, StartTypes
<1>4. Types' /\ Numbered'
  BY <1>0, <1>1, <1>3 DEF Types, Numbered
<1>5. \A m \in Node : m # Direct => Same(m)
  BY <1>1 DEF Same
<1>6. (\A m \in Node : Steady(m))'
  BY <1>2, <1>5, DirectAssumption, StartSteady
<1> QED BY <1>4, <1>6 DEF Inv

(* An import makes a node that was not there, with the status "unknown".   *)
LEMMA ImportInv ==
  ASSUME Inv, NEW r \in Request, NEW n \in Node, NEW c \in Config, ImportRequest(r, n, c)
  PROVE  Inv'
<1>0. Types /\ Numbered
  BY DEF Inv
<1>1. /\ UNCHANGED <<cfgStore, conns, fresh, usedCfg>>
      /\ nodeCfg' = [nodeCfg EXCEPT ![n] = c] /\ status' = [status EXCEPT ![n] = "unknown"]
  BY DEF ImportRequest, mgrVars
<1>2. Start(r, n, c, "probe", FALSE) /\ n \in Entry /\ "probe" \in Calls
  BY DEF ImportRequest, Entry, Calls
<1>3. /\ pc' \in [Request -> Calls] /\ target' \in [Request -> Entry]
      /\ readCfg' \in [Request -> Config \cup {NoConfig}] /\ settled' \in [Node -> BOOLEAN]
      /\ pc'[r] = "probe"
  BY <1>0, <1>2, StartTypes
<1>4. Types' /\ Numbered'
  BY <1>0, <1>1, <1>3 DEF Types, Numbered, Statuses
<1>5. \A m \in Node : m # n => Same(m)
  BY <1>0, <1>1 DEF Same, Types
<1>6. Stage(r, n)'
  BY <1>0, <1>1, <1>3 DEF Stage, Ready, Types
<1>7. (\A m \in Node : Steady(m))'
  BY <1>2, <1>5, <1>6, StartSteady
<1> QED BY <1>4, <1>7 DEF Inv

(* A deactivation drops the client of its node.                            *)
LEMMA DeactivateInv ==
  ASSUME Inv, NEW r \in Request, NEW n \in Node, DeactivateRequest(r, n)
  PROVE  Inv'
<1>0. Types /\ Numbered
  BY DEF Inv
<1>1. /\ UNCHANGED <<cfgStore, fresh, usedCfg, nodeCfg, status>>
      /\ conns' = [conns EXCEPT ![n] = 0]
  BY DEF DeactivateRequest, CM!Deactivate, CM!Drop, CM!NoClient, wsVars
<1>2. Start(r, n, NoConfig, "deactivated", TRUE) /\ n \in Entry /\ "deactivated" \in Calls
  BY DEF DeactivateRequest, Entry, Calls
<1>3. /\ pc' \in [Request -> Calls] /\ target' \in [Request -> Entry]
      /\ readCfg' \in [Request -> Config \cup {NoConfig}] /\ settled' \in [Node -> BOOLEAN]
      /\ pc'[r] = "deactivated"
  BY <1>0, <1>2, StartTypes
<1>4. conns' \in [Entry -> Numbers \cup {0}] /\ Numbered'
  <2>1. /\ conns' \in [Entry -> Numbers \cup {0}]
        /\ \A m \in Entry : conns'[m] = 0 \/ conns'[m] = conns[m]
    BY <1>0, <1>1 DEF Types
  <2>2. fresh' = fresh /\ fresh \in Nat /\ 0 < fresh
    BY <1>0, <1>1, ClientsAssumption DEF Types
  <2>3. \A m \in Entry : conns[m] < fresh
    BY <1>0 DEF Numbered
  <2> QED BY <2>1, <2>2, <2>3 DEF Numbered
<1>5. Types'
  BY <1>0, <1>1, <1>3, <1>4 DEF Types
<1>6. \A m \in Node : m # n => Same(m)
  BY <1>0, <1>1 DEF Same, Types, Entry
<1>7. Stage(r, n)'
  BY <1>3 DEF Stage
<1>8. (\A m \in Node : Steady(m))'
  BY <1>2, <1>6, <1>7, StartSteady
<1> QED BY <1>4, <1>5, <1>8 DEF Inv

-----------------------------------------------------------------------------
(* The calls of a request that change neither the manager nor a node.      *)
LEMMA LookInv ==
  ASSUME Inv, NEW r \in Request,
         ActivateDialFails(r) \/ OverviewGet(r) \/ DialOnlyFails(r)
  PROVE  Inv'
<1>0. Types /\ Numbered
  BY DEF Inv
<1>1. /\ UNCHANGED <<cfgStore, conns, fresh, usedCfg, nodeCfg, status>>
      /\ UNCHANGED <<target, readCfg, settled>>
  BY DEF ActivateDialFails, OverviewGet, DialOnlyFails, Goto, Continue, mgrVars, wsVars
<1>2. PICK next \in Calls : /\ pc' = [pc EXCEPT ![r] = next]
                            /\ \/ pc[r] = "dial" /\ next = "failed"
                               \/ /\ pc[r] = "get"
                                  /\ next = IF conns[target[r]] = 0 THEN "registerOnly" ELSE "idle"
                               \/ pc[r] \in {"dialOnly", "probe"} /\ next = "idle"
  BY DEF ActivateDialFails, OverviewGet, DialOnlyFails, Goto, Continue, Calls, CM!NoClient
<1>3. Types' /\ Numbered'
  BY <1>0, <1>1, <1>2 DEF Types, Numbered
<1>4. \A n \in Node : n # target[r] => Same(n)
  BY <1>1 DEF Same
<1>5. pc'[r] = next /\ pc[r] # "idle"
  BY <1>0, <1>2 DEF Types
<1>6. ASSUME target[r] \in Node, Stage(r, target[r])
      PROVE  IF next = "idle" THEN (Ready(target[r]) => Connected(target[r]))'
                              ELSE Stage(r, target[r])'
  <2>1. CASE pc[r] = "dial" /\ next = "failed"
    BY <1>5, <2>1 DEF Stage
  <2>2. CASE pc[r] = "get" /\ conns[target[r]] = 0 /\ next = "registerOnly"
    <3>1. ~Ready(target[r])
      BY <1>6, <2>2 DEF Stage, Connected
    <3>2. ~Ready(target[r])'
      BY <1>1, <3>1 DEF Ready
    <3> QED BY <1>5, <2>2, <3>2 DEF Stage
  <2>3. CASE pc[r] = "get" /\ next = "idle"
    <3>1. Ready(target[r]) => Connected(target[r])
      BY <1>6, <2>3 DEF Stage
    <3> QED BY <1>1, <2>3, <3>1 DEF Ready, Connected
  <2>4. CASE pc[r] \in {"dialOnly", "probe"} /\ next = "idle"
    <3>1. ~Ready(target[r])
      BY <1>6, <2>4 DEF Stage
    <3> QED BY <1>1, <2>4, <3>1 DEF Ready
  <2> QED BY <1>2, <2>1, <2>2, <2>3, <2>4
<1>7. (\A n \in Node : Steady(n))'
  BY <1>1, <1>2, <1>4, <1>5, <1>6, CallSteady
<1> QED BY <1>3, <1>7 DEF Inv

(* The settings a request has read become the manager's.                   *)
LEMMA RegisterInv ==
  ASSUME Inv, NEW r \in Request, ActivateRegister(r) \/ RegisterOnly(r)
  PROVE  Inv'
<1>0. Types /\ Numbered
  BY DEF Inv
<1>1. /\ UNCHANGED <<conns, fresh, usedCfg, nodeCfg, status, target, readCfg, settled>>
      /\ cfgStore' = [cfgStore EXCEPT ![target[r]] = readCfg[r]]
  BY DEF ActivateRegister, RegisterOnly, Goto, Continue, CM!Register, wsVars
<1>2. PICK next \in Calls : /\ pc' = [pc EXCEPT ![r] = next]
                            /\ \/ pc[r] = "register" /\ next = "connecting"
                               \/ pc[r] = "registerOnly" /\ next = "dialOnly"
  BY DEF ActivateRegister, RegisterOnly, Goto, Continue, Calls
<1>3. Types' /\ Numbered'
  BY <1>0, <1>1, <1>2 DEF Types, Numbered
<1>4. \A n \in Node : n # target[r] => Same(n)
  BY <1>0, <1>1 DEF Same, Types, Entry
<1>5. /\ pc'[r] = next /\ pc[r] # "idle" /\ next # "idle"
      /\ cfgStore'[target[r]] = readCfg[r]
  BY <1>0, <1>1, <1>2 DEF Types
<1>6. ASSUME target[r] \in Node, Stage(r, target[r])
      PROVE  Stage(r, target[r])'
  <2>1. CASE pc[r] = "register" /\ next = "connecting"
    BY <1>1, <1>5, <1>6, <2>1 DEF Stage
  <2>2. CASE pc[r] = "registerOnly" /\ next = "dialOnly"
    <3>1. ~Ready(target[r])'
      BY <1>1, <1>6, <2>2 DEF Stage, Ready
    <3> QED BY <1>5, <2>2, <3>1 DEF Stage
  <2> QED BY <1>2, <2>1, <2>2
<1>7. (\A n \in Node : Steady(n))'
  BY <1>1, <1>2, <1>4, <1>5, <1>6, CallSteady
<1> QED BY <1>3, <1>7 DEF Inv

(* A status is recorded, or cannot be: then the node is settled no more.   *)
LEMMA StatusInv ==
  ASSUME Inv, NEW r \in Request,
         ActivateConnecting(r) \/ ActivateEnd(r) \/ DeactivateEnd(r)
  PROVE  Inv'
<1>0. Types /\ Numbered
  BY DEF Inv
<1>1. UNCHANGED <<cfgStore, conns, fresh, usedCfg, nodeCfg, target, readCfg>>
  BY DEF ActivateConnecting, ActivateEnd, DeactivateEnd, Continue, SetStatus, mgrVars
<1>2. PICK ok \in BOOLEAN, next \in Calls, s \in Statuses :
        /\ pc' = [pc EXCEPT ![r] = next] /\ SetStatus(target[r], s, ok)
        /\ \/ /\ pc[r] = "connecting" /\ s = "connecting"
              /\ next = IF ok THEN "dial" ELSE "idle"
           \/ pc[r] \in {"ready", "failed"} /\ s = pc[r] /\ next = "idle"
           \/ pc[r] = "deactivated" /\ s = "unknown" /\ next = "idle"
  BY DEF ActivateConnecting, ActivateEnd, DeactivateEnd, Continue, Calls, Statuses
<1>3. /\ status' = IF ok THEN [status EXCEPT ![target[r]] = s] ELSE status
      /\ settled' = IF ok THEN settled ELSE [settled EXCEPT ![target[r]] = FALSE]
  BY <1>2 DEF SetStatus
<1>4. Types' /\ Numbered'
  <2>1. status' \in [Node -> Statuses]
    BY <1>0, <1>3 DEF Types
  <2>2. pc' \in [Request -> Calls]
    BY <1>0, <1>2 DEF Types
  <2>3. settled' \in [Node -> BOOLEAN]
    BY <1>0, <1>3 DEF Types
  <2> QED BY <1>0, <1>1, <2>1, <2>2, <2>3 DEF Types, Numbered
<1>5. /\ \A n \in Node : settled'[n] => settled[n]
      /\ \A n \in Node : n # target[r] => Same(n)
  <2>1. \A n \in Node : n # target[r] => status'[n] = status[n]
    BY <1>0, <1>3 DEF Types
  <2>2. \A n \in Node : settled'[n] => settled[n]
    BY <1>0, <1>3 DEF Types
  <2> QED BY <1>1, <2>1, <2>2 DEF Same
<1>6. pc'[r] = next /\ pc[r] # "idle"
  BY <1>0, <1>2 DEF Types
<1>7. ASSUME target[r] \in Node, settled'[target[r]], Stage(r, target[r])
      PROVE  IF next = "idle" THEN (Ready(target[r]) => Connected(target[r]))'
                              ELSE Stage(r, target[r])'
  <2>1. ok /\ status'[target[r]] = s
    BY <1>0, <1>3, <1>7 DEF Types
  <2>2. Ready(target[r])' => s = "ready"
    BY <1>1, <2>1 DEF Ready
  <2>3. CASE next = "dial" /\ pc[r] = "connecting"
    BY <1>1, <1>6, <1>7, <2>3 DEF Stage
  <2>4. CASE next = "idle" /\ pc[r] = "ready"
    BY <1>1, <1>7, <2>4 DEF Stage, Connected
  <2>5. CASE next = "idle" /\ ~Ready(target[r])'
    BY <2>5
  <2> QED BY <1>2, <2>1, <2>2, <2>3, <2>4, <2>5
<1>8. (\A n \in Node : Steady(n))'
  BY <1>1, <1>2, <1>5, <1>6, <1>7, CallSteady
<1> QED BY <1>4, <1>8 DEF Inv

(* A client is opened; its number is used by no entry yet, so what the     *)
(* other entries hold is as it was.                                        *)
LEMMA OpenInv ==
  ASSUME Inv, NEW r \in Request, ActivateDial(r) \/ DialOnly(r) \/ Probe(r)
  PROVE  Inv'
<1>0. Types /\ Numbered
  BY DEF Inv
<1>1. /\ UNCHANGED <<cfgStore, nodeCfg, status>>
      /\ UNCHANGED <<target, readCfg, settled>>
      /\ fresh =< MaxClients /\ fresh' = fresh + 1
  BY DEF ActivateDial, DialOnly, Probe, Dial, CM!Activate, CM!Connect, Goto, Continue, wsVars
<1>types. cfgStore[target[r]] \in Config \cup {NoConfig} /\ readCfg[r] \in Config \cup {NoConfig}
  BY <1>0 DEF Types
<1>2. PICK next \in Calls, c \in Config \cup {NoConfig} :
        /\ pc' = [pc EXCEPT ![r] = next]
        /\ c \in {cfgStore[target[r]], readCfg[r]} /\ usedCfg' = [usedCfg EXCEPT ![fresh] = c]
        /\ \/ /\ pc[r] = "dial" /\ next = "ready" /\ c = cfgStore[target[r]]
              /\ conns' = [conns EXCEPT ![target[r]] = fresh]
           \/ /\ pc[r] = "dialOnly" /\ next = "idle"
              /\ conns' = [conns EXCEPT ![target[r]] = fresh]
           \/ pc[r] = "probe" /\ next = "registerOnly" /\ conns' = conns
  <2>1. CASE ActivateDial(r)
    BY <1>types, <2>1 DEF ActivateDial, Dial, CM!Activate, Goto, Continue, Calls
  <2>2. CASE DialOnly(r)
    BY <1>types, <2>2 DEF DialOnly, Dial, CM!Activate, Goto, Continue, Calls
  <2>3. CASE Probe(r)
    BY <1>types, <2>3 DEF Probe, Goto, Continue, Calls
  <2> QED BY <2>1, <2>2, <2>3
<1>3. fresh \in Numbers /\ fresh \in Nat /\ fresh # 0 /\ fresh' \in 1..(MaxClients + 1)
  BY <1>0, <1>1, ClientsAssumption DEF Types, Numbers
<1>4. target[r] \in Entry /\ c \in Config \cup {NoConfig}
  BY <1>0, <1>2 DEF Types
<1>5. \A n \in Entry : /\ conns[n] \in Numbers \cup {0} /\ conns[n] < fresh
                       /\ n # target[r] => conns'[n] = conns[n]
                       /\ conns'[n] \in {fresh, conns[n]}
  BY <1>0, <1>2 DEF Types, Numbered
<1>6. conns' \in [Entry -> Numbers \cup {0}]
  BY <1>0, <1>2, <1>3, <1>4 DEF Types
<1>7. Types'
  <2>1. usedCfg' \in [Numbers -> Config \cup {NoConfig}]
    BY <1>0, <1>2, <1>3, <1>4 DEF Types
  <2>2. pc' \in [Request -> Calls]
    BY <1>0, <1>2 DEF Types
  <2> QED BY <1>0, <1>1, <1>3, <1>6, <2>1, <2>2 DEF Types
<1>8. Numbered'
  <2>1. ASSUME NEW n \in Entry PROVE conns'[n] < fresh'
    <3>1. conns[n] \in Nat /\ conns[n] < fresh
      BY <1>5, ClientsAssumption DEF Numbers
    <3> QED BY <1>1, <1>3, <1>5, <3>1
  <2> QED BY <2>1 DEF Numbered
<1>9. \A n \in Node : n # target[r] => Same(n)
  <2>1. ASSUME NEW n \in Node, n # target[r] PROVE Same(n)
    <3>1. n \in Entry
      BY DEF Entry
    <3>2. conns[n] # 0 => conns[n] \in Numbers /\ conns[n] # fresh
      BY <1>3, <1>5, <3>1 DEF Numbers
    <3>3. conns[n] # 0 => usedCfg'[conns[n]] = usedCfg[conns[n]]
      BY <1>0, <1>2, <3>2 DEF Types
    <3> QED BY <1>1, <1>5, <2>1, <3>1, <3>3 DEF Same
  <2> QED BY <2>1
<1>10. pc'[r] = next /\ pc[r] # "idle"
  BY <1>0, <1>2 DEF Types
<1>11. ASSUME target[r] \in Node, Stage(r, target[r])
       PROVE  IF next = "idle" THEN (Ready(target[r]) => Connected(target[r]))'
                               ELSE Stage(r, target[r])'
  <2>1. CASE pc[r] = "dial" /\ next = "ready"
    <3>1. conns' = [conns EXCEPT ![target[r]] = fresh] /\ c = cfgStore[target[r]]
      BY <1>2, <2>1
    <3>2. conns'[target[r]] = fresh
      BY <1>0, <1>4, <3>1 DEF Types
    <3>3. usedCfg'[fresh] = cfgStore[target[r]]
      BY <1>0, <1>2, <1>3, <3>1 DEF Types
    <3>4. cfgStore[target[r]] = nodeCfg[target[r]]
      BY <1>11, <2>1 DEF Stage
    <3>5. Connected(target[r])'
      BY <1>1, <1>3, <3>2, <3>3, <3>4 DEF Connected
    <3> QED BY <1>10, <2>1, <3>5 DEF Stage
  <2>2. CASE pc[r] \in {"dialOnly", "probe"} /\ next \in {"idle", "registerOnly"}
    <3>1. ~Ready(target[r])
      BY <1>11, <2>2 DEF Stage
    <3>2. ~Ready(target[r])'
      BY <1>1, <3>1 DEF Ready
    <3> QED BY <1>10, <2>2, <3>2 DEF Stage
  <2> QED BY <1>2, <2>1, <2>2
<1>12. (\A n \in Node : Steady(n))'
  BY <1>1, <1>2, <1>9, <1>10, <1>11, CallSteady
<1> QED BY <1>7, <1>8, <1>12 DEF Inv

(* The settings of a node change, in the manager or in the workspace, or   *)
(* an old list is written back: the node is settled no more.               *)
LEMMA ChangeInv ==
  ASSUME Inv, PastIn, NEW n \in Node, NEW c \in Config \cup {NoConfig},
         RegisterRequest(n, c) \/ EditNode(n, c) \/ WriteBack(n)
  PROVE  Inv'
<1>0. Types /\ Numbered /\ \A m \in Node : Steady(m)
  BY DEF Inv
<1>1. /\ UNCHANGED <<conns, fresh, usedCfg, pc, target, readCfg>>
      /\ settled' = [settled EXCEPT ![n] = FALSE]
      /\ \E d \in Config \cup {NoConfig}, s \in Statuses :
           /\ cfgStore' \in {cfgStore, [cfgStore EXCEPT ![n] = d]}
           /\ nodeCfg' \in {nodeCfg, [nodeCfg EXCEPT ![n] = d]}
           /\ status' \in {status, [status EXCEPT ![n] = s]}
  <2>1. CASE RegisterRequest(n, c) \/ EditNode(n, c)
    BY <2>1 DEF RegisterRequest, EditNode, CM!Register, mgrVars, wsVars, reqVars, Statuses
  <2>2. CASE WriteBack(n)
    <3>1. PICK e \in past[n] : /\ nodeCfg' = [nodeCfg EXCEPT ![n] = e[1]]
                               /\ status' = [status EXCEPT ![n] = e[2]]
      BY <2>2 DEF WriteBack
    <3>2. e[1] \in Config \cup {NoConfig} /\ e[2] \in Statuses
      BY <3>1 DEF PastIn
    <3> QED BY <2>2, <3>1, <3>2 DEF WriteBack, mgrVars, reqVars
  <2> QED BY <2>1, <2>2
<1>2. Types' /\ Numbered'
  <2>1. cfgStore' \in [Entry -> Config \cup {NoConfig}]
    BY <1>0, <1>1 DEF Types
  <2>2. nodeCfg' \in [Node -> Config \cup {NoConfig}]
    BY <1>0, <1>1 DEF Types
  <2>3. settled' \in [Node -> BOOLEAN]
    BY <1>0, <1>1 DEF Types
  <2>4. status' \in [Node -> Statuses]
    BY <1>0, <1>1 DEF Types
  <2> QED BY <1>0, <1>1, <2>1, <2>2, <2>3, <2>4 DEF Types, Numbered
<1>3. ASSUME NEW m \in Node PROVE Steady(m)'
  <2>1. CASE m = n
    <3>1. settled'[m] = FALSE
      BY <1>0, <1>1, <2>1 DEF Types
    <3> QED BY <3>1 DEF Steady
  <2>2. CASE m # n
    <3>1. settled'[m] = settled[m]
      BY <1>0, <1>1, <2>2 DEF Types
    <3>2. /\ m \in Entry /\ cfgStore'[m] = cfgStore[m] /\ nodeCfg'[m] = nodeCfg[m]
          /\ status'[m] = status[m]
      BY <1>0, <1>1, <2>2 DEF Types, Entry
    <3>3. Same(m)
      BY <1>1, <3>2 DEF Same
    <3>4. \A r \in Request : On(r, m)' <=> On(r, m)
      BY <1>1 DEF On
    <3> QED BY <1>0, <1>1, <3>1, <3>3, <3>4, SameSteady
  <2> QED BY <2>1, <2>2
<1> QED BY <1>2, <1>3 DEF Inv

(* After a restart no node is settled.                                     *)
LEMMA RestartInv ==
  ASSUME Inv, Restart
  PROVE  Inv'
<1>0. Types
  BY DEF Inv
<1>1. /\ UNCHANGED <<fresh, usedCfg, nodeCfg, status, target, readCfg>>
      /\ cfgStore' = [n \in Entry |-> NoConfig] /\ conns' = [n \in Entry |-> 0]
      /\ pc' = [r \in Request |-> "idle"] /\ settled' = [n \in Node |-> FALSE]
  BY DEF Restart, wsVars, CM!NoClient
<1>2. Types'
  BY <1>0, <1>1 DEF Types, Calls
<1>3. Numbered'
  BY <1>0, <1>1, ClientsAssumption DEF Types, Numbered
<1>4. (\A n \in Node : Steady(n))'
  BY <1>1 DEF Steady
<1> QED BY <1>2, <1>3, <1>4 DEF Inv

(* Nothing is settled at first.                                            *)
LEMMA InvInit == Init => Inv
<1> SUFFICES ASSUME Init PROVE Inv
  OBVIOUS
<1>1. /\ cfgStore = [n \in Entry |-> NoConfig] /\ conns = [n \in Entry |-> 0] /\ fresh = 1
      /\ usedCfg = [k \in Numbers |-> NoConfig]
  BY DEF Init, CM!Init, CM!NoClient, CM!ClientId, Numbers
<1>2. Types
  <2>1. fresh \in 1..(MaxClients + 1)
    BY <1>1, ClientsAssumption
  <2>2. conns \in [Entry -> Numbers \cup {0}] /\ usedCfg \in [Numbers -> Config \cup {NoConfig}]
    BY <1>1
  <2> QED BY <1>1, <2>1, <2>2 DEF Init, Types, Statuses, Calls, Entry
<1>3. Numbered
  BY <1>1 DEF Numbered
<1>4. \A n \in Node : Steady(n)
  BY DEF Init, Steady
<1> QED BY <1>2, <1>3, <1>4 DEF Inv

(* At first a node is remembered as it is.                                 *)
LEMMA PastInit == Init => PastIn
<1> SUFFICES ASSUME Init PROVE PastIn
  OBVIOUS
<1>1. \A n \in Node : nodeCfg[n] \in Config \cup {NoConfig} /\ status[n] \in Statuses
  BY DEF Init, Statuses
<1> QED BY <1>1 DEF Init, PastIn

(* A step that changes nothing.                                            *)
LEMMA StutterInv ==
  ASSUME Inv, UNCHANGED vars
  PROVE  Inv'
BY DEF Inv, Types, Numbered, Steady, On, Stage, Ready, Connected, vars, mgrVars, wsVars, reqVars

(* Every step keeps the invariant.                                         *)
LEMMA InvStep == Inv /\ PastIn /\ [Next]_vars => Inv'
<1> SUFFICES ASSUME Inv, PastIn, [Next]_vars PROVE Inv'
  OBVIOUS
<1>1. CASE \E r \in Request : CallEnds(r) \/ DialEnds(r)
  <2>1. PICK r \in Request : CallEnds(r) \/ DialEnds(r)
    BY <1>1
  <2> QED BY <2>1, LookInv, RegisterInv, StatusInv, OpenInv DEF CallEnds, DialEnds
<1>2. CASE \E r \in Request, n \in Node : ActivateRequest(r, n) \/ OverviewRequest(r, n)
  BY <1>2, RequestInv
<1>3. CASE \E r \in Request, n \in Node : DeactivateRequest(r, n)
  BY <1>3, DeactivateInv
<1>4. CASE \E r \in Request, n \in Node, c \in Config : ImportRequest(r, n, c)
  BY <1>4, ImportInv
<1>5. CASE \E r \in Request, c \in Config : ConnectRequest(r, c)
  BY <1>5, ConnectInv
<1>6. CASE \E n \in Node, c \in Config \cup {NoConfig} :
             RegisterRequest(n, c) \/ EditNode(n, c) \/ WriteBack(n)
  BY <1>6, ChangeInv
<1>7. CASE Restart
  BY <1>7, RestartInv
<1>8. CASE UNCHANGED vars
  BY <1>8, StutterInv
<1>9. CASE Step
  <2>1. NoConfig \in Config \cup {NoConfig}
    OBVIOUS
  <2> QED BY <1>1, <1>2, <1>3, <1>4, <1>5, <1>6, <1>7, <1>9, <2>1 DEF Step
<1> QED BY <1>8, <1>9 DEF Next

(* What is remembered of a node is what it had.                            *)
LEMMA PastStep == PastIn /\ Types' /\ [Next]_vars => PastIn'
<1> SUFFICES ASSUME PastIn, Types', [Next]_vars PROVE PastIn'
  OBVIOUS
<1>1. CASE Remember
  <2>1. \A n \in Node : nodeCfg'[n] \in Config \cup {NoConfig} /\ status'[n] \in Statuses
    BY DEF Types
  <2> QED BY <1>1, <2>1 DEF Remember, PastIn
<1>2. CASE UNCHANGED vars
  BY <1>2 DEF vars, PastIn
<1> QED BY <1>1, <1>2 DEF Next

(* The invariant, without requests on a node.                              *)
LEMMA InvReady == Inv => ReadyIsConnected
<1> SUFFICES ASSUME Inv, NEW n \in Node, settled[n], Busy(n) = {}, Exists(n), status[n] = "ready"
             PROVE  conns[n] # CM!NoClient /\ usedCfg[conns[n]] = nodeCfg[n]
  BY DEF ReadyIsConnected
<1>1. \A r \in Request : ~On(r, n)
  BY DEF Busy, On
<1>2. Ready(n) => Connected(n)
  BY <1>1 DEF Inv, Steady
<1> QED BY <1>2 DEF Ready, Connected, Exists, CM!NoClient

(***************************************************************************)
(* What "ready" can be relied on for, with any nodes, settings and number  *)
(* of requests in progress: if the last activation or deactivation of a    *)
(* node overlapped no other request on it and its status writes succeeded, *)
(* and neither its settings were changed nor an old list was written over  *)
(* it since, a node recorded as ready is connected with the settings the   *)
(* workspace has for it (node_handler.go, UpdateNodeStatus, PUT projects). *)
(***************************************************************************)
THEOREM NodeReadyIsConnected == Spec => []ReadyIsConnected
<1>1. Inv /\ PastIn /\ [Next]_vars => (Inv /\ PastIn)'
  BY InvStep, PastStep DEF Inv
<1>2. Init => Inv /\ PastIn
  BY InvInit, PastInit
<1>3. Inv => ReadyIsConnected
  BY InvReady
<1> QED BY <1>1, <1>2, <1>3, PTL DEF Spec

-----------------------------------------------------------------------------
(***************************************************************************)
(* What the connection manager promises of its clients holds among the     *)
(* requests too, although they also open clients that no node holds        *)
(* (Probe) and although the process is restarted.  Held needs Types and    *)
(* Numbered: the number of the next client is in no entry.                 *)
(***************************************************************************)
Held ==
  /\ owner \in [Numbers -> Entry \cup {NoNode}] /\ active \in Entry \cup {NoNode}
  /\ active # NoNode => conns[active] # 0
  /\ \A n \in Entry : conns[n] # 0 => conns[n] \in opened /\ owner[conns[n]] = n

(* Its last two parts are the manager's promise.                           *)
LEMMA HeldIsOpen == Held => CM!ClientsOpen
BY DEF Held, CM!ClientsOpen, CM!ActiveConnected, CM!MapOpen, CM!NoClient

(* Held is about the entries, the clients and the active node.             *)
LEMMA HeldSame ==
  ASSUME Held, UNCHANGED <<conns, active, opened, owner>>
  PROVE  Held'
BY DEF Held, Entry

(* A new client is put in no entry, or in the entry of its node, which is  *)
(* then the active one.                                                    *)
LEMMA HeldConnect ==
  ASSUME Types, Numbered, Held, NEW n \in Entry, CM!Connect(n),
         \/ UNCHANGED <<conns, active>>
         \/ conns' = [conns EXCEPT ![n] = fresh] /\ active' = n
  PROVE  Held'
<1>1. /\ fresh \in Numbers /\ opened' = opened \cup {fresh}
      /\ owner' = [owner EXCEPT ![fresh] = n]
  BY ClientsAssumption DEF Types, CM!Connect, Numbers
<1>2. owner \in [Numbers -> Entry \cup {NoNode}] /\ owner' \in [Numbers -> Entry \cup {NoNode}]
  BY <1>1 DEF Held
<1>3. ASSUME NEW m \in Entry, conns'[m] = conns[m], conns[m] # 0
      PROVE  conns'[m] \in opened' /\ owner'[conns'[m]] = m
  <2>1. conns[m] \in Numbers /\ conns[m] # fresh
    BY <1>1, <1>3 DEF Types, Numbered, Numbers
  <2>2. conns[m] \in opened /\ owner[conns[m]] = m
    BY <1>3 DEF Held
  <2> QED BY <1>1, <1>2, <1>3, <2>1, <2>2
<1>4. CASE UNCHANGED <<conns, active>>
  <2>1. \A m \in Entry : conns'[m] # 0 => conns'[m] \in opened' /\ owner'[conns'[m]] = m
    BY <1>3, <1>4
  <2>2. active' \in Entry \cup {NoNode} /\ (active' # NoNode => conns'[active'] # 0)
    BY <1>4 DEF Held
  <2> QED BY <1>2, <2>1, <2>2 DEF Held
<1>5. CASE conns' = [conns EXCEPT ![n] = fresh] /\ active' = n
  <2>1. conns'[n] = fresh /\ \A m \in Entry : m # n => conns'[m] = conns[m]
    BY <1>5 DEF Types
  <2>2. fresh \in opened' /\ owner'[fresh] = n /\ fresh # 0
    BY <1>1, <1>2 DEF Numbers
  <2>3. \A m \in Entry : conns'[m] # 0 => conns'[m] \in opened' /\ owner'[conns'[m]] = m
    BY <1>3, <2>1, <2>2
  <2> QED BY <1>2, <1>5, <2>1, <2>2, <2>3 DEF Held
<1> QED BY <1>4, <1>5

(* Closing a node's client takes nothing from the other nodes: the clients *)
(* of two nodes differ.                                                    *)
LEMMA HeldDrop ==
  ASSUME Types, Held, NEW n \in Entry, CM!Drop(n), UNCHANGED owner
  PROVE  Held'
<1>1. /\ opened' = opened \ {conns[n]} /\ conns' = [conns EXCEPT ![n] = 0]
      /\ active' = IF active = n THEN NoNode ELSE active
  BY DEF CM!Drop, CM!NoClient
<1>2. conns'[n] = 0 /\ \A m \in Entry : m # n => conns'[m] = conns[m]
  BY <1>1 DEF Types
<1>3. ASSUME NEW m \in Entry, conns'[m] # 0
      PROVE  conns'[m] \in opened' /\ owner'[conns'[m]] = m
  <2>1. m # n /\ conns'[m] = conns[m]
    BY <1>2, <1>3
  <2>2. conns[m] \in opened /\ owner[conns[m]] = m
    BY <1>3, <2>1 DEF Held
  <2>3. conns[m] # conns[n]
    BY <1>3, <2>1, <2>2 DEF Held
  <2> QED BY <1>1, <2>1, <2>2, <2>3
<1>4. active' \in Entry \cup {NoNode} /\ (active' # NoNode => conns'[active'] # 0)
  BY <1>1, <1>2 DEF Held
<1>5. owner' \in [Numbers -> Entry \cup {NoNode}]
  BY DEF Held
<1> QED BY <1>3, <1>4, <1>5 DEF Held

(* Every step keeps it.                                                    *)
LEMMA HeldStep == Inv /\ Held /\ [Next]_vars => Held'
<1> SUFFICES ASSUME Inv, Held, [Next]_vars PROVE Held'
  OBVIOUS
<1>0. Types /\ Numbered
  BY DEF Inv
<1>1. ASSUME NEW r \in Request, CallEnds(r) \/ DialEnds(r) PROVE Held'
  <2>0. target[r] \in Entry
    BY <1>0 DEF Types
  <2>1. CASE ActivateDial(r) \/ DialOnly(r)
    <3>1. /\ CM!Connect(target[r])
          /\ conns' = [conns EXCEPT ![target[r]] = fresh] /\ active' = target[r]
      BY <2>1 DEF ActivateDial, DialOnly, Dial, CM!Activate
    <3> QED BY <1>0, <2>0, <3>1, HeldConnect
  <2>2. CASE Probe(r)
    <3>1. CM!Connect(target[r]) /\ UNCHANGED <<conns, active>>
      BY <2>2 DEF Probe
    <3> QED BY <1>0, <2>0, <3>1, HeldConnect
  <2>3. CASE ActivateRegister(r) \/ RegisterOnly(r)
    BY <2>3, HeldSame DEF ActivateRegister, RegisterOnly, CM!Register
  <2>4. CASE \/ ActivateConnecting(r) \/ ActivateDialFails(r) \/ ActivateEnd(r)
             \/ DeactivateEnd(r) \/ OverviewGet(r) \/ DialOnlyFails(r)
    BY <2>4, HeldSame DEF ActivateConnecting, ActivateDialFails, ActivateEnd, DeactivateEnd,
       OverviewGet, DialOnlyFails, mgrVars
  <2> QED BY <1>1, <2>1, <2>2, <2>3, <2>4 DEF CallEnds, DialEnds
<1>2. ASSUME NEW r \in Request, NEW n \in Node,
             \/ ActivateRequest(r, n) \/ OverviewRequest(r, n)
             \/ \E c \in Config : ImportRequest(r, n, c)
      PROVE  Held'
  BY <1>2, HeldSame DEF ActivateRequest, OverviewRequest, ImportRequest, mgrVars
<1>3. ASSUME NEW r \in Request, NEW n \in Node, DeactivateRequest(r, n) PROVE Held'
  <2>1. CM!Drop(n) /\ UNCHANGED owner /\ n \in Entry
    BY <1>3 DEF DeactivateRequest, CM!Deactivate, Entry
  <2> QED BY <1>0, <2>1, HeldDrop
<1>4. ASSUME NEW r \in Request, NEW c \in Config, ConnectRequest(r, c) PROVE Held'
  BY <1>4, HeldSame DEF ConnectRequest, mgrVars
<1>5. ASSUME NEW n \in Node, NEW c,
             RegisterRequest(n, c) \/ EditNode(n, c) \/ WriteBack(n)
      PROVE  Held'
  BY <1>5, HeldSame DEF RegisterRequest, EditNode, WriteBack, CM!Register, mgrVars
<1>6. CASE Restart
  <2>1. /\ active' = NoNode /\ \A n \in Entry : conns'[n] = 0
        /\ owner' \in [Numbers -> Entry \cup {NoNode}]
    BY <1>6 DEF Restart, Held, CM!NoClient
  <2> QED BY <2>1 DEF Held
<1>7. CASE UNCHANGED vars
  BY <1>7, HeldSame DEF vars, mgrVars
<1>8. CASE Step
  BY <1>1, <1>2, <1>3, <1>4, <1>5, <1>6, <1>8 DEF Step
<1> QED BY <1>7, <1>8 DEF Next

(* At first there is no client.                                            *)
LEMMA HeldInit == Init => Held
<1> SUFFICES ASSUME Init PROVE Held
  OBVIOUS
<1>1. /\ active = NoNode /\ \A n \in Entry : conns[n] = 0
      /\ owner = [k \in Numbers |-> NoNode]
  BY DEF Init, CM!Init, CM!NoClient, CM!ClientId, Numbers
<1> QED BY <1>1 DEF Held

(***************************************************************************)
(* The connection manager keeps its promise among all the handlers that    *)
(* use it (manager.go, node_handler.go, handler.go): in whatever order the *)
(* calls of overlapping activations, deactivations, imports and overviews  *)
(* come, with the clients opened to probe a database that no entry holds,  *)
(* and across restarts, the client held for a node is open and is that     *)
(* node's own, and the active node has one.                                *)
(***************************************************************************)
THEOREM NodesClientsOpen == Spec => []CM!ClientsOpen
<1>1. Inv /\ PastIn /\ Held /\ [Next]_vars => (Inv /\ PastIn /\ Held)'
  BY InvStep, PastStep, HeldStep DEF Inv
<1>2. Init => Inv /\ PastIn /\ Held
  BY InvInit, PastInit, HeldInit
<1>3. Inv /\ Held => CM!ClientsOpen
  BY HeldIsOpen
<1> QED BY <1>1, <1>2, <1>3, PTL DEF Spec
=============================================================================
