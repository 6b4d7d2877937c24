----------------------------- MODULE NodeImport -----------------------------
(***************************************************************************)
(* Adding nodes on the cluster page: the scan of a host, the import of an  *)
(* instance it found, the import of a DSN, the log of all this and the     *)
(* highlight of the node that came in (components/workspace/               *)
(* ClusterHomeView.tsx).                                                   *)
(*                                                                         *)
(* An import is a request (for a DSN two: check, then import), a reload of *)
(* the workspace, and only then the line in the log and the highlight.     *)
(* Only the DSN button is disabled meanwhile; imports of found instances   *)
(* may overlap.  A log entry is its level.                                 *)
(***************************************************************************)
EXTENDS Naturals, Sequences

CONSTANTS LogCap,       \* the 20 lines the log keeps
          MaxImports,   \* bound: imports
          MaxScans,     \* bound: scans
          MaxImpFails   \* bound: requests that fail
ASSUME ImportBounds == LogCap \in Nat /\ MaxImports \in Nat

VARIABLES
  scanLoading, instances, scanError,
  dsnLoading,
  importLogs,
  highlightNode,   \* highlightNodeId; its effect has set the timer that clears it
  imports,         \* imports under way, by number
  pageNodes,       \* nodes of the page's project
  storeNodes,      \* nodes of the backend's
  importCount, scanCount, impFails,
  reloadLost       \* a reload failed, or two have been under way at once

impVars == <<scanLoading, instances, scanError, dsnLoading, importLogs, highlightNode, imports,
             pageNodes, storeNodes, importCount, scanCount, impFails, reloadLost>>

ImpInit ==
  /\ scanLoading = FALSE /\ instances = FALSE /\ scanError = FALSE /\ dsnLoading = FALSE
  /\ importLogs = <<>> /\ highlightNode = 0 /\ imports = {}
  /\ pageNodes = {} /\ storeNodes = {}
  /\ importCount = 0 /\ scanCount = 0 /\ impFails = 0 /\ reloadLost = FALSE

-----------------------------------------------------------------------------
addLog(level) ==
  importLogs' = LET l == <<level>> \o importLogs
                IN  SubSeq(l, 1, IF Len(l) < LogCap THEN Len(l) ELSE LogCap)
clearLogs ==
  /\ importLogs # <<>> /\ importLogs' = <<>>
  /\ UNCHANGED <<scanLoading, instances, scanError, dsnLoading, highlightNode, imports,
                 pageNodes, storeNodes, importCount, scanCount, impFails, reloadLost>>

Fails == impFails < MaxImpFails /\ impFails' = impFails + 1

runHostScan ==
  /\ ~scanLoading /\ scanCount < MaxScans /\ scanCount' = scanCount + 1
  /\ scanLoading' = TRUE /\ scanError' = FALSE /\ addLog("info")
  /\ UNCHANGED <<instances, dsnLoading, highlightNode, imports, pageNodes, storeNodes,
                 importCount, impFails, reloadLost>>
scanEnds ==
  /\ scanLoading /\ scanLoading' = FALSE
  /\ \/ instances' = TRUE /\ addLog("success") /\ UNCHANGED <<scanError, impFails>>
     \/ Fails /\ scanError' = TRUE /\ addLog("error") /\ UNCHANGED instances
  /\ UNCHANGED <<dsnLoading, highlightNode, imports, pageNodes, storeNodes, importCount,
                 scanCount, reloadLost>>

-----------------------------------------------------------------------------
(* An import starts: with the request, for a DSN with its check.           *)
StartImport(kind, st) ==
  /\ importCount < MaxImports /\ importCount' = importCount + 1
  /\ imports' = imports \cup {[n |-> importCount + 1, kind |-> kind, st |-> st, ans |-> {}]}
  /\ addLog("info")
  /\ UNCHANGED <<scanLoading, instances, scanError, highlightNode, pageNodes, storeNodes,
                 scanCount, impFails, reloadLost>>
importDiscovered == instances /\ StartImport("host", "import") /\ UNCHANGED dsnLoading
validateAndImportDSN ==
  ~dsnLoading /\ dsnLoading' = TRUE /\ StartImport("dsn", "validate")

Moves(i, j) == imports' = (imports \ {i}) \cup {j}
dsnValid(i) ==
  /\ i.st = "validate" /\ Moves(i, [i EXCEPT !.st = "import"]) /\ addLog("success")
  /\ UNCHANGED <<scanLoading, instances, scanError, dsnLoading, highlightNode, pageNodes,
                 storeNodes, importCount, scanCount, impFails, reloadLost>>
imported(i) ==
  /\ i.st = "import" /\ Moves(i, [i EXCEPT !.st = "ask"])
  /\ storeNodes' = storeNodes \cup {i.n}
  /\ UNCHANGED <<scanLoading, instances, scanError, dsnLoading, importLogs, highlightNode,
                 pageNodes, importCount, scanCount, impFails, reloadLost>>

Reloading == {i \in imports : i.st = "reload"}
onReloadWorkspace(i) ==
  /\ i.st = "ask" /\ Moves(i, [i EXCEPT !.st = "reload", !.ans = storeNodes])
  /\ reloadLost' = (reloadLost \/ Reloading # {})
  /\ UNCHANGED <<scanLoading, instances, scanError, dsnLoading, importLogs, highlightNode,
                 pageNodes, storeNodes, importCount, scanCount, impFails>>

Done(i) ==
  /\ imports' = imports \ {i} /\ dsnLoading' = (dsnLoading /\ i.kind # "dsn")
  /\ UNCHANGED <<scanLoading, instances, storeNodes, importCount, scanCount>>
(* The reload ends; a failed one only tells so by its result, which is not *)
(* looked at.  The message and the highlight follow.                       *)
importDone(i) ==
  /\ i.st = "reload" /\ Done(i)
  /\ \/ pageNodes' = i.ans /\ UNCHANGED <<impFails, reloadLost>>
     \/ Fails /\ reloadLost' = TRUE /\ UNCHANGED pageNodes
  /\ addLog("success") /\ highlightNode' = i.n
  /\ UNCHANGED scanError

importFailed(i) ==
  /\ i.st \in {"validate", "import"} /\ Fails /\ Done(i)
  /\ scanError' = (scanError \/ i.kind = "host") /\ addLog("error")
  /\ UNCHANGED <<highlightNode, pageNodes, reloadLost>>

(* The timer of the effect on the highlight, which a new highlight sets    *)
(* anew.                                                                   *)
highlightEnds ==
  /\ highlightNode # 0 /\ highlightNode' = 0
  /\ UNCHANGED <<scanLoading, instances, scanError, dsnLoading, importLogs, imports, pageNodes,
                 storeNodes, importCount, scanCount, impFails, reloadLost>>

ImpSteps ==
  \/ scanEnds \/ highlightEnds
  \/ \E i \in imports : \/ dsnValid(i) \/ imported(i) \/ onReloadWorkspace(i)
                        \/ importDone(i) \/ importFailed(i)
ImpNext == runHostScan \/ importDiscovered \/ validateAndImportDSN \/ clearLogs \/ ImpSteps

(* Fairness: requests end and timers fire.                                 *)
ImpFair == WF_impVars(ImpSteps)
ImpSpec == ImpInit /\ [][ImpNext]_impVars /\ ImpFair

-----------------------------------------------------------------------------
(* The parts of the state have their types, the log never has more than    *)
(* its 20 lines, and the DSN button is disabled while one is imported.     *)
ImpTypeOK ==
  /\ {scanLoading, instances, scanError, dsnLoading, reloadLost} \subseteq BOOLEAN
  /\ importLogs \in Seq({"info", "success", "error"}) /\ Len(importLogs) =< LogCap
  /\ highlightNode \in 0..MaxImports /\ pageNodes \subseteq 1..MaxImports
  /\ (\E i \in imports : i.kind = "dsn") => dsnLoading
  /\ \A i, j \in imports : i.n = j.n => i = j

(* The node that is highlighted is one the page has by then, unless a      *)
(* reload failed or the list another import had asked for earlier came     *)
(* last.                                                                   *)
HighlightShown == (highlightNode # 0 /\ ~reloadLost) => highlightNode \in pageNodes

(* When no more is started the spinners stop and the highlight goes.       *)
ImportSettles == <>[](~scanLoading /\ ~dsnLoading /\ highlightNode = 0)
=============================================================================
