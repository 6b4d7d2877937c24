------------------------------ MODULE HostView ------------------------------
(***************************************************************************)
(* The page that manages hosts (components/workspace/                      *)
(* HostManagementView.tsx).  Adding and editing share one set of form      *)
(* fields; every change is a request followed by a load of the whole list, *)
(* and nothing keeps a second operation from starting while the first is   *)
(* still under way.                                                        *)
(*                                                                         *)
(* A host is its id and one value for the fields of the form: Blank when   *)
(* they have been cleared, "host" when only the address is there, "typed"  *)
(* when name and address are.  An operation runs through the stages sent,  *)
(* ok or fail, load (with the answer read by then) and end; showing the    *)
(* page starts at ok.                                                      *)
(***************************************************************************)
EXTENDS Naturals, FiniteSets

CONSTANTS MaxHosts,     \* bound: ids of hosts
          MaxHostOps,   \* bound: operations
          MaxHostFails  \* bound: requests that fail
ASSUME HostsAssumption == MaxHosts \in Nat \ {0}

VARIABLES
  hostStore,       \* the backend's hosts: id to value
  hosts,           \* the list on the page
  form,            \* formName, formHost, ...
  showAdd, editingId, submitting, hostError,
  loading,         \* the list is replaced by a notice: nothing in it can be used
  scanned,         \* scanResult is shown
  hostOps,         \* operations under way
  hostCount, hostFails,
  overlap,         \* two operations have been under way at one time
  dismissed,       \* cancelling an edit took an error away, no load since
  emptied,         \* since the open edit was opened, the user, or the end of an
                   \* addition, has emptied fields of the form
  blanked          \* ids of hosts updated with such a form

hostVars == <<hostStore, hosts, form, showAdd, editingId, submitting, hostError,
              loading, scanned, hostOps, hostCount, hostFails, overlap, dismissed,
              emptied, blanked>>

NoHosts == [i \in {} |-> "none"]
Blank == ""
OpOf(k, i, v) == [n |-> hostCount + 1, kind |-> k, id |-> i, val |-> v,
                  st |-> "sent", ans |-> NoHosts]

HostInit ==
  /\ hostStore = [i \in {1} |-> "typed"] /\ hosts = NoHosts
  /\ form = Blank /\ showAdd = FALSE /\ editingId = 0
  /\ submitting = FALSE /\ hostError = FALSE /\ scanned = FALSE
  /\ loading = FALSE /\ dismissed = FALSE
  /\ hostCount = 0 /\ hostFails = 0 /\ overlap = FALSE
  /\ emptied = FALSE /\ blanked = {}
  /\ hostOps = {[n |-> 0, kind |-> "show", id |-> 0, val |-> Blank, st |-> "ok",
                 ans |-> NoHosts]}

-----------------------------------------------------------------------------
(* The dialogs.                                                            *)
Dialog == UNCHANGED <<hostStore, hosts, submitting, loading, hostOps, hostCount, hostFails,
                      overlap, blanked, scanned>>

openAdd ==
  /\ Dialog /\ ~showAdd /\ showAdd' = TRUE /\ editingId' = 0 /\ emptied' = FALSE
  /\ UNCHANGED <<form, hostError, dismissed>>
closeAdd ==
  /\ Dialog /\ showAdd /\ showAdd' = FALSE
  /\ UNCHANGED <<form, emptied, editingId, hostError, dismissed>>
importScanned ==
  /\ Dialog /\ scanned /\ ~showAdd
  /\ showAdd' = TRUE
  /\ form' = IF form = Blank THEN "host" ELSE form
  /\ UNCHANGED <<emptied, editingId, hostError, dismissed>>
(* Slip: the fields are not filled with those of the host.                 *)
startEditBare(i) ==
  /\ Dialog /\ ~showAdd /\ ~loading /\ editingId' = i /\ emptied' = FALSE
  /\ UNCHANGED <<form, showAdd, hostError, dismissed>>
startEdit(i) ==
  /\ Dialog /\ ~showAdd /\ ~loading /\ editingId' = i /\ form' = hosts[i]
  /\ emptied' = FALSE
  /\ UNCHANGED <<showAdd, hostError, dismissed>>
cancelEdit ==
  /\ Dialog /\ ~showAdd /\ ~loading /\ editingId \in DOMAIN hosts /\ editingId' = 0
  /\ emptied' = FALSE /\ hostError' = FALSE /\ dismissed' = (dismissed \/ hostError)
  /\ UNCHANGED <<form, showAdd>>
(* The user types into the fields, or empties them.                        *)
typeForm ==
  /\ Dialog /\ (showAdd \/ (~loading /\ editingId \in DOMAIN hosts))
  /\ form' \in {Blank, "typed"} \ {form}
  /\ emptied' = (emptied \/ (editingId # 0 /\ form' = Blank))
  /\ UNCHANGED <<showAdd, editingId, hostError, dismissed>>

-----------------------------------------------------------------------------
(* Operations start.                                                       *)
Start(op) ==
  /\ hostCount < MaxHostOps /\ hostCount' = hostCount + 1
  /\ hostOps' = hostOps \cup {op}
  /\ overlap' = (overlap \/ hostOps # {})
  /\ UNCHANGED <<hostStore, hosts, form, showAdd, editingId, loading, hostError, hostFails,
                 dismissed, emptied>>

(* Slip: the button stays usable while a host is being added.              *)
handleAddHostTwice ==
  /\ showAdd /\ form = "typed"
  /\ submitting' = TRUE
  /\ Start(OpOf("add", 0, form)) /\ UNCHANGED <<scanned, blanked>>
handleAddHost ==
  /\ showAdd /\ ~submitting /\ form = "typed"
  /\ submitting' = TRUE
  /\ Start(OpOf("add", 0, form)) /\ UNCHANGED <<scanned, blanked>>
handleDeleteHost(i) ==
  /\ ~showAdd /\ ~loading /\ editingId # i
  /\ Start(OpOf("delete", i, Blank)) /\ UNCHANGED <<scanned, submitting, blanked>>
(* Nothing checks the fields of an update.                                 *)
handleUpdateHost ==
  /\ ~showAdd /\ ~loading /\ editingId \in DOMAIN hosts
  /\ blanked' = blanked \cup IF emptied /\ form # "typed" THEN {editingId} ELSE {}
  /\ Start(OpOf("update", editingId, form)) /\ UNCHANGED <<scanned, submitting>>
handleScan ==
  /\ \A o \in hostOps : o.kind # "scan"
  /\ scanned' = FALSE
  /\ Start(OpOf("scan", 0, Blank)) /\ UNCHANGED <<submitting, blanked>>

(* The backend carries one out; it fails, or its answer is lost.           *)
NewHost == CHOOSE i \in 1..MaxHosts + 1 :
             i \notin DOMAIN hostStore /\ \A j \in 1..(i - 1) : j \in DOMAIN hostStore
Applied(o) ==
  CASE o.kind = "add" /\ NewHost =< MaxHosts ->
         [i \in DOMAIN hostStore \cup {NewHost} |->
            IF i = NewHost THEN o.val ELSE hostStore[i]]
    [] o.kind = "delete" -> [i \in DOMAIN hostStore \ {o.id} |-> hostStore[i]]
    [] o.kind = "update" /\ o.id \in DOMAIN hostStore ->
         [hostStore EXCEPT ![o.id] = o.val]
    [] OTHER -> hostStore
Move(o, st, ans) == hostOps' = (hostOps \ {o}) \cup {[o EXCEPT !.st = st, !.ans = ans]}

BackendDoes(o) ==
  /\ o.st = "sent" /\ Move(o, "ok", NoHosts)
  /\ hostStore' = Applied(o)
  /\ UNCHANGED <<hosts, form, showAdd, editingId, submitting, hostError, loading, scanned,
                 hostCount, hostFails, overlap, dismissed, emptied, blanked>>
RequestFails(o) ==
  /\ o.st = "sent" \/ (o.st = "ok" /\ o.kind # "show")
  /\ hostFails < MaxHostFails /\ hostFails' = hostFails + 1
  /\ Move(o, "fail", NoHosts)
  /\ UNCHANGED <<hostStore, hosts, form, showAdd, editingId, submitting, hostError, loading,
                 scanned, hostCount, overlap, dismissed, emptied, blanked>>

(* loadHosts: the error is cleared, the list read, and shown when it comes *)
(* back, or the error is set.                                              *)
loadHosts(o) ==
  /\ o.st = "ok" /\ o.kind # "scan"
  /\ hostError' = FALSE /\ loading' = TRUE
  /\ Move(o, "load", hostStore)
  /\ UNCHANGED <<hostStore, hosts, form, showAdd, editingId, submitting, scanned,
                 hostCount, hostFails, overlap, dismissed, emptied, blanked>>

LoadEnds(o, list) ==
  /\ o.st = "load" /\ Move(o, "end", NoHosts) /\ loading' = FALSE
  /\ \/ hosts' = list /\ dismissed' = FALSE /\ UNCHANGED <<hostError, hostFails>>
     \/ /\ hostFails < MaxHostFails /\ hostFails' = hostFails + 1
        /\ hostError' = TRUE /\ UNCHANGED <<hosts, dismissed>>
  /\ UNCHANGED <<hostStore, form, showAdd, editingId, submitting, scanned, hostCount,
                 overlap, emptied, blanked>>
loaded(o) == LoadEnds(o, o.ans)

-----------------------------------------------------------------------------
(* What follows: the dialog is closed and the fields they share cleared.   *)
Finish(o) ==
  /\ hostOps' = hostOps \ {o}
  /\ UNCHANGED <<hostStore, hosts, loading, hostCount, hostFails, overlap, dismissed, blanked>>
addDone(o) ==
  /\ o.kind = "add" /\ o.st = "end" /\ Finish(o)
  /\ form' = Blank /\ emptied' = (editingId # 0)
  /\ showAdd' = FALSE /\ submitting' = FALSE
  /\ UNCHANGED <<editingId, hostError, scanned>>
updateDone(o) ==
  /\ o.kind = "update" /\ o.st = "end" /\ Finish(o)
  /\ form' = Blank /\ editingId' = 0 /\ emptied' = FALSE
  /\ UNCHANGED <<showAdd, submitting, hostError, scanned>>
otherDone(o) ==
  /\ o.kind \in {"show", "delete"} /\ o.st = "end" /\ Finish(o)
  /\ UNCHANGED <<form, showAdd, editingId, submitting, hostError, scanned, emptied>>
scanDone(o) ==
  /\ o.kind = "scan" /\ o.st = "ok" /\ Finish(o)
  /\ scanned' = TRUE
  /\ UNCHANGED <<form, showAdd, editingId, submitting, hostError, emptied>>

(* A failure is only reported; finally frees the add button.               *)
opFailed(o) ==
  /\ o.st = "fail" /\ Finish(o)
  /\ hostError' = TRUE
  /\ submitting' = (submitting /\ o.kind # "add")
  /\ UNCHANGED <<form, showAdd, editingId, scanned, emptied>>

HostUser ==
  \/ openAdd \/ closeAdd \/ importScanned \/ cancelEdit \/ typeForm
  \/ handleAddHost \/ handleUpdateHost \/ handleScan
  \/ \E i \in DOMAIN hosts : startEdit(i) \/ handleDeleteHost(i)
HostSteps ==
  \E o \in hostOps :
    \/ BackendDoes(o) \/ RequestFails(o) \/ loadHosts(o) \/ loaded(o)
    \/ addDone(o) \/ updateDone(o) \/ otherDone(o) \/ scanDone(o) \/ opFailed(o)
HostNext == HostUser \/ HostSteps

(* Fairness: requests end and the code after them runs.                    *)
HostFair == WF_hostVars(HostSteps)

-----------------------------------------------------------------------------
HostSpec == HostInit /\ [][HostNext]_hostVars /\ HostFair

(* The parts of the page's state have their types, and at most one         *)
(* addition and one scan are under way: their buttons are disabled.        *)
HostTypeOK ==
  /\ DOMAIN hostStore \subseteq 1..MaxHosts /\ DOMAIN hosts \subseteq 1..MaxHosts
  /\ form \in {Blank, "host", "typed"} /\ editingId \in 0..MaxHosts
  /\ {showAdd, submitting, hostError, loading, scanned, overlap, dismissed, emptied} \subseteq BOOLEAN
  /\ \A o, p \in hostOps : o.n = p.n \/ (o.kind = p.kind /\ o.kind \in {"add", "scan"}) => o = p

(* A list that is not the backend's is announced: when nothing is under    *)
(* way the two agree, or the error that kept them apart is still shown,    *)
(* unless the user took it away or operations overlapped (then a load that *)
(* was read earlier may be shown last).                                    *)
HostListFresh ==
  (hostOps = {} /\ ~overlap /\ ~dismissed /\ hosts # hostStore) => hostError

(* No host is added without name or address.  The update of one is not     *)
(* checked, so a host can lose them; but in two ways only: the user has    *)
(* emptied the fields of that edit, or an addition that ended while the    *)
(* edit was open has cleared the form they share.  In every other order of *)
(* dialogs, scans and answers the form of an edit holds what the host had. *)
NoBlankHost ==
  /\ \A i \in DOMAIN hostStore : hostStore[i] # "typed" => i \in blanked
  /\ (editingId # 0 /\ form # "typed") => emptied \/ editingId \in blanked

(* The add button comes back, whether the host was added or not.           *)
AddButtonFreed == []<>(~submitting)
=============================================================================
