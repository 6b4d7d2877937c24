---------------------------- MODULE RecentTasks ----------------------------
(***************************************************************************)
(* The panel of recent tasks of the page (frontend/src/App.tsx).           *)
(*                                                                         *)
(* Three effects ask for the list: opening the panel, an interval of 3 s   *)
(* while it is open, and a new filter.  The interval keeps calling the     *)
(* function of the render in which the panel was opened, with the filter   *)
(* of that time.  Lists are applied as they arrive; one is known by the    *)
(* filter it was asked with, and a request that fails gives an empty one.  *)
(* The filter is chosen in the banner; that a banner is there is not part  *)
(* of this state, so the model lets the user choose at any time.           *)
(***************************************************************************)
EXTENDS Naturals

Filters == {"all", "running", "success", "failed"}

CONSTANT MaxListFails   \* bound: requests for a list that fail

VARIABLES
  showRecent, recentFilter,    \* showRecentTasks, recentTaskFilter
  tickFilter,      \* the filter the interval asks with
  lists,           \* filters of the lists that are on their way
  recent,          \* the filter of the list that is shown
  listFails

recentVars == <<showRecent, recentFilter, tickFilter, lists, recent, listFails>>

RecentInit ==
  /\ showRecent = FALSE /\ recentFilter = "all" /\ tickFilter = "all"
  /\ lists = {} /\ recent = "none" /\ listFails = 0

(* The panel after setShowRecentTasks(show), setRecentTaskFilter(f): what  *)
(* the effects on each of the two ask for.                                 *)
Panel(show, f) ==
  /\ showRecent' = show /\ recentFilter' = f
  /\ tickFilter' = IF show /\ ~showRecent THEN f ELSE tickFilter
  /\ lists' = IF show /\ (~showRecent \/ f # recentFilter) THEN lists \cup {f} ELSE lists
  /\ UNCHANGED <<recent, listFails>>

toggleRecent == Panel(~showRecent, recentFilter)
selectFilter(f) == showRecent /\ f # recentFilter /\ Panel(TRUE, f)
(* A task that failed is put in the banner, or is put there again.         *)
taskFailed == Panel(TRUE, "failed")

refreshTick ==
  /\ showRecent /\ lists' = lists \cup {tickFilter}
  /\ UNCHANGED <<showRecent, recentFilter, tickFilter, recent, listFails>>

refreshRecentTasks(f) ==
  /\ f \in lists /\ lists' = lists \ {f}
  /\ \/ recent' = f /\ UNCHANGED listFails
     \/ recent' = "none" /\ listFails < MaxListFails /\ listFails' = listFails + 1
  /\ UNCHANGED <<showRecent, recentFilter, tickFilter>>

RecentUser == toggleRecent \/ taskFailed \/ \E f \in Filters : selectFilter(f)
RecentNext ==
  RecentUser \/ refreshTick \/ \E f \in Filters : refreshRecentTasks(f)

(* Fairness: the interval goes on and requests end, of which only so       *)
(* many fail.                                                              *)
RecentFair ==
  /\ WF_recentVars(refreshTick)
  /\ \A f \in Filters : WF_recentVars(refreshRecentTasks(f))

-----------------------------------------------------------------------------
RecentSpec == RecentInit /\ [][RecentNext]_recentVars /\ RecentFair

(* While the panel stays open with the filter it was opened with, the list *)
(* comes to be the one of that filter, whatever older lists still arrive.  *)
(* (After a change of filter the interval still asks with the old one, and *)
(* its lists replace the right one, until the panel is closed.)            *)
RecentListCatchesUp ==
  <>[](showRecent /\ recentFilter = tickFilter) => <>[](recent = recentFilter)
=============================================================================
