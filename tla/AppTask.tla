------------------------------ MODULE AppTask ------------------------------
(***************************************************************************)
(* The provisioning task the page shows (frontend/src/App.tsx) and its     *)
(* toast (components/common/ToastNotification.tsx).                        *)
(*                                                                         *)
(* The banner shows one task.  While its status is not final the page asks *)
(* the backend for it every 1200 ms without waiting for the last answer,   *)
(* so answers overlap, and one may come back when the banner shows another *)
(* task, or none.  A status is all that is kept of a task: progress, times *)
(* and message come with it.  A request that fails is ignored by the page  *)
(* and leaves no trace here; an answer is read when it enters asks.        *)
(***************************************************************************)
EXTENDS Naturals, FiniteSets

CONSTANTS MaxTasks,    \* bound: tasks the user creates
          MaxAsks,     \* bound: answers on their way at one time
          MaxVisits    \* bound: times the page is opened
ASSUME TaskBounds == MaxTasks \in Nat /\ MaxAsks \in Nat /\ MaxVisits \in Nat \ {0}

Final == {"success", "failed"}
Statuses == {"running"} \cup Final
NoTask == [id |-> 0, status |-> "none"]
LocalId == MaxTasks + 1      \* a creation that failed before it had a task

VARIABLES
  backendTask,     \* status of each task in the backend, "none" before it, "refused" for none
  banner,          \* provisionTask
  cache,           \* what localStorage holds under TASK_STORAGE_KEY
  asks,            \* answers about one task that have not been applied
  resume,          \* the answer of the list asked for at the start
  visible, exiting,            \* the toast's own state
  reloaded,        \* tasks after whose success the workspace was loaded
  visits, mixed    \* mixed: an answer about one task was put on another

taskVars == <<backendTask, banner, cache, asks, resume, visible, exiting,
              reloaded, visits, mixed>>

TaskInit ==
  /\ backendTask = [t \in 1..MaxTasks |-> "none"]
  /\ banner = NoTask /\ cache = NoTask
  /\ asks = {} /\ resume = "asked"
  /\ visible = FALSE /\ exiting = TRUE
  /\ reloaded = {} /\ visits = 1 /\ mixed = FALSE

-----------------------------------------------------------------------------
(* What follows setProvisionTask(t): the cache is written or removed, the  *)
(* toast comes or starts to leave, and a success makes the workspace load. *)
ShowToast(t) ==
  /\ visible' = (t # NoTask \/ visible)
  /\ exiting' = (t = NoTask)
ReloadAfter(t) ==
  reloaded' = IF t.status = "success" THEN reloaded \cup {t.id} ELSE reloaded
setProvisionTask(t) ==
  /\ banner' = t /\ cache' = t /\ ShowToast(t) /\ ReloadAfter(t)

(* The creation of a cluster was answered with a task, or refused.         *)
createTask(t) ==
  /\ backendTask[t] = "none" /\ \A u \in 1..(t - 1) : backendTask[u] # "none"
  /\ \/ /\ backendTask' = [backendTask EXCEPT ![t] = "running"]
        /\ setProvisionTask([id |-> t, status |-> "running"])
     \/ /\ backendTask' = [backendTask EXCEPT ![t] = "refused"]
        /\ setProvisionTask([id |-> LocalId, status |-> "failed"])
  /\ UNCHANGED <<asks, resume, visits, mixed>>

TaskEnds(t, s) ==
  /\ backendTask[t] = "running"
  /\ backendTask' = [backendTask EXCEPT ![t] = s]
  /\ UNCHANGED <<banner, cache, asks, resume, visible, exiting, reloaded,
                 visits, mixed>>

(* getProvisionTask for the task that is shown; the backend does not know  *)
(* a local one and that answer is ignored.                                 *)
Ask ==
  /\ banner.id \in 1..MaxTasks
  /\ Cardinality(asks) < MaxAsks
  /\ asks' = asks \cup {[id |-> banner.id, status |-> backendTask[banner.id]]}
  /\ UNCHANGED <<backendTask, banner, cache, resume, visible, exiting,
                 reloaded, visits, mixed>>
Poll == banner # NoTask /\ banner.status \notin Final /\ Ask
refreshProvisionTask == Ask

(* Slip: the answer is shown even if the banner has been closed.           *)
MergeAnyway(a) == setProvisionTask([id |-> a.id, status |-> a.status])
(* The answer goes to whatever task is shown now, its id left alone.       *)
Merge(a) ==
  \/ banner # NoTask /\ setProvisionTask([banner EXCEPT !.status = a.status])
  \/ /\ banner = NoTask
     /\ UNCHANGED <<banner, cache, visible, exiting, reloaded>>
answered(a) ==
  /\ asks' = asks \ {a}
  /\ Merge(a)
  /\ mixed' = (mixed \/ (banner # NoTask /\ a.id # banner.id))
  /\ UNCHANGED <<backendTask, resume, visits>>

(* The button of the banner or the toast, or 2200 ms after a success.      *)
DismissWhen(cond) ==
  /\ banner # NoTask /\ cond
  /\ setProvisionTask(NoTask)
  /\ UNCHANGED <<backendTask, asks, resume, visits, mixed>>
onDismiss == DismissWhen(TRUE)
successTimer == DismissWhen(banner.status = "success")

(* The effect of the start: the latest task is shown if it is running.     *)
Latest == {t \in 1..MaxTasks : backendTask[t] \in Statuses}
resumeAnswered ==
  /\ resume = "asked" /\ resume' = "done"
  /\ \/ \E t \in Latest :
          /\ \A u \in Latest : u =< t
          /\ backendTask[t] = "running"
          /\ setProvisionTask([id |-> t, status |-> "running"])
     \/ UNCHANGED <<banner, cache, visible, exiting, reloaded>>
  /\ UNCHANGED <<backendTask, asks, visits, mixed>>

toastHidden ==
  /\ banner = NoTask /\ visible /\ visible' = FALSE
  /\ UNCHANGED <<backendTask, banner, cache, asks, resume, exiting,
                 reloaded, visits, mixed>>

(* The page is opened again: loadProvisionTaskCache.                       *)
reopenPage ==
  /\ visits < MaxVisits /\ visits' = visits + 1
  /\ banner' = cache /\ visible' = (cache # NoTask) /\ exiting' = (cache = NoTask)
  /\ asks' = {} /\ resume' = "asked"
  /\ ReloadAfter(cache)
  /\ UNCHANGED <<backendTask, cache, mixed>>

-----------------------------------------------------------------------------
TaskUser ==
  \/ \E t \in 1..MaxTasks : createTask(t)
  \/ refreshProvisionTask \/ onDismiss \/ reopenPage
TaskEndsSome == \E t \in 1..MaxTasks, s \in Final : TaskEnds(t, s)
Answers == \/ \E a \in asks : answered(a)
           \/ resumeAnswered
TaskTimers == successTimer \/ toastHidden

TaskNext == TaskUser \/ TaskEndsSome \/ Answers \/ Poll \/ TaskTimers

(* Fairness: tasks end, requests are answered, timers fire.  The interval  *)
(* goes on, so that a poll is sent again and again (strong fairness, since *)
(* the bound on answers disables it for a while).                          *)
TaskFair ==
  /\ WF_taskVars(TaskEndsSome) /\ WF_taskVars(TaskTimers)
  /\ \A a \in [id : 1..MaxTasks, status : Statuses] :
       WF_taskVars(a \in asks /\ answered(a))
  /\ SF_taskVars(Poll)

-----------------------------------------------------------------------------
(* The state of the task bar and the toast keeps its type.                 *)
TaskTypeOK ==
  /\ backendTask \in [1..MaxTasks -> Statuses \cup {"none", "refused"}]
  /\ {banner, cache} \subseteq {NoTask} \cup [id : 1..LocalId, status : Statuses]
  /\ asks \subseteq [id : 1..MaxTasks, status : Statuses] /\ Cardinality(asks) =< MaxAsks
  /\ resume \in {"asked", "done"}
  /\ {visible, exiting, mixed} \subseteq BOOLEAN
  /\ reloaded \subseteq 1..LocalId
  /\ visits \in 1..MaxVisits

TaskSpec == TaskInit /\ [][TaskNext]_taskVars /\ TaskFair

(* A banner that was closed stays closed until a creation is answered, the *)
(* page is opened, or the list asked for at the start comes in: no answer  *)
(* about a task brings it back (setProvisionTask(prev => prev ? ...)).     *)
DismissedStays ==
  (banner = NoTask /\ banner' # NoTask) =>
     backendTask' # backendTask \/ resume' # resume

(* A final status in the banner is the one the backend has for that task,  *)
(* however the answers overlap, unless an answer was put on another task.  *)
BannerHonest ==
  (~mixed /\ banner.status \in Final /\ banner.id \in 1..MaxTasks) =>
    backendTask[banner.id] = banner.status

(* The workspace was loaded again after every success the banner has shown *)
(* and the toast is there exactly while a task is shown, or is leaving.    *)
SuccessReloads ==
  /\ banner.status = "success" => banner.id \in reloaded
  /\ (visible /\ ~exiting) <=> banner # NoTask

(* Once no more is created the banner comes to a final status or is gone,  *)
(* also when a late "running" had been put over it, and a success and its  *)
(* toast do not stay; unless an answer was put on another task, which may  *)
(* leave a creation that failed "running" for good.                        *)
BannerSettles ==
  <>[](mixed \/ (banner.status \in {"none", "failed"} /\ (banner = NoTask => ~visible)))
=============================================================================
