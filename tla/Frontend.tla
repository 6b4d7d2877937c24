------------------------------ MODULE Frontend ------------------------------
(* The parts of the single-page application that share no state, checked in  *)
(* one instance: a behaviour is one of one part, the others stay as they     *)
(* start. The workspace state and its saves are AppWorkspace, a module and a *)
(* run of their own.                                                         *)
EXTENDS AppTask, RecentTasks, ApiClient, BrowserTelemetry, HostView, ClusterOverview,
        NodeImport, NodeActivation, EventView, SnapshotView, TemplateChoice, NodePages,
        UseWebSocket

VARIABLE part           \* the part this behaviour is about

Parts == {"task", "recent", "api", "telemetry", "hosts", "overview", "import", "activation",
          "events", "snapshot", "template", "pages", "socket"}

ofTask == <<taskVars, recentVars, apiVars, telVars>>
ofViews == <<hostVars, ovVars, impVars, actVars>>
ofData == <<evVars, snapVars, tplVars, pageVars, wsVars>>
frontVars == <<part, ofTask, ofViews, ofData>>

(* A part that does not run starts in one of its states, the running one in any. *)
Idle ==
  /\ part # "api" => retryOn
  /\ part # "snapshot" => world.locks = <<>>
  /\ part # "pages" => page = "sql"
  /\ part # "socket" => urlOk

Init ==
  /\ part \in Parts
  /\ TaskInit /\ RecentInit /\ ApiInit /\ TelInit /\ HostInit /\ OvInit
  /\ ImpInit /\ ActInit /\ EvInit /\ SnapInit /\ TplInit /\ PageInit /\ WsInit
  /\ Idle

TaskParts ==
  /\ UNCHANGED <<ofViews, ofData>>
  /\ \/ part = "task" /\ TaskNext /\ UNCHANGED <<recentVars, apiVars, telVars>>
     \/ part = "recent" /\ RecentNext /\ UNCHANGED <<taskVars, apiVars, telVars>>
     \/ part = "api" /\ ApiNext /\ UNCHANGED <<taskVars, recentVars, telVars>>
     \/ part = "telemetry" /\ TelNext /\ UNCHANGED <<taskVars, recentVars, apiVars>>

ViewParts ==
  /\ UNCHANGED <<ofTask, ofData>>
  /\ \/ part = "hosts" /\ HostNext /\ UNCHANGED <<ovVars, impVars, actVars>>
     \/ part = "overview" /\ OvNext /\ UNCHANGED <<hostVars, impVars, actVars>>
     \/ part = "import" /\ ImpNext /\ UNCHANGED <<hostVars, ovVars, actVars>>
     \/ part = "activation" /\ ActNext /\ UNCHANGED <<hostVars, ovVars, impVars>>

DataParts ==
  /\ UNCHANGED <<ofTask, ofViews>>
  /\ \/ part = "events" /\ EvNext /\ UNCHANGED <<snapVars, tplVars, pageVars, wsVars>>
     \/ part = "snapshot" /\ SnapNext /\ UNCHANGED <<evVars, tplVars, pageVars, wsVars>>
     \/ part = "template" /\ TplNext /\ UNCHANGED <<evVars, snapVars, pageVars, wsVars>>
     \/ part = "pages" /\ PageNext /\ UNCHANGED <<evVars, snapVars, tplVars, wsVars>>
     \/ part = "socket" /\ WsNext /\ UNCHANGED <<evVars, snapVars, tplVars, pageVars>>

Next == UNCHANGED part /\ (TaskParts \/ ViewParts \/ DataParts)

(* The fairness of each part, for the behaviours in which it runs.            *)
Fairness ==
  /\ WF_taskVars(part = "task" /\ TaskEndsSome)
  /\ WF_taskVars(part = "task" /\ TaskTimers)
  /\ \A a \in [id : 1..MaxTasks, status : Statuses] :
       WF_taskVars(part = "task" /\ a \in asks /\ answered(a))
  /\ SF_taskVars(part = "task" /\ Poll)
  /\ WF_recentVars(part = "recent" /\ refreshTick)
  /\ \A f \in Filters : WF_recentVars(part = "recent" /\ refreshRecentTasks(f))
  /\ WF_apiVars(part = "api" /\ ApiClientSteps)
  /\ WF_telVars(part = "telemetry" /\ TelSends)
  /\ WF_hostVars(part = "hosts" /\ HostSteps)
  /\ WF_ovVars(part = "overview" /\ overviewTick)
  /\ \A k \in 1..MaxInFlight : WF_ovVars(part = "overview" /\ loadOverview(k))
  /\ WF_impVars(part = "import" /\ ImpSteps)
  /\ WF_snapVars(part = "snapshot" /\ snapshotTick)
  /\ \A k \in 1..MaxSnapFlight : WF_snapVars(part = "snapshot" /\ loadSnapshot(k))
  /\ \A n \in 1..MaxQueries : WF_pageVars(part = "pages" /\ QueryEnds(n))
  /\ WF_wsVars(part = "socket" /\ ReconnectFires)
  /\ WF_wsVars(part = "socket" /\ OrphanFires)
  /\ WF_wsVars(part = "socket" /\ Quiet /\ StaleFires)
  /\ \A s \in Socket :
       WF_wsVars(part = "socket" /\ ready[s] # "open" /\ (onopen(s) \/ onclose(s)))

Spec == Init /\ [][Next]_frontVars /\ Fairness

-----------------------------------------------------------------------------
(* The caller of api.ts always gets its answer, whatever the backend does.    *)
CallSettles == <>[](part = "api" => Settled)

(* While one cluster stays shown, what ClusterHomeView draws comes to be what *)
(* the health of the nodes gives, in spite of failed and late answers.        *)
ShownCatchesUp ==
  \A c \in {1, 2} : <>[](part = "overview" /\ cluster = c) => <>[]CaughtUp(c)

(***************************************************************************)
(* The state of every part keeps its type; with it the limits that go with *)
(* a type: one addition and one scan of hosts at a time, one live overview *)
(* effect, a bounded log, a form that is open on its own page only.        *)
(***************************************************************************)
TypeOK ==
  /\ TaskTypeOK /\ ApiTypeOK /\ TelTypeOK /\ HostTypeOK /\ OvTypeOK /\ ImpTypeOK
  /\ ActTypeOK

(***************************************************************************)
(* What a page shows is what the backend has, or has had, for the thing it *)
(* shows: the banner of a task (App.tsx), the list of hosts                *)
(* (HostManagementView), overview and imported node (ClusterHomeView), the *)
(* active node (pgStore), the snapshot of locks (App.tsx), the last events *)
(* (eventStore) and the answers of the SQL, WAL and CLOG pages.            *)
(*                                                                         *)
(* Not for every order of answers.  The code does not give it, and this    *)
(* does not say it, once an answer about one task was put on another       *)
(* (mixed), operations on hosts overlapped (overlap) or their error was    *)
(* taken away (dismissed), a reload after an import failed or overlapped   *)
(* another (reloadLost), activations overlapped or their answer was lost   *)
(* (actsCrossed, strayed), or queries of one page overlapped               *)
(* (queriesCrossed).                                                       *)
(* Overviews, snapshots and events have no such exception.                 *)
(***************************************************************************)
ShownHonest ==
  /\ BannerHonest /\ SuccessReloads
  /\ HostListFresh
  /\ OverviewOfShown /\ HighlightShown
  /\ ActiveAgrees /\ NodeViewNeedsNode /\ NodeShownIsActive
  /\ SnapshotKept /\ EventsRecent /\ AnswerIsLast

(* What the pages compute from what they have says the same: the edges of  *)
(* the topology and the pair below it (ClusterHomeView), the lock graph    *)
(* and the lock table (App.tsx), cells and stages and the window of events *)
(* they are counted over (useVisualizationData).                           *)
DrawnRight == TopologyAgrees /\ LockGraphFaithful /\ CellsExact /\ StagesAgree

(* The channels to the backend.  Calls of api.ts: whatever is lost, late   *)
(* or aborted, no more attempts are carried out than were made, one if it  *)
(* must not be retried, and a refusal ends the call.  Reports: no order of *)
(* errors, timers, forced flushes, settings and answers posts one twice,   *)
(* leaves one in a queue without a timer, or reports one error of window   *)
(* twice.  Events: with a url that is valid no timer is left by a          *)
(* disconnect; as long as connect is not called while a socket is closing  *)
(* there is one socket, and one that was given up is closing; the hook     *)
(* gives up exactly at the limit of attempts.                              *)
ChannelsSafe ==
  /\ CallSafe
  /\ PostedOnce /\ NoneStranded /\ ReportedOnce
  /\ CancelHolds /\ OneSocket /\ GivesUpAtCap

(* No host is added with empty fields, and one loses them in two ways      *)
(* only: by an update whose form the user emptied, or which an addition    *)
(* ending under the edit had cleared.  No project is built with parameters *)
(* of another template.                                                    *)
SavedWell == NoBlankHost /\ ParamsFit /\ BuiltHasSource

(* What no step does: bring back a banner that was closed, send an attempt *)
(* after an abort, grow the breadcrumbs past their limit, or save the edit *)
(* of one node to another, but for a form that was open when the reload of *)
(* a finished task moved the selection.                                    *)
StepsSafe ==
  [][DismissedStays /\ NothingSent /\ CrumbsCapped /\ EditLands]_frontVars

(* What was begun ends, whatever is lost, refused or late: the task in the *)
(* banner, a call of api.ts, reports, the spinners of hosts, imports and   *)
(* pages.                                                                  *)
ComesToRest ==
  /\ BannerSettles /\ CallSettles /\ ReportsLeave
  /\ AddButtonFreed /\ ImportSettles /\ SpinnerStops

(* A page whose subject stays the same comes to show it as it is: the list *)
(* of tasks, the overview, the snapshot; and the event stream comes back,  *)
(* a half-open connection included, as long as attempts are left.          *)
CatchesUp ==
  /\ RecentListCatchesUp /\ ShownCatchesUp /\ SnapshotCatchesUp
  /\ HalfOpenReset /\ KeepsTrying
=============================================================================
