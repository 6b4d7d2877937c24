----------------------------- MODULE Provision ------------------------------
(***************************************************************************)
(* One-click provisioning (api/provision.go, internal/provision) and the   *)
(* tasks that report on it (provision_discovery.go, task_crud.go), with    *)
(* cluster teardown (cluster_handler.go).                                  *)
(*                                                                         *)
(* A request starts a PostgreSQL instance (a), by docker or pg_ctl, and,   *)
(* for a replicated cluster, a docker-compose project with its replica     *)
(* (b); it saves the cluster to the workspace and undoes what it started   *)
(* when a step fails.  All commands run under the context of the request,  *)
(* which is cancelled when the client goes away: a command is then not     *)
(* run, the commands that undo included.  The process may be killed        *)
(* between any two steps; instances and files survive it.                  *)
(*                                                                         *)
(* A task is its status: its progress, messages and times are left out.    *)
(* Volumes and data directories come and go with their instances and are   *)
(* left out.                                                               *)
(***************************************************************************)
EXTENDS Naturals, FiniteSets

CONSTANTS Request,     \* provisioning requests; each has a task and a cluster
          MaxRestarts  \* bound: restarts of the process

VARIABLES
  pc,        \* pc[r]: the step request r takes next
  kind,      \* kind[r]: "single" or "replica"
  provider,  \* provider[r]: "docker" or "local"
  ctx,       \* ctx[r]: r.Context() is "live" or "cancelled"
  tasks,     \* h.tasks: the status of a task, "none" if there is none
  taskFile,  \* the tasks in the file
  unsaved,   \* history: tasks whose last change, and every write since, failed to be written
  running,   \* the instances that are running
  clusters,  \* the requests whose cluster is in the workspace
  teardown,  \* teardown[r]: where the teardown of r's cluster is
  faulty,    \* requests one of whose commands failed half way
  gone,      \* history: tasks deleted for good, after their request had ended
  stale,     \* history: tasks that were unsaved when a process ended
  restarts

taskVars == <<tasks, taskFile, unsaved>>
instVars == <<running, faulty>>
provisionVars == <<pc, kind, provider, ctx, taskVars, instVars, clusters, teardown,
          gone, stale, restarts>>

Primary(r) == <<r, "a">>
Secondary(r) == <<r, "b">>
Ended == {"idle", "success", "failed", "dead"}
Active(r) == pc[r] \notin Ended
Live(r) == ctx[r] = "live"

ProvisionInit ==
  /\ pc = [r \in Request |-> "idle"]
  /\ kind \in [Request -> {"single", "replica"}]
  /\ provider \in [Request -> {"docker", "local"}]
  /\ ctx = [r \in Request |-> "live"]
  /\ tasks = [r \in Request |-> "none"]
  /\ taskFile = tasks /\ unsaved = {}
  /\ running = {} /\ faulty = {}
  /\ clusters = {}
  /\ teardown = [r \in Request |-> "no"]
  /\ gone = {} /\ stale = {}
  /\ restarts = 0

-----------------------------------------------------------------------------
(* persistProvisionTasksLocked: the file is replaced by all tasks; an error *)
(* is ignored, and a change of r is then in memory only.                   *)
Persist(r) ==
  \/ taskFile' = tasks' /\ unsaved' = {}
  \/ taskFile' = taskFile /\ unsaved' = unsaved \cup {q \in {r} : tasks'[q] # taskFile[q]}

(* setProvisionTask also brings back a task that was deleted.              *)
setProvisionTask(r, status) ==
  /\ tasks' = [tasks EXCEPT ![r] = status]
  /\ Persist(r)

(* A step of r that leads to next, inside a command and with a report.     *)
Goto(r, next) ==
  /\ pc' = [pc EXCEPT ![r] = next]
  /\ UNCHANGED <<kind, provider, ctx, teardown, gone, stale, restarts>>
GotoReported(r, next) == Goto(r, next) /\ setProvisionTask(r, "running")
End(r, status) == Goto(r, status) /\ setProvisionTask(r, status)

(***************************************************************************)
(* Undoing; up is what is running when it begins.  Under a cancelled       *)
(* context no command runs.  Otherwise the commands succeed, or some fail  *)
(* or are cut short by the cancellation (r is then faulty): errors are     *)
(* ignored.                                                                *)
(***************************************************************************)
Undo(r, insts, up) ==
  \/ ~Live(r) /\ running' = up /\ UNCHANGED faulty
  \/ Live(r) /\ running' = up \ insts /\ UNCHANGED faulty
  \/ /\ Live(r)
     /\ \E S \in SUBSET insts : running' = up \ S
     /\ faulty' = faulty \cup {r}

-----------------------------------------------------------------------------
(* ServeProvisionSingle and serveProvisionReplica create the task.         *)
Begin(r) ==
  /\ pc[r] = "idle"
  /\ GotoReported(r, "start")
  /\ UNCHANGED <<instVars, clusters>>

(* Provider.Start: docker run or pg_ctl start, and what comes before it.   *)
Start(r) ==
  /\ pc[r] = "start" /\ Live(r)
  /\ running' = running \cup {Primary(r)}
  /\ Goto(r, "boot")
  /\ UNCHANGED <<taskVars, faulty, clusters>>

(* A command of Start fails: nothing is undone.  A docker run cut short by *)
(* the cancellation, and a pg_ctl start that gave up waiting, may have     *)
(* started the instance.                                                   *)
StartFails(r) ==
  /\ pc[r] = "start"
  /\ \/ UNCHANGED <<running, faulty>>
     \/ /\ ~Live(r) \/ provider[r] = "local"
        /\ running' = running \cup {Primary(r)}
        /\ faulty' = faulty \cup {r}
  /\ End(r, "failed")
  /\ UNCHANGED clusters

(* Start waits until the instance answers.                                 *)
Booted(r) ==
  /\ pc[r] = "boot" /\ Live(r)
  /\ GotoReported(r, IF kind[r] = "single" THEN "save" ELSE "wait")
  /\ UNCHANGED <<instVars, clusters>>

(* serveProvisionReplica waits for its port to be open.                    *)
PrimaryReady(r) ==
  /\ pc[r] = "wait" /\ Live(r)
  /\ GotoReported(r, "up")
  /\ UNCHANGED <<instVars, clusters>>

(* Slip: the instance that did not come up is left alone.                  *)
NotReadyKeepsInstance(r) ==
  /\ pc[r] \in {"boot", "wait"}
  /\ End(r, "failed")
  /\ UNCHANGED <<instVars, clusters>>

(* It did not answer within 30 attempts, or the client left.               *)
NotReady(r) ==
  /\ pc[r] \in {"boot", "wait"}
  /\ Undo(r, {Primary(r)}, running)
  /\ End(r, "failed")
  /\ UNCHANGED clusters

(* StartReplica: docker-compose up.                                        *)
Up(r) ==
  /\ pc[r] = "up" /\ Live(r)
  /\ running' = running \cup {Secondary(r)}
  /\ Goto(r, "secondary")
  /\ UNCHANGED <<taskVars, faulty, clusters>>

(* Slip: the error of StartReplica is logged and the handler goes on.      *)
UpFailsGoesOn(r) ==
  /\ pc[r] = "up"
  /\ GotoReported(r, "save")
  /\ UNCHANGED <<instVars, clusters>>

(* It fails, and may have started some of the project; only the primary is *)
(* undone.                                                                 *)
UpFails(r) ==
  /\ pc[r] = "up"
  /\ \E some \in {{}, {Secondary(r)}} : Undo(r, {Primary(r)}, running \cup some)
  /\ End(r, "failed")
  /\ UNCHANGED clusters

SecondaryReady(r) ==
  /\ pc[r] = "secondary" /\ Live(r)
  /\ GotoReported(r, "save")
  /\ UNCHANGED <<instVars, clusters>>

SecondaryNotReady(r) ==
  /\ pc[r] = "secondary"
  /\ Undo(r, {Primary(r), Secondary(r)}, running)
  /\ End(r, "failed")
  /\ UNCHANGED clusters

(* appendCluster.                                                          *)
Save(r) ==
  /\ pc[r] = "save"
  /\ clusters' = clusters \cup {r}
  /\ GotoReported(r, "connect")
  /\ UNCHANGED instVars

(* The project is gone, or the workspace cannot be written.                *)
SaveFails(r) ==
  /\ pc[r] = "save"
  /\ Undo(r, {Primary(r), Secondary(r)}, running)
  /\ End(r, "failed")
  /\ UNCHANGED clusters

(* Slip: the task is not updated when the work is done.                    *)
FinishKeepsTask(r) ==
  /\ pc[r] = "connect"
  /\ pc' = [pc EXCEPT ![r] = "success"]
  /\ UNCHANGED <<kind, provider, ctx, taskVars, instVars, clusters, teardown,
                 gone, stale, restarts>>

(* tryConnectNode, whose outcome does not matter, and the end.             *)
Finish(r) ==
  /\ pc[r] = "connect"
  /\ End(r, "success")
  /\ UNCHANGED <<instVars, clusters>>

-----------------------------------------------------------------------------
(* The client goes away.                                                   *)
Cancel(r) ==
  /\ Active(r) /\ Live(r)
  /\ ctx' = [ctx EXCEPT ![r] = "cancelled"]
  /\ UNCHANGED <<pc, kind, provider, taskVars, instVars, clusters, teardown,
                 gone, stale, restarts>>

(* Slip: the file is not written.                                          *)
DeleteTaskInMemory(r) ==
  /\ tasks[r] # "none"
  /\ tasks' = [tasks EXCEPT ![r] = "none"]
  /\ gone' = IF Active(r) THEN gone ELSE gone \cup {r}
  /\ stale' = stale \ {r}
  /\ UNCHANGED <<pc, kind, provider, ctx, taskFile, unsaved, instVars, clusters,
                 teardown, restarts>>

(* DELETE /api/tasks/{id}.                                                 *)
DeleteTask(r) ==
  /\ tasks[r] # "none"
  /\ tasks' = [tasks EXCEPT ![r] = "none"]
  /\ Persist(r)
  /\ gone' = IF Active(r) THEN gone ELSE gone \cup {r}
  /\ stale' = stale \ {r}
  /\ UNCHANGED <<pc, kind, provider, ctx, instVars, clusters, teardown, restarts>>

(* DELETE /api/clusters/{id} leaves the instances running.                 *)
DeleteCluster(r) ==
  /\ r \in clusters
  /\ clusters' = clusters \ {r}
  /\ UNCHANGED <<pc, kind, provider, ctx, taskVars, instVars, teardown, gone, stale,
                 restarts>>

(* POST /api/clusters/{id}/teardown stops the nodes of the cluster.  It    *)
(* takes a node at 127.0.0.1 for a docker container, named by the node; a  *)
(* local instance and a compose project go by other names.  Errors are     *)
(* logged.                                                                 *)
TeardownStop(r) ==
  /\ r \in clusters /\ teardown[r] # "stopped"
  /\ LET found == IF provider[r] = "docker" THEN {Primary(r)} ELSE {}
     IN  \/ running' = running \ found /\ UNCHANGED faulty
         \/ faulty' = faulty \cup {r} /\ UNCHANGED running
  /\ teardown' = [teardown EXCEPT ![r] = "stopped"]
  /\ UNCHANGED <<pc, kind, provider, ctx, taskVars, clusters, gone, stale, restarts>>

(* It fails if the cluster has gone in the meantime.                       *)
TeardownDelete(r) ==
  /\ teardown[r] = "stopped"
  /\ clusters' = clusters \ {r}
  /\ teardown' = [teardown EXCEPT ![r] = IF r \in clusters THEN "done" ELSE "failed"]
  /\ UNCHANGED <<pc, kind, provider, ctx, taskVars, instVars, gone, stale, restarts>>

(* The process is killed and started again: loadProvisionTasks.            *)
Restart ==
  /\ restarts < MaxRestarts
  /\ restarts' = restarts + 1
  /\ tasks' = taskFile /\ unsaved' = {}
  /\ stale' = stale \cup unsaved /\ gone' = gone \ unsaved
  /\ pc' = [r \in Request |-> IF Active(r) THEN "dead" ELSE pc[r]]
  /\ teardown' = [r \in Request |-> IF teardown[r] = "stopped" THEN "dead"
                                                               ELSE teardown[r]]
  /\ UNCHANGED <<kind, provider, ctx, taskFile, instVars, clusters>>

RequestStep(r) ==
  \/ Start(r) \/ StartFails(r) \/ Booted(r) \/ PrimaryReady(r)
  \/ NotReady(r) \/ Up(r) \/ UpFails(r) \/ SecondaryReady(r)
  \/ SecondaryNotReady(r) \/ Save(r) \/ SaveFails(r) \/ Finish(r)

ProvisionNext ==
  \/ \E r \in Request : \/ Begin(r) \/ RequestStep(r) \/ Cancel(r)
                        \/ DeleteTask(r) \/ DeleteCluster(r)
                        \/ TeardownStop(r) \/ TeardownDelete(r)
  \/ Restart

ProvisionSpec == ProvisionInit /\ [][ProvisionNext]_provisionVars

-----------------------------------------------------------------------------
(***************************************************************************)
(* A request that failed has no cluster in the workspace; and if its       *)
(* client was there and its commands did all or nothing, no instance of    *)
(* its primary is left running.  A client that went away cancels the       *)
(* commands that undo, and leaves instances behind: that is not asked.     *)
(***************************************************************************)
FailedCleansUp ==
  \A r \in Request : pc[r] = "failed" =>
    r \notin clusters /\ (Live(r) /\ r \notin faulty => Primary(r) \notin running)

(***************************************************************************)
(* What the workspace shows is there: as long as nobody tears it down, the *)
(* instances of every cluster in the workspace run, whatever happened to   *)
(* the client or to the process while it was being made.                   *)
(***************************************************************************)
ClusterRuns ==
  \A r \in clusters : teardown[r] = "no" =>
    Primary(r) \in running /\ (kind[r] = "replica" => Secondary(r) \in running)

(* A task that was deleted after its request had ended never comes back,   *)
(* restarts included, unless the process ended before any write that could *)
(* have saved the deletion had succeeded.                                  *)
DeletedStaysDeleted == \A r \in gone : tasks[r] = "none"

(***************************************************************************)
(* A task tells the truth although its request, deletions by other clients *)
(* and restarts all write it.  An outcome is the one the request had; and, *)
(* unless a process ended with the last change of the task unsaved,        *)
(* "running" means that the request is working, or died with its process,  *)
(* and a request that ended shows its outcome until its task is deleted.   *)
(* A task that was unsaved may show "running" for a request that has ended.*)
(***************************************************************************)
TaskHonest ==
  \A r \in Request :
    /\ tasks[r] \in {"success", "failed"} => tasks[r] = pc[r]
    /\ r \notin stale =>
         /\ tasks[r] = "running" => Active(r) \/ pc[r] = "dead"
         /\ pc[r] \in {"success", "failed"} => tasks[r] = pc[r] \/ r \in gone
=============================================================================
