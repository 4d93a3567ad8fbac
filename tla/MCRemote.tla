------------------------------ MODULE MCRemote ------------------------------
(***************************************************************************)
(* Instances of RemoteExecution for TLC.                                   *)
(***************************************************************************)
EXTENDS RemoteExecution

CONSTANTS t1, t2

Remote(executor, repo) ==
    [executor |-> executor, location |-> "RemoteSession", host |-> "host",
     user |-> "user", repo_name |-> repo, empty_command |-> FALSE]
Local(executor) == [Remote(executor, "app") EXCEPT !.location = "Local"]

(* Task 1 runs in the repository "app".  Task 2 runs in the same one, in   *)
(* one whose name is not valid, locally, without a command, or by another  *)
(* executor.                                                               *)
Descriptors ==
    [t \in Task |->
        IF t = t1 THEN {Remote("dispatching", "app")}
        ELSE {Remote("dispatching", r) : r \in {"app", "../app"}}
             \cup {Local("dispatching"), Local("ssh_tmux"),
                   Remote("placeholder", "app"),
                   [Remote("dispatching", "app") EXCEPT !.empty_command = TRUE]}]

Attempts == [t \in Task |-> IF t = t1 THEN 2 ELSE 1]

Names == {"", "app", "App", "lib", "../app", ".._app", "unknown", "default_work_id",
          "host", "user", "job 1", "job_1"}
Sanitized ==
    [n \in Names |-> CASE n = "App" -> "app"
                       [] n = "job 1" -> "job_1"
                       [] n = "../app" -> ".._app"
                       [] OTHER -> n]

Tool(repo, work, role) ==
    [repo |-> repo, work |-> work, role |-> role, host |-> "host", user |-> "user"]
(* Somebody attaches to the session of the tasks; two calls are refused.   *)
ToolCalls == { Tool("app", "default_work_id", "Agent"),
               Tool("app", "", "Human"), Tool("app", "job 1", "invalid") }
(* Calls whose names are sanitised to the same.                            *)
CollidingCalls == { Tool("app", "job 1", "Runner"), Tool("app", "job_1", "Runner"),
                    Tool("App", "default_work_id", "Agent") }

Paths == [t \in Task |-> t]

(* All but one of these locations were built by RemoteSessionTarget::new;  *)
(* that one was read from a message, which checks nothing.                 *)
ASSUME LocationsChecked ==
    \A t \in Task : \A d \in Descriptor[t] :
        ValidLocation(d.host, d.user, d.repo_name) \/ d.repo_name \in TraversalName

=============================================================================
