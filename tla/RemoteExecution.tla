--------------------------- MODULE RemoteExecution ---------------------------
(***************************************************************************)
(* Execution of tasks in tmux sessions over ssh: DispatchingExecutor,      *)
(* SshTmuxSessionExecutor and RemoteProcessExecutor of crates/worker, the  *)
(* SshTmuxSessionManager behind them (crates/aivcs-session/src/remote.rs), *)
(* and the aivcs-session tool that people use on the same host.            *)
(*                                                                         *)
(* A step is one ssh invocation, and each may fail: nothing was done, or   *)
(* it was done and the answer was lost.  tmux, the shell in the pane and   *)
(* the file system of the host are external: keys sent to a session wait   *)
(* in its pane until the shell reads them, one command after the other; a  *)
(* killed session takes its commands with it; "echo $? > file" creates the *)
(* file before it fills it.                                                *)
(***************************************************************************)
EXTENDS Naturals, Sequences, Functions, SessionNames

CONSTANTS
    Task,
    NoTask,
    Descriptor,    \* the descriptors each task may have: its location and
                   \* the executor its worker was built with
    RepoDir,       \* repositories that exist on the host
    DefaultWork,   \* "default_work_id"
    UnknownRepo,   \* "unknown"
    Host,          \* aivcs.local
    ToolCall,      \* the arguments aivcs-session attach is called with
    SentinelOf,    \* /tmp/kc_exit_ and 12 hexadecimal digits of the task id
    ExitCode,      \* exit codes of commands
    MaxAttempts,   \* bound: executions of each task
    MaxKeys        \* bound: commands waiting in a pane

Path == {SentinelOf[t] : t \in Task}

ASSUME RemoteAssumption ==
    /\ NoTask \notin Task
    /\ \A t \in Task : \A d \in Descriptor[t] :
          /\ d.executor \in {"dispatching", "ssh_tmux", "placeholder"}
          /\ d.location \in {"Local", "RemoteSession"}
          /\ {d.host, d.user, d.repo_name} \subseteq Name
          /\ d.empty_command \in BOOLEAN
    /\ {DefaultWork, UnknownRepo, Host} \cup RepoDir \subseteq Name
    /\ \A c \in ToolCall : /\ {c.repo, c.work, c.host, c.user} \subseteq Name
                           /\ c.role \in RoleText
    /\ ExitCode \subseteq Nat /\ MaxKeys \in Nat /\ MaxAttempts \in [Task -> Nat]

VARIABLES
    desc,      \* the descriptor of each task
    run,       \* the call of execute for each task
    pane,      \* tmux: what the pane of each existing session is doing
    sentinel,  \* the sentinel files of the host
    ended,     \* history: the codes commands of a task really ended with
    abandoned  \* history: tasks one of whose attempts left a command or a
               \* file behind

vars == <<desc, run, pane, sentinel, ended, abandoned>>

Job(t, k) == [task |-> t, attempt |-> k]
Exit(t, k, c) == [task |-> t, attempt |-> k, code |-> c]
NoFile == Exit(NoTask, 0, 0)
EmptyFile == Exit(NoTask, 0, 1)    \* created by the shell, not written yet
NewPane(repo) == [dir |-> repo, keys |-> <<>>, writing |-> NoFile]

(* Ok(ExitOutcome) or Err(WorkerError).                                    *)
Ok(code) == [kind |-> "Ok", code |-> code]
Err == [kind |-> "Err", code |-> 0]
Pending == [kind |-> "Pending", code |-> 0]

NotRunning(k) == [pc |-> "idle", attempt |-> k, result |-> Pending,
                  read |-> NoFile]

Init ==
    /\ desc \in [Task -> UNION Range(Descriptor)]
    /\ \A t \in Task : desc[t] \in Descriptor[t]
    /\ run = [t \in Task |-> NotRunning(1)]
    /\ pane = <<>>
    /\ sentinel = [p \in Path |-> NoFile]
    /\ ended = {}
    /\ abandoned = {}

-----------------------------------------------------------------------------
(* SshTmuxSessionManager: what each call does on the host.                 *)

Session == DOMAIN pane

(* check_repo_exists: test -d on the path of the repository.               *)
check_repo_exists(repo) == repo \in RepoDir

(* tmux new-session -A -s name -c path: the directory counts only for a    *)
(* new session.                                                            *)
new_session(s, repo) ==
    [u \in Session \cup {s} |-> IF u \in Session THEN pane[u] ELSE NewPane(repo)]

kill_session(s) == Restrict(pane, Session \ {s})

(* tmux send-keys ... Enter.                                               *)
send_keys(s, job) == [pane EXCEPT ![s].keys = Append(@, job)]

(* poll_exit_code: no file, a failed ssh and text that is not a number are *)
(* all None.  The mutant takes the empty file for a zero.                  *)
poll_empty_is_zero(t) ==
    IF sentinel[SentinelOf[t]] = EmptyFile
    THEN Exit(t, run[t].attempt, 0) ELSE sentinel[SentinelOf[t]]
poll_exit_code(t) ==
    IF sentinel[SentinelOf[t]] = EmptyFile THEN NoFile ELSE sentinel[SentinelOf[t]]

(* ensure_session ignores host and user and takes a fixed work id and      *)
(* role: one session for all tasks of a repository.  The mutant takes a    *)
(* work id per attempt.                                                    *)
RepoOf(t) == IF desc[t].location = "RemoteSession"
             THEN desc[t].repo_name ELSE UnknownRepo
SessionPerAttempt(t) ==
    session_name(RepoOf(t), IF run[t].attempt = 1 THEN DefaultWork ELSE UnknownRepo, "Agent")
SessionOf(t) == session_name(RepoOf(t), DefaultWork, "Agent")

-----------------------------------------------------------------------------
(* ProcessExecutor::execute                                                *)

At(t, pc) == run[t].pc = pc
Goto(t, pc) == run' = [run EXCEPT ![t].pc = pc]
Return(t, result) ==
    run' = [run EXCEPT ![t].pc = "returned", ![t].result = result]

Call(t) ==
    /\ At(t, "idle")
    /\ Goto(t, "called")
    /\ UNCHANGED <<desc, pane, sentinel, ended, abandoned>>

RunsLocally(t) ==
    desc[t].executor # "ssh_tmux" /\ desc[t].location = "Local"

(* DispatchingExecutor, its remote executor being the one for ssh or the   *)
(* RemoteProcessExecutor that always fails; or the ssh executor itself.    *)
Dispatch(t) ==
    /\ At(t, "called")
    /\ \/ RunsLocally(t) /\ Goto(t, "local")
       \/ /\ ~RunsLocally(t)
          /\ \/ desc[t].executor = "placeholder"
             \/ desc[t].empty_command
             \/ ~ValidConfig(RepoOf(t), DefaultWork)
          /\ Return(t, Err)
       \/ /\ ~RunsLocally(t)
          /\ desc[t].executor # "placeholder"
          /\ ~desc[t].empty_command
          /\ ValidConfig(RepoOf(t), DefaultWork)
          /\ Goto(t, "checking")
    /\ UNCHANGED <<desc, pane, sentinel, ended, abandoned>>

(* RealProcessExecutor: the process ends or cannot be spawned, and its     *)
(* outcome is returned.  See WorkerRuntime for its cancellation.           *)
LocalExit(t) ==
    /\ At(t, "local")
    /\ \/ \E c \in ExitCode :
              /\ run' = [run EXCEPT ![t].pc = "exited", ![t].result = Ok(c)]
              /\ ended' = ended \cup {<<t, c>>}
       \/ Return(t, Err) /\ UNCHANGED ended
    /\ UNCHANGED <<desc, pane, sentinel, abandoned>>

LocalReturn(t) ==
    /\ At(t, "exited")
    /\ Goto(t, "returned")
    /\ UNCHANGED <<desc, pane, sentinel, ended, abandoned>>

CheckRepo(t) ==
    /\ At(t, "checking")
    /\ \/ check_repo_exists(RepoOf(t)) /\ Goto(t, "creating")
       \/ Return(t, Err)
    /\ UNCHANGED <<desc, pane, sentinel, ended, abandoned>>

NewSession(t) ==
    /\ At(t, "creating")
    /\ \/ pane' = new_session(SessionOf(t), RepoOf(t)) /\ Goto(t, "sending")
       \/ pane' = new_session(SessionOf(t), RepoOf(t)) /\ Return(t, Err)
       \/ Return(t, Err) /\ UNCHANGED pane
    /\ UNCHANGED <<desc, sentinel, ended, abandoned>>

(* An error leaves execute at once: the command may have been delivered,   *)
(* and its sentinel file is not removed.                                   *)
RunCommand(t) ==
    LET sent == send_keys(SessionOf(t), Job(t, run[t].attempt))
    IN  /\ At(t, "sending")
        /\ \/ /\ SessionOf(t) \in Session /\ Len(pane[SessionOf(t)].keys) < MaxKeys
              /\ pane' = sent
              /\ \/ Goto(t, "polling") /\ UNCHANGED abandoned
                 \/ Return(t, Err) /\ abandoned' = abandoned \cup {t}
           \/ Return(t, Err) /\ UNCHANGED <<pane, abandoned>>
        /\ UNCHANGED <<desc, sentinel, ended>>

(* poll_for_exit: a code is there, ssh could not be started, or the hour   *)
(* is over.  Otherwise it sleeps and polls again.                          *)
Decide(t, result, read) ==
    /\ At(t, "polling")
    /\ run' = [run EXCEPT ![t].pc = "cleaning", ![t].result = result,
                          ![t].read = read]
    /\ UNCHANGED <<desc, pane, sentinel, ended, abandoned>>

Poll(t) ==
    LET found == poll_exit_code(t)
    IN  found # NoFile /\ Decide(t, Ok(found.code), found)

PollError(t) == Decide(t, Ok(1), NoFile)

PollTimeout(t) == Decide(t, Ok(124), NoFile)

(* The token was cancelled, now or while the command was being set up.     *)
CancelPoll(t) ==
    /\ At(t, "polling")
    /\ Goto(t, "killing")
    /\ UNCHANGED <<desc, pane, sentinel, ended, abandoned>>

(* The result of kill_session is ignored.                                  *)
KillSession(t) ==
    /\ At(t, "killing")
    /\ pane' \in {pane, kill_session(SessionOf(t))}
    /\ run' = [run EXCEPT ![t].pc = "cleaning", ![t].result = Ok(137)]
    /\ UNCHANGED <<desc, sentinel, ended, abandoned>>

(* So is that of cleanup_sentinel, rm -f over ssh.  The mutant returns     *)
(* without it.                                                             *)
NoCleanup(t) ==
    /\ At(t, "cleaning")
    /\ run' = [run EXCEPT ![t].pc = "returned", ![t].read = NoFile]
    /\ UNCHANGED <<desc, pane, sentinel, ended, abandoned>>
CleanupSentinel(t) ==
    LET file == sentinel[SentinelOf[t]]
    IN  /\ At(t, "cleaning")
        /\ \E left \in {NoFile, file} :
              /\ sentinel' = [sentinel EXCEPT ![SentinelOf[t]] = left]
              /\ abandoned' = IF run[t].read = NoFile \/ left # NoFile
                              THEN abandoned \cup {t} ELSE abandoned
        /\ run' = [run EXCEPT ![t].pc = "returned", ![t].read = NoFile]
        /\ UNCHANGED <<desc, pane, ended>>

-----------------------------------------------------------------------------
(* The runtime above and the host below: external.                         *)

(* Another attempt: a retry, or a lease that expired and was requeued.     *)
Again(t) ==
    /\ At(t, "returned") /\ run[t].result # Ok(0)
    /\ run[t].attempt < MaxAttempts[t]
    /\ run' = [run EXCEPT ![t] = NotRunning(run[t].attempt + 1)]
    /\ UNCHANGED <<desc, pane, sentinel, ended, abandoned>>

(* The command at the head of a pane ends; the wrapper of                  *)
(* build_wrapped_command creates the file.  It runs the task's command in  *)
(* a shell of its own, so the pane stays where it is; what others typed    *)
(* runs in the pane's shell, and may leave it anywhere.                    *)
JobExit(s, c) ==
    LET job == Head(pane[s].keys)
        code == Exit(job.task, job.attempt, c)
    IN  /\ pane[s].keys # <<>> /\ pane[s].writing = NoFile
        /\ \/ /\ job.task = NoTask
              /\ \E d \in RepoDir :
                    pane' = [pane EXCEPT ![s].keys = Tail(@), ![s].dir = d]
              /\ UNCHANGED <<sentinel, ended>>
           \/ /\ job.task # NoTask
              /\ pane' = [pane EXCEPT ![s].writing = code]
              /\ sentinel' = [sentinel EXCEPT ![SentinelOf[job.task]] = EmptyFile]
              /\ ended' = ended \cup {<<job.task, c>>}
        /\ UNCHANGED <<desc, run, abandoned>>

JobWrite(s) ==
    LET code == pane[s].writing
    IN  /\ code # NoFile
        /\ sentinel' = [sentinel EXCEPT ![SentinelOf[code.task]] = code]
        /\ pane' = [pane EXCEPT ![s].keys = Tail(@), ![s].writing = NoFile]
        /\ UNCHANGED <<desc, run, ended, abandoned>>

-----------------------------------------------------------------------------
(* Others on the same host: the aivcs-session tool, and users of the       *)
(* RemoteSessionManager trait (create_or_attach, run_command,              *)
(* kill_session).  List only reads.                                        *)

Attach(c) ==
    /\ c.role \in Role
    /\ ValidConfig(c.repo, c.work) /\ ValidTarget(c.host, c.user)
    /\ c.host = Host /\ check_repo_exists(c.repo)
    /\ pane' = new_session(session_name(c.repo, c.work, c.role), c.repo)
    /\ UNCHANGED <<desc, run, sentinel, ended, abandoned>>

Kill(s) ==
    /\ pane' = kill_session(s)
    /\ UNCHANGED <<desc, run, sentinel, ended, abandoned>>

(* run_command with any shell text, or what somebody attached to the       *)
(* session types; JobExit says what it may do.  Bound: the shell is idle.  *)
RunInSession(s) ==
    /\ pane[s].keys = <<>>
    /\ pane' = send_keys(s, Job(NoTask, 1))
    /\ UNCHANGED <<desc, run, sentinel, ended, abandoned>>

Step(t) ==
    \/ Dispatch(t) \/ LocalExit(t) \/ LocalReturn(t) \/ CheckRepo(t)
    \/ NewSession(t) \/ RunCommand(t) \/ PollTimeout(t) \/ KillSession(t) \/ CleanupSentinel(t)

Next ==
    \/ \E t \in Task : \/ Call(t) \/ Step(t) \/ Poll(t) \/ PollError(t)
                       \/ CancelPoll(t) \/ Again(t)
    \/ \E s \in Session : \/ \E c \in ExitCode : JobExit(s, c)
                              \/ JobWrite(s) \/ Kill(s) \/ RunInSession(s)
    \/ \E c \in ToolCall : Attach(c)

Spec == Init /\ [][Next]_vars

(* The executor's own steps happen, an hour passes, local processes end.   *)
(* Commands in panes need not end.                                         *)
FairSpec == Spec /\ \A t \in Task : WF_vars(Step(t))

-----------------------------------------------------------------------------
(* Properties                                                              *)

(* Work of a task never runs twice at the same time, although an execution *)
(* that timed out or lost an answer leaves its command behind and is       *)
(* followed by another attempt: all attempts go to one session, whose      *)
(* shell runs one command at a time (ensure_session).                      *)
Running == {s \in Session : pane[s].keys # <<>>}
OneAttemptRuns ==
    \A s, u \in Running :
        LET a == Head(pane[s].keys)
            b == Head(pane[u].keys)
        IN  a.task = b.task /\ a.task # NoTask => a = b

(* The exit code that execute reports is that of the attempt it started:   *)
(* the sentinel file is named after the task, so this rests on every       *)
(* earlier attempt having ended by reading its code and removing the file. *)
OwnCodeUnlessAbandoned ==
    \A t \in Task : run[t].read # NoFile /\ t \notin abandoned =>
                       /\ run[t].read.task = t
                       /\ run[t].read.attempt = run[t].attempt

(* What the runtime sees of a call.                                        *)
PhaseOf ==
    [t \in Task |-> IF At(t, "idle") THEN "idle"
                    ELSE IF At(t, "returned") THEN "returned" ELSE "executing"]
SucceededOf == [t \in Task |-> At(t, "returned") /\ run[t].result = Ok(0)]
ProducedOf == [t \in Task |-> {c \in ExitCode : <<t, c>> \in ended}]

(* execute does what the runtime expects of any ProcessExecutor: it        *)
(* returns, once per call, whatever becomes of the command, the session or *)
(* the network, and Success means that an attempt of the task did end with *)
(* code 0.                                                                 *)
Contract == INSTANCE ExecutorContract WITH
    Code <- ExitCode,
    phase <- PhaseOf, succeeded <- SucceededOf, produced <- ProducedOf
FulfilsContract == Contract!Spec

-----------------------------------------------------------------------------
(* What the documentation says and the code does not do.                   *)

(* "Unique: Different work IDs -> different sessions"                      *)
SessionsAreUnique ==
    \A c, d \in ToolCall :
        c.work # d.work => session_name(c.repo, c.work, c.role)
                              # session_name(d.repo, d.work, d.role)

(* "Returns Some(code) if the sentinel file exists, None if not yet        *)
(* available": the code polled for is that of the command just submitted.  *)
OwnCode ==
    \A t \in Task : run[t].read # NoFile => run[t].read.attempt = run[t].attempt

(* "Attach or create a tmux session in the repo directory."  An existing   *)
(* session stays where its creator or a cd of somebody has left it, and a  *)
(* repository may share its session with one of the same sanitised name.   *)
RunsInRepoDirectory ==
    \A s \in Running :
        LET t == Head(pane[s].keys).task
        IN  t # NoTask => pane[s].dir = RepoOf(t)

(* "On cancellation, kill the session": only the session of the task that  *)
(* is cancelled loses commands.                                            *)
CancelHitsOnlyItself ==
    [][\A t, u \in Task :
          At(t, "killing") /\ run'[t].pc = "cleaning" /\ u # t
          => \A s \in Session : \A i \in DOMAIN pane[s].keys :
                pane[s].keys[i].task = u => s \in DOMAIN pane']_vars

=============================================================================
