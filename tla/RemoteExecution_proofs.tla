----------------------- MODULE RemoteExecution_proofs -----------------------
(***************************************************************************)
(* Proofs about RemoteExecution, for any tasks, descriptors, repositories, *)
(* tool calls and numbers of attempts, with every ssh call free to fail    *)
(* before or after it took effect.                                         *)
(*                                                                         *)
(* Attempts take turns because a task's commands are only ever sent to the *)
(* session named after its repository.  What exit code is read follows     *)
(* from what an attempt leaves behind: as long as every attempt has ended  *)
(* by reading its code and removing the file, an attempt starts with no    *)
(* command and no file of its task, so the only code it can find is its    *)
(* own.                                                                    *)
(***************************************************************************)
EXTENDS RemoteExecution, TLAPS

(* Two tasks do not share a sentinel file: the first 12 hexadecimal digits *)
(* of their identifiers differ (sentinel_path_for_task).                   *)
DistinctSentinels ==
    \A t, u \in Task : SentinelOf[t] = SentinelOf[u] => t = u

Awaiting == {"polling", "killing", "cleaning"}
RunPc == Awaiting \cup {"idle", "called", "local", "exited", "checking",
                        "creating", "sending", "returned"}

JobRecord == [task : Task \cup {NoTask}, attempt : Nat]
FileRecord == [task : Task \cup {NoTask}, attempt : Nat, code : Nat]
RunRecord == [pc : RunPc, attempt : Nat,
              result : [kind : {"Ok", "Err", "Pending"}, code : Nat],
              read : FileRecord]
PaneRecord == [dir : Name, keys : Seq(JobRecord), writing : FileRecord]

DescType == /\ desc \in [Task -> UNION Range(Descriptor)]
            /\ \A t \in Task : desc[t] \in Descriptor[t]
RunType == run \in [Task -> RunRecord]
PaneType == pane \in [Session -> PaneRecord]
FileType == sentinel \in [Path -> FileRecord]
PastType == ended \in SUBSET (Task \X ExitCode) /\ abandoned \in SUBSET Task

(* The types of the state.                                                 *)
TypeOK == DescType /\ RunType /\ PaneType /\ FileType /\ PastType

(* Only the commands of tasks of its repository are sent to a session, and *)
(* the shell that writes a code has not taken the next command yet.        *)
Home(s) ==
    /\ \A i \in DOMAIN pane[s].keys :
           LET t == pane[s].keys[i].task
           IN  t # NoTask => s = SessionOf(t)
    /\ pane[s].writing # NoFile => pane[s].keys # <<>>

HomeInv == \A s \in Session : Home(s)

(* The code that a shell writes is that of the command at its head, which  *)
(* has ended.                                                              *)
Writing(s) ==
    pane[s].writing # NoFile =>
        /\ pane[s].writing.task = Head(pane[s].keys).task
        /\ pane[s].writing.attempt = Head(pane[s].keys).attempt
        /\ <<pane[s].writing.task, pane[s].writing.code>> \in ended

(* A code in a file is one that a task of that file has ended with.        *)
Filed(p) ==
    sentinel[p] \notin {NoFile, EmptyFile} =>
        /\ SentinelOf[sentinel[p].task] = p
        /\ <<sentinel[p].task, sentinel[p].code>> \in ended

(* Success is reported of a task that has ended with code 0; a code is     *)
(* kept only until the file is removed.                                    *)
Reported(t) ==
    /\ run[t].result = Ok(0) => <<t, 0>> \in ended
    /\ run[t].read # NoFile => At(t, "cleaning")

CodeInv ==
    /\ \A s \in Session : Writing(s)
    /\ \A p \in Path : Filed(p)
    /\ \A t \in Task : Reported(t)

(* Some command of t is waiting or running.                                *)
HasJob(t) ==
    \E s \in Session : \E i \in DOMAIN pane[s].keys : pane[s].keys[i].task = t

FileOf(t) == sentinel[SentinelOf[t]]

(* What there is of a task none of whose attempts left anything behind:    *)
(* nothing, unless an attempt awaits its code, and then the one command of *)
(* this attempt, or the code it ended with, or neither.                    *)
Tidy(t) ==
    /\ run[t].pc \notin Awaiting => ~HasJob(t) /\ FileOf(t) = NoFile
    /\ \A s \in Session : \A i \in DOMAIN pane[s].keys :
           pane[s].keys[i].task = t =>
               /\ pane[s].keys[i].attempt = run[t].attempt
               /\ \A j \in DOMAIN pane[s].keys :
                      pane[s].keys[j].task = t => i = j
    /\ FileOf(t) \notin {NoFile, EmptyFile} =>
           FileOf(t).attempt = run[t].attempt /\ ~HasJob(t)
    /\ run[t].read # NoFile =>
           /\ run[t].read.task = t /\ run[t].read.attempt = run[t].attempt
           /\ ~HasJob(t)

TidyInv == \A t \in Task \ abandoned : Tidy(t)

-----------------------------------------------------------------------------
(* What the calls of SshTmuxSessionManager do to the sessions.             *)

LEMMA NewSessionOps ==
    ASSUME NEW s, NEW repo, pane' = new_session(s, repo)
    PROVE  /\ DOMAIN pane' = Session \cup {s}
           /\ pane' = [u \in DOMAIN pane' |-> pane'[u]]
           /\ \A u \in Session : pane'[u] = pane[u]
           /\ s \notin Session => pane'[s] = NewPane(repo)
BY DEF new_session, Session

LEMMA KillOps ==
    ASSUME NEW s, pane' = kill_session(s)
    PROVE  /\ DOMAIN pane' = Session \ {s}
           /\ pane' = [u \in DOMAIN pane' |-> pane'[u]]
           /\ \A u \in Session \ {s} : pane'[u] = pane[u]
BY DEF kill_session, Session, Restrict

LEMMA PaneOps ==
    ASSUME PaneType, NEW s \in Session, NEW r \in PaneRecord,
           pane' = [pane EXCEPT ![s] = r]
    PROVE  /\ PaneType' /\ Session' = Session
           /\ pane'[s] = r /\ \A u \in Session \ {s} : pane'[u] = pane[u]
BY DEF PaneType, Session

(* Keys that are sent wait behind those that are there.                    *)
LEMMA SendOps ==
    ASSUME PaneType, NEW s \in Session, NEW job \in JobRecord,
           pane' = send_keys(s, job)
    PROVE  /\ PaneType' /\ Session' = Session
           /\ \A u \in Session \ {s} : pane'[u] = pane[u]
           /\ pane'[s].dir = pane[s].dir /\ pane'[s].writing = pane[s].writing
           /\ \E n \in Nat :
                 /\ DOMAIN pane[s].keys = 1..n /\ DOMAIN pane'[s].keys = 1..(n + 1)
                 /\ \A i \in 1..n : pane'[s].keys[i] = pane[s].keys[i]
                 /\ pane'[s].keys[n + 1] = job
           /\ pane[s].keys # <<>> =>
                 pane'[s].keys # <<>> /\ Head(pane'[s].keys) = Head(pane[s].keys)
<1> DEFINE keys == pane[s].keys
           r == [pane[s] EXCEPT !.keys = Append(keys, job)]
<1>1. pane[s] \in PaneRecord /\ keys \in Seq(JobRecord)
  BY DEF PaneType, PaneRecord
<1>2. Append(keys, job) \in Seq(JobRecord)
  BY <1>1
<1>3. /\ r \in PaneRecord /\ r.dir = pane[s].dir
      /\ r.writing = pane[s].writing /\ r.keys = Append(keys, job)
  BY <1>1, <1>2 DEF PaneRecord
<1>4. pane' = [pane EXCEPT ![s] = r]
  BY DEF send_keys
<1> HIDE DEF r
<1>5. /\ PaneType' /\ Session' = Session
      /\ pane'[s] = r /\ \A u \in Session \ {s} : pane'[u] = pane[u]
  BY <1>3, <1>4, PaneOps
<1> HIDE DEF keys
<1>6. \E n \in Nat :
          /\ DOMAIN keys = 1..n /\ DOMAIN Append(keys, job) = 1..(n + 1)
          /\ \A i \in 1..n : Append(keys, job)[i] = keys[i]
          /\ Append(keys, job)[n + 1] = job
  <2>1. /\ Len(keys) \in Nat /\ DOMAIN keys = 1..Len(keys)
        /\ DOMAIN Append(keys, job) = 1..(Len(keys) + 1)
        /\ \A i \in 1..Len(keys) : Append(keys, job)[i] = keys[i]
        /\ Append(keys, job)[Len(keys) + 1] = job
    BY <1>1
  <2> QED
    BY <2>1
<1>7. keys # <<>> => Append(keys, job) # <<>> /\ Head(Append(keys, job)) = Head(keys)
  BY <1>1
<1> QED
  BY <1>3, <1>5, <1>6, <1>7 DEF keys

(* The shell takes the next command.                                       *)
LEMMA TailOps ==
    ASSUME NEW S, NEW q \in Seq(S), q # <<>>
    PROVE  /\ Head(q) \in S /\ Head(q) = q[1] /\ 1 \in DOMAIN q
           /\ Tail(q) \in Seq(S)
           /\ \A i \in DOMAIN Tail(q) : /\ i + 1 \in DOMAIN q /\ i + 1 # 1
                                       /\ Tail(q)[i] = q[i + 1]
           /\ \A i, j \in DOMAIN Tail(q) : i + 1 = j + 1 => i = j
OBVIOUS

(* Its pane may then be in another directory.                              *)
Popped(s, w, d) ==
    pane' = [pane EXCEPT ![s] =
                [pane[s] EXCEPT !.keys = Tail(@), !.writing = w, !.dir = d]]

LEMMA PopOps ==
    ASSUME PaneType, NEW s \in Session, pane[s].keys # <<>>,
           NEW w \in FileRecord, NEW d \in Name, Popped(s, w, d)
    PROVE  /\ PaneType' /\ Session' = Session
           /\ \A u \in Session \ {s} : pane'[u] = pane[u]
           /\ pane'[s].writing = w
           /\ pane'[s].keys = Tail(pane[s].keys)
<1> DEFINE r == [pane[s] EXCEPT !.keys = Tail(@), !.writing = w, !.dir = d]
<1>1. pane[s] \in PaneRecord /\ pane[s].keys \in Seq(JobRecord)
  BY DEF PaneType, PaneRecord
<1>2. Tail(pane[s].keys) \in Seq(JobRecord)
  BY <1>1, TailOps
<1>3. /\ r \in PaneRecord /\ r.writing = w
      /\ r.keys = Tail(pane[s].keys)
  BY <1>1, <1>2 DEF PaneRecord
<1> HIDE DEF r
<1>4. pane' = [pane EXCEPT ![s] = r]
  BY DEF r, Popped
<1> QED
  BY <1>3, <1>4, PaneOps

(* What is left of the pane when a command ends that is nobody's, and when *)
(* the code of a task's command is written.                                *)
LEMMA ExitForm ==
    ASSUME PaneType, NEW s \in Session, NEW c \in ExitCode, JobExit(s, c),
           Head(pane[s].keys).task = NoTask
    PROVE  /\ \E d \in Name : Popped(s, NoFile, d)
           /\ UNCHANGED <<desc, run, sentinel, ended, abandoned>>
<1>1. PICK d \in RepoDir : pane' = [pane EXCEPT ![s].keys = Tail(@), ![s].dir = d]
  BY DEF JobExit
<1>2. d \in Name /\ pane[s] \in PaneRecord /\ pane[s].writing = NoFile
  BY RemoteAssumption DEF PaneType, JobExit
<1>3. [pane[s] EXCEPT !.keys = Tail(@), !.dir = d]
      = [pane[s] EXCEPT !.keys = Tail(@), !.writing = NoFile, !.dir = d]
  BY <1>2 DEF PaneRecord
<1>4. pane' = [pane EXCEPT ![s] = [pane[s] EXCEPT !.keys = Tail(@), !.dir = d]]
  BY <1>1
<1>5. UNCHANGED <<desc, run, sentinel, ended, abandoned>>
  BY DEF JobExit
<1> QED
  BY <1>2, <1>3, <1>4, <1>5 DEF Popped

LEMMA WriteForm ==
    ASSUME PaneType, NEW s \in Session, JobWrite(s)
    PROVE  \E d \in Name : Popped(s, NoFile, d)
<1>1. pane' = [pane EXCEPT ![s] =
                  [pane[s] EXCEPT !.keys = Tail(@), !.writing = NoFile]]
  BY DEF JobWrite
<1>2. pane[s] \in PaneRecord /\ pane[s].dir \in Name
  BY DEF PaneType, PaneRecord
<1>3. [pane[s] EXCEPT !.keys = Tail(@), !.writing = NoFile]
      = [pane[s] EXCEPT !.keys = Tail(@), !.writing = NoFile, !.dir = pane[s].dir]
  BY <1>2 DEF PaneRecord
<1> QED
  BY <1>1, <1>2, <1>3 DEF Popped

LEMMA WriteOps ==
    ASSUME PaneType, NEW s \in Session, NEW w \in FileRecord,
           pane' = [pane EXCEPT ![s].writing = w]
    PROVE  /\ PaneType' /\ Session' = Session
           /\ \A u \in Session \ {s} : pane'[u] = pane[u]
           /\ pane'[s].dir = pane[s].dir /\ pane'[s].writing = w
           /\ pane'[s].keys = pane[s].keys
<1> DEFINE r == [pane[s] EXCEPT !.writing = w]
<1>1. /\ r \in PaneRecord /\ r.dir = pane[s].dir /\ r.writing = w
      /\ r.keys = pane[s].keys
  BY DEF PaneType, PaneRecord
<1>2. pane' = [pane EXCEPT ![s] = r]
  OBVIOUS
<1> HIDE DEF r
<1> QED
  BY <1>1, <1>2, PaneOps

LEMMA FileOps ==
    /\ NoFile \in FileRecord /\ EmptyFile \in FileRecord /\ NoFile # EmptyFile
    /\ \A t \in Task, k \in Nat, c \in Nat :
           /\ Exit(t, k, c) \in FileRecord
           /\ Exit(t, k, c) \notin {NoFile, EmptyFile}
           /\ Exit(t, k, c).task = t /\ Exit(t, k, c).attempt = k
           /\ Exit(t, k, c).code = c
    /\ \A repo \in Name : /\ NewPane(repo) \in PaneRecord
                          /\ NewPane(repo).dir = repo
                          /\ NewPane(repo).keys = <<>>
                          /\ NewPane(repo).writing = NoFile
BY RemoteAssumption DEF NoFile, EmptyFile, Exit, FileRecord, NewPane, PaneRecord

(* execute moves on.                                                       *)
LEMMA RunOps ==
    ASSUME RunType, NEW t \in Task, NEW r \in RunRecord,
           run' = [run EXCEPT ![t] = r]
    PROVE  RunType' /\ run'[t] = r /\ \A u \in Task \ {t} : run'[u] = run[u]
BY DEF RunType

LEMMA GotoOps ==
    ASSUME RunType, NEW t \in Task, NEW pc \in RunPc, Goto(t, pc)
    PROVE  /\ RunType' /\ \A u \in Task \ {t} : run'[u] = run[u]
           /\ run'[t].pc = pc /\ run'[t].attempt = run[t].attempt
           /\ run'[t].result = run[t].result /\ run'[t].read = run[t].read
<1> DEFINE r == [run[t] EXCEPT !.pc = pc]
<1>1. /\ r \in RunRecord /\ r.pc = pc /\ r.attempt = run[t].attempt
      /\ r.result = run[t].result /\ r.read = run[t].read
  BY DEF RunType, RunRecord
<1>2. run' = [run EXCEPT ![t] = r]
  BY DEF Goto
<1> HIDE DEF r
<1> QED
  BY <1>1, <1>2, RunOps

Ends(t, pc, result) ==
    run' = [run EXCEPT ![t].pc = pc, ![t].result = result]
Decides(t, result, read) ==
    run' = [run EXCEPT ![t].pc = "cleaning", ![t].result = result, ![t].read = read]

LEMMA DecideOps ==
    ASSUME RunType, NEW t \in Task, NEW result, NEW read \in FileRecord,
           result \in [kind : {"Ok", "Err", "Pending"}, code : Nat],
           Decides(t, result, read)
    PROVE  /\ RunType' /\ \A u \in Task \ {t} : run'[u] = run[u]
           /\ run'[t].pc = "cleaning" /\ run'[t].attempt = run[t].attempt
           /\ run'[t].result = result /\ run'[t].read = read
<1> DEFINE r == [run[t] EXCEPT !.pc = "cleaning", !.result = result, !.read = read]
<1>1. /\ r \in RunRecord /\ r.pc = "cleaning" /\ r.attempt = run[t].attempt
      /\ r.result = result /\ r.read = read
  BY DEF RunType, RunRecord, RunPc, Awaiting
<1>2. run' = [run EXCEPT ![t] = r]
  BY DEF Decides
<1> HIDE DEF r
<1> QED
  BY <1>1, <1>2, RunOps

LEMMA ReturnOps ==
    ASSUME RunType, NEW t \in Task, NEW pc \in RunPc, NEW result,
           result \in [kind : {"Ok", "Err", "Pending"}, code : Nat],
           Ends(t, pc, result)
    PROVE  /\ RunType' /\ \A u \in Task \ {t} : run'[u] = run[u]
           /\ run'[t].pc = pc /\ run'[t].attempt = run[t].attempt
           /\ run'[t].result = result /\ run'[t].read = run[t].read
<1> DEFINE r == [run[t] EXCEPT !.pc = pc, !.result = result]
<1>1. /\ r \in RunRecord /\ r.pc = pc /\ r.attempt = run[t].attempt
      /\ r.result = result /\ r.read = run[t].read
  BY DEF RunType, RunRecord
<1>2. run' = [run EXCEPT ![t] = r]
  BY DEF Ends
<1> HIDE DEF r
<1> QED
  BY <1>1, <1>2, RunOps

LEMMA ResultOps ==
    /\ Err \in [kind : {"Ok", "Err", "Pending"}, code : Nat] /\ Err # Ok(0)
    /\ Pending \in [kind : {"Ok", "Err", "Pending"}, code : Nat] /\ Pending # Ok(0)
    /\ \A c \in Nat : /\ Ok(c) \in [kind : {"Ok", "Err", "Pending"}, code : Nat]
                      /\ Ok(c) = Ok(0) => c = 0
BY DEF Ok, Err, Pending

LEMMA FailOps ==
    ASSUME RunType, NEW t \in Task, Return(t, Err)
    PROVE  /\ RunType' /\ \A u \in Task \ {t} : run'[u] = run[u]
           /\ run'[t].pc = "returned" /\ run'[t].attempt = run[t].attempt
           /\ run'[t].result = Err /\ run'[t].read = run[t].read
<1>1. Ends(t, "returned", Err)
  BY DEF Return, Ends
<1>2. "returned" \in RunPc
  BY DEF RunPc
<1> QED
  BY <1>1, <1>2, ReturnOps, ResultOps

LEMMA RepoOps ==
    ASSUME DescType, NEW t \in Task
    PROVE  RepoOf(t) \in Name
BY RemoteAssumption DEF DescType, RepoOf

-----------------------------------------------------------------------------
(* Types, and where commands are sent.                                     *)

Base == TypeOK /\ HomeInv

LEMMA InitBase == Init => Base
<1> SUFFICES ASSUME Init PROVE Base
  OBVIOUS
<1>1. RunType
  BY FileOps, ResultOps DEF Init, RunType, RunRecord, NotRunning, RunPc
<1>2. Session = {} /\ PaneType /\ FileType
  BY FileOps DEF Init, Session, PaneType, FileType
<1> QED
  BY <1>1, <1>2 DEF Init, Base, TypeOK, DescType, PastType, HomeInv

(* A session that gets no new command.                                     *)
LEMMA HomeKept ==
    ASSUME HomeInv, desc' = desc, NEW s \in Session,
           \A i \in DOMAIN pane'[s].keys : pane'[s].keys[i].task # NoTask =>
               \E j \in DOMAIN pane[s].keys :
                   pane'[s].keys[i].task = pane[s].keys[j].task,
           pane'[s].writing # NoFile => pane'[s].keys # <<>>
    PROVE  Home(s)'
<1>1. Home(s)
  BY DEF HomeInv
<1>2. \A t : SessionOf(t)' = SessionOf(t)
  BY DEF SessionOf, RepoOf
<1> QED
  BY <1>1, <1>2 DEF Home

LEMMA HomeSame ==
    ASSUME HomeInv, desc' = desc, NEW s \in Session, pane'[s] = pane[s]
    PROVE  Home(s)'
<1>1. Home(s)
  BY DEF HomeInv
<1> QED
  BY <1>1, HomeKept DEF Home

LEMMA PaneSame ==
    ASSUME HomeInv, PaneType, desc' = desc, pane' = pane
    PROVE  HomeInv' /\ PaneType' /\ Session' = Session
<1>1. Session' = Session
  BY DEF Session
<1>2. PaneType'
  BY <1>1 DEF PaneType
<1>3. HomeInv'
  BY <1>1, HomeSame DEF HomeInv
<1> QED
  BY <1>1, <1>2, <1>3

LEMMA PaneNew ==
    ASSUME HomeInv, PaneType, desc' = desc, NEW s, NEW repo \in Name,
           pane' = new_session(s, repo)
    PROVE  HomeInv' /\ PaneType'
<1>1. /\ Session' = Session \cup {s}
      /\ pane' = [u \in Session' |-> pane'[u]]
      /\ \A u \in Session : pane'[u] = pane[u]
      /\ s \notin Session => pane'[s] = NewPane(repo)
  BY NewSessionOps DEF Session
<1>2. \A u \in Session : Home(u)'
  BY <1>1, HomeSame
<1>3. s \notin Session => Home(s)'
  BY <1>1, FileOps DEF Home
<1>4. \A u \in Session' : pane'[u] \in PaneRecord
  BY <1>1, FileOps DEF PaneType
<1>5. PaneType'
  BY <1>1, <1>4 DEF PaneType
<1> QED
  BY <1>1, <1>2, <1>3, <1>5 DEF HomeInv

LEMMA PaneKilled ==
    ASSUME HomeInv, PaneType, desc' = desc, NEW s, pane' = kill_session(s)
    PROVE  HomeInv' /\ PaneType'
<1>1. /\ Session' = Session \ {s}
      /\ pane' = [u \in Session' |-> pane'[u]]
      /\ \A u \in Session \ {s} : pane'[u] = pane[u]
  BY KillOps DEF Session
<1>2. \A u \in Session' : Home(u)'
  BY <1>1, HomeSame
<1>3. \A u \in Session' : pane'[u] \in PaneRecord
  BY <1>1 DEF PaneType
<1>4. PaneType'
  BY <1>1, <1>3 DEF PaneType
<1> QED
  BY <1>2, <1>4 DEF HomeInv

(* A command is sent to the session of its task, or is nobody's.           *)
LEMMA PaneSent ==
    ASSUME HomeInv, PaneType, desc' = desc, NEW s \in Session,
           NEW job \in JobRecord, job.task # NoTask => s = SessionOf(job.task),
           pane' = send_keys(s, job)
    PROVE  HomeInv' /\ PaneType'
<1>1. /\ PaneType' /\ Session' = Session
      /\ \A u \in Session \ {s} : pane'[u] = pane[u]
      /\ pane'[s].dir = pane[s].dir /\ pane'[s].writing = pane[s].writing
      /\ pane[s].keys # <<>> => pane'[s].keys # <<>>
      /\ \E n \in Nat :
            /\ DOMAIN pane[s].keys = 1..n /\ DOMAIN pane'[s].keys = 1..(n + 1)
            /\ \A i \in 1..n : pane'[s].keys[i] = pane[s].keys[i]
            /\ pane'[s].keys[n + 1] = job
  BY SendOps
<1>2. \A i \in DOMAIN pane'[s].keys :
          \/ i \in DOMAIN pane[s].keys /\ pane'[s].keys[i] = pane[s].keys[i]
          \/ pane'[s].keys[i] = job
  BY <1>1
<1>3. \A t : SessionOf(t)' = SessionOf(t)
  BY DEF SessionOf, RepoOf
<1>4. Home(s)'
  <2>1. Home(s)
    BY DEF HomeInv
  <2> QED
    BY <1>1, <1>2, <1>3, <2>1 DEF Home
<1>5. \A u \in Session \ {s} : Home(u)'
  BY <1>1, HomeSame
<1> QED
  BY <1>1, <1>4, <1>5 DEF HomeInv

(* The steps of execute.                                                   *)
LEMMA ExecuteBase ==
    ASSUME Base, NEW t \in Task, Call(t) \/ Step(t) \/ Poll(t) \/ PollError(t)
                                \/ CancelPoll(t) \/ Again(t)
    PROVE  Base'
<1> USE DEF Base, TypeOK, RunPc, Awaiting
<1>0. desc' = desc /\ DescType'
  BY DEF DescType, Call, Step, Poll, PollError, PollTimeout, Decide, CancelPoll, Again,
         Dispatch, LocalExit, LocalReturn, CheckRepo, NewSession, RunCommand,
         KillSession, CleanupSentinel
<1>1. CASE Call(t) \/ CancelPoll(t) \/ LocalReturn(t)
  <2>1. RunType'
    BY <1>1, GotoOps DEF Call, CancelPoll, LocalReturn
  <2>2. UNCHANGED <<pane, sentinel, ended, abandoned>>
    BY <1>1 DEF Call, CancelPoll, LocalReturn
  <2> QED
    BY <1>0, <2>1, <2>2, PaneSame DEF FileType, PastType
<1>2. CASE Dispatch(t) \/ CheckRepo(t)
  <2>1. RunType'
    BY <1>2, GotoOps, FailOps DEF Dispatch, CheckRepo
  <2>2. UNCHANGED <<pane, sentinel, ended, abandoned>>
    BY <1>2 DEF Dispatch, CheckRepo
  <2> QED
    BY <1>0, <2>1, <2>2, PaneSame DEF FileType, PastType
<1>3. CASE LocalExit(t)
  <2>1. RunType'
    <3>1. ASSUME NEW c \in ExitCode,
                 run' = [run EXCEPT ![t].pc = "exited", ![t].result = Ok(c)]
          PROVE  RunType'
      <4>1. c \in Nat
        BY RemoteAssumption
      <4>2. Ok(c) \in [kind : {"Ok", "Err", "Pending"}, code : Nat]
        BY <4>1, ResultOps
      <4>3. Ends(t, "exited", Ok(c))
        BY <3>1 DEF Ends
      <4> QED
        BY <4>2, <4>3, ReturnOps
    <3>2. Return(t, Err) => RunType'
      BY FailOps
    <3> QED
      BY <1>3, <3>1, <3>2 DEF LocalExit
  <2>2. UNCHANGED <<pane, sentinel>> /\ PastType'
    BY <1>3 DEF LocalExit, PastType
  <2> QED
    BY <1>0, <2>1, <2>2, PaneSame DEF FileType
<1>4. CASE Poll(t) \/ PollError(t) \/ PollTimeout(t)
  <2>1. poll_exit_code(t) \in FileRecord /\ poll_exit_code(t).code \in Nat
    BY FileOps DEF poll_exit_code, FileType, FileRecord, Path
  <2>2. \A result \in [kind : {"Ok", "Err", "Pending"}, code : Nat], read \in FileRecord :
            Decide(t, result, read) => RunType'
    <3>1. \A result, read : Decide(t, result, read) => Decides(t, result, read)
      BY DEF Decide, Decides
    <3> QED
      BY <3>1, DecideOps
  <2>3. RunType'
    BY <1>4, <2>1, <2>2, ResultOps, FileOps DEF Poll, PollError, PollTimeout
  <2>4. UNCHANGED <<pane, sentinel, ended, abandoned>>
    BY <1>4 DEF Poll, PollError, PollTimeout, Decide
  <2> QED
    BY <1>0, <2>3, <2>4, PaneSame DEF FileType, PastType
<1>5. CASE NewSession(t)
  <2>1. RunType'
    BY <1>5, GotoOps, FailOps DEF NewSession
  <2>2. HomeInv' /\ PaneType'
    BY <1>0, <1>5, PaneNew, PaneSame, RepoOps DEF NewSession
  <2>3. UNCHANGED <<sentinel, ended, abandoned>>
    BY <1>5 DEF NewSession
  <2> QED
    BY <1>0, <2>1, <2>2, <2>3 DEF FileType, PastType
<1>6. CASE RunCommand(t)
  <2>1. RunType'
    BY <1>6, GotoOps, FailOps DEF RunCommand
  <2>2. Job(t, run[t].attempt) \in JobRecord /\ Job(t, run[t].attempt).task = t
    BY DEF Job, JobRecord, RunType, RunRecord
  <2>3. HomeInv' /\ PaneType'
    BY <1>0, <1>6, <2>2, PaneSent, PaneSame DEF RunCommand
  <2>4. UNCHANGED <<sentinel, ended>> /\ PastType'
    BY <1>6 DEF RunCommand, PastType
  <2> QED
    BY <1>0, <2>1, <2>3, <2>4 DEF FileType
<1>7. CASE KillSession(t)
  <2>1. RunType'
    <3>1. Ends(t, "cleaning", Ok(137))
      BY <1>7 DEF KillSession, Ends
    <3> QED
      BY <3>1, ReturnOps, ResultOps
  <2>2. HomeInv' /\ PaneType'
    BY <1>0, <1>7, PaneKilled, PaneSame DEF KillSession
  <2>3. UNCHANGED <<sentinel, ended, abandoned>>
    BY <1>7 DEF KillSession
  <2> QED
    BY <1>0, <2>1, <2>2, <2>3 DEF FileType, PastType
<1>8. CASE CleanupSentinel(t)
  <2> DEFINE r == [run[t] EXCEPT !.pc = "returned", !.read = NoFile]
  <2>0. NoFile \in FileRecord
    BY FileOps
  <2>1. r \in RunRecord
    BY <2>0 DEF RunType, RunRecord
  <2>2. run' = [run EXCEPT ![t] = r]
    BY <1>8 DEF CleanupSentinel
  <2> HIDE DEF r
  <2>3. RunType'
    BY <2>1, <2>2, RunOps
  <2>4. FileType'
    BY <1>8, FileOps DEF CleanupSentinel, FileType, Path
  <2>5. PastType'
    BY <1>8 DEF CleanupSentinel, PastType
  <2>6. pane' = pane
    BY <1>8 DEF CleanupSentinel
  <2> QED
    BY <1>0, <2>3, <2>4, <2>5, <2>6, PaneSame
<1>9. CASE Again(t)
  <2>1. NotRunning(run[t].attempt + 1) \in RunRecord
    <3>1. NoFile \in FileRecord
      BY FileOps
    <3>2. Pending \in [kind : {"Ok", "Err", "Pending"}, code : Nat]
      BY ResultOps
    <3>3. run[t].attempt + 1 \in Nat
      BY DEF RunType, RunRecord
    <3> QED
      BY <3>1, <3>2, <3>3 DEF NotRunning, RunRecord
  <2>2. RunType'
    BY <1>9, <2>1, RunOps DEF Again
  <2>3. UNCHANGED <<pane, sentinel, ended, abandoned>>
    BY <1>9 DEF Again
  <2> QED
    BY <1>0, <2>2, <2>3, PaneSame DEF FileType, PastType
<1> QED
  BY <1>1, <1>2, <1>3, <1>4, <1>5, <1>6, <1>7, <1>8, <1>9 DEF Step

(* The host, and others on it.                                             *)
LEMMA HostBase ==
    ASSUME Base,
           \/ \E s \in Session : \/ \E c \in ExitCode : JobExit(s, c)
                                 \/ JobWrite(s) \/ Kill(s) \/ RunInSession(s)
           \/ \E c \in ToolCall : Attach(c)
           \/ UNCHANGED vars
    PROVE  Base'
<1> USE DEF Base, TypeOK
<1>0. /\ desc' = desc /\ DescType' /\ run' = run /\ RunType'
      /\ abandoned' = abandoned
  BY DEF DescType, RunType, JobExit, JobWrite, Kill, RunInSession, Attach, vars
<1>1. ASSUME NEW s \in Session, NEW c \in ExitCode, JobExit(s, c)
      PROVE  Base'
  <2>1. pane[s] \in PaneRecord /\ pane[s].keys \in Seq(JobRecord)
        /\ pane[s].keys # <<>>
    BY <1>1 DEF JobExit, PaneType, PaneRecord
  <2>2. PICK job \in JobRecord : job = Head(pane[s].keys)
    BY <2>1, TailOps
  <2>3. CASE job.task = NoTask
    <3>1. /\ \E d \in Name : Popped(s, NoFile, d)
          /\ UNCHANGED <<sentinel, ended>>
      BY <1>1, <2>2, <2>3, ExitForm
    <3>2. /\ PaneType' /\ Session' = Session
          /\ \A u \in Session \ {s} : pane'[u] = pane[u]
          /\ pane'[s].keys = Tail(pane[s].keys) /\ pane'[s].writing = NoFile
      BY <2>1, <3>1, PopOps, FileOps
    <3>3. \A u \in Session : Home(u)'
      <4>1. \A i \in DOMAIN Tail(pane[s].keys) :
                \E j \in DOMAIN pane[s].keys : Tail(pane[s].keys)[i] = pane[s].keys[j]
        BY <2>1, TailOps
      <4>3. Home(s)'
        BY <1>0, <3>2, <4>1, HomeKept
      <4>4. \A u \in Session \ {s} : Home(u)'
        BY <1>0, <3>2, HomeSame
      <4> QED
        BY <4>3, <4>4
    <3> QED
      BY <1>0, <3>1, <3>2, <3>3 DEF FileType, PastType, HomeInv
  <2>4. CASE job.task # NoTask
    <3>1. job.task \in Task /\ Exit(job.task, job.attempt, c) \in FileRecord
      BY <2>4, FileOps, RemoteAssumption DEF JobRecord
    <3>2. /\ pane' = [pane EXCEPT ![s].writing = Exit(job.task, job.attempt, c)]
          /\ sentinel' = [sentinel EXCEPT ![SentinelOf[job.task]] = EmptyFile]
          /\ ended' = ended \cup {<<job.task, c>>}
      BY <1>1, <2>2, <2>4 DEF JobExit
    <3>3. /\ PaneType' /\ Session' = Session
          /\ \A u \in Session \ {s} : pane'[u] = pane[u]
          /\ pane'[s].dir = pane[s].dir /\ pane'[s].keys = pane[s].keys
      BY <3>1, <3>2, WriteOps
    <3>4. \A u \in Session : Home(u)'
      <4>1. Home(s)'
        BY <1>0, <2>1, <3>3, HomeKept
      <4>2. \A u \in Session \ {s} : Home(u)'
        BY <1>0, <3>3, HomeSame
      <4> QED
        BY <4>1, <4>2
    <3>5. FileType' /\ PastType'
      <4>1. EmptyFile \in FileRecord
        BY FileOps
      <4>2. FileType'
        BY <3>2, <4>1 DEF FileType
      <4> QED
        BY <1>0, <3>1, <3>2, <4>2 DEF PastType
    <3> QED
      BY <1>0, <3>3, <3>4, <3>5 DEF HomeInv
  <2> QED
    BY <2>3, <2>4
<1>2. ASSUME NEW s \in Session, JobWrite(s)
      PROVE  Base'
  <2>0. pane[s].keys # <<>>
    BY <1>2 DEF HomeInv, Home, JobWrite
  <2>1. pane[s].keys \in Seq(JobRecord) /\ pane[s].writing \in FileRecord
    BY DEF PaneType, PaneRecord
  <2>2. /\ PaneType' /\ Session' = Session
        /\ \A u \in Session \ {s} : pane'[u] = pane[u]
        /\ pane'[s].keys = Tail(pane[s].keys) /\ pane'[s].writing = NoFile
    <3>1. \E d \in Name : Popped(s, NoFile, d)
      BY <1>2, WriteForm
    <3> QED
      BY <2>0, <3>1, PopOps, FileOps
  <2>3. \A u \in Session : Home(u)'
    <3>1. \A i \in DOMAIN Tail(pane[s].keys) :
              \E j \in DOMAIN pane[s].keys : Tail(pane[s].keys)[i] = pane[s].keys[j]
      BY <2>0, <2>1, TailOps
    <3>2. Home(s)'
      BY <1>0, <2>2, <3>1, HomeKept
    <3>3. \A u \in Session \ {s} : Home(u)'
      BY <1>0, <2>2, HomeSame
    <3> QED
      BY <3>2, <3>3
  <2>4. FileType' /\ PastType'
    BY <1>0, <1>2, <2>1 DEF JobWrite, FileType, PastType
  <2> QED
    BY <1>0, <2>2, <2>3, <2>4 DEF HomeInv
<1>3. ASSUME NEW s \in Session, Kill(s)
      PROVE  Base'
  BY <1>0, <1>3, PaneKilled DEF Kill, FileType, PastType
<1>4. ASSUME NEW s \in Session, RunInSession(s)
      PROVE  Base'
  <2>1. Job(NoTask, 1) \in JobRecord /\ Job(NoTask, 1).task = NoTask
    BY DEF Job, JobRecord
  <2>2. HomeInv' /\ PaneType'
    BY <1>0, <1>4, <2>1, PaneSent DEF RunInSession
  <2> QED
    BY <1>0, <1>4, <2>2 DEF RunInSession, FileType, PastType
<1>5. ASSUME NEW c \in ToolCall, Attach(c)
      PROVE  Base'
  <2>1. c.repo \in Name
    BY RemoteAssumption
  <2>3. HomeInv' /\ PaneType'
    BY <1>0, <1>5, <2>1, PaneNew DEF Attach
  <2> QED
    BY <1>0, <1>5, <2>3 DEF Attach, FileType, PastType
<1>6. CASE UNCHANGED vars
  BY <1>0, <1>6, PaneSame DEF vars, FileType, PastType
<1> QED
  BY <1>1, <1>2, <1>3, <1>4, <1>5, <1>6

LEMMA NextBase == Base /\ [Next]_vars => Base'
BY ExecuteBase, HostBase DEF Next

(* Types, and where commands are sent, in every reachable state.           *)
THEOREM BaseInvariance == Spec => []Base
<1>1. Init => Base
  BY InitBase
<1>2. Base /\ [Next]_vars => Base'
  BY NextBase
<1> QED
  BY <1>1, <1>2, PTL DEF Spec

(* Two attempts of a task never run at the same time, whatever failed: all *)
(* its commands are sent to one session.                                   *)
THEOREM AttemptsTakeTurns == Spec => []OneAttemptRuns
<1>1. Base => OneAttemptRuns
  <2> SUFFICES ASSUME Base, NEW s \in Running, NEW u \in Running,
                      Head(pane[s].keys).task = Head(pane[u].keys).task,
                      Head(pane[s].keys).task # NoTask
               PROVE  Head(pane[s].keys) = Head(pane[u].keys)
    BY DEF OneAttemptRuns
  <2>1. ASSUME NEW v \in Running, Head(pane[v].keys).task # NoTask
        PROVE  v = SessionOf(Head(pane[v].keys).task)
    <3>1. v \in Session /\ pane[v].keys \in Seq(JobRecord) /\ pane[v].keys # <<>>
      BY DEF Base, TypeOK, PaneType, PaneRecord, Running
    <3>2. 1 \in DOMAIN pane[v].keys /\ Head(pane[v].keys) = pane[v].keys[1]
      BY <3>1, TailOps
    <3> QED
      BY <2>1, <3>1, <3>2 DEF Base, HomeInv, Home
  <2>2. s = u
    BY <2>1
  <2> QED
    BY <2>2
<1> QED
  BY <1>1, BaseInvariance, PTL

-----------------------------------------------------------------------------
(* What a step leaves of the commands and of the codes being written.      *)

(* The commands of the tasks of T were there before, in the same session   *)
(* and in the same order.                                                  *)
JobsAt(s, T) ==
    \E d \in Nat : \A i \in DOMAIN pane'[s].keys :
        pane'[s].keys[i].task \in T =>
            /\ s \in Session /\ i + d \in DOMAIN pane[s].keys
            /\ pane'[s].keys[i] = pane[s].keys[i + d]

JobsFrom(T) == \A s \in DOMAIN pane' : JobsAt(s, T)

(* The codes being written are those that were.                            *)
WritesFrom ==
    \A s \in DOMAIN pane' : pane'[s].writing # NoFile =>
        /\ s \in Session /\ pane'[s].writing = pane[s].writing
        /\ Head(pane'[s].keys) = Head(pane[s].keys)

(* A session that is as it was.                                            *)
LEMMA SessionKept ==
    ASSUME PaneType, NEW s \in Session, pane'[s].keys = pane[s].keys, NEW T
    PROVE  JobsAt(s, T)
<1>1. \A i \in DOMAIN pane[s].keys : i + 0 = i
  BY DEF PaneType, PaneRecord
<1> QED
  BY <1>1 DEF JobsAt

LEMMA JobsSame ==
    ASSUME PaneType, pane' = pane
    PROVE  JobsFrom(Task) /\ WritesFrom
BY SessionKept DEF JobsFrom, WritesFrom, Session

LEMMA JobsNew ==
    ASSUME PaneType, NEW s, NEW repo \in Name, pane' = new_session(s, repo)
    PROVE  JobsFrom(Task) /\ WritesFrom
<1>1. /\ DOMAIN pane' = Session \cup {s}
      /\ \A u \in Session : pane'[u] = pane[u]
      /\ s \notin Session => pane'[s] = NewPane(repo)
  BY NewSessionOps
<1>2. s \notin Session => DOMAIN pane'[s].keys = {} /\ pane'[s].writing = NoFile
  BY <1>1, FileOps
<1>3. s \notin Session => JobsAt(s, Task)
  <2>1. 0 \in Nat
    OBVIOUS
  <2> QED
    BY <1>2, <2>1 DEF JobsAt
<1>4. JobsFrom(Task)
  BY <1>1, <1>3, SessionKept DEF JobsFrom
<1> QED
  BY <1>1, <1>2, <1>4 DEF WritesFrom

LEMMA JobsKilled ==
    ASSUME PaneType, NEW s, pane' = kill_session(s)
    PROVE  JobsFrom(Task) /\ WritesFrom
<1>1. /\ DOMAIN pane' = Session \ {s}
      /\ \A u \in Session \ {s} : pane'[u] = pane[u]
  BY KillOps
<1> QED
  BY <1>1, SessionKept DEF JobsFrom, WritesFrom

LEMMA JobsSent ==
    ASSUME PaneType, HomeInv, NEW s \in Session, NEW job \in JobRecord,
           pane' = send_keys(s, job), NEW T, job.task \notin T
    PROVE  JobsFrom(T) /\ WritesFrom
<1>1. /\ DOMAIN pane' = Session
      /\ \A u \in Session \ {s} : pane'[u] = pane[u]
      /\ pane'[s].writing = pane[s].writing
      /\ pane[s].keys # <<>> => Head(pane'[s].keys) = Head(pane[s].keys)
  BY SendOps DEF Session
<1>2. \E n \in Nat :
          /\ DOMAIN pane[s].keys = 1..n /\ DOMAIN pane'[s].keys = 1..(n + 1)
          /\ \A i \in 1..n : pane'[s].keys[i] = pane[s].keys[i]
          /\ pane'[s].keys[n + 1] = job
  BY SendOps
<1>3. JobsAt(s, T)
  <2>1. \A i \in DOMAIN pane'[s].keys :
            pane'[s].keys[i].task \in T =>
                /\ s \in Session /\ i + 0 \in DOMAIN pane[s].keys
                /\ pane'[s].keys[i] = pane[s].keys[i + 0]
    BY <1>2
  <2> QED
    BY <2>1 DEF JobsAt
<1>4. JobsFrom(T)
  BY <1>1, <1>3, SessionKept DEF JobsFrom
<1>5. pane[s].writing # NoFile => pane[s].keys # <<>>
  BY DEF HomeInv, Home
<1> QED
  BY <1>1, <1>4, <1>5 DEF WritesFrom

LEMMA JobsPopped ==
    ASSUME PaneType, NEW s \in Session, pane[s].keys # <<>>,
           \E d \in Name : Popped(s, NoFile, d)
    PROVE  JobsFrom(Task) /\ WritesFrom
<1>1. /\ DOMAIN pane' = Session
      /\ \A u \in Session \ {s} : pane'[u] = pane[u]
      /\ pane'[s].writing = NoFile /\ pane'[s].keys = Tail(pane[s].keys)
  BY PopOps, FileOps DEF Session
<1>2. \A i \in DOMAIN Tail(pane[s].keys) :
          /\ i + 1 \in DOMAIN pane[s].keys
          /\ Tail(pane[s].keys)[i] = pane[s].keys[i + 1]
  BY TailOps DEF PaneType, PaneRecord
<1>3. JobsAt(s, Task)
  <2>1. ASSUME NEW i \in DOMAIN pane'[s].keys
        PROVE  /\ s \in Session /\ i + 1 \in DOMAIN pane[s].keys
               /\ pane'[s].keys[i] = pane[s].keys[i + 1]
    BY <1>1, <1>2, <2>1
  <2>2. 1 \in Nat
    OBVIOUS
  <2> QED
    BY <2>1, <2>2, Zenon DEF JobsAt
<1>4. JobsFrom(Task)
  BY <1>1, <1>2, <1>3, SessionKept DEF JobsFrom
<1> QED
  BY <1>1, <1>4 DEF WritesFrom

-----------------------------------------------------------------------------
(* The parts of CodeInv and TidyInv that a step does not touch.            *)

LEMMA WritingKept ==
    ASSUME CodeInv, WritesFrom, ended \subseteq ended'
    PROVE  \A s \in Session' : Writing(s)'
BY DEF CodeInv, WritesFrom, Writing, Session

LEMMA FiledKept ==
    ASSUME CodeInv, ended \subseteq ended', NEW p \in Path,
           sentinel'[p] \in {sentinel[p], NoFile, EmptyFile}
    PROVE  Filed(p)'
BY DEF CodeInv, Filed

LEMMA ReportedKept ==
    ASSUME CodeInv, ended \subseteq ended', NEW t \in Task,
           run'[t].result = Ok(0) => run[t].result = Ok(0) \/ <<t, 0>> \in ended',
           run'[t].read # NoFile => run[t].read # NoFile \/ run'[t].pc = "cleaning",
           run[t].pc = "cleaning" => run'[t].pc = "cleaning" \/ run'[t].read = NoFile
    PROVE  Reported(t)'
BY DEF CodeInv, Reported, At

LEMMA NoJobKept ==
    ASSUME NEW T, JobsFrom(T), NEW t \in T, HasJob(t)'
    PROVE  HasJob(t)
BY DEF JobsFrom, JobsAt, HasJob, Session

(* A task that is as it was, or whose code has been dealt with.            *)
LEMMA TidyKept ==
    ASSUME NEW T, JobsFrom(T), NEW t \in Task, t \in T, Tidy(t), PaneType',
           run'[t].attempt = run[t].attempt, run'[t].read \in {run[t].read, NoFile},
           run'[t].pc \notin Awaiting => run[t].pc \notin Awaiting,
           FileOf(t)' = FileOf(t)
    PROVE  Tidy(t)'
<1>1. HasJob(t)' => HasJob(t)
  BY NoJobKept
<1>2. ASSUME NEW s \in Session', NEW i \in DOMAIN pane'[s].keys,
             pane'[s].keys[i].task = t
      PROVE  /\ pane'[s].keys[i].attempt = run'[t].attempt
             /\ \A j \in DOMAIN pane'[s].keys : pane'[s].keys[j].task = t => i = j
  <2>1. PICK d \in Nat : \A k \in DOMAIN pane'[s].keys :
            pane'[s].keys[k].task \in T =>
                /\ s \in Session /\ k + d \in DOMAIN pane[s].keys
                /\ pane'[s].keys[k] = pane[s].keys[k + d]
    BY DEF JobsFrom, JobsAt, Session
  <2>2. /\ s \in Session /\ i + d \in DOMAIN pane[s].keys
        /\ pane'[s].keys[i] = pane[s].keys[i + d]
    BY <1>2, <2>1
  <2>3. pane'[s].keys[i].attempt = run'[t].attempt
    BY <1>2, <2>2 DEF Tidy
  <2>4. ASSUME NEW j \in DOMAIN pane'[s].keys, pane'[s].keys[j].task = t
        PROVE  i = j
    <3>1. /\ j + d \in DOMAIN pane[s].keys
          /\ pane'[s].keys[j] = pane[s].keys[j + d]
      BY <2>1, <2>4
    <3>2. i + d = j + d
      BY <1>2, <2>2, <2>4, <3>1 DEF Tidy
    <3>3. i \in Nat /\ j \in Nat
      BY DEF PaneType, PaneRecord
    <3> QED
      BY <3>2, <3>3
  <2> QED
    BY <2>3, <2>4
<1> QED
  BY <1>1, <1>2 DEF Tidy

(* A task of which nothing is left.                                        *)
LEMMA TidyClean ==
    ASSUME NEW t \in Task, ~HasJob(t)', FileOf(t)' \in {NoFile}, run'[t].read = NoFile
    PROVE  Tidy(t)'
BY DEF Tidy, HasJob

-----------------------------------------------------------------------------
(* The steps of execute that send no command, read no code and remove no   *)
(* file.                                                                   *)

Outside(t) == run[t].pc \notin Awaiting /\ run'[t].pc \notin Awaiting
Inside(t) == /\ run[t].pc \in {"polling", "killing"} /\ run'[t].pc \in Awaiting
             /\ run'[t].attempt = run[t].attempt

Moves(t) ==
    /\ \A u \in Task \ {t} : run'[u] = run[u]
    /\ run'[t].read \in {run[t].read, NoFile}
    /\ run'[t].result = Ok(0) => run[t].result = Ok(0) \/ <<t, 0>> \in ended'
    /\ Outside(t) \/ Inside(t)
    /\ sentinel' = sentinel /\ ended \subseteq ended' /\ abandoned' = abandoned
    /\ JobsFrom(Task) /\ WritesFrom

LEMMA GotoMoves ==
    ASSUME Base, NEW t \in Task, NEW pc \in RunPc, Goto(t, pc),
           \/ run[t].pc \notin Awaiting /\ pc \notin Awaiting
           \/ run[t].pc \in {"polling", "killing"} /\ pc \in Awaiting,
           UNCHANGED <<sentinel, ended, abandoned>>, JobsFrom(Task), WritesFrom
    PROVE  Moves(t)
<1>1. /\ \A u \in Task \ {t} : run'[u] = run[u]
      /\ run'[t].pc = pc /\ run'[t].attempt = run[t].attempt
      /\ run'[t].result = run[t].result /\ run'[t].read = run[t].read
  BY GotoOps DEF Base, TypeOK
<1> QED
  BY <1>1 DEF Moves, Outside, Inside

LEMMA ReturnMoves ==
    ASSUME Base, NEW t \in Task, NEW pc \in RunPc, NEW result,
           result \in [kind : {"Ok", "Err", "Pending"}, code : Nat],
           Ends(t, pc, result), result = Ok(0) => <<t, 0>> \in ended',
           \/ run[t].pc \notin Awaiting /\ pc \notin Awaiting
           \/ run[t].pc \in {"polling", "killing"} /\ pc \in Awaiting,
           sentinel' = sentinel, ended \subseteq ended', abandoned' = abandoned,
           JobsFrom(Task), WritesFrom
    PROVE  Moves(t)
<1>0. RunType
  BY DEF Base, TypeOK
<1>1. /\ \A u \in Task \ {t} : run'[u] = run[u]
      /\ run'[t].pc = pc /\ run'[t].attempt = run[t].attempt
      /\ run'[t].result = result /\ run'[t].read = run[t].read
  BY <1>0, ReturnOps
<1> QED
  BY <1>1 DEF Moves, Outside, Inside

LEMMA FailMoves ==
    ASSUME Base, NEW t \in Task, Return(t, Err), run[t].pc \notin Awaiting,
           UNCHANGED <<sentinel, ended, abandoned>>, JobsFrom(Task), WritesFrom
    PROVE  Moves(t)
<1>1. Err \in [kind : {"Ok", "Err", "Pending"}, code : Nat] /\ Err # Ok(0)
  BY ResultOps
<1>2. "returned" \in RunPc /\ "returned" \notin Awaiting
  BY DEF RunPc, Awaiting
<1>3. Ends(t, "returned", Err)
  BY DEF Return, Ends
<1>4. ended \subseteq ended' /\ sentinel' = sentinel /\ abandoned' = abandoned
  OBVIOUS
<1> QED
  BY <1>1, <1>2, <1>3, <1>4, ReturnMoves

(* run_command with the command delivered, and without.                    *)
Sent(t) ==
    /\ At(t, "sending") /\ SessionOf(t) \in Session
    /\ pane' = send_keys(SessionOf(t), Job(t, run[t].attempt))
    /\ \/ Goto(t, "polling") /\ UNCHANGED abandoned
       \/ Return(t, Err) /\ abandoned' = abandoned \cup {t}
    /\ UNCHANGED <<desc, sentinel, ended>>

LEMMA MovesOf ==
    ASSUME Base, NEW t \in Task,
           \/ Call(t) \/ Dispatch(t) \/ LocalExit(t) \/ LocalReturn(t)
           \/ CheckRepo(t) \/ NewSession(t) \/ (RunCommand(t) /\ ~Sent(t))
           \/ PollError(t) \/ PollTimeout(t) \/ CancelPoll(t) \/ KillSession(t)
           \/ Again(t)
    PROVE  Moves(t)
<1>0. PaneType /\ RunType
  BY DEF Base, TypeOK
<1>p. {"idle", "called", "local", "exited", "checking", "creating", "sending",
       "returned"} \cap Awaiting = {}
  BY DEF Awaiting
<1>q. /\ {"idle", "called", "local", "exited", "checking", "creating", "sending",
          "returned", "polling", "killing", "cleaning"} \subseteq RunPc
      /\ {"polling", "killing", "cleaning"} \subseteq Awaiting
  BY DEF RunPc, Awaiting
<1>1. CASE Call(t) \/ LocalReturn(t) \/ CancelPoll(t)
  <2>1. JobsFrom(Task) /\ WritesFrom /\ UNCHANGED <<sentinel, ended, abandoned>>
    BY <1>0, <1>1, JobsSame DEF Call, LocalReturn, CancelPoll
  <2> QED
    BY <1>1, <1>p, <1>q, <2>1, GotoMoves DEF Call, LocalReturn, CancelPoll, At
<1>2. CASE Dispatch(t) \/ CheckRepo(t)
  <2>1. JobsFrom(Task) /\ WritesFrom /\ UNCHANGED <<sentinel, ended, abandoned>>
    BY <1>0, <1>2, JobsSame DEF Dispatch, CheckRepo
  <2>2. run[t].pc \in {"called", "checking"}
    BY <1>2 DEF Dispatch, CheckRepo, At
  <2>3. \/ Goto(t, "local") \/ Goto(t, "checking") \/ Goto(t, "creating")
        \/ Return(t, Err)
    BY <1>2 DEF Dispatch, CheckRepo
  <2> QED
    BY <1>p, <1>q, <2>1, <2>2, <2>3, GotoMoves, FailMoves
<1>3. CASE LocalExit(t)
  <2>1. JobsFrom(Task) /\ WritesFrom /\ UNCHANGED <<sentinel, abandoned>>
    BY <1>0, <1>3, JobsSame DEF LocalExit
  <2>2. run[t].pc \notin Awaiting
    BY <1>3, <1>p DEF LocalExit, At
  <2>3. ASSUME NEW c \in ExitCode, ended' = ended \cup {<<t, c>>},
               run' = [run EXCEPT ![t].pc = "exited", ![t].result = Ok(c)]
        PROVE  Moves(t)
    <3>1. c \in Nat
      BY RemoteAssumption
    <3>2. /\ Ok(c) \in [kind : {"Ok", "Err", "Pending"}, code : Nat]
          /\ Ok(c) = Ok(0) => c = 0
      BY <3>1, ResultOps
    <3>3. ended \subseteq ended' /\ (c = 0 => <<t, 0>> \in ended')
      BY <2>3
    <3>4. "exited" \in RunPc /\ "exited" \notin Awaiting
      BY <1>p, <1>q
    <3>5. Ends(t, "exited", Ok(c))
      BY <2>3 DEF Ends
    <3> QED
      BY <2>1, <2>2, <3>2, <3>3, <3>4, <3>5, ReturnMoves
  <2>4. Return(t, Err) /\ UNCHANGED ended => Moves(t)
    BY <2>1, <2>2, FailMoves
  <2> QED
    BY <1>3, <2>3, <2>4 DEF LocalExit
<1>4. CASE NewSession(t)
  <2>1. RepoOf(t) \in Name
    BY RepoOps DEF Base, TypeOK
  <2>2. JobsFrom(Task) /\ WritesFrom
    BY <1>0, <1>4, <2>1, JobsSame, JobsNew DEF NewSession
  <2>3. run[t].pc \notin Awaiting /\ UNCHANGED <<sentinel, ended, abandoned>>
    BY <1>4, <1>p DEF NewSession, At
  <2>4. Goto(t, "sending") \/ Return(t, Err)
    BY <1>4 DEF NewSession
  <2> QED
    BY <1>p, <1>q, <2>2, <2>3, <2>4, GotoMoves, FailMoves
<1>5. CASE RunCommand(t) /\ ~Sent(t)
  <2>1. Return(t, Err) /\ UNCHANGED <<pane, sentinel, ended, abandoned>>
    BY <1>5 DEF RunCommand, Sent
  <2>2. JobsFrom(Task) /\ WritesFrom
    BY <1>0, <2>1, JobsSame
  <2>3. run[t].pc \notin Awaiting
    BY <1>5, <1>p DEF RunCommand, At
  <2> QED
    BY <2>1, <2>2, <2>3, FailMoves
<1>6. CASE KillSession(t)
  <2>1. JobsFrom(Task) /\ WritesFrom
    BY <1>0, <1>6, JobsSame, JobsKilled DEF KillSession
  <2>2. Ok(137) \in [kind : {"Ok", "Err", "Pending"}, code : Nat] /\ Ok(137) # Ok(0)
    BY ResultOps
  <2>3. /\ Ends(t, "cleaning", Ok(137))
        /\ run[t].pc = "killing" /\ UNCHANGED <<sentinel, ended, abandoned>>
    BY <1>6 DEF KillSession, At, Ends
  <2>4. ended \subseteq ended'
    BY <2>3
  <2> QED
    BY <1>q, <2>1, <2>2, <2>3, <2>4, ReturnMoves
<1>7. CASE PollError(t) \/ PollTimeout(t)
  <2>1. PICK c \in {1, 124} : Decide(t, Ok(c), NoFile)
    BY <1>7 DEF PollError, PollTimeout
  <2>2. Ok(c) \in [kind : {"Ok", "Err", "Pending"}, code : Nat] /\ Ok(c) # Ok(0)
    BY ResultOps
  <2>3. NoFile \in FileRecord /\ "cleaning" \in RunPc
    BY FileOps DEF RunPc, Awaiting
  <2>4. /\ \A u \in Task \ {t} : run'[u] = run[u]
        /\ run'[t].pc = "cleaning" /\ run'[t].attempt = run[t].attempt
        /\ run'[t].result = Ok(c) /\ run'[t].read = NoFile
    <3>1. Decides(t, Ok(c), NoFile)
      BY <2>1 DEF Decide, Decides
    <3> QED
      BY <1>0, <2>2, <2>3, <3>1, DecideOps
  <2>5. JobsFrom(Task) /\ WritesFrom /\ UNCHANGED <<sentinel, ended, abandoned>>
    BY <1>0, <2>1, JobsSame DEF Decide
  <2>6. run[t].pc = "polling"
    BY <2>1 DEF Decide, At
  <2> QED
    BY <1>q, <2>2, <2>4, <2>5, <2>6 DEF Moves, Inside
<1>8. CASE Again(t)
  <2>1. run' = [run EXCEPT ![t] = NotRunning(run[t].attempt + 1)]
    BY <1>8 DEF Again
  <2>2. /\ \A u \in Task \ {t} : run'[u] = run[u]
        /\ run'[t] = NotRunning(run[t].attempt + 1)
    BY <1>0, <2>1 DEF RunType
  <2>3. run'[t].pc = "idle" /\ run'[t].result = Pending /\ run'[t].read = NoFile
    BY <2>2 DEF NotRunning
  <2>4. JobsFrom(Task) /\ WritesFrom /\ UNCHANGED <<sentinel, ended, abandoned>>
    BY <1>0, <1>8, JobsSame DEF Again
  <2>5. run[t].pc = "returned"
    BY <1>8 DEF Again, At
  <2> QED
    BY <1>p, <2>2, <2>3, <2>4, <2>5, ResultOps DEF Moves, Outside
<1> QED
  BY <1>1, <1>2, <1>3, <1>4, <1>5, <1>6, <1>7, <1>8

LEMMA MovesKeep ==
    ASSUME Base, Base', CodeInv, TidyInv, NEW t \in Task, Moves(t)
    PROVE  CodeInv' /\ TidyInv'
<1>1. \A s \in Session' : Writing(s)'
  BY WritingKept DEF Moves
<1>2. \A p \in Path : Filed(p)'
  BY FiledKept DEF Moves
<1>3. run[t].pc # "cleaning"
  BY DEF Moves, Outside, Inside, Awaiting
<1>r. run[t].read = NoFile /\ run'[t].read = NoFile
  BY <1>3 DEF CodeInv, Reported, At, Moves
<1>4. \A u \in Task : Reported(u)'
  BY <1>3, <1>r, ReportedKept DEF Moves
<1>5. ASSUME NEW u \in Task \ abandoned
      PROVE  Tidy(u)'
  <2>1. Tidy(u) /\ PaneType' /\ FileOf(u)' = FileOf(u)
    BY DEF TidyInv, Base, TypeOK, FileOf, Moves
  <2>2. CASE u # t \/ Inside(t)
    BY <2>1, <2>2, TidyKept DEF Moves, Inside
  <2>3. CASE u = t /\ Outside(t)
    <3>1. ~HasJob(t) /\ FileOf(t) = NoFile
      BY <2>1, <2>3 DEF Tidy, Outside
    <3>2. ~HasJob(t)'
      BY <3>1, NoJobKept DEF Moves
    <3> QED
      BY <1>r, <2>1, <2>3, <3>1, <3>2, TidyClean
  <2> QED
    BY <2>2, <2>3 DEF Moves
<1> QED
  BY <1>1, <1>2, <1>4, <1>5 DEF CodeInv, TidyInv, Moves

-----------------------------------------------------------------------------
(* The steps that send a command, read a code or remove a file.            *)

(* The first command of an attempt goes to a host that has nothing of the  *)
(* task, or the task is abandoned.                                         *)
LEMMA SentKeeps ==
    ASSUME Base, Base', CodeInv, TidyInv, NEW t \in Task, Sent(t)
    PROVE  CodeInv' /\ TidyInv'
<1> DEFINE s == SessionOf(t)
           job == Job(t, run[t].attempt)
<1>0. PaneType /\ PaneType' /\ RunType /\ HomeInv
  BY DEF Base, TypeOK
<1>1. job \in JobRecord /\ job.task = t /\ job.attempt = run[t].attempt
  BY <1>0 DEF Job, JobRecord, RunType, RunRecord
<1>2. s \in Session /\ pane' = send_keys(s, job)
  BY DEF Sent
<1>3. PICK ses, j : ses = s /\ j = job
  OBVIOUS
<1> HIDE DEF s, job
<1>4. JobsFrom(Task \ {t}) /\ WritesFrom
  BY <1>0, <1>1, <1>2, JobsSent
<1>5. /\ \A u \in Task \ {t} : run'[u] = run[u]
      /\ run'[t].attempt = run[t].attempt /\ run'[t].read = run[t].read
      /\ run'[t].result \in {run[t].result, Err}
      /\ run'[t].pc = "polling" \/ t \in abandoned'
  <2>1. "polling" \in RunPc
    BY DEF RunPc, Awaiting
  <2> QED
    BY <1>0, <2>1, GotoOps, FailOps DEF Sent
<1>6. UNCHANGED <<sentinel, ended>> /\ run[t].pc = "sending"
  BY DEF Sent, At
<1>7. run[t].read = NoFile
  BY <1>6 DEF CodeInv, Reported, At
<1>8. CodeInv'
  <2>1. \A u \in Session' : Writing(u)'
    BY <1>4, <1>6, WritingKept
  <2>2. \A p \in Path : Filed(p)'
    BY <1>6, FiledKept
  <2>3. \A u \in Task : Reported(u)'
    BY <1>5, <1>6, <1>7, ReportedKept, ResultOps
  <2> QED
    BY <2>1, <2>2, <2>3 DEF CodeInv
<1>9. abandoned \subseteq abandoned'
  BY DEF Sent
<1>10. ASSUME NEW u \in Task \ abandoned', u # t
       PROVE  Tidy(u)'
  <2>1. Tidy(u) /\ FileOf(u)' = FileOf(u)
    BY <1>6, <1>9 DEF TidyInv, FileOf
  <2> QED
    BY <1>0, <1>4, <1>5, <1>10, <2>1, TidyKept
<1>11. ASSUME t \notin abandoned'
       PROVE  Tidy(t)'
  <2>1. ~HasJob(t) /\ FileOf(t)' = NoFile
    BY <1>6, <1>9, <1>11 DEF TidyInv, Tidy, FileOf, Awaiting
  <2>2. /\ DOMAIN pane' = Session
        /\ \A u \in Session \ {ses} : pane'[u] = pane[u]
    BY <1>0, <1>1, <1>2, <1>3, SendOps DEF Session
  <2>3. PICK n \in Nat :
            /\ DOMAIN pane[ses].keys = 1..n /\ DOMAIN pane'[ses].keys = 1..(n + 1)
            /\ \A i \in 1..n : pane'[ses].keys[i] = pane[ses].keys[i]
            /\ pane'[ses].keys[n + 1] = j
    BY <1>0, <1>1, <1>2, <1>3, SendOps
  <2>4. \A i \in DOMAIN pane'[ses].keys : pane'[ses].keys[i].task = t => i = n + 1
    <3>1. \A i \in 1..n : pane[ses].keys[i].task # t
      BY <1>2, <1>3, <2>1, <2>3 DEF HasJob
    <3> QED
      BY <2>3, <3>1
  <2>5. \A u \in Session \ {ses} : \A i \in DOMAIN pane'[u].keys :
            pane'[u].keys[i].task # t
    BY <2>1, <2>2 DEF HasJob
  <2>6. run'[t].pc \in Awaiting
    BY <1>5, <1>11 DEF Awaiting
  <2>7. \A u \in Session' : \A i \in DOMAIN pane'[u].keys :
            pane'[u].keys[i].task = t =>
                /\ pane'[u].keys[i].attempt = run'[t].attempt
                /\ \A k \in DOMAIN pane'[u].keys :
                       pane'[u].keys[k].task = t => i = k
    BY <1>1, <1>3, <1>5, <2>2, <2>3, <2>4, <2>5 DEF Session
  <2> QED
    BY <1>5, <1>7, <2>1, <2>6, <2>7 DEF Tidy
<1> QED
  BY <1>8, <1>10, <1>11 DEF TidyInv

(* A code that is found is one of the task, and of this attempt unless the *)
(* task was abandoned.                                                     *)
LEMMA PollKeeps ==
    ASSUME DistinctSentinels, Base, Base', CodeInv, TidyInv, NEW t \in Task, Poll(t)
    PROVE  CodeInv' /\ TidyInv'
<1>0. PaneType /\ PaneType' /\ RunType /\ FileType /\ PastType
  BY DEF Base, TypeOK
<1>1. PICK found : found = FileOf(t) /\ found = poll_exit_code(t)
                   /\ found \notin {NoFile, EmptyFile}
  BY DEF Poll, poll_exit_code, FileOf
<1>2. found \in FileRecord /\ SentinelOf[t] \in Path
  BY <1>0, <1>1 DEF FileOf, FileType, Path
<1>3. Filed(SentinelOf[t])
  BY <1>2 DEF CodeInv
<1>4. found.task = t /\ <<t, found.code>> \in ended
  <2>1. SentinelOf[found.task] = SentinelOf[t] /\ <<found.task, found.code>> \in ended
    BY <1>1, <1>3 DEF Filed, FileOf
  <2>2. found.task \in Task
    BY <1>0, <2>1 DEF PastType
  <2> QED
    BY <2>1, <2>2 DEF DistinctSentinels
<1>5. found.code \in Nat
  BY <1>2 DEF FileRecord
<1>6. /\ Ok(found.code) \in [kind : {"Ok", "Err", "Pending"}, code : Nat]
      /\ Ok(found.code) = Ok(0) => found.code = 0
  BY <1>5, ResultOps
<1>7. Decides(t, Ok(found.code), found)
  BY <1>1 DEF Poll, Decide, Decides
<1>8. /\ \A u \in Task \ {t} : run'[u] = run[u]
      /\ run'[t].pc = "cleaning" /\ run'[t].attempt = run[t].attempt
      /\ run'[t].result = Ok(found.code) /\ run'[t].read = found
  BY <1>0, <1>2, <1>6, <1>7, DecideOps
<1>9. /\ UNCHANGED <<pane, sentinel, ended, abandoned>>
      /\ run[t].pc = "polling"
  BY DEF Poll, Decide, At
<1>10. JobsFrom(Task) /\ WritesFrom
  BY <1>0, <1>9, JobsSame
<1>11. CodeInv'
  <2>1. \A u \in Session' : Writing(u)'
    BY <1>9, <1>10, WritingKept
  <2>2. \A p \in Path : Filed(p)'
    BY <1>9, FiledKept
  <2>3. \A u \in Task \ {t} : Reported(u)'
    BY <1>8, <1>9, ReportedKept
  <2>4. Reported(t)'
    BY <1>4, <1>6, <1>8, <1>9 DEF Reported, At
  <2> QED
    BY <2>1, <2>2, <2>3, <2>4 DEF CodeInv
<1>12. ASSUME NEW u \in Task \ abandoned, u # t
       PROVE  Tidy(u)'
  <2>1. Tidy(u) /\ FileOf(u)' = FileOf(u)
    BY <1>9 DEF TidyInv, FileOf
  <2> QED
    BY <1>0, <1>8, <1>10, <1>12, <2>1, TidyKept
<1>13. ASSUME t \notin abandoned
       PROVE  Tidy(t)'
  <2>1. Tidy(t) /\ FileOf(t)' = FileOf(t)
    BY <1>9, <1>13 DEF TidyInv, FileOf
  <2>2. found.attempt = run[t].attempt /\ ~HasJob(t)
    BY <1>1, <2>1 DEF Tidy
  <2>3. ~HasJob(t)'
    BY <1>10, <2>2, NoJobKept
  <2>4. "cleaning" \in Awaiting
    BY DEF Awaiting
  <2> QED
    BY <1>1, <1>4, <1>8, <2>1, <2>2, <2>3, <2>4 DEF Tidy, HasJob
<1> QED
  BY <1>9, <1>11, <1>12, <1>13 DEF TidyInv

(* An attempt that read its code and removed the file leaves nothing.      *)
LEMMA CleanupKeeps ==
    ASSUME DistinctSentinels, Base, Base', CodeInv, TidyInv, NEW t \in Task,
           CleanupSentinel(t)
    PROVE  CodeInv' /\ TidyInv'
<1>0. PaneType /\ PaneType' /\ RunType /\ FileType
  BY DEF Base, TypeOK
<1>1. PICK left \in {NoFile, FileOf(t)} :
          /\ sentinel' = [sentinel EXCEPT ![SentinelOf[t]] = left]
          /\ abandoned' = IF run[t].read = NoFile \/ left # NoFile
                          THEN abandoned \cup {t} ELSE abandoned
  BY DEF CleanupSentinel, FileOf
<1>2. UNCHANGED <<pane, ended>> /\ run[t].pc = "cleaning"
  BY DEF CleanupSentinel, At
<1>3. /\ \A u \in Task \ {t} : run'[u] = run[u]
      /\ run'[t].pc = "returned" /\ run'[t].result = run[t].result
      /\ run'[t].read = NoFile
  BY <1>0 DEF CleanupSentinel, RunType, RunRecord
<1>4. JobsFrom(Task) /\ WritesFrom
  BY <1>0, <1>2, JobsSame
<1>5. SentinelOf[t] \in Path /\ FileOf(t)' = left
      /\ \A p \in Path \ {SentinelOf[t]} : sentinel'[p] = sentinel[p]
  BY <1>0, <1>1 DEF FileType, Path, FileOf
<1>6. CodeInv'
  <2>1. \A u \in Session' : Writing(u)'
    BY <1>2, <1>4, WritingKept
  <2>2. \A p \in Path : Filed(p)'
    <3>1. \A p \in Path : sentinel'[p] \in {sentinel[p], NoFile, EmptyFile}
      BY <1>5 DEF FileOf
    <3> QED
      BY <1>2, <3>1, FiledKept
  <2>3. \A u \in Task : Reported(u)'
    BY <1>2, <1>3, ReportedKept
  <2> QED
    BY <2>1, <2>2, <2>3 DEF CodeInv
<1>7. abandoned \subseteq abandoned'
  BY <1>1
<1>8. ASSUME NEW u \in Task \ abandoned', u # t
      PROVE  Tidy(u)'
  <2>1. Tidy(u)
    BY <1>7 DEF TidyInv
  <2>2. FileOf(u)' = FileOf(u)
    BY <1>5, <1>8 DEF FileOf, Path, DistinctSentinels
  <2> QED
    BY <1>0, <1>3, <1>4, <1>8, <2>1, <2>2, TidyKept
<1>9. ASSUME t \notin abandoned'
      PROVE  Tidy(t)'
  <2>1. run[t].read # NoFile /\ left = NoFile
    BY <1>1, <1>9
  <2>2. ~HasJob(t)
    BY <1>7, <1>9, <2>1 DEF TidyInv, Tidy
  <2>3. ~HasJob(t)'
    BY <1>4, <2>2, NoJobKept
  <2> QED
    BY <1>3, <1>5, <2>1, <2>3, TidyClean
<1> QED
  BY <1>6, <1>8, <1>9 DEF TidyInv

-----------------------------------------------------------------------------
(* The steps of the host.                                                  *)

(* Sessions come, go, and run what is nobody's.                            *)
LEMMA OthersKeep ==
    ASSUME Base, Base', CodeInv, TidyInv, JobsFrom(Task), WritesFrom,
           UNCHANGED <<run, sentinel, ended, abandoned>>
    PROVE  CodeInv' /\ TidyInv'
<1>1. \A u \in Session' : Writing(u)'
  BY WritingKept
<1>2. \A p \in Path : Filed(p)'
  BY FiledKept
<1>3. \A u \in Task : Reported(u)'
  BY ReportedKept
<1>4. ASSUME NEW u \in Task \ abandoned
      PROVE  Tidy(u)'
  <2>1. Tidy(u) /\ FileOf(u)' = FileOf(u) /\ PaneType'
    BY DEF TidyInv, FileOf, Base, TypeOK
  <2> QED
    BY <2>1, TidyKept
<1> QED
  BY <1>1, <1>2, <1>3, <1>4 DEF CodeInv, TidyInv

(* The command at the head of a pane.                                      *)
LEMMA HeadOps ==
    ASSUME Base, NEW s \in Session, pane[s].keys # <<>>
    PROVE  /\ Head(pane[s].keys) \in JobRecord
           /\ Head(pane[s].keys) = pane[s].keys[1] /\ 1 \in DOMAIN pane[s].keys
           /\ pane[s].keys \in Seq(JobRecord)
BY TailOps DEF Base, TypeOK, PaneType, PaneRecord

(* Of a task that has a command, no code has been read and none is filed.  *)
LEMMA BusyFacts ==
    ASSUME NEW t \in Task, Tidy(t), HasJob(t)
    PROVE  /\ run[t].pc \in Awaiting /\ run[t].read = NoFile
           /\ FileOf(t) \in {NoFile, EmptyFile}
BY DEF Tidy

LEMMA ExitKeeps ==
    ASSUME DistinctSentinels, Base, Base', CodeInv, TidyInv,
           NEW s \in Session, NEW c \in ExitCode, JobExit(s, c)
    PROVE  CodeInv' /\ TidyInv'
<1>0. PaneType /\ PaneType' /\ FileType
  BY DEF Base, TypeOK
<1>1. pane[s].keys # <<>> /\ pane[s].writing = NoFile
  BY DEF JobExit
<1>2. PICK job \in JobRecord : /\ job = Head(pane[s].keys) /\ job = pane[s].keys[1]
                               /\ 1 \in DOMAIN pane[s].keys
  BY <1>1, HeadOps
<1>3. CASE job.task = NoTask
  <2>1. /\ \E d \in Name : Popped(s, NoFile, d)
        /\ UNCHANGED <<run, sentinel, ended, abandoned>>
    BY <1>0, <1>2, <1>3, ExitForm
  <2>2. JobsFrom(Task) /\ WritesFrom
    BY <1>0, <1>1, <2>1, JobsPopped
  <2> QED
    BY <2>1, <2>2, OthersKeep
<1>4. CASE job.task # NoTask
  <2>1. PICK v \in Task : v = job.task
    BY <1>4 DEF JobRecord
  <2>2. PICK code \in FileRecord :
            /\ code = Exit(v, job.attempt, c) /\ code # NoFile
            /\ code.task = v /\ code.attempt = job.attempt /\ code.code = c
    <3>1. job.attempt \in Nat /\ c \in Nat
      BY RemoteAssumption DEF JobRecord
    <3> QED
      BY <3>1, FileOps
  <2>3. /\ pane' = [pane EXCEPT ![s].writing = code]
        /\ sentinel' = [sentinel EXCEPT ![SentinelOf[v]] = EmptyFile]
        /\ ended' = ended \cup {<<v, c>>}
        /\ UNCHANGED <<run, abandoned>>
    BY <1>2, <1>4, <2>1, <2>2 DEF JobExit
  <2>4. /\ DOMAIN pane' = Session
        /\ \A u \in Session \ {s} : pane'[u] = pane[u]
        /\ pane'[s].writing = code /\ pane'[s].keys = pane[s].keys
    BY <1>0, <2>3, WriteOps DEF Session
  <2>5. JobsFrom(Task)
    BY <1>0, <2>4, SessionKept DEF JobsFrom
  <2>6. /\ SentinelOf[v] \in Path /\ FileOf(v)' = EmptyFile
        /\ \A p \in Path \ {SentinelOf[v]} : sentinel'[p] = sentinel[p]
    BY <1>0, <2>3 DEF FileType, Path, FileOf
  <2>7. CodeInv'
    <3>1. \A u \in Session' : Writing(u)'
      <4>1. Writing(s)'
        <5>1. Head(pane'[s].keys) = job
          BY <1>2, <2>4
        <5>2. pane'[s].writing.task = job.task /\ pane'[s].writing.attempt = job.attempt
          BY <2>1, <2>2, <2>4
        <5>3. <<pane'[s].writing.task, pane'[s].writing.code>> \in ended'
          <6>1. pane'[s].writing.task = v /\ pane'[s].writing.code = c
            BY <2>2, <2>4
          <6> QED
            BY <2>3, <6>1
        <5> QED
          BY <5>1, <5>2, <5>3 DEF Writing
      <4>2. \A u \in Session \ {s} : Writing(u)'
        BY <2>3, <2>4 DEF CodeInv, Writing
      <4> QED
        BY <2>4, <4>1, <4>2 DEF Session
    <3>2. \A p \in Path : Filed(p)'
      <4>1. \A p \in Path : sentinel'[p] \in {sentinel[p], NoFile, EmptyFile}
        BY <2>6 DEF FileOf
      <4>2. ended \subseteq ended'
        BY <2>3
      <4> QED
        BY <4>1, <4>2, FiledKept
    <3>3. \A u \in Task : Reported(u)'
      BY <2>3, ReportedKept
    <3> QED
      BY <3>1, <3>2, <3>3 DEF CodeInv
  <2>8. ASSUME NEW u \in Task \ abandoned, u # v
        PROVE  Tidy(u)'
    <3>1. Tidy(u)
      BY DEF TidyInv
    <3>2. FileOf(u)' = FileOf(u)
      BY <2>6, <2>8 DEF FileOf, Path, DistinctSentinels
    <3> QED
      BY <1>0, <2>3, <2>5, <3>1, <3>2, TidyKept
  <2>9. ASSUME v \notin abandoned
        PROVE  Tidy(v)'
    <3>1. Tidy(v) /\ HasJob(v)
      BY <1>2, <2>1, <2>9 DEF TidyInv, HasJob
    <3>2. run[v].pc \in Awaiting /\ run[v].read = NoFile
      BY <3>1, BusyFacts
    <3>3. \A u \in Session' : pane'[u].keys = pane[u].keys
      BY <2>4 DEF Session
    <3>4. \A u \in Session' : \A i \in DOMAIN pane'[u].keys :
              pane'[u].keys[i].task = v =>
                  /\ pane'[u].keys[i].attempt = run'[v].attempt
                  /\ \A j \in DOMAIN pane'[u].keys :
                         pane'[u].keys[j].task = v => i = j
      BY <2>3, <2>4, <3>1, <3>3 DEF Tidy, Session
    <3> QED
      BY <2>3, <2>6, <3>2, <3>4 DEF Tidy
  <2> QED
    BY <2>3, <2>7, <2>8, <2>9 DEF TidyInv
<1> QED
  BY <1>3, <1>4

(* A code that is filed is that of the only command there was of its task, *)
(* unless the task was abandoned.                                          *)
LEMMA WriteKeeps ==
    ASSUME DistinctSentinels, Base, Base', CodeInv, TidyInv,
           NEW s \in Session, JobWrite(s)
    PROVE  CodeInv' /\ TidyInv'
<1>0. PaneType /\ PaneType' /\ FileType /\ PastType
  BY DEF Base, TypeOK
<1>1. pane[s].writing # NoFile
  BY DEF JobWrite
<1>2. pane[s].keys # <<>>
  BY <1>1 DEF Base, HomeInv, Home
<1>3. PICK job \in JobRecord : /\ job = Head(pane[s].keys) /\ job = pane[s].keys[1]
                               /\ 1 \in DOMAIN pane[s].keys
  BY <1>2, HeadOps
<1>4. PICK code : code = pane[s].writing
  OBVIOUS
<1>5. /\ code.task = job.task /\ code.attempt = job.attempt
      /\ <<code.task, code.code>> \in ended
  BY <1>1, <1>3, <1>4 DEF CodeInv, Writing
<1>6. PICK v \in Task : v = code.task
  BY <1>0, <1>5 DEF PastType
<1>7. /\ sentinel' = [sentinel EXCEPT ![SentinelOf[v]] = code]
      /\ UNCHANGED <<run, ended, abandoned>>
      /\ \E d \in Name : Popped(s, NoFile, d)
  BY <1>0, <1>4, <1>6, WriteForm DEF JobWrite
<1>8. JobsFrom(Task) /\ WritesFrom
  BY <1>0, <1>2, <1>7, JobsPopped
<1>9. /\ SentinelOf[v] \in Path /\ FileOf(v)' = code
      /\ \A p \in Path \ {SentinelOf[v]} : sentinel'[p] = sentinel[p]
  BY <1>0, <1>7 DEF FileType, Path, FileOf
<1>10. CodeInv'
  <2>1. \A u \in Session' : Writing(u)'
    BY <1>7, <1>8, WritingKept
  <2>2. \A p \in Path \ {SentinelOf[v]} : Filed(p)'
    BY <1>7, <1>9, FiledKept
  <2>3. Filed(SentinelOf[v])'
    BY <1>5, <1>6, <1>7, <1>9 DEF Filed, FileOf
  <2>4. \A u \in Task : Reported(u)'
    BY <1>7, ReportedKept
  <2> QED
    BY <2>1, <2>2, <2>3, <2>4 DEF CodeInv
<1>11. ASSUME NEW u \in Task \ abandoned, u # v
       PROVE  Tidy(u)'
  <2>1. Tidy(u)
    BY DEF TidyInv
  <2>2. FileOf(u)' = FileOf(u)
    BY <1>9, <1>11 DEF FileOf, Path, DistinctSentinels
  <2> QED
    BY <1>0, <1>7, <1>8, <2>1, <2>2, TidyKept
<1>12. ASSUME v \notin abandoned
       PROVE  Tidy(v)'
  <2>1. Tidy(v) /\ HasJob(v)
    BY <1>3, <1>5, <1>6, <1>12 DEF TidyInv, HasJob
  <2>2. run[v].pc \in Awaiting /\ run[v].read = NoFile
    BY <2>1, BusyFacts
  <2>3. code.attempt = run[v].attempt
    BY <1>3, <1>5, <1>6, <2>1 DEF Tidy
  <2>4. v # NoTask /\ \A u \in Session : \A i \in DOMAIN pane[u].keys :
            pane[u].keys[i].task = v => u = s
    <3>1. v # NoTask
      BY RemoteAssumption
    <3>2. \A u \in Session : \A i \in DOMAIN pane[u].keys :
              pane[u].keys[i].task = v => u = SessionOf(v)
      BY <3>1 DEF Base, HomeInv, Home
    <3> QED
      BY <1>3, <1>5, <1>6, <3>1, <3>2
  <2>5. \A i \in DOMAIN pane[s].keys : pane[s].keys[i].task = v => i = 1
    BY <1>3, <1>5, <1>6, <2>1 DEF Tidy
  <2>6. /\ DOMAIN pane' = Session
        /\ \A u \in Session \ {s} : pane'[u] = pane[u]
        /\ pane'[s].keys = Tail(pane[s].keys)
    BY <1>0, <1>2, <1>7, PopOps, FileOps DEF Session
  <2>7. \A i \in DOMAIN Tail(pane[s].keys) :
            /\ i + 1 \in DOMAIN pane[s].keys /\ i + 1 # 1
            /\ Tail(pane[s].keys)[i] = pane[s].keys[i + 1]
    BY <1>0, <1>2, TailOps DEF PaneType, PaneRecord
  <2>8. \A i \in DOMAIN pane'[s].keys : pane'[s].keys[i].task # v
    BY <2>5, <2>6, <2>7
  <2>9. \A u \in Session \ {s} : \A i \in DOMAIN pane'[u].keys :
            pane'[u].keys[i].task # v
    BY <2>4, <2>6
  <2>10. ~HasJob(v)'
    BY <2>6, <2>8, <2>9 DEF HasJob, Session
  <2> QED
    BY <1>7, <1>9, <2>2, <2>3, <2>10 DEF Tidy, HasJob
<1> QED
  BY <1>7, <1>10, <1>11, <1>12 DEF TidyInv

LEMMA HostKeeps ==
    ASSUME DistinctSentinels, Base, Base', CodeInv, TidyInv,
           \/ \E s \in Session : \/ \E c \in ExitCode : JobExit(s, c)
                                 \/ JobWrite(s) \/ Kill(s) \/ RunInSession(s)
           \/ \E c \in ToolCall : Attach(c)
           \/ UNCHANGED vars
    PROVE  CodeInv' /\ TidyInv'
<1>0. PaneType /\ HomeInv
  BY DEF Base, TypeOK
<1>1. ASSUME NEW s \in Session, Kill(s)
      PROVE  CodeInv' /\ TidyInv'
  BY <1>0, <1>1, JobsKilled, OthersKeep DEF Kill
<1>2. ASSUME NEW s \in Session, RunInSession(s)
      PROVE  CodeInv' /\ TidyInv'
  <2>1. Job(NoTask, 1) \in JobRecord /\ Job(NoTask, 1).task \notin Task
    BY RemoteAssumption DEF Job, JobRecord
  <2>2. JobsFrom(Task) /\ WritesFrom
    BY <1>0, <1>2, <2>1, JobsSent DEF RunInSession
  <2> QED
    BY <1>2, <2>2, OthersKeep DEF RunInSession
<1>3. ASSUME NEW c \in ToolCall, Attach(c)
      PROVE  CodeInv' /\ TidyInv'
  <2>1. c.repo \in Name
    BY RemoteAssumption
  <2>2. JobsFrom(Task) /\ WritesFrom
    BY <1>0, <1>3, <2>1, JobsNew DEF Attach
  <2> QED
    BY <1>3, <2>2, OthersKeep DEF Attach
<1>4. CASE UNCHANGED vars
  <2>1. JobsFrom(Task) /\ WritesFrom
    BY <1>0, <1>4, JobsSame DEF vars
  <2> QED
    BY <1>4, <2>1, OthersKeep DEF vars
<1> QED
  BY <1>1, <1>2, <1>3, <1>4, ExitKeeps, WriteKeeps

LEMMA ExecuteKeeps ==
    ASSUME DistinctSentinels, Base, Base', CodeInv, TidyInv, NEW t \in Task,
           Call(t) \/ Step(t) \/ Poll(t) \/ PollError(t) \/ CancelPoll(t) \/ Again(t)
    PROVE  CodeInv' /\ TidyInv'
<1>1. CASE Poll(t)
  BY <1>1, PollKeeps
<1>2. CASE CleanupSentinel(t)
  BY <1>2, CleanupKeeps
<1>3. CASE Sent(t)
  BY <1>3, SentKeeps
<1>4. CASE ~Sent(t) /\ ~CleanupSentinel(t) /\ ~Poll(t)
  BY <1>4, MovesOf, MovesKeep DEF Step
<1> QED
  BY <1>1, <1>2, <1>3, <1>4

-----------------------------------------------------------------------------
(* The codes that execute reports.                                         *)

CodesInv == Base /\ CodeInv /\ TidyInv

LEMMA InitCodes == Init => CodesInv
<1> SUFFICES ASSUME Init PROVE CodesInv
  OBVIOUS
<1>1. Base
  BY InitBase
<1>2. Session = {}
  BY DEF Init, Session
<1>3. \A t \in Task : run[t].read = NoFile /\ run[t].result # Ok(0)
  BY ResultOps DEF Init, NotRunning
<1>4. \A t \in Task : FileOf(t) = NoFile /\ ~HasJob(t)
  BY <1>2 DEF Init, FileOf, Path, HasJob
<1>5. \A p \in Path : sentinel[p] = NoFile
  BY DEF Init
<1>6. CodeInv
  BY <1>2, <1>3, <1>5 DEF CodeInv, Filed, Reported
<1>7. TidyInv
  BY <1>2, <1>3, <1>4 DEF TidyInv, Tidy
<1> QED
  BY <1>1, <1>6, <1>7 DEF CodesInv

LEMMA NextCodes ==
    ASSUME DistinctSentinels
    PROVE  CodesInv /\ [Next]_vars => CodesInv'
<1> SUFFICES ASSUME CodesInv, [Next]_vars PROVE CodesInv'
  OBVIOUS
<1>1. Base /\ Base'
  BY NextBase DEF CodesInv
<1>2. CodeInv' /\ TidyInv'
  BY <1>1, ExecuteKeeps, HostKeeps DEF CodesInv, Next
<1> QED
  BY <1>1, <1>2 DEF CodesInv

(* What attempts leave behind, in every reachable state.                   *)
THEOREM CodesInvariance ==
    ASSUME DistinctSentinels
    PROVE  Spec => []CodesInv
<1>1. Init => CodesInv
  BY InitCodes
<1>2. CodesInv /\ [Next]_vars => CodesInv'
  BY NextCodes
<1> QED
  BY <1>1, <1>2, PTL DEF Spec

(* The code that execute reports is that of the command it sent, of this   *)
(* task and this attempt, as long as every attempt of the task so far has  *)
(* ended by reading its code and removing the file (poll_for_exit,         *)
(* cleanup_sentinel), and no two tasks share a file.                       *)
THEOREM OwnCodes ==
    ASSUME DistinctSentinels
    PROVE  Spec => []OwnCodeUnlessAbandoned
<1>1. CodesInv => OwnCodeUnlessAbandoned
  BY DEF CodesInv, TidyInv, Tidy, OwnCodeUnlessAbandoned
<1>2. Spec => []CodesInv
  BY CodesInvariance
<1> QED
  BY <1>1, <1>2, PTL

-----------------------------------------------------------------------------
(* execute as the runtime sees it.                                         *)

Executing == RunPc \ {"idle", "returned"}

(* A step of one call changes what is seen of this call only.              *)
LEMMA PhaseChange ==
    ASSUME NEW t \in Task, \A u \in Task \ {t} : run'[u] = run[u]
    PROVE  /\ PhaseOf' = [PhaseOf EXCEPT ![t] = PhaseOf'[t]]
           /\ SucceededOf' = [SucceededOf EXCEPT ![t] = SucceededOf'[t]]
<1>1. PhaseOf' = [PhaseOf EXCEPT ![t] = PhaseOf'[t]]
  BY DEF PhaseOf, At
<1>2. SucceededOf' = [SucceededOf EXCEPT ![t] = SucceededOf'[t]]
  BY DEF SucceededOf, At
<1> QED
  BY <1>1, <1>2

LEMMA ProducedSame == ended' = ended => ProducedOf' = ProducedOf
BY DEF ProducedOf

(* Whatever execute does before it returns is not seen.                    *)
LEMMA SeeSame ==
    ASSUME NEW t \in Task, \A u \in Task \ {t} : run'[u] = run[u],
           run[t].pc \in Executing, run'[t].pc \in Executing
    PROVE  PhaseOf' = PhaseOf /\ SucceededOf' = SucceededOf
<1>1. PhaseOf'[t] = PhaseOf[t] /\ SucceededOf'[t] = SucceededOf[t]
  <2>1. PhaseOf[t] = "executing" /\ SucceededOf[t] = FALSE
    BY DEF PhaseOf, SucceededOf, Executing, At
  <2>2. PhaseOf'[t] = "executing" /\ SucceededOf'[t] = FALSE
    BY DEF PhaseOf, SucceededOf, Executing, At
  <2> QED
    BY <2>1, <2>2
<1>2. /\ PhaseOf = [PhaseOf EXCEPT ![t] = PhaseOf[t]]
      /\ SucceededOf = [SucceededOf EXCEPT ![t] = SucceededOf[t]]
  BY DEF PhaseOf, SucceededOf
<1> QED
  BY <1>1, <1>2, PhaseChange

LEMMA SeeNothing ==
    ASSUME NEW t \in Task, \A u \in Task \ {t} : run'[u] = run[u],
           run[t].pc \in Executing, run'[t].pc \in Executing, ended' = ended
    PROVE  UNCHANGED Contract!cvars
BY SeeSame, ProducedSame DEF Contract!cvars

LEMMA SeeReturn ==
    ASSUME PastType, NEW t \in Task, \A u \in Task \ {t} : run'[u] = run[u],
           run[t].pc \in Executing, run'[t].pc = "returned", ended' = ended,
           run'[t].result = Ok(0) => <<t, 0>> \in ended
    PROVE  Contract!Next
<1>1. PICK success \in BOOLEAN : success = (run'[t].result = Ok(0))
  OBVIOUS
<1>2. PhaseOf[t] = "executing"
  BY DEF PhaseOf, Executing, At
<1>3. PhaseOf'[t] = "returned" /\ SucceededOf'[t] = success
  BY <1>1 DEF PhaseOf, SucceededOf, At
<1>4. success => 0 \in ProducedOf[t]
  BY <1>1 DEF ProducedOf, PastType
<1>5. Contract!Return(t, success)
  BY <1>2, <1>3, <1>4, PhaseChange, ProducedSame DEF Contract!Return
<1> QED
  BY <1>5 DEF Contract!Next

LEMMA SeeProduce ==
    ASSUME NEW t \in Task, NEW c \in ExitCode, ended' = ended \cup {<<t, c>>},
           PhaseOf' = PhaseOf, SucceededOf' = SucceededOf
    PROVE  Contract!Next
<1>1. ProducedOf' = [ProducedOf EXCEPT ![t] = @ \cup {c}]
  <2>1. \A u \in Task : ProducedOf'[u] = IF u = t THEN ProducedOf[u] \cup {c}
                                         ELSE ProducedOf[u]
    BY DEF ProducedOf
  <2> QED
    BY <2>1 DEF ProducedOf
<1>2. Contract!Produce(t, c)
  BY <1>1 DEF Contract!Produce
<1> QED
  BY <1>2 DEF Contract!Next

(* Every step of execute is a step of the contract, or is not seen.        *)
LEMMA SeeExecute ==
    ASSUME CodesInv, NEW t \in Task, Call(t) \/ Step(t) \/ Poll(t) \/ PollError(t)
                                    \/ CancelPoll(t) \/ Again(t)
    PROVE  Contract!Next \/ UNCHANGED Contract!cvars
<1>0. RunType /\ PastType /\ FileType
  BY DEF CodesInv, Base, TypeOK
<1>p. /\ {"called", "local", "exited", "checking", "creating", "sending",
          "polling", "killing", "cleaning"} = Executing
      /\ Executing \subseteq RunPc
  BY DEF RunPc, Awaiting, Executing
<1>r. Reported(t)
  BY DEF CodesInv, CodeInv
<1>1. CASE Call(t)
  <2>1. /\ \A u \in Task \ {t} : run'[u] = run[u]
        /\ run'[t].pc = "called"
    BY <1>0, <1>1, <1>p, GotoOps DEF Call
  <2>2. run[t].pc = "idle" /\ ended' = ended
    BY <1>1 DEF Call, At
  <2>3. PhaseOf[t] = "idle" /\ SucceededOf[t] = FALSE
    BY <2>2 DEF PhaseOf, SucceededOf, At
  <2>4. PhaseOf'[t] = "executing" /\ SucceededOf'[t] = FALSE
    BY <2>1 DEF PhaseOf, SucceededOf, At
  <2>5. SucceededOf' = SucceededOf
    <3>1. SucceededOf = [SucceededOf EXCEPT ![t] = SucceededOf[t]]
      BY DEF SucceededOf
    <3> QED
      BY <2>1, <2>3, <2>4, <3>1, PhaseChange
  <2>6. Contract!Call(t)
    BY <2>1, <2>2, <2>3, <2>4, <2>5, PhaseChange, ProducedSame DEF Contract!Call
  <2> QED
    BY <2>6 DEF Contract!Next
<1>2. ASSUME NEW pc \in Executing, Goto(t, pc), run[t].pc \in Executing, ended' = ended
      PROVE  UNCHANGED Contract!cvars
  <2>1. (\A u \in Task \ {t} : run'[u] = run[u]) /\ run'[t].pc = pc
    BY <1>0, <1>2, <1>p, GotoOps
  <2> QED
    BY <1>2, <2>1, SeeNothing
<1>3. ASSUME Return(t, Err), run[t].pc \in Executing, ended' = ended
      PROVE  Contract!Next
  <2>1. /\ \A u \in Task \ {t} : run'[u] = run[u]
        /\ run'[t].pc = "returned" /\ run'[t].result # Ok(0)
    BY <1>0, <1>3, FailOps, ResultOps
  <2> QED
    BY <1>0, <1>3, <2>1, SeeReturn
<1>4. CASE Dispatch(t) \/ CheckRepo(t) \/ NewSession(t) \/ RunCommand(t) \/ CancelPoll(t)
  <2>1. run[t].pc \in Executing /\ ended' = ended
    BY <1>4, <1>p DEF Dispatch, CheckRepo, NewSession, RunCommand, CancelPoll, At
  <2>2. \/ Goto(t, "local") \/ Goto(t, "checking") \/ Goto(t, "creating")
        \/ Goto(t, "sending") \/ Goto(t, "polling") \/ Goto(t, "killing")
        \/ Return(t, Err)
    BY <1>4 DEF Dispatch, CheckRepo, NewSession, RunCommand, CancelPoll
  <2> QED
    BY <1>2, <1>3, <1>p, <2>1, <2>2
<1>5. CASE LocalExit(t)
  <2>1. run[t].pc \in Executing
    BY <1>5, <1>p DEF LocalExit, At
  <2>2. ASSUME NEW c \in ExitCode, ended' = ended \cup {<<t, c>>},
               run' = [run EXCEPT ![t].pc = "exited", ![t].result = Ok(c)]
        PROVE  Contract!Next
    <3>1. c \in Nat
      BY RemoteAssumption
    <3>2. Ok(c) \in [kind : {"Ok", "Err", "Pending"}, code : Nat]
      BY <3>1, ResultOps
    <3>3. Ends(t, "exited", Ok(c)) /\ "exited" \in RunPc
      BY <2>2, <1>p DEF Ends
    <3>4. (\A u \in Task \ {t} : run'[u] = run[u]) /\ run'[t].pc \in Executing
      BY <1>0, <1>p, <3>2, <3>3, ReturnOps
    <3>5. PhaseOf' = PhaseOf /\ SucceededOf' = SucceededOf
      BY <2>1, <3>4, SeeSame
    <3> QED
      BY <2>2, <3>5, SeeProduce
  <2>3. Return(t, Err) /\ UNCHANGED ended => Contract!Next
    BY <1>3, <2>1
  <2> QED
    BY <1>5, <2>2, <2>3 DEF LocalExit
<1>6. CASE LocalReturn(t)
  <2>1. run[t].pc = "exited" /\ ended' = ended /\ Goto(t, "returned")
    BY <1>6 DEF LocalReturn, At
  <2>2. /\ \A u \in Task \ {t} : run'[u] = run[u]
        /\ run'[t].pc = "returned" /\ run'[t].result = run[t].result
    <3>1. "returned" \in RunPc
      BY DEF RunPc
    <3> QED
      BY <1>0, <2>1, <3>1, GotoOps
  <2> QED
    BY <1>0, <1>p, <1>r, <2>1, <2>2, SeeReturn DEF Reported
<1>7. CASE Poll(t) \/ PollError(t) \/ PollTimeout(t)
  <2>1. PICK result, read : Decide(t, result, read)
    BY <1>7 DEF Poll, PollError, PollTimeout
  <2>2. run[t].pc = "polling" /\ ended' = ended
    BY <2>1 DEF Decide, At
  <2>3. /\ \A u \in Task \ {t} : run'[u] = run[u]
        /\ run'[t].pc = "cleaning"
    BY <1>0, <2>1 DEF Decide, RunType, RunRecord
  <2> QED
    BY <1>p, <2>2, <2>3, SeeNothing
<1>8. CASE KillSession(t)
  <2>1. run[t].pc = "killing" /\ ended' = ended
    BY <1>8 DEF KillSession, At
  <2>2. /\ \A u \in Task \ {t} : run'[u] = run[u]
        /\ run'[t].pc = "cleaning"
    BY <1>0, <1>8 DEF KillSession, RunType, RunRecord
  <2> QED
    BY <1>p, <2>1, <2>2, SeeNothing
<1>9. CASE CleanupSentinel(t)
  <2>1. run[t].pc = "cleaning" /\ ended' = ended
    BY <1>9 DEF CleanupSentinel, At
  <2>2. /\ \A u \in Task \ {t} : run'[u] = run[u]
        /\ run'[t].pc = "returned" /\ run'[t].result = run[t].result
    BY <1>0, <1>9 DEF CleanupSentinel, RunType, RunRecord
  <2> QED
    BY <1>0, <1>p, <1>r, <2>1, <2>2, SeeReturn DEF Reported
<1>10. CASE Again(t)
  <2>1. run[t].pc = "returned" /\ run[t].result # Ok(0) /\ ended' = ended
    BY <1>10 DEF Again, At
  <2>2. /\ \A u \in Task \ {t} : run'[u] = run[u]
        /\ run'[t].pc = "idle"
    BY <1>0, <1>10 DEF Again, RunType, NotRunning
  <2>3. PhaseOf[t] = "returned" /\ SucceededOf[t] = FALSE
    BY <2>1 DEF PhaseOf, SucceededOf, At
  <2>4. PhaseOf'[t] = "idle" /\ SucceededOf'[t] = FALSE
    BY <2>2 DEF PhaseOf, SucceededOf, At
  <2>5. SucceededOf' = SucceededOf
    <3>1. SucceededOf = [SucceededOf EXCEPT ![t] = SucceededOf[t]]
      BY DEF SucceededOf
    <3> QED
      BY <2>2, <2>3, <2>4, <3>1, PhaseChange
  <2>6. Contract!Again(t)
    BY <2>1, <2>2, <2>3, <2>4, <2>5, PhaseChange, ProducedSame DEF Contract!Again
  <2> QED
    BY <2>6 DEF Contract!Next
<1> QED
  BY <1>1, <1>4, <1>5, <1>6, <1>7, <1>8, <1>9, <1>10 DEF Step

(* On the host, only the end of a task's command is.                       *)
LEMMA SeeHost ==
    ASSUME CodesInv,
           \/ \E s \in Session : \/ \E c \in ExitCode : JobExit(s, c)
                                 \/ JobWrite(s) \/ Kill(s) \/ RunInSession(s)
           \/ \E c \in ToolCall : Attach(c)
           \/ UNCHANGED vars
    PROVE  Contract!Next \/ UNCHANGED Contract!cvars
<1>0. run' = run
  BY DEF JobExit, JobWrite, Kill, RunInSession, Attach, vars
<1>1. PhaseOf' = PhaseOf /\ SucceededOf' = SucceededOf
  BY <1>0 DEF PhaseOf, SucceededOf, At
<1>2. CASE ended' = ended
  BY <1>1, <1>2, ProducedSame DEF Contract!cvars
<1>3. ASSUME NEW s \in Session, NEW c \in ExitCode, JobExit(s, c), ended' # ended
      PROVE  Contract!Next
  <2>1. PICK job \in JobRecord : job = Head(pane[s].keys)
    BY <1>3, HeadOps DEF JobExit, CodesInv
  <2>2. job.task # NoTask /\ ended' = ended \cup {<<job.task, c>>}
    BY <1>3, <2>1 DEF JobExit
  <2>3. job.task \in Task
    BY <2>2 DEF JobRecord
  <2> QED
    BY <1>1, <2>2, <2>3, SeeProduce
<1> QED
  BY <1>2, <1>3 DEF JobWrite, Kill, RunInSession, Attach, vars

(* execute keeps to the safety of ExecutorContract, step by step: a call   *)
(* returns at most once, and success is reported only of a task of which a *)
(* command or process did end with code 0, even after attempts that timed  *)
(* out, were cancelled or lost an answer.  That it does return is liveness *)
(* (FulfilsContract).                                                      *)
THEOREM KeepsContract ==
    ASSUME DistinctSentinels
    PROVE  Spec => Contract!Safety
<1>1. Init => Contract!Init
  <2> SUFFICES ASSUME Init PROVE Contract!Init
    OBVIOUS
  <2>1. \A t \in Task : run[t].pc = "idle"
    BY DEF Init, NotRunning
  <2>2. PhaseOf = [t \in Task |-> "idle"]
    BY <2>1 DEF PhaseOf, At
  <2>3. SucceededOf = [t \in Task |-> FALSE]
    BY <2>1 DEF SucceededOf, At
  <2>4. ProducedOf = [t \in Task |-> {}]
    BY DEF Init, ProducedOf
  <2> QED
    BY <2>2, <2>3, <2>4 DEF Contract!Init
<1>2. CodesInv /\ [Next]_vars => [Contract!Next]_(Contract!cvars)
  BY SeeExecute, SeeHost DEF Next
<1>3. Spec => []CodesInv
  BY CodesInvariance
<1> QED
  BY <1>1, <1>2, <1>3, PTL DEF Spec, Contract!Safety

=============================================================================
