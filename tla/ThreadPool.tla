----------------------------- MODULE ThreadPool -----------------------------
(***************************************************************************)
(* ThreadPool: worker threads that take tasks from one queue under mtx_    *)
(* and sleep on cv_ while there is none.                                   *)
(*                                                                         *)
(* One thread, the owner, calls start and stop (the destructor is a call   *)
(* of stop too); any thread, a worker in a task included, calls addTask.   *)
(* What a thread does while it holds mtx_ is one step.  The worker reads   *)
(* running_ in its while condition without the lock, in a step of its own: *)
(* a read that races with stop() sees either value.  A task is named by    *)
(* its place in the order of addition; it returns, and does not call stop. *)
(***************************************************************************)
EXTENDS Naturals, Sequences, FiniteSets

CONSTANTS
  ThreadNum,   \* threadNum_
  MaxTasks,    \* bound: calls of addTask
  MaxStarts    \* bound: calls of start

ASSUME CountsAssumption ==
  /\ ThreadNum \in Nat \ {0}
  /\ MaxTasks \in Nat
  /\ MaxStarts \in Nat

Workers == 1 .. ThreadNum

VARIABLES
  running,    \* running_
  queue,      \* queue_
  workers,    \* workers_: threads 1 .. workers have been created
  pc,         \* where each worker is in workerLoop:
              \* "none": no thread, "init": before the loop, "while": at its
              \* condition, "lock": about to take a task, "wait": asleep in
              \* cv_.wait, "task": in a task, "exit": has returned
  owner,      \* where the owner is: "idle", "start" in the loop that creates
              \* the threads, "notify" and "join" in stop
  joined,     \* the workers stop() has joined so far
  \* History, read by no action of the pool (two bounds excepted):
  added,      \* calls of addTask
  starts,     \* calls of start that created threads
  taken       \* the tasks taken from the queue, in order

history == <<added, starts, taken>>
vars    == <<running, queue, workers, pc, owner, joined, history>>

Waiting == {w \in Workers : pc[w] = "wait"}

\* Workers that will look at the queue before they sleep again.
Takers == {w \in Workers : pc[w] \in {"init", "while", "lock"}}

-----------------------------------------------------------------------------

Init ==
  /\ running = FALSE
  /\ queue = <<>>
  /\ workers = 0
  /\ pc = [w \in Workers |-> "none"]
  /\ owner = "idle"
  /\ joined = 0
  /\ added = 0
  /\ starts = 0
  /\ taken = <<>>

(* addTask *)

\* Variant of AddTask: nobody is notified.
AddSilently ==
  /\ added < MaxTasks
  /\ added' = added + 1
  /\ queue' = Append(queue, added + 1)
  /\ UNCHANGED <<running, workers, pc, owner, joined, starts, taken>>

\* The task is queued and, before the lock is released, a sleeping worker, if
\* there is one, is woken.
AddTask ==
  /\ added < MaxTasks
  /\ added' = added + 1
  /\ queue' = Append(queue, added + 1)
  /\ \/ /\ Waiting = {}
        /\ pc' = pc
     \/ \E w \in Waiting : pc' = [pc EXCEPT ![w] = "lock"]
  /\ UNCHANGED <<running, workers, owner, joined, starts, taken>>

(* start and stop, on the owner *)

\* Variant of Start: a running pool is started again.
StartTwice ==
  /\ owner = "idle"
  /\ starts < MaxStarts
  /\ starts' = starts + 1
  /\ running' = TRUE
  /\ owner' = "start"
  /\ UNCHANGED <<queue, workers, pc, joined, added, taken>>

Start ==
  /\ owner = "idle"
  /\ ~running
  /\ starts < MaxStarts
  /\ starts' = starts + 1
  /\ running' = TRUE
  /\ owner' = "start"
  /\ UNCHANGED <<queue, workers, pc, joined, added, taken>>

\* One turn of the loop that creates the threads.
EmplaceWorker ==
  /\ owner = "start"
  /\ workers' = workers + 1
  /\ pc' = [pc EXCEPT ![workers + 1] = "init"]
  /\ owner' = IF workers + 1 = ThreadNum THEN "idle" ELSE "start"
  /\ UNCHANGED <<running, queue, joined, added, starts, taken>>

StopLocked ==
  /\ owner = "idle"
  /\ running' = FALSE
  /\ owner' = "notify"
  /\ UNCHANGED <<queue, workers, pc, joined, history>>

\* Variant of NotifyAll: notify_one.
NotifyOne ==
  /\ owner = "notify"
  /\ \/ /\ Waiting = {}
        /\ pc' = pc
     \/ \E w \in Waiting : pc' = [pc EXCEPT ![w] = "lock"]
  /\ owner' = "join"
  /\ joined' = 0
  /\ UNCHANGED <<running, queue, workers, history>>

NotifyAll ==
  /\ owner = "notify"
  /\ pc' = [w \in Workers |-> IF w \in Waiting THEN "lock" ELSE pc[w]]
  /\ owner' = "join"
  /\ joined' = 0
  /\ UNCHANGED <<running, queue, workers, history>>

\* Variant of Join: the thread is detached instead.
Detach ==
  /\ owner = "join"
  /\ joined < workers
  /\ joined' = joined + 1
  /\ UNCHANGED <<running, queue, workers, pc, owner, history>>

Join ==
  /\ owner = "join"
  /\ joined < workers
  /\ pc[joined + 1] = "exit"
  /\ joined' = joined + 1
  /\ UNCHANGED <<running, queue, workers, pc, owner, history>>

\* Every thread has been joined: workers_.clear(), and stop() returns.
ClearWorkers ==
  /\ owner = "join"
  /\ joined = workers
  /\ workers' = 0
  /\ owner' = "idle"
  /\ UNCHANGED <<running, queue, pc, joined, history>>

(* workerLoop *)

\* The initialisation callback, if any, and the first test.
BeginLoop(w) ==
  /\ pc[w] = "init"
  /\ pc' = [pc EXCEPT ![w] = "while"]
  /\ UNCHANGED <<running, queue, workers, owner, joined, history>>

\* while (running_): a stopped pool's worker leaves, whatever is queued.
TestRunning(w) ==
  /\ pc[w] = "while"
  /\ pc' = [pc EXCEPT ![w] = IF running THEN "lock" ELSE "exit"]
  /\ UNCHANGED <<running, queue, workers, owner, joined, history>>

\* cv_.wait finds nothing to do, and sleeps.
Sleep(w) ==
  /\ pc[w] = "lock"
  /\ running
  /\ queue = <<>>
  /\ pc' = [pc EXCEPT ![w] = "wait"]
  /\ UNCHANGED <<running, queue, workers, owner, joined, history>>

\* A condition variable may wake a thread for no reason.
WakeSpuriously(w) ==
  /\ pc[w] = "wait"
  /\ pc' = [pc EXCEPT ![w] = "lock"]
  /\ UNCHANGED <<running, queue, workers, owner, joined, history>>

\* Stopped, and no task is left: break.
BreakLoop(w) ==
  /\ pc[w] = "lock"
  /\ ~running
  /\ queue = <<>>
  /\ pc' = [pc EXCEPT ![w] = "exit"]
  /\ UNCHANGED <<running, queue, workers, owner, joined, history>>

\* Variant of TakeTask: the task is copied and stays in the queue.
CopyTask(w) ==
  /\ pc[w] = "lock"
  /\ queue # <<>>
  /\ Len(taken) < MaxTasks
  /\ taken' = Append(taken, Head(queue))
  /\ pc' = [pc EXCEPT ![w] = "task"]
  /\ UNCHANGED <<running, queue, workers, owner, joined, added, starts>>

\* The first task is taken, the lock is released, and the task runs; stopped
\* or not.
TakeTask(w) ==
  /\ pc[w] = "lock"
  /\ queue # <<>>
  /\ queue' = Tail(queue)
  /\ taken' = Append(taken, Head(queue))
  /\ pc' = [pc EXCEPT ![w] = "task"]
  /\ UNCHANGED <<running, workers, owner, joined, added, starts>>

FinishTask(w) ==
  /\ pc[w] = "task"
  /\ pc' = [pc EXCEPT ![w] = "while"]
  /\ UNCHANGED <<running, queue, workers, owner, joined, history>>

WorkerStep(w) ==
  \/ BeginLoop(w) \/ TestRunning(w) \/ Sleep(w)
  \/ BreakLoop(w) \/ TakeTask(w) \/ FinishTask(w)

OwnerStep == EmplaceWorker \/ NotifyAll \/ Join \/ ClearWorkers

Next ==
  \/ AddTask \/ Start \/ StopLocked
  \/ OwnerStep
  \/ \E w \in Workers : WorkerStep(w) \/ WakeSpuriously(w)

Spec == Init /\ [][Next]_vars

\* The scheduler lets every thread that can run go on, the mutex is handed to
\* every thread that asks for it, and a task returns.  Nobody has to add a task
\* or to call start or stop.
Fairness ==
  /\ WF_vars(OwnerStep)
  /\ \A w \in Workers : WF_vars(WorkerStep(w))

FairSpec == Spec /\ Fairness

-----------------------------------------------------------------------------
(* Properties *)

Places == {"none", "init", "while", "lock", "wait", "task", "exit"}

\* Types: a running pool has at most ThreadNum threads (start, stop).
TypeOK ==
  /\ running \in BOOLEAN
  /\ queue \in Seq(Nat \ {0})
  /\ workers \in 0 .. ThreadNum
  /\ pc \in [Workers -> Places]
  /\ owner \in {"idle", "start", "notify", "join"}
  /\ joined \in 0 .. ThreadNum
  /\ added \in 0 .. MaxTasks
  /\ starts \in 0 .. MaxStarts
  /\ taken \in Seq(Nat \ {0})

\* Tasks are taken once each, in the order in which they were added, by
\* whichever workers, across stops and restarts; those not taken are queued.
TakenOnceInOrder ==
  /\ Len(taken \o queue) = added
  /\ \A i \in 1 .. added : (taken \o queue)[i] = i

\* No wake-up is lost: while a worker of a running pool sleeps, no task is
\* queued for which no other worker is on its way to the queue.
NoneSleepsOverWork ==
  running /\ Waiting # {} => Len(queue) <= Cardinality(Takers)

\* Once stop() has returned, and until start() is called again, no task runs
\* and no worker can take one.
QuietAfterStop ==
  owner = "idle" /\ ~running => \A w \in Workers : pc[w] \in {"none", "exit"}

\* stop() does not wait for a sleeper: when it has notified, every worker that
\* found the pool running and went to sleep has been woken, and none goes to
\* sleep any more (ThreadPool.cc:45, 68).
NoneSleepsThroughStop == owner = "join" => Waiting = {}

\* A queued task is taken in the end, unless the pool is stopped.
TaskIsTaken ==
  \A t \in 1 .. MaxTasks :
    (\E i \in DOMAIN queue : queue[i] = t)
      ~> (~running \/ \A i \in DOMAIN queue : queue[i] # t)

\* stop() returns: no worker sleeps through it, and none goes on for ever.
StopReturns == owner = "notify" ~> owner = "idle"

-----------------------------------------------------------------------------
(* What a comment of the code says of it *)

\* ThreadPool.cc, stop: it waits until all tasks have been executed.  When it
\* returns, the tasks that had been added to a started pool before it cleared
\* running_ have been taken (and, as every worker has been joined, executed).
StopExecutesAll ==
  \A n \in 1 .. MaxTasks :
    [](owner = "notify" /\ workers > 0 /\ added >= n
         => [](owner = "idle" => Len(taken) >= n))

=============================================================================
