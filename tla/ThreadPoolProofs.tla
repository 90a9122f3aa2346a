-------------------------- MODULE ThreadPoolProofs --------------------------
(***************************************************************************)
(* Theorems about ThreadPool, for any number of workers, tasks and starts. *)
(***************************************************************************)
EXTENDS ThreadPool, FiniteSetTheorems, TLAPS

-----------------------------------------------------------------------------
(* Types, and which threads there are at each place of start and stop *)

\* running_ says where the owner is; a thread that has not been created does
\* nothing; stop() joins in order, and only what has returned.
ControlInv ==
  /\ owner = "start" => running /\ workers < ThreadNum
  /\ owner \in {"notify", "join"} => ~running
  /\ owner = "idle" /\ ~running => workers = 0
  /\ \A w \in Workers : w > workers => pc[w] \in {"none", "exit"}
  /\ owner = "join" => /\ joined <= workers
                       /\ \A w \in Workers : w <= joined => pc[w] = "exit"

TypeInv == TypeOK /\ ControlInv

LEMMA TypeInit == Init => TypeInv
<1> SUFFICES ASSUME Init PROVE TypeInv
  OBVIOUS
<1>1. TypeOK
  <2>1. pc \in [Workers -> Places]
    BY DEF Init, Places
  <2>2. queue \in Seq(Nat \ {0}) /\ taken \in Seq(Nat \ {0})
    BY DEF Init
  <2>3. running \in BOOLEAN /\ owner \in {"idle", "start", "notify", "join"}
    BY DEF Init
  <2>4. workers \in 0 .. ThreadNum /\ joined \in 0 .. ThreadNum
    BY CountsAssumption DEF Init
  <2>5. added \in 0 .. MaxTasks /\ starts \in 0 .. MaxStarts
    BY CountsAssumption DEF Init
  <2> QED BY <2>1, <2>2, <2>3, <2>4, <2>5 DEF TypeOK
<1>2. ControlInv
  BY DEF Init, ControlInv
<1> QED BY <1>1, <1>2 DEF TypeInv

LEMMA TypeNext == TypeInv /\ [Next]_vars => TypeInv'
<1> SUFFICES ASSUME TypeInv, [Next]_vars PROVE TypeInv'
  OBVIOUS
<1> USE CountsAssumption DEF TypeInv, TypeOK, ControlInv, Workers, Places
<1>1. CASE AddTask
  <2>1. queue' \in Seq(Nat \ {0}) /\ added' \in 0 .. MaxTasks
    BY <1>1 DEF AddTask
  <2>2. /\ pc' \in [Workers -> Places]
        /\ \A w \in Workers : pc'[w] # pc[w] => pc[w] = "wait"
    BY <1>1 DEF AddTask, Waiting
  <2> QED BY <1>1, <2>1, <2>2 DEF AddTask
<1>2. CASE Start
  BY <1>2 DEF Start
<1>3. CASE EmplaceWorker
  BY <1>3 DEF EmplaceWorker
<1>4. CASE StopLocked
  BY <1>4 DEF StopLocked, history
<1>5. CASE NotifyAll
  BY <1>5 DEF NotifyAll, Waiting, history
<1>6. CASE Join
  BY <1>6 DEF Join, history
<1>7. CASE ClearWorkers
  BY <1>7 DEF ClearWorkers, history
<1>8. ASSUME NEW w \in Workers, WorkerStep(w) \/ WakeSpuriously(w)
      PROVE  TypeInv'
  <2>1. CASE TakeTask(w)
    <3>1. queue' \in Seq(Nat \ {0}) /\ taken' \in Seq(Nat \ {0})
      BY <2>1 DEF TakeTask
    <3> QED BY <2>1, <3>1 DEF TakeTask
  <2>2. ASSUME UNCHANGED <<running, queue, workers, owner, joined, history>>,
               NEW place \in Places, pc' = [pc EXCEPT ![w] = place],
               pc[w] \notin {"none", "exit"}
        PROVE  TypeInv'
    BY <2>2 DEF history
  <2>3. CASE BeginLoop(w) \/ TestRunning(w) \/ FinishTask(w)
    BY <2>2, <2>3 DEF BeginLoop, TestRunning, FinishTask
  <2>4. CASE Sleep(w) \/ BreakLoop(w) \/ WakeSpuriously(w)
    BY <2>2, <2>4 DEF Sleep, BreakLoop, WakeSpuriously
  <2> QED BY <1>8, <2>1, <2>3, <2>4 DEF WorkerStep
<1>9. CASE UNCHANGED vars
  BY <1>9 DEF vars, history
<1> QED BY <1>1, <1>2, <1>3, <1>4, <1>5, <1>6, <1>7, <1>8, <1>9
        DEF Next, OwnerStep

\* Every variable of the pool stays within its type.
THEOREM TypeCorrect == Spec => []TypeOK
<1>1. TypeInv => TypeOK
  BY DEF TypeInv
<1> QED BY <1>1, TypeInit, TypeNext, PTL DEF Spec

\* Once stop() has returned no task runs and no worker can take one: it joins
\* every worker, and a worker joined has left its loop.
THEOREM Quiet == Spec => []QuietAfterStop
<1>1. TypeInv => QuietAfterStop
  BY CountsAssumption DEF TypeInv, TypeOK, ControlInv, QuietAfterStop, Workers
<1> QED BY <1>1, TypeInit, TypeNext, PTL DEF Spec

-----------------------------------------------------------------------------
(* The queue *)

\* Moving the first task of a queue to the end of a log changes nothing of the
\* two together.
LEMMA MoveHead ==
  ASSUME NEW S, NEW log \in Seq(S), NEW q \in Seq(S), q # <<>>
  PROVE  Append(log, Head(q)) \o Tail(q) = log \o q
<1> DEFINE a == Append(log, Head(q)) \o Tail(q)
           b == log \o q
<1>1. a \in Seq(S) /\ b \in Seq(S)
  OBVIOUS
<1>2. Len(a) = Len(b)
  OBVIOUS
<1>3. ASSUME NEW i \in 1 .. Len(b) PROVE a[i] = b[i]
  OBVIOUS
<1> QED BY <1>1, <1>2, <1>3

\* Queueing one more.
LEMMA AppendNext ==
  ASSUME NEW S, NEW log \in Seq(S), NEW q \in Seq(S), NEW x \in S
  PROVE  /\ log \o q \in Seq(S)
         /\ Len(log \o Append(q, x)) = Len(log \o q) + 1
         /\ (log \o Append(q, x))[Len(log \o q) + 1] = x
         /\ \A i \in 1 .. Len(log \o q) :
              (log \o Append(q, x))[i] = (log \o q)[i]
OBVIOUS

\* Each task is taken once, in the order of addition, whatever stops and
\* restarts come in between.
THEOREM TakenOnce == Spec => []TakenOnceInOrder
<1>1. Init => TakenOnceInOrder
  BY DEF Init, TakenOnceInOrder
<1>2. TypeOK /\ TakenOnceInOrder /\ [Next]_vars => TakenOnceInOrder'
  <2> SUFFICES ASSUME TypeOK, TakenOnceInOrder, [Next]_vars
               PROVE  TakenOnceInOrder'
    OBVIOUS
  <2>0. queue \in Seq(Nat \ {0}) /\ taken \in Seq(Nat \ {0}) /\ added \in Nat
    BY DEF TypeOK
  <2>1. CASE AddTask
    <3>1. /\ added' = added + 1 /\ taken' = taken
          /\ queue' = Append(queue, added + 1) /\ added + 1 \in Nat \ {0}
      BY <2>0, <2>1 DEF AddTask
    <3> DEFINE all == taken \o queue
               more == taken \o Append(queue, added + 1)
    <3>2. Len(all) = added /\ \A i \in 1 .. added : all[i] = i
      BY DEF TakenOnceInOrder
    <3>3. /\ Len(more) = Len(all) + 1
          /\ more[Len(all) + 1] = added + 1
          /\ \A i \in 1 .. Len(all) : more[i] = all[i]
      BY <2>0, <3>1, AppendNext
    <3>4. taken' \o queue' = more
      BY <3>1
    <3> HIDE DEF all, more
    <3>5. Len(more) = added' /\ \A i \in 1 .. added' : more[i] = i
      BY <2>0, <3>1, <3>2, <3>3
    <3> QED BY <3>4, <3>5 DEF TakenOnceInOrder
  <2>2. ASSUME NEW w \in Workers, TakeTask(w) PROVE TakenOnceInOrder'
    <3>1. taken' \o queue' = taken \o queue /\ added' = added
      BY <2>0, <2>2, MoveHead DEF TakeTask
    <3> QED BY <3>1 DEF TakenOnceInOrder
  <2>3. ASSUME UNCHANGED <<queue, taken, added>> PROVE TakenOnceInOrder'
    BY <2>3 DEF TakenOnceInOrder
  <2>4. CASE Start \/ StopLocked \/ OwnerStep
    BY <2>3, <2>4 DEF Start, StopLocked, OwnerStep, EmplaceWorker, NotifyAll,
                     Join, ClearWorkers, history
  <2>5. ASSUME NEW w \in Workers, WorkerStep(w) \/ WakeSpuriously(w), ~TakeTask(w)
        PROVE  TakenOnceInOrder'
    BY <2>3, <2>5 DEF WorkerStep, WakeSpuriously, BeginLoop, TestRunning, Sleep,
                     BreakLoop, FinishTask, history
  <2> QED BY <2>1, <2>2, <2>3, <2>4, <2>5 DEF Next, vars, history
<1> QED BY <1>1, <1>2, TypeCorrect, PTL DEF Spec

-----------------------------------------------------------------------------
(* Stopping *)

LEMMA StopNext == TypeInv /\ NoneSleepsThroughStop /\ [Next]_vars => NoneSleepsThroughStop'
<1> SUFFICES ASSUME TypeInv, NoneSleepsThroughStop, [Next]_vars, owner' = "join",
                    NEW w \in Workers
             PROVE  pc'[w] # "wait"
  BY DEF NoneSleepsThroughStop, Waiting
<1>0. pc \in [Workers -> Places] /\ (owner = "join" => ~running /\ pc[w] # "wait")
  BY DEF TypeInv, TypeOK, ControlInv, NoneSleepsThroughStop, Waiting
<1>1. CASE NotifyAll
  BY <1>1 DEF NotifyAll, Waiting
<1>2. CASE AddTask
  BY <1>0, <1>2 DEF AddTask, Waiting
<1>3. CASE Start \/ StopLocked \/ EmplaceWorker
  BY <1>3 DEF Start, StopLocked, EmplaceWorker
<1>4. CASE Join \/ ClearWorkers
  BY <1>0, <1>4 DEF Join, ClearWorkers
<1>5. ASSUME NEW v \in Workers, WorkerStep(v) \/ WakeSpuriously(v)
      PROVE  pc'[w] # "wait"
  <2>1. owner = "join"
    BY <1>5 DEF WorkerStep, WakeSpuriously, BeginLoop, TestRunning, Sleep, BreakLoop,
                TakeTask, FinishTask
  <2>2. ~Sleep(v)
    BY <1>0, <2>1 DEF Sleep
  <2> QED BY <1>0, <1>5, <2>1, <2>2
          DEF WorkerStep, WakeSpuriously, BeginLoop, TestRunning, BreakLoop,
              TakeTask, FinishTask
<1>6. CASE UNCHANGED vars
  BY <1>0, <1>6 DEF vars, history
<1> QED BY <1>1, <1>2, <1>3, <1>4, <1>5, <1>6 DEF Next, OwnerStep

\* No worker sleeps through stop(): running_ is cleared under the lock under which
\* a worker looks at it before it sleeps, so the notification finds everyone who
\* slept before and nobody sleeps after it.
THEOREM StopWakesAll == Spec => []NoneSleepsThroughStop
<1>1. Init => NoneSleepsThroughStop
  BY DEF Init, NoneSleepsThroughStop
<1> QED BY <1>1, TypeInit, TypeNext, StopNext, PTL DEF Spec

-----------------------------------------------------------------------------
(* Wake-ups *)

LEMMA TakersFinite == IsFiniteSet(Takers) /\ Cardinality(Takers) \in Nat
<1>1. IsFiniteSet(Workers)
  BY CountsAssumption, FS_Interval DEF Workers
<1>2. IsFiniteSet(Takers)
  BY <1>1, FS_Subset DEF Takers
<1> QED BY <1>2, FS_CardinalityType

LEMMA SleepNext == TypeInv /\ NoneSleepsOverWork /\ [Next]_vars => NoneSleepsOverWork'
<1> SUFFICES ASSUME TypeInv, NoneSleepsOverWork, [Next]_vars,
                    running', Waiting' # {}
             PROVE  Len(queue') <= Cardinality(Takers')
  BY DEF NoneSleepsOverWork
<1>0. /\ queue \in Seq(Nat \ {0}) /\ pc \in [Workers -> Places]
      /\ Len(queue) \in Nat
      /\ IsFiniteSet(Takers) /\ Cardinality(Takers) \in Nat
  BY TakersFinite DEF TypeInv, TypeOK
\* A worker that joins the takers, with as many tasks as before or one more.
<1>a. ASSUME NEW w \in Workers, w \notin Takers,
             pc' = [pc EXCEPT ![w] = "lock"]
                 \/ pc' = [pc EXCEPT ![w] = "init"]
                 \/ pc' = [pc EXCEPT ![w] = "while"]
      PROVE  Cardinality(Takers') = Cardinality(Takers) + 1
  <2>1. Takers' = Takers \cup {w}
    BY <1>0, <1>a DEF Takers
  <2> QED BY <1>0, <1>a, <2>1, FS_AddElement
\* No worker moves to or from the queue.
<1>b. ASSUME UNCHANGED <<running, queue>>, Takers' = Takers, Waiting' \subseteq Waiting
      PROVE  Len(queue') <= Cardinality(Takers')
  BY <1>b DEF NoneSleepsOverWork
<1>1. CASE AddTask
  <2>1. PICK w \in Waiting : pc' = [pc EXCEPT ![w] = "lock"]
    BY <1>1 DEF AddTask, Waiting
  <2>2. w \in Workers /\ w \notin Takers
    BY DEF Waiting, Takers
  <2>3. Cardinality(Takers') = Cardinality(Takers) + 1
    BY <1>a, <2>1, <2>2
  <2>4. Len(queue') = Len(queue) + 1
    <3>1. queue' = Append(queue, added + 1) /\ added + 1 \in Nat \ {0}
      BY <1>1, CountsAssumption DEF AddTask, TypeInv, TypeOK
    <3> QED BY <1>0, <3>1
  <2>5. Len(queue) <= Cardinality(Takers)
    BY <1>1, <2>1 DEF AddTask, NoneSleepsOverWork
  <2> QED BY <1>0, <2>3, <2>4, <2>5
<1>2. CASE Start
  <2>1. \A w \in Workers : pc'[w] \in {"none", "exit"}
    BY <1>2, CountsAssumption DEF Start, TypeInv, TypeOK, ControlInv, Workers
  <2> QED BY <2>1 DEF Waiting
<1>3. CASE EmplaceWorker
  <2>1. workers + 1 \in Workers /\ pc[workers + 1] \in {"none", "exit"}
    BY <1>3, CountsAssumption
    DEF EmplaceWorker, TypeInv, TypeOK, ControlInv, Workers
  <2>2. Cardinality(Takers') = Cardinality(Takers) + 1
    BY <1>3, <1>a, <2>1 DEF EmplaceWorker, Takers
  <2>3. Waiting # {}
    BY <1>0, <1>3, <2>1 DEF EmplaceWorker, Waiting
  <2> QED BY <1>0, <1>3, <2>2, <2>3 DEF EmplaceWorker, NoneSleepsOverWork
<1>4. CASE StopLocked \/ NotifyAll
  BY <1>4 DEF StopLocked, NotifyAll, TypeInv, ControlInv
<1>5. CASE Join \/ ClearWorkers
  BY <1>5, <1>b DEF Join, ClearWorkers, Takers, Waiting
<1>6. ASSUME NEW w \in Workers, WorkerStep(w) \/ WakeSpuriously(w)
      PROVE  Len(queue') <= Cardinality(Takers')
  <2>1. CASE TakeTask(w)
    <3>1. Takers' = Takers \ {w} /\ w \in Takers /\ Waiting' = Waiting
      BY <1>0, <2>1 DEF TakeTask, Takers, Waiting
    <3>2. Cardinality(Takers') = Cardinality(Takers) - 1
      BY <1>0, <3>1, FS_RemoveElement
    <3>3. Len(queue') = Len(queue) - 1
      BY <1>0, <2>1 DEF TakeTask
    <3>4. Len(queue) <= Cardinality(Takers)
      BY <2>1, <3>1 DEF TakeTask, NoneSleepsOverWork
    <3> QED BY <1>0, <3>2, <3>3, <3>4
  <2>2. CASE FinishTask(w)
    <3>1. w \notin Takers /\ Waiting' \subseteq Waiting
      BY <1>0, <2>2 DEF FinishTask, Takers, Waiting
    <3>2. Cardinality(Takers') = Cardinality(Takers) + 1
      BY <1>a, <2>2, <3>1 DEF FinishTask
    <3> QED BY <1>0, <2>2, <3>1, <3>2 DEF FinishTask, NoneSleepsOverWork
  <2>3. CASE WakeSpuriously(w)
    <3>1. w \notin Takers /\ Waiting # {}
      BY <2>3 DEF WakeSpuriously, Takers, Waiting
    <3>2. Cardinality(Takers') = Cardinality(Takers) + 1
      BY <1>a, <2>3, <3>1 DEF WakeSpuriously
    <3> QED BY <1>0, <2>3, <3>1, <3>2 DEF WakeSpuriously, NoneSleepsOverWork
  <2>4. CASE BeginLoop(w)
    BY <1>0, <1>b, <2>4 DEF BeginLoop, Takers, Waiting
  <2>5. CASE TestRunning(w)
    BY <1>0, <1>b, <2>5 DEF TestRunning, Takers, Waiting
  <2>6. CASE Sleep(w)
    <3>1. Len(queue') = 0
      BY <2>6 DEF Sleep
    <3>2. IsFiniteSet(Takers') /\ Cardinality(Takers') \in Nat
      <4>1. IsFiniteSet(Workers)
        BY CountsAssumption, FS_Interval DEF Workers
      <4>2. IsFiniteSet(Takers')
        BY <4>1, FS_Subset DEF Takers
      <4> QED BY <4>2, FS_CardinalityType
    <3> QED BY <3>1, <3>2
  <2>7. CASE BreakLoop(w)
    BY <2>7 DEF BreakLoop
  <2> QED BY <1>6, <2>1, <2>2, <2>3, <2>4, <2>5, <2>6, <2>7 DEF WorkerStep
<1>7. CASE UNCHANGED vars
  BY <1>7, <1>b DEF vars, history, Takers, Waiting
<1> QED BY <1>1, <1>2, <1>3, <1>4, <1>5, <1>6, <1>7 DEF Next, OwnerStep

\* No wake-up is lost: while a worker of a running pool sleeps, at least as many
\* workers are on their way to the queue as tasks wait in it.
THEOREM NoLostWakeUp == Spec => []NoneSleepsOverWork
<1>1. Init => NoneSleepsOverWork
  BY DEF Init, NoneSleepsOverWork
<1> QED BY <1>1, TypeInit, TypeNext, SleepNext, PTL DEF Spec

=============================================================================
