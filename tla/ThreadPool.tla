----------------------------- MODULE ThreadPool -----------------------------
(***************************************************************************)
(* The pool of worker threads (oZKS/thread_pool.h) that batch inserts run  *)
(* their tasks on.                                                         *)
(*                                                                         *)
(* A step is what a thread does while it holds queue_mutex, or one access  *)
(* to the atomic in_flight.  A thread that waits on a condition variable   *)
(* is "blocked" until it is notified; it is then "ready" and tests its     *)
(* predicate again when it gets the mutex.  Tasks are numbered in the      *)
(* order in which they were put in the queue.                              *)
(***************************************************************************)
EXTENDS Integers, Sequences, FiniteSets

CONSTANTS
  Clients,      \* the threads that use the pool
  Threads,      \* the argument of the constructor
  PoolSizes,    \* arguments of set_pool_size
  QueueLimit,   \* the initial max_queue_size, 100000 in the code
  QueueLimits,  \* arguments of set_queue_size_limit
  MaxTasks      \* bound: tasks enqueued in a behaviour

ASSUME ThreadsAssumption == Threads \in Nat \ {0}
ASSUME PoolSizesAssumption == PoolSizes \subseteq Nat \ {0}
ASSUME QueueLimitAssumption == QueueLimit \in Nat \ {0}
ASSUME QueueLimitsAssumption == QueueLimits \subseteq Nat \ {0}
ASSUME MaxTasksAssumption == MaxTasks \in Nat

VARIABLES
  tasks,           \* the queue of task numbers
  max_queue_size,
  pool_size,       \* the number of workers wanted
  stop,
  workers,         \* worker number -> its state; worker k is workers[k] in C++
  in_flight,
  client,          \* client -> [op, at]
  destroyer,       \* the destructor: "none", "ready", "blocked" or "done"
  submitted,       \* number of tasks enqueued so far
  finished         \* the tasks that have run

queueVars == <<tasks, max_queue_size, pool_size, stop, submitted>>
vars == <<tasks, max_queue_size, pool_size, stop, workers, in_flight, client,
          destroyer, submitted, finished>>

Ready == [at |-> "ready", task |-> 0]
Idle == [op |-> "none", at |-> "idle"]
NewWorkers(n) == [w \in 0..(n - 1) |-> Ready]
Size == Cardinality(DOMAIN workers)
WorkerIs(w, at) == w \in DOMAIN workers /\ workers[w].at = at

(* condition_consumers: the workers and the destructor wait on it. *)
Woken(ws) ==
  [w \in DOMAIN ws |-> IF ws[w].at = "blocked" THEN Ready ELSE ws[w]]
(* Mutant: workers that leave do not wake the destructor. *)
DestroyerAsleep == destroyer

DestroyerWoken == IF destroyer = "blocked" THEN "ready" ELSE destroyer

(* Mutant: enqueue notifies nobody. *)
NotifyNobody == UNCHANGED workers

(* condition_consumers.notify_one() while no destructor runs. *)
NotifyOneConsumer ==
  \/ /\ \A w \in DOMAIN workers : workers[w].at # "blocked"
     /\ UNCHANGED workers
  \/ \E w \in DOMAIN workers :
       workers[w].at = "blocked" /\ workers' = [workers EXCEPT ![w] = Ready]

(* notify_all() for the clients that wait in a call of ops. *)
ClientsWoken(ops) ==
  [c \in Clients |->
     IF client[c].at = "blocked" /\ client[c].op \in ops
     THEN [op |-> client[c].op, at |-> "ready"] ELSE client[c]]
Producers == {"enqueue", "wait_until_empty"}

Init ==
  /\ tasks = <<>>
  /\ max_queue_size = QueueLimit
  /\ pool_size = Threads
  /\ stop = FALSE
  /\ workers = NewWorkers(Threads)
  /\ in_flight = 0
  /\ client = [c \in Clients |-> Idle]
  /\ destroyer = "none"
  /\ submitted = 0
  /\ finished = {}

-----------------------------------------------------------------------------
(* Clients                                                                 *)

CanCall(c) == client[c] = Idle /\ ~stop
ClientIs(c, op, at) == client[c] = [op |-> op, at |-> at]

BeginEnqueue(c) ==
  /\ CanCall(c)
  /\ submitted + Cardinality({d \in Clients : client[d].op = "enqueue"}) < MaxTasks
  /\ client' = [client EXCEPT ![c] = [op |-> "enqueue", at |-> "enter"]]
  /\ UNCHANGED <<queueVars, workers, in_flight, destroyer, finished>>

(***************************************************************************)
(* enqueue holds the mutex: a full queue doubles its limit, which wakes    *)
(* the producers, before the call waits or puts its task in the queue.     *)
(***************************************************************************)
IsFull == Len(tasks) >= max_queue_size
RaisesLimit(c) == ClientIs(c, "enqueue", "enter") /\ IsFull
LimitFor(c) == IF RaisesLimit(c) THEN 2 * max_queue_size ELSE max_queue_size
OthersFor(c) == IF RaisesLimit(c) THEN ClientsWoken(Producers) ELSE client

Enqueue(c) ==
  /\ client[c].op = "enqueue" /\ client[c].at \in {"enter", "ready"}
  /\ Len(tasks) < LimitFor(c)
  /\ tasks' = Append(tasks, submitted + 1)
  /\ submitted' = submitted + 1
  /\ in_flight' = in_flight + 1
  /\ max_queue_size' = LimitFor(c)
  /\ client' = [OthersFor(c) EXCEPT ![c] = Idle]
  /\ NotifyOneConsumer
  /\ UNCHANGED <<pool_size, stop, destroyer, finished>>

(* Mutant: in_flight is incremented before the call waits. *)
EnqueueCountsFirst(c) ==
  /\ client[c].op = "enqueue" /\ client[c].at \in {"enter", "ready"}
  /\ Len(tasks) >= LimitFor(c)
  /\ max_queue_size' = LimitFor(c)
  /\ client' = [OthersFor(c) EXCEPT ![c] = [op |-> "enqueue", at |-> "blocked"]]
  /\ in_flight' = in_flight + 1
  /\ UNCHANGED <<tasks, pool_size, stop, workers, destroyer, submitted, finished>>

EnqueueWaits(c) ==
  /\ client[c].op = "enqueue" /\ client[c].at \in {"enter", "ready"}
  /\ Len(tasks) >= LimitFor(c)
  /\ max_queue_size' = LimitFor(c)
  /\ client' = [OthersFor(c) EXCEPT ![c] = [op |-> "enqueue", at |-> "blocked"]]
  /\ UNCHANGED <<tasks, pool_size, stop, workers, in_flight, destroyer, submitted,
                 finished>>

BeginWait(c, op) ==
  /\ CanCall(c)
  /\ client' = [client EXCEPT ![c] = [op |-> op, at |-> "ready"]]
  /\ UNCHANGED <<queueVars, workers, in_flight, destroyer, finished>>

EndOfWait(c, op, predicate) ==
  /\ ClientIs(c, op, "ready")
  /\ client' = IF predicate THEN [client EXCEPT ![c] = Idle]
                            ELSE [client EXCEPT ![c].at = "blocked"]
  /\ UNCHANGED <<queueVars, workers, in_flight, destroyer, finished>>

WaitUntilEmpty(c) == EndOfWait(c, "wait_until_empty", tasks = <<>>)

(* Mutant: an empty queue is taken for nothing in flight. *)
WaitForEmptyQueue(c) == EndOfWait(c, "wait_until_nothing_in_flight", tasks = <<>>)
WaitUntilNothingInFlight(c) ==
  EndOfWait(c, "wait_until_nothing_in_flight", in_flight = 0)

SetQueueSizeLimit(c) ==
  /\ CanCall(c)
  /\ \E limit \in QueueLimits :
       /\ max_queue_size' = limit
       /\ client' = IF max_queue_size < limit THEN ClientsWoken(Producers) ELSE client
  /\ UNCHANGED <<tasks, pool_size, stop, workers, in_flight, destroyer, submitted,
                 finished>>

(* More workers are created at once, fewer when the last ones notice. *)
SetPoolSize(c) ==
  /\ CanCall(c)
  /\ \E limit \in PoolSizes :
       /\ pool_size' = limit
       /\ workers' = IF limit > Size
                     THEN [w \in 0..(limit - 1) |-> IF w < Size THEN workers[w] ELSE Ready]
                     ELSE IF limit < Size THEN Woken(workers) ELSE workers
  /\ UNCHANGED <<tasks, max_queue_size, stop, in_flight, client, destroyer,
                 submitted, finished>>

-----------------------------------------------------------------------------
(* The destructor: no other call may be running, and none may follow.      *)

Destroy ==
  /\ ~stop
  /\ \A c \in Clients : client[c] = Idle
  /\ stop' = TRUE
  /\ pool_size' = 0
  /\ workers' = Woken(workers)
  /\ destroyer' = "ready"
  /\ UNCHANGED <<tasks, max_queue_size, in_flight, client, submitted, finished>>

AwaitWorkers ==
  /\ destroyer = "ready"
  /\ destroyer' = IF DOMAIN workers = {} THEN "done" ELSE "blocked"
  /\ UNCHANGED <<queueVars, workers, in_flight, client, finished>>

-----------------------------------------------------------------------------
(* Workers                                                                 *)

(* Mutant: on shutdown workers leave the rest of the queue. *)
MustLeaveAtOnce(w) == stop \/ pool_size < w + 1

(* Shutdown with an empty queue, or downsizing below this worker. *)
MustLeave(w) == IF stop THEN tasks = <<>> ELSE pool_size < w + 1
HasToWait(w) == ~stop /\ tasks = <<>> /\ pool_size >= w + 1

Wait(w) ==
  /\ WorkerIs(w, "ready") /\ HasToWait(w)
  /\ workers' = [workers EXCEPT ![w].at = "blocked"]
  /\ UNCHANGED <<queueVars, in_flight, client, destroyer, finished>>

(* Only the worker with the highest number leaves; the others spin. *)
IsLast(w) == w + 1 \notin DOMAIN workers

Leave(w) ==
  /\ WorkerIs(w, "ready") /\ MustLeave(w) /\ IsLast(w)
  /\ workers' = Woken([v \in DOMAIN workers \ {w} |-> workers[v]])
  /\ destroyer' = DestroyerWoken
  /\ UNCHANGED <<queueVars, in_flight, client, finished>>

(* Mutant: producers are notified of room in the queue only. *)
NotifiesWhenFull == Len(tasks) = max_queue_size

(* "notify" of the worker that has just taken a task from the queue. *)
NotifiesProducers == Len(tasks) = max_queue_size \/ Len(tasks) = 1

(* Mutant: the front of the queue is read after the pop. *)
TakeAfterPop(w) ==
  /\ WorkerIs(w, "ready") /\ ~MustLeave(w) /\ tasks # <<>>
  /\ tasks' = Tail(tasks)
  /\ workers' = [workers EXCEPT ![w] =
                   [at   |-> IF NotifiesProducers THEN "notify" ELSE "run",
                    task |-> Head(IF Len(tasks) = 1 THEN tasks ELSE Tail(tasks))]]
  /\ UNCHANGED <<max_queue_size, pool_size, stop, in_flight, client, destroyer,
                 submitted, finished>>

Take(w) ==
  /\ WorkerIs(w, "ready") /\ ~MustLeave(w) /\ tasks # <<>>
  /\ tasks' = Tail(tasks)
  /\ workers' = [workers EXCEPT ![w] =
                   [at   |-> IF NotifiesProducers THEN "notify" ELSE "run",
                    task |-> Head(tasks)]]
  /\ UNCHANGED <<max_queue_size, pool_size, stop, in_flight, client, destroyer,
                 submitted, finished>>

NotifyProducers(w) ==
  /\ WorkerIs(w, "notify")
  /\ workers' = [workers EXCEPT ![w].at = "run"]
  /\ client' = ClientsWoken(Producers)
  /\ UNCHANGED <<queueVars, in_flight, destroyer, finished>>

Run(w) ==
  /\ WorkerIs(w, "run")
  /\ finished' = finished \cup {workers[w].task}
  /\ workers' = [workers EXCEPT ![w].at = "ran"]
  /\ UNCHANGED <<queueVars, in_flight, client, destroyer>>

(* handle_in_flight_decrement: fetch_sub, and notify if that was the last. *)
Decrement(w) ==
  /\ WorkerIs(w, "ran")
  /\ in_flight' = in_flight - 1
  /\ workers' = [workers EXCEPT ![w] =
                   IF in_flight = 1 THEN [at |-> "inform", task |-> 0] ELSE Ready]
  /\ UNCHANGED <<queueVars, client, destroyer, finished>>

Inform(w) ==
  /\ WorkerIs(w, "inform")
  /\ workers' = [workers EXCEPT ![w] = Ready]
  /\ client' = ClientsWoken({"wait_until_nothing_in_flight"})
  /\ UNCHANGED <<queueVars, in_flight, destroyer, finished>>

-----------------------------------------------------------------------------
WorkerStep(w) ==
  Wait(w) \/ Leave(w) \/ Take(w) \/ NotifyProducers(w) \/ Run(w) \/ Decrement(w) \/ Inform(w)

(* What a client does on its own in a call that it has begun. *)
ClientStep(c) ==
  Enqueue(c) \/ EnqueueWaits(c) \/ WaitUntilEmpty(c) \/ WaitUntilNothingInFlight(c)

Next ==
  \/ \E w \in DOMAIN workers : WorkerStep(w)
  \/ \E c \in Clients :
       \/ BeginEnqueue(c) \/ BeginWait(c, "wait_until_empty")
       \/ BeginWait(c, "wait_until_nothing_in_flight")
       \/ SetQueueSizeLimit(c) \/ SetPoolSize(c) \/ ClientStep(c)
  \/ Destroy \/ AwaitWorkers

Spec == Init /\ [][Next]_vars

(* The numbers that workers ever have. *)
WorkerNumbers == 0..(Cardinality(UNION {0..(n - 1) : n \in PoolSizes \cup {Threads}}) - 1)

(***************************************************************************)
(* Every thread that can go on does: the scheduler runs all threads, tasks *)
(* end, and the mutex is given to everyone who keeps asking for it.        *)
(***************************************************************************)
FairSpec ==
  /\ Spec
  /\ \A w \in WorkerNumbers : WF_vars(WorkerStep(w))
  /\ \A c \in Clients : WF_vars(ClientStep(c))
  /\ WF_vars(AwaitWorkers)

-----------------------------------------------------------------------------
(* Properties                                                              *)

Queued == {tasks[k] : k \in DOMAIN tasks}
Busy == {w \in DOMAIN workers : workers[w].at \in {"notify", "run", "ran"}}
Held == {workers[w].task : w \in {v \in Busy : workers[v].at # "ran"}}

TypeOK ==
  /\ tasks \in Seq(Nat) /\ max_queue_size \in Nat \ {0} /\ pool_size \in Nat
  /\ stop \in BOOLEAN /\ in_flight \in Nat /\ submitted \in Nat
  /\ finished \subseteq Nat
  /\ DOMAIN workers = 0..(Size - 1)
  /\ workers \in [DOMAIN workers ->
       [at : {"ready", "blocked", "notify", "run", "ran", "inform"}, task : Nat]]
  /\ client \in [Clients ->
       [op : {"none"} \cup Producers \cup {"wait_until_nothing_in_flight"},
        at : {"idle", "enter", "ready", "blocked"}]]
  /\ destroyer \in {"none", "ready", "blocked", "done"}

(* in_flight, which is changed outside the mutex, is the number of tasks   *)
(* in the queue and in the hands of workers.                               *)
InFlightCounts == in_flight = Len(tasks) + Cardinality(Busy)

(* The assertion at the end of the destructor: in_flight is 0; and every   *)
(* task that was ever enqueued has run.                                    *)
DestructorDrains ==
  destroyer = "done" => in_flight = 0 /\ tasks = <<>> /\ finished = 1..submitted

(* A task is in one place: no task is lost, run twice, or run by two       *)
(* workers, however the pool is resized meanwhile.                         *)
TasksAreConserved ==
  /\ finished \cup Queued \cup Held = 1..submitted
  /\ finished \cap Queued = {} /\ finished \cap Held = {} /\ Queued \cap Held = {}
  /\ \A j, k \in DOMAIN tasks : j # k => tasks[j] # tasks[k]
  /\ \A v, w \in Busy : v # w => workers[v].task # workers[w].task

(* wait_until_nothing_in_flight returns only when every task enqueued by   *)
(* then has run to its end.                                                *)
NothingInFlightReturns ==
  \A c \in Clients :
    /\ client[c].op = "wait_until_nothing_in_flight"
    /\ client'[c] = Idle
    => finished = 1..submitted
WaitMeansFinished == [][NothingInFlightReturns]_vars

(* Every enqueued task runs, while the pool is resized and destroyed. *)
TasksRun == \A t \in 1..MaxTasks : submitted >= t ~> t \in finished

(* Every call returns: no notification is lost between a waiting client's  *)
(* test and its sleep, with the limit of the queue lowered or raised.      *)
CallsReturn == \A c \in Clients : client[c] # Idle ~> client[c] = Idle

(* The destructor returns: all workers leave, from the last to the first. *)
DestructorReturns == stop ~> destroyer = "done"
=============================================================================
