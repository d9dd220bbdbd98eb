------------------------- MODULE ThreadPool_proofs -------------------------
(***************************************************************************)
(* The safety properties of ThreadPool, for any number of clients, workers *)
(* and tasks, any sizes the pool is given and any limits of its queue.     *)
(*                                                                         *)
(* None of the properties is inductive.  The invariant adds that the queue *)
(* holds the last tasks submitted, in order, that a worker which has run   *)
(* its task still holds a finished one, and that workers are gone only     *)
(* when the pool is stopped and its queue is empty.                        *)
(***************************************************************************)
EXTENDS ThreadPool, FiniteSetTheorems, SequenceTheorems, TLAPS

WorkerAt == {"ready", "blocked", "notify", "run", "ran", "inform"}
WorkerState == [at : WorkerAt, task : Nat]
ClientState ==
  [op : {"none"} \cup Producers \cup {"wait_until_nothing_in_flight"},
   at : {"idle", "enter", "ready", "blocked"}]

Types ==
  /\ tasks \in Seq(Nat) /\ max_queue_size \in Nat \ {0} /\ pool_size \in Nat
  /\ stop \in BOOLEAN /\ submitted \in Nat /\ finished \subseteq Nat
  /\ \E n \in Nat : DOMAIN workers = 0..(n - 1)
  /\ workers \in [DOMAIN workers -> WorkerState]
  /\ client \in [Clients -> ClientState]
  /\ destroyer \in {"none", "ready", "blocked", "done"}

(* Tasks leave the queue in the order of their numbers. *)
Started == submitted - Len(tasks)
InOrder ==
  /\ Started \in Nat
  /\ \A k \in 1..Len(tasks) : tasks[k] = Started + k
  /\ finished \cup Held = 1..Started
  /\ finished \cap Held = {}
  /\ \A w \in Busy : workers[w].at = "ran" => workers[w].task \in finished
  /\ \A v, w \in Busy : v # w => workers[v].task # workers[w].task

Ending ==
  /\ ~stop => pool_size >= 1 /\ DOMAIN workers # {} /\ destroyer = "none"
  /\ stop => \A c \in Clients : client[c] = Idle
  /\ DOMAIN workers = {} => tasks = <<>>
  /\ destroyer = "done" => DOMAIN workers = {}

IInv == Types /\ InFlightCounts /\ InOrder /\ Ending

-----------------------------------------------------------------------------
(* Workers are numbered without gaps, so there are finitely many. *)
LEMMA WorkersAreFinite ==
  ASSUME Types
  PROVE  /\ Size \in Nat /\ DOMAIN workers = 0..(Size - 1)
         /\ IsFiniteSet(Busy) /\ Cardinality(Busy) \in Nat
<1>1. PICK n \in Nat : DOMAIN workers = 0..(n - 1)
  BY DEF Types
<1>2. IsFiniteSet(DOMAIN workers) /\ Cardinality(0..(n - 1)) = n
  BY <1>1, FS_Interval
<1>3. Busy \in SUBSET (DOMAIN workers)
  BY DEF Busy
<1> QED
  BY <1>1, <1>2, <1>3, FS_Subset, FS_CardinalityType DEF Size

LEMMA ClientsWokenType ==
  ASSUME Types, NEW ops
  PROVE  ClientsWoken(ops) \in [Clients -> ClientState]
BY DEF Types, ClientsWoken, ClientState

(* Waking workers changes no worker that holds a task. *)
LEMMA WokenType ==
  ASSUME NEW D, NEW ws \in [D -> WorkerState]
  PROVE  /\ Woken(ws) \in [D -> WorkerState]
         /\ \A w \in D : Woken(ws)[w].at \in {"notify", "run", "ran"}
                           <=> ws[w].at \in {"notify", "run", "ran"}
         /\ \A w \in D : ws[w].at # "blocked" => Woken(ws)[w] = ws[w]
BY DEF Woken, Ready, WorkerState, WorkerAt

LEMMA NotifyOneType ==
  ASSUME Types, NotifyOneConsumer
  PROVE  /\ DOMAIN workers' = DOMAIN workers
         /\ workers' \in [DOMAIN workers -> WorkerState]
         /\ \A w \in DOMAIN workers : workers[w].at # "blocked" => workers'[w] = workers[w]
         /\ \A w \in DOMAIN workers : workers[w].at = "blocked" =>
              workers'[w].at \in {"ready", "blocked"}
<1>0. workers \in [DOMAIN workers -> WorkerState]
  BY DEF Types
<1>1. CASE UNCHANGED workers
  BY <1>0, <1>1
<1>2. ASSUME NEW v \in DOMAIN workers, workers[v].at = "blocked",
             workers' = [workers EXCEPT ![v] = Ready]
      PROVE  /\ DOMAIN workers' = DOMAIN workers
             /\ workers' \in [DOMAIN workers -> WorkerState]
             /\ \A w \in DOMAIN workers : workers[w].at # "blocked" => workers'[w] = workers[w]
             /\ \A w \in DOMAIN workers : workers[w].at = "blocked" =>
                  workers'[w].at \in {"ready", "blocked"}
  BY <1>0, <1>2 DEF Ready, WorkerState, WorkerAt
<1> QED
  BY <1>1, <1>2 DEF NotifyOneConsumer

LEMMA InitIInv == Init => IInv
<1> SUFFICES ASSUME Init PROVE IInv
  OBVIOUS
<1>0. Threads \in Nat /\ Threads >= 1 /\ QueueLimit \in Nat \ {0}
  BY ThreadsAssumption, QueueLimitAssumption
<1>1. Types
  BY <1>0 DEF Init, Types, NewWorkers, Ready, Idle, WorkerState, WorkerAt, ClientState
<1>2. Busy = {} /\ Held = {}
  BY DEF Init, NewWorkers, Ready, Busy, Held
<1>3. InFlightCounts
  BY <1>2, FS_EmptySet DEF Init, InFlightCounts
<1>4. InOrder
  BY <1>2 DEF Init, InOrder, Started
<1>5. Ending
  BY <1>0 DEF Init, Ending, NewWorkers
<1> QED
  BY <1>1, <1>3, <1>4, <1>5 DEF IInv

-----------------------------------------------------------------------------
(* Steps after which the same workers hold the same tasks.                 *)

Keeps ==
  \A w : w \in Busy \/ w \in Busy' =>
    /\ w \in DOMAIN workers /\ w \in DOMAIN workers'
    /\ workers'[w].task = workers[w].task
    /\ workers[w].at \in {"notify", "run", "ran"}
    /\ workers'[w].at \in {"notify", "run", "ran"}
    /\ workers'[w].at = "ran" <=> workers[w].at = "ran"

LEMMA HandsUnchanged ==
  ASSUME InFlightCounts, InOrder, Keeps,
         UNCHANGED <<tasks, submitted, in_flight, finished>>
  PROVE  InFlightCounts' /\ InOrder'
<1>1. Busy' = Busy
  BY DEF Keeps, Busy
<1>2. \A w \in Busy : workers'[w].task = workers[w].task
                      /\ (workers'[w].at = "ran" <=> workers[w].at = "ran")
  BY DEF Keeps
<1>3. Held' = Held
  BY <1>1, <1>2 DEF Held
<1>4. InFlightCounts'
  BY <1>1 DEF InFlightCounts
<1>5. InOrder'
  BY <1>1, <1>2, <1>3 DEF InOrder, Started
<1> QED
  BY <1>4, <1>5

(* A step of the clients alone. *)
LEMMA ClientsAlone ==
  ASSUME IInv, client' \in [Clients -> ClientState],
         stop => client' = client,
         max_queue_size' \in Nat \ {0},
         UNCHANGED <<tasks, pool_size, stop, submitted, workers, in_flight, destroyer,
                     finished>>
  PROVE  IInv'
<1>1. Keeps
  BY DEF Keeps, Busy
<1>2. InFlightCounts' /\ InOrder'
  BY <1>1, HandsUnchanged DEF IInv
<1>3. Types'
  BY DEF IInv, Types
<1>4. Ending'
  BY DEF IInv, Ending
<1> QED
  BY <1>2, <1>3, <1>4 DEF IInv

LEMMA BeginEnqueueStep == ASSUME IInv, NEW c \in Clients, BeginEnqueue(c) PROVE IInv'
<1>1. client' \in [Clients -> ClientState]
  BY DEF IInv, Types, BeginEnqueue, ClientState, Producers
<1> QED
  BY <1>1, ClientsAlone DEF BeginEnqueue, CanCall, queueVars, IInv, Types

LEMMA BeginWaitStep ==
  ASSUME IInv, NEW c \in Clients,
         NEW op \in {"wait_until_empty", "wait_until_nothing_in_flight"}, BeginWait(c, op)
  PROVE  IInv'
<1>1. client' \in [Clients -> ClientState]
  BY DEF IInv, Types, BeginWait, ClientState, Producers
<1> QED
  BY <1>1, ClientsAlone DEF BeginWait, CanCall, queueVars, IInv, Types

LEMMA EndOfWaitStep ==
  ASSUME IInv, NEW c \in Clients, NEW op, NEW predicate, op # "none",
         EndOfWait(c, op, predicate)
  PROVE  IInv'
<1>1. client' \in [Clients -> ClientState]
  BY DEF IInv, Types, EndOfWait, ClientState, Idle
<1>2. ~stop
  BY DEF IInv, Types, Ending, EndOfWait, ClientIs, Idle
<1> QED
  BY <1>1, <1>2, ClientsAlone DEF EndOfWait, queueVars, IInv, Types

LEMMA SetQueueSizeLimitStep ==
  ASSUME IInv, NEW c \in Clients, SetQueueSizeLimit(c) PROVE IInv'
<1>1. client' \in [Clients -> ClientState] /\ max_queue_size' \in Nat \ {0}
  BY ClientsWokenType, QueueLimitsAssumption DEF SetQueueSizeLimit, IInv, Types
<1> QED
  BY <1>1, ClientsAlone DEF SetQueueSizeLimit, CanCall

(* The limit and the clients after enqueue has looked at the queue. *)
LEMMA EnqueueLooks ==
  ASSUME IInv, NEW c \in Clients
  PROVE  /\ LimitFor(c) \in Nat \ {0}
         /\ OthersFor(c) \in [Clients -> ClientState]
<1>1. max_queue_size \in Nat /\ max_queue_size >= 1
  BY DEF IInv, Types
<1>2. 2 * max_queue_size \in Nat \ {0}
  BY <1>1
<1> QED
  BY <1>1, <1>2, ClientsWokenType DEF LimitFor, OthersFor, IInv, Types

LEMMA EnqueueWaitsStep == ASSUME IInv, NEW c \in Clients, EnqueueWaits(c) PROVE IInv'
<1>1. client' \in [Clients -> ClientState]
  BY EnqueueLooks DEF EnqueueWaits, ClientState, Producers
<1>2. ~stop
  BY DEF IInv, Types, Ending, EnqueueWaits, Idle
<1> QED
  BY <1>1, <1>2, EnqueueLooks, ClientsAlone DEF EnqueueWaits

(* A step that changes the workers and not what they hold. *)
LEMMA WorkersAlone ==
  ASSUME IInv, Keeps,
         \E n \in Nat : DOMAIN workers' = 0..(n - 1),
         workers' \in [DOMAIN workers' -> WorkerState],
         client' \in [Clients -> ClientState],
         stop => client' = client,
         DOMAIN workers' = {} => tasks = <<>> /\ stop,
         DOMAIN workers = {} => DOMAIN workers' = {},
         pool_size' \in Nat, pool_size >= 1 => pool_size' >= 1,
         destroyer' \in {destroyer, IF destroyer = "blocked" THEN "ready" ELSE destroyer},
         UNCHANGED <<tasks, max_queue_size, stop, submitted, in_flight, finished>>
  PROVE  IInv'
<1>1. InFlightCounts' /\ InOrder'
  BY HandsUnchanged DEF IInv
<1>2. Types'
  BY DEF IInv, Types
<1>3. Ending'
  BY DEF IInv, Ending, Types
<1> QED
  BY <1>1, <1>2, <1>3 DEF IInv

LEMMA WaitStep == ASSUME IInv, NEW w \in DOMAIN workers, Wait(w) PROVE IInv'
<1>1. workers' \in [DOMAIN workers -> WorkerState] /\ Keeps
  BY DEF IInv, Types, Wait, WorkerIs, WorkerState, WorkerAt, Keeps, Busy
<1> QED
  BY <1>1, WorkersAlone DEF Wait, queueVars, IInv, Types, Ending

LEMMA InformStep == ASSUME IInv, NEW w \in DOMAIN workers, Inform(w) PROVE IInv'
<1>1. workers' \in [DOMAIN workers -> WorkerState] /\ Keeps
  BY DEF IInv, Types, Inform, WorkerIs, WorkerState, WorkerAt, Keeps, Busy, Ready
<1>2. client' \in [Clients -> ClientState]
  BY ClientsWokenType DEF Inform, IInv
<1>3. stop => client' = client
  BY DEF Inform, IInv, Ending, Types, ClientsWoken, Idle
<1> QED
  BY <1>1, <1>2, <1>3, WorkersAlone DEF Inform, queueVars, IInv, Types, Ending

LEMMA NotifyProducersStep ==
  ASSUME IInv, NEW w \in DOMAIN workers, NotifyProducers(w) PROVE IInv'
<1>1. workers' \in [DOMAIN workers -> WorkerState] /\ Keeps
  BY DEF IInv, Types, NotifyProducers, WorkerIs, WorkerState, WorkerAt, Keeps, Busy
<1>2. client' \in [Clients -> ClientState]
  BY ClientsWokenType DEF NotifyProducers, IInv
<1>3. stop => client' = client
  BY DEF NotifyProducers, IInv, Ending, Types, ClientsWoken, Idle
<1> QED
  BY <1>1, <1>2, <1>3, WorkersAlone DEF NotifyProducers, queueVars, IInv, Types, Ending

(* The last worker leaves: the numbers of the others have no gap. *)
LEMMA LeaveStep == ASSUME IInv, NEW w \in DOMAIN workers, Leave(w) PROVE IInv'
<1> DEFINE rest == [v \in DOMAIN workers \ {w} |-> workers[v]]
<1>1. PICK n \in Nat : DOMAIN workers = 0..(n - 1)
  BY DEF IInv, Types
<1>2. w = n - 1 /\ n >= 1
  BY <1>1 DEF Leave, IsLast
<1>3. DOMAIN workers \ {w} = 0..((n - 1) - 1) /\ n - 1 \in Nat
  BY <1>1, <1>2
<1>4. rest \in [DOMAIN workers \ {w} -> WorkerState]
  BY DEF IInv, Types
<1>5. /\ workers' \in [DOMAIN workers \ {w} -> WorkerState]
      /\ DOMAIN workers' = DOMAIN workers \ {w}
      /\ \A v \in DOMAIN workers \ {w} :
           /\ workers'[v].at \in {"notify", "run", "ran"}
                <=> workers[v].at \in {"notify", "run", "ran"}
           /\ workers[v].at # "blocked" => workers'[v] = workers[v]
  <2>1. workers' = Woken(rest)
    BY DEF Leave
  <2>2. \A v \in DOMAIN workers \ {w} : rest[v] = workers[v]
    OBVIOUS
  <2> HIDE DEF rest
  <2>3. /\ Woken(rest) \in [DOMAIN workers \ {w} -> WorkerState]
        /\ \A v \in DOMAIN workers \ {w} :
             /\ Woken(rest)[v].at \in {"notify", "run", "ran"}
                  <=> rest[v].at \in {"notify", "run", "ran"}
             /\ rest[v].at # "blocked" => Woken(rest)[v] = rest[v]
    BY <1>4, WokenType
  <2>4. DOMAIN Woken(rest) = DOMAIN workers \ {w}
    BY <2>3
  <2> QED
    BY <2>1, <2>2, <2>3, <2>4
<1>6. Keeps
  BY <1>5 DEF Keeps, Busy, Leave, WorkerIs
<1>7. DOMAIN workers' = {} => tasks = <<>> /\ stop
  <2>1. CASE stop
    BY <2>1 DEF Leave, MustLeave
  <2>2. CASE ~stop
    <3>1. pool_size \in Nat /\ pool_size >= 1 /\ pool_size < w + 1
      BY <2>2 DEF Leave, MustLeave, IInv, Ending, Types
    <3>2. 0 \in DOMAIN workers \ {w}
      BY <3>1, <1>1, <1>2
    <3> QED
      BY <3>2, <1>5
  <2> QED
    BY <2>1, <2>2
<1>8. destroyer' \in {destroyer, IF destroyer = "blocked" THEN "ready" ELSE destroyer}
  BY DEF Leave, DestroyerWoken
<1> HIDE DEF rest
<1>9. \E m \in Nat : DOMAIN workers' = 0..(m - 1)
  BY <1>3, <1>5
<1>10. /\ UNCHANGED <<tasks, max_queue_size, pool_size, stop, submitted, in_flight,
                      finished, client>>
       /\ client \in [Clients -> ClientState] /\ pool_size \in Nat
  BY DEF Leave, queueVars, IInv, Types
<1> QED
  BY <1>5, <1>6, <1>7, <1>8, <1>9, <1>10, WorkersAlone

LEMMA SetPoolSizeStep == ASSUME IInv, NEW c \in Clients, SetPoolSize(c) PROVE IInv'
<1>1. PICK limit \in PoolSizes :
        /\ pool_size' = limit
        /\ workers' = IF limit > Size
                      THEN [w \in 0..(limit - 1) |-> IF w < Size THEN workers[w] ELSE Ready]
                      ELSE IF limit < Size THEN Woken(workers) ELSE workers
  BY DEF SetPoolSize
<1>2. limit \in Nat /\ limit >= 1
  BY PoolSizesAssumption
<1>3. Size \in Nat /\ DOMAIN workers = 0..(Size - 1) /\ workers \in [DOMAIN workers -> WorkerState]
  BY WorkersAreFinite DEF IInv, Types
<1>4. /\ \E n \in Nat : DOMAIN workers' = 0..(n - 1)
      /\ workers' \in [DOMAIN workers' -> WorkerState]
      /\ Keeps
      /\ DOMAIN workers' = {} => DOMAIN workers = {}
  <2>1. CASE limit > Size
    <3>1. workers' = [w \in 0..(limit - 1) |-> IF w < Size THEN workers[w] ELSE Ready]
      BY <1>1, <2>1
    <3>2. DOMAIN workers' = 0..(limit - 1) /\ 0 \in DOMAIN workers'
      BY <3>1, <1>2
    <3>3. \A w \in DOMAIN workers : w \in DOMAIN workers' /\ workers'[w] = workers[w]
      BY <3>1, <1>2, <1>3, <2>1
    <3>4. \A w \in DOMAIN workers' : w \notin DOMAIN workers => workers'[w] = Ready
      BY <3>1, <1>2, <1>3, <2>1
    <3>5. workers' \in [DOMAIN workers' -> WorkerState]
      BY <3>1, <3>2, <3>3, <3>4, <1>3 DEF Ready, WorkerState, WorkerAt
    <3>6. Keeps
      BY <3>3, <3>4 DEF Keeps, Busy, Ready
    <3> QED
      BY <3>2, <3>5, <3>6, <1>2
  <2>2. CASE limit < Size
    <3>1. workers' = Woken(workers)
      BY <1>1, <1>2, <1>3, <2>2
    <3>2. /\ workers' \in [DOMAIN workers -> WorkerState]
          /\ \A w \in DOMAIN workers : workers'[w].at \in {"notify", "run", "ran"}
                            <=> workers[w].at \in {"notify", "run", "ran"}
          /\ \A w \in DOMAIN workers : workers[w].at # "blocked" => workers'[w] = workers[w]
      BY <3>1, <1>3, WokenType
    <3>3. DOMAIN workers' = DOMAIN workers
      BY <3>2
    <3>4. Keeps
      BY <3>2, <3>3 DEF Keeps, Busy
    <3> QED
      BY <1>3, <3>2, <3>3, <3>4
  <2>3. CASE limit = Size
    <3>1. workers' = workers
      BY <1>1, <1>2, <1>3, <2>3
    <3> QED
      BY <3>1, <1>3 DEF Keeps, Busy
  <2> QED
    BY <2>1, <2>2, <2>3, <1>2, <1>3
<1>5. ~stop /\ DOMAIN workers # {}
  BY DEF SetPoolSize, CanCall, IInv, Ending
<1>6. /\ UNCHANGED <<tasks, max_queue_size, stop, submitted, in_flight,
                      finished, client, destroyer>>
      /\ client \in [Clients -> ClientState] /\ pool_size' \in Nat /\ pool_size' >= 1
  BY <1>1, <1>2 DEF SetPoolSize, IInv, Types
<1> QED
  BY <1>4, <1>5, <1>6, WorkersAlone

-----------------------------------------------------------------------------
(* Steps that move a task: into the queue, to a worker, to finished.       *)

LEMMA EnqueueStep == ASSUME IInv, NEW c \in Clients, Enqueue(c) PROVE IInv'
<1>1. /\ DOMAIN workers' = DOMAIN workers
      /\ workers' \in [DOMAIN workers -> WorkerState]
      /\ \A w \in DOMAIN workers : workers[w].at # "blocked" => workers'[w] = workers[w]
      /\ \A w \in DOMAIN workers : workers[w].at = "blocked" =>
           workers'[w].at \in {"ready", "blocked"}
  BY NotifyOneType DEF IInv, Enqueue
<1>2. Busy' = Busy /\ \A w \in Busy : workers'[w] = workers[w]
  BY <1>1 DEF Busy
<1>3. Held' = Held
  BY <1>2 DEF Held
<1>4. ~stop /\ DOMAIN workers # {}
  BY DEF IInv, Types, Ending, Enqueue, Idle
<1>5. tasks' = Append(tasks, submitted + 1) /\ submitted' = submitted + 1
  BY DEF Enqueue
<1>6. /\ tasks' \in Seq(Nat) /\ Len(tasks') = Len(tasks) + 1 /\ Len(tasks) \in Nat
      /\ \A k \in 1..Len(tasks) : tasks'[k] = tasks[k]
      /\ tasks'[Len(tasks) + 1] = submitted + 1
  BY <1>5 DEF IInv, Types
<1>7. Types'
  <2>1. client' \in [Clients -> ClientState] /\ max_queue_size' \in Nat \ {0}
    BY EnqueueLooks DEF Enqueue, Idle, ClientState
  <2> QED
    BY <1>1, <1>5, <1>6, <2>1 DEF IInv, Types, Enqueue
<1>8. InFlightCounts'
  BY <1>2, <1>6, WorkersAreFinite DEF IInv, InFlightCounts, Enqueue
<1>9. InOrder'
  <2>1. Started' = Started /\ Started \in Nat /\ submitted \in Nat
    BY <1>5, <1>6 DEF Started, IInv, InOrder, Types
  <2>2. submitted + 1 = Started + Len(tasks')
    BY <1>6, <2>1 DEF Started
  <2>3. \A k \in 1..Len(tasks') : tasks'[k] = Started + k
    <3>1. \A k \in 1..Len(tasks) : tasks[k] = Started + k
      BY DEF IInv, InOrder
    <3>2. \A k \in 1..(Len(tasks) + 1) : k \in 1..Len(tasks) \/ k = Len(tasks) + 1
      BY <1>6
    <3> QED
      BY <1>6, <2>2, <3>1, <3>2
  <2>4. finished' = finished
    BY DEF Enqueue
  <2> QED
    BY <1>2, <1>3, <2>1, <2>3, <2>4 DEF IInv, InOrder
<1>10. Ending'
  BY <1>1, <1>4 DEF IInv, Ending, Enqueue
<1> QED
  BY <1>7, <1>8, <1>9, <1>10 DEF IInv

LEMMA TakeStep == ASSUME IInv, NEW w \in DOMAIN workers, Take(w) PROVE IInv'
<1>1. PICK at \in {"notify", "run"} :
        workers' = [workers EXCEPT ![w] = [at |-> at, task |-> Head(tasks)]]
  BY DEF Take
<1>2. /\ tasks \in Seq(Nat) /\ tasks # <<>> /\ tasks' = Tail(tasks)
      /\ workers \in [DOMAIN workers -> WorkerState] /\ workers[w].at = "ready"
  BY DEF IInv, Types, Take, WorkerIs
<1>3. /\ tasks' \in Seq(Nat) /\ Len(tasks') = Len(tasks) - 1 /\ Len(tasks) >= 1
      /\ Len(tasks) \in Nat /\ Head(tasks) = tasks[1] /\ Head(tasks) \in Nat
      /\ \A k \in 1..Len(tasks') : tasks'[k] = tasks[k + 1]
  BY <1>2
<1>4. /\ DOMAIN workers' = DOMAIN workers
      /\ workers'[w] = [at |-> at, task |-> tasks[1]]
      /\ \A v \in DOMAIN workers : v # w => workers'[v] = workers[v]
      /\ workers' \in [DOMAIN workers -> WorkerState]
  BY <1>1, <1>2, <1>3 DEF WorkerState, WorkerAt
<1>5. Busy' = Busy \cup {w} /\ w \notin Busy
  BY <1>2, <1>4 DEF Busy
<1>6. Held' = Held \cup {tasks[1]}
  <2>1. \A v \in Busy : v # w /\ workers'[v] = workers[v]
    BY <1>4, <1>5 DEF Busy
  <2>2. workers'[w].task = tasks[1] /\ workers'[w].at # "ran"
    BY <1>4
  <2>3. {v \in Busy' : workers'[v].at # "ran"} = {v \in Busy : workers[v].at # "ran"} \cup {w}
    BY <1>5, <2>1, <2>2
  <2> QED
    BY <2>1, <2>2, <2>3 DEF Held
<1>7. UNCHANGED <<max_queue_size, pool_size, stop, in_flight, client, destroyer,
                  submitted, finished>>
  BY DEF Take
<1>8. Types'
  BY <1>3, <1>4, <1>7 DEF IInv, Types
<1>9. InFlightCounts'
  <2>1. Cardinality(Busy') = Cardinality(Busy) + 1 /\ Cardinality(Busy) \in Nat
    BY <1>5, WorkersAreFinite, FS_AddElement DEF IInv
  <2> QED
    BY <2>1, <1>3, <1>7 DEF IInv, InFlightCounts
<1>10. InOrder'
  <2>0. 1 \in 1..Len(tasks) /\ \A k \in 1..Len(tasks) : tasks[k] = Started + k
    BY <1>3 DEF IInv, InOrder
  <2>1. Started \in Nat /\ submitted \in Nat /\ tasks[1] = Started + 1
    BY <2>0 DEF IInv, InOrder, Types
  <2>2. Started' = Started + 1
    BY <2>1, <1>3, <1>7 DEF Started
  <2>3. \A k \in 1..Len(tasks') : tasks'[k] = Started' + k
    BY <1>3, <2>1, <2>2 DEF IInv, InOrder
  <2>4. finished' \cup Held' = 1..Started'
    BY <1>6, <1>7, <2>1, <2>2 DEF IInv, InOrder
  <2>5. tasks[1] \notin finished \cup Held
    BY <2>1 DEF IInv, InOrder
  <2>6. finished' \cap Held' = {}
    BY <1>6, <1>7, <2>5 DEF IInv, InOrder
  <2>7. \A v \in Busy' : workers'[v].at = "ran" => workers'[v].task \in finished'
    <3>1. workers'[w].at # "ran"
      BY <1>4
    <3>2. \A v \in Busy : v # w /\ workers'[v] = workers[v]
      BY <1>4, <1>5 DEF Busy
    <3> QED
      BY <1>5, <1>7, <3>1, <3>2 DEF IInv, InOrder
  <2>8. \A v \in Busy : workers[v].task \in finished \cup Held
    BY DEF IInv, InOrder, Held
  <2>9. \A u, v \in Busy' : u # v => workers'[u].task # workers'[v].task
    BY <1>4, <1>5, <2>5, <2>8 DEF IInv, InOrder, Busy
  <2> QED
    BY <2>1, <2>2, <2>3, <2>4, <2>6, <2>7, <2>9 DEF InOrder
<1>11. Ending'
  BY <1>4, <1>7 DEF IInv, Ending
<1> QED
  BY <1>8, <1>9, <1>10, <1>11 DEF IInv

LEMMA RunStep == ASSUME IInv, NEW w \in DOMAIN workers, Run(w) PROVE IInv'
<1>1. /\ DOMAIN workers' = DOMAIN workers
      /\ workers'[w] = [at |-> "ran", task |-> workers[w].task]
      /\ \A v \in DOMAIN workers : v # w => workers'[v] = workers[v]
      /\ workers' \in [DOMAIN workers -> WorkerState]
      /\ workers[w].at = "run" /\ workers[w].task \in Nat
  BY DEF Run, IInv, Types, WorkerIs, WorkerState, WorkerAt
<1>2. Busy' = Busy /\ w \in Busy
  BY <1>1 DEF Busy
<1>3. workers[w].task \in Held
  BY <1>1, <1>2 DEF Held
<1>4. Held' = Held \ {workers[w].task}
  <2>1. Held' = {workers[v].task : v \in {u \in Busy : u # w /\ workers[u].at # "ran"}}
    BY <1>1, <1>2 DEF Held, Busy
  <2>2. \A v \in Busy : v # w => workers[v].task # workers[w].task
    BY <1>2 DEF IInv, InOrder
  <2> QED
    BY <2>1, <2>2, <1>1 DEF Held
<1>5. finished' = finished \cup {workers[w].task}
      /\ UNCHANGED <<tasks, max_queue_size, pool_size, stop, in_flight, client, destroyer,
                     submitted>>
  BY DEF Run, queueVars
<1>6. Types'
  BY <1>1, <1>5 DEF IInv, Types
<1>7. InFlightCounts'
  BY <1>2, <1>5 DEF IInv, InFlightCounts
<1>8. InOrder'
  <2>1. finished' \cup Held' = 1..Started' /\ finished' \cap Held' = {}
    BY <1>3, <1>4, <1>5 DEF IInv, InOrder, Started
  <2>2. \A v \in Busy' : workers'[v].at = "ran" => workers'[v].task \in finished'
    BY <1>1, <1>2, <1>5 DEF IInv, InOrder, Busy
  <2>3. \A u, v \in Busy' : u # v => workers'[u].task # workers'[v].task
    BY <1>1, <1>2 DEF IInv, InOrder, Busy
  <2> QED
    BY <1>5, <2>1, <2>2, <2>3 DEF IInv, InOrder, Started
<1>9. Ending'
  BY <1>1, <1>5 DEF IInv, Ending
<1> QED
  BY <1>6, <1>7, <1>8, <1>9 DEF IInv

LEMMA DecrementStep == ASSUME IInv, NEW w \in DOMAIN workers, Decrement(w) PROVE IInv'
<1>1. PICK r \in {[at |-> "inform", task |-> 0], Ready} : workers' = [workers EXCEPT ![w] = r]
  BY DEF Decrement
<1>2. /\ DOMAIN workers' = DOMAIN workers
      /\ workers'[w] = r /\ r.at \in {"inform", "ready"}
      /\ \A v \in DOMAIN workers : v # w => workers'[v] = workers[v]
      /\ workers' \in [DOMAIN workers -> WorkerState]
      /\ workers[w].at = "ran"
  BY <1>1 DEF Decrement, IInv, Types, WorkerIs, WorkerState, WorkerAt, Ready
<1>3. Busy' = Busy \ {w} /\ w \in Busy
  BY <1>2 DEF Busy
<1>4. Held' = Held
  BY <1>2, <1>3 DEF Held, Busy
<1>5. in_flight' = in_flight - 1
      /\ UNCHANGED <<tasks, max_queue_size, pool_size, stop, client, destroyer,
                     submitted, finished>>
  BY DEF Decrement, queueVars
<1>6. Types'
  BY <1>2, <1>5 DEF IInv, Types
<1>7. InFlightCounts'
  <2>1. Cardinality(Busy') = Cardinality(Busy) - 1 /\ Cardinality(Busy) \in Nat
    BY <1>3, WorkersAreFinite, FS_RemoveElement DEF IInv
  <2>2. Len(tasks) \in Nat
    BY DEF IInv, Types
  <2> QED
    BY <2>1, <2>2, <1>5 DEF IInv, InFlightCounts
<1>8. InOrder'
  BY <1>2, <1>3, <1>4, <1>5 DEF IInv, InOrder, Started, Busy
<1>9. Ending'
  BY <1>2, <1>5 DEF IInv, Ending
<1> QED
  BY <1>6, <1>7, <1>8, <1>9 DEF IInv

-----------------------------------------------------------------------------
LEMMA DestroyStep == ASSUME IInv, Destroy PROVE IInv'
<1>1. /\ workers' = Woken(workers) /\ workers \in [DOMAIN workers -> WorkerState]
      /\ UNCHANGED <<tasks, max_queue_size, in_flight, client, submitted, finished>>
      /\ stop' = TRUE /\ pool_size' = 0 /\ destroyer' = "ready"
      /\ \A c \in Clients : client[c] = Idle
      /\ DOMAIN workers # {}
  BY DEF Destroy, IInv, Types, Ending
<1>2. /\ workers' \in [DOMAIN workers -> WorkerState]
      /\ \A w \in DOMAIN workers :
           /\ workers'[w].at \in {"notify", "run", "ran"}
                <=> workers[w].at \in {"notify", "run", "ran"}
           /\ workers[w].at # "blocked" => workers'[w] = workers[w]
  BY <1>1, WokenType
<1>3. DOMAIN workers' = DOMAIN workers
  BY <1>2
<1>4. Keeps
  BY <1>2, <1>3 DEF Keeps, Busy
<1>5. InFlightCounts' /\ InOrder'
  BY <1>1, <1>4, HandsUnchanged DEF IInv
<1>6. Types'
  BY <1>1, <1>2, <1>3 DEF IInv, Types
<1>7. Ending'
  BY <1>1, <1>3 DEF Ending
<1> QED
  BY <1>5, <1>6, <1>7 DEF IInv

LEMMA AwaitWorkersStep == ASSUME IInv, AwaitWorkers PROVE IInv'
<1>1. Keeps
  BY DEF Keeps, Busy, AwaitWorkers
<1>2. UNCHANGED <<tasks, max_queue_size, pool_size, stop, submitted, workers, in_flight,
                  client, finished>>
  BY DEF AwaitWorkers, queueVars
<1>3. InFlightCounts' /\ InOrder'
  BY <1>1, <1>2, HandsUnchanged DEF IInv
<1>4. Types'
  BY <1>2 DEF AwaitWorkers, IInv, Types
<1>5. Ending'
  BY <1>2 DEF AwaitWorkers, IInv, Ending
<1> QED
  BY <1>3, <1>4, <1>5 DEF IInv

LEMMA NextIInv == IInv /\ [Next]_vars => IInv'
<1> SUFFICES ASSUME IInv, [Next]_vars PROVE IInv'
  OBVIOUS
<1>1. CASE UNCHANGED vars
  <2>1. UNCHANGED <<tasks, max_queue_size, pool_size, stop, submitted, workers, in_flight,
                    client, destroyer, finished>>
    BY <1>1 DEF vars, queueVars
  <2>2. Keeps
    BY <2>1 DEF Keeps, Busy
  <2>3. InFlightCounts' /\ InOrder'
    BY <2>1, <2>2, HandsUnchanged DEF IInv
  <2>4. Types'
    BY <2>1 DEF IInv, Types
  <2>5. Ending'
    BY <2>1 DEF IInv, Ending
  <2> QED
    BY <2>3, <2>4, <2>5 DEF IInv
<1>2. ASSUME NEW w \in DOMAIN workers, WorkerStep(w) PROVE IInv'
  BY <1>2, WaitStep, LeaveStep, TakeStep, NotifyProducersStep, RunStep, DecrementStep,
     InformStep DEF WorkerStep
<1>3. ASSUME NEW c \in Clients, ClientStep(c) PROVE IInv'
  BY <1>3, EnqueueStep, EnqueueWaitsStep, EndOfWaitStep
     DEF ClientStep, WaitUntilEmpty, WaitUntilNothingInFlight
<1>4. ASSUME NEW c \in Clients,
             \/ BeginEnqueue(c) \/ BeginWait(c, "wait_until_empty")
             \/ BeginWait(c, "wait_until_nothing_in_flight")
             \/ SetQueueSizeLimit(c) \/ SetPoolSize(c)
      PROVE  IInv'
  BY <1>4, BeginEnqueueStep, BeginWaitStep, SetQueueSizeLimitStep, SetPoolSizeStep
<1>5. CASE Destroy
  BY <1>5, DestroyStep
<1>6. CASE AwaitWorkers
  BY <1>6, AwaitWorkersStep
<1> QED
  BY <1>1, <1>2, <1>3, <1>4, <1>5, <1>6 DEF Next

THEOREM Invariance == Spec => []IInv
BY InitIInv, NextIInv, PTL DEF Spec

-----------------------------------------------------------------------------
(* in_flight is the number of tasks in the queue and in hand, so it is     *)
(* never negative, and the variables keep their types.                     *)
THEOREM InFlightIsCounted == Spec => [](TypeOK /\ InFlightCounts)
<1>1. IInv => TypeOK /\ InFlightCounts
  <2> SUFFICES ASSUME IInv PROVE TypeOK
    BY DEF IInv
  <2>1. DOMAIN workers = 0..(Size - 1) /\ Cardinality(Busy) \in Nat
    BY WorkersAreFinite DEF IInv
  <2>2. in_flight \in Nat
    BY <2>1 DEF IInv, InFlightCounts, Types
  <2> QED
    BY <2>1, <2>2 DEF IInv, Types, TypeOK, WorkerState, WorkerAt, ClientState
<1> QED
  BY <1>1, Invariance, PTL

(* No task is lost, run twice or run by two workers. *)
THEOREM Conservation == Spec => []TasksAreConserved
<1>1. IInv => TasksAreConserved
  <2> SUFFICES ASSUME IInv PROVE TasksAreConserved
    OBVIOUS
  <2>1. /\ tasks \in Seq(Nat) /\ DOMAIN tasks = 1..Len(tasks) /\ Len(tasks) \in Nat
        /\ Started \in Nat /\ submitted \in Nat /\ submitted = Started + Len(tasks)
        /\ \A k \in 1..Len(tasks) : tasks[k] = Started + k
    BY DEF IInv, Types, InOrder, Started
  <2>2. Queued = (Started + 1)..submitted
    <3>1. \A n \in (Started + 1)..submitted :
            n - Started \in DOMAIN tasks /\ tasks[n - Started] = n
      BY <2>1
    <3>2. \A k \in DOMAIN tasks : tasks[k] \in (Started + 1)..submitted
      BY <2>1
    <3> QED
      BY <3>1, <3>2 DEF Queued
  <2>3. finished \cup Held = 1..Started /\ finished \cap Held = {}
    BY DEF IInv, InOrder
  <2>4. finished \cup Queued \cup Held = 1..submitted
    BY <2>1, <2>2, <2>3
  <2>5. finished \cap Queued = {} /\ Queued \cap Held = {}
    BY <2>1, <2>2, <2>3
  <2>6. \A j, k \in DOMAIN tasks : j # k => tasks[j] # tasks[k]
    BY <2>1
  <2> QED
    BY <2>3, <2>4, <2>5, <2>6 DEF IInv, InOrder, TasksAreConserved
<1> QED
  BY <1>1, Invariance, PTL

(* No task is queued or in hand: everything submitted is finished. *)
LEMMA NothingLeft ==
  ASSUME IInv, tasks = <<>>, Busy = {}
  PROVE  finished = 1..submitted
<1>1. Held = {}
  BY DEF Held
<1>2. Started = submitted
  BY DEF Started, IInv, Types
<1> QED
  BY <1>1, <1>2 DEF IInv, InOrder

(* The assertion of the destructor holds, and it has drained the queue. *)
THEOREM DestructorAssertion == Spec => []DestructorDrains
<1>1. IInv => DestructorDrains
  <2> SUFFICES ASSUME IInv, destroyer = "done"
               PROVE  in_flight = 0 /\ tasks = <<>> /\ finished = 1..submitted
    BY DEF DestructorDrains
  <2>1. tasks = <<>> /\ Busy = {}
    BY DEF IInv, Ending, Busy
  <2>2. in_flight = 0
    BY <2>1, FS_EmptySet DEF IInv, InFlightCounts
  <2> QED
    BY <2>1, <2>2, NothingLeft
<1> QED
  BY <1>1, Invariance, PTL

(* Waking other producers keeps every client in the call that it is in. *)
LEMMA OthersForIsClients ==
  ASSUME client \in [Clients -> ClientState], NEW d \in Clients
  PROVE  /\ OthersFor(d) \in [Clients -> ClientState]
         /\ \A c \in Clients : OthersFor(d)[c].op = client[c].op
BY DEF OthersFor, ClientsWoken, ClientState, Producers

(* When wait_until_nothing_in_flight returns, all tasks have run. *)
THEOREM WaitReturnsFinished == Spec => WaitMeansFinished
<1>1. IInv /\ [Next]_vars => [NothingInFlightReturns]_vars
  <2> SUFFICES ASSUME IInv, Next, NEW c \in Clients,
                      client[c].op = "wait_until_nothing_in_flight", client'[c] = Idle
               PROVE  finished = 1..submitted
    BY DEF NothingInFlightReturns
  <2>1. client[c] # client'[c]
    BY DEF Idle
  <2>2. in_flight = 0
    <3>0. client \in [Clients -> ClientState]
      BY DEF IInv, Types
    <3>1. ASSUME NEW d \in Clients, Enqueue(d) \/ EnqueueWaits(d) PROVE FALSE
      <4>1. d # c
        BY <3>1 DEF Enqueue, EnqueueWaits
      <4>2. client'[c] = OthersFor(d)[c]
        BY <3>0, <3>1, <4>1, OthersForIsClients DEF Enqueue, EnqueueWaits
      <4>3. OthersFor(d)[c] \in ClientState /\ OthersFor(d)[c].op = client[c].op
        BY <3>0, OthersForIsClients
      <4> QED
        BY <4>2, <4>3 DEF Idle
    <3>2. ASSUME NEW d \in Clients, WaitUntilNothingInFlight(d) PROVE in_flight = 0
      BY <3>0, <3>2, <2>1 DEF WaitUntilNothingInFlight, EndOfWait, ClientIs, Idle
    <3>3. ASSUME NEW d \in Clients, WaitUntilEmpty(d) PROVE FALSE
      <4>1. d # c
        BY <3>3 DEF WaitUntilEmpty, EndOfWait, ClientIs
      <4> QED
        BY <3>0, <3>3, <2>1, <4>1 DEF WaitUntilEmpty, EndOfWait, ClientIs, Idle
    <3>4. ASSUME NEW d \in Clients, NEW op, BeginWait(d, op) PROVE FALSE
      BY <3>0, <3>4, <2>1 DEF BeginWait, CanCall, Idle
    <3>5. ASSUME NEW d \in Clients,
                 BeginEnqueue(d) \/ SetQueueSizeLimit(d) \/ SetPoolSize(d)
          PROVE  FALSE
      BY <3>0, <3>5, <2>1
         DEF BeginEnqueue, SetQueueSizeLimit, SetPoolSize, CanCall, ClientsWoken, Idle
    <3>6. ASSUME NEW w \in DOMAIN workers, WorkerStep(w) PROVE FALSE
      BY <3>0, <3>6, <2>1
         DEF WorkerStep, Wait, Leave, Take, NotifyProducers, Run, Decrement, Inform,
             ClientsWoken, Idle, queueVars
    <3>7. ~Destroy /\ ~AwaitWorkers
      BY <2>1 DEF Destroy, AwaitWorkers
    <3> QED
      BY <3>1, <3>2, <3>3, <3>4, <3>5, <3>6, <3>7 DEF Next, ClientStep
  <2>3. Len(tasks) = 0 /\ Cardinality(Busy) = 0
    BY <2>2, WorkersAreFinite DEF IInv, InFlightCounts, Types
  <2>4. tasks = <<>> /\ Busy = {}
    BY <2>3, WorkersAreFinite, FS_EmptySet DEF IInv, Types
  <2> QED
    BY <2>4, NothingLeft
<1> QED
  BY <1>1, Invariance, PTL DEF Spec, WaitMeansFinished
=============================================================================
