-------------------------- MODULE OZKSSimple_proofs -------------------------
(***************************************************************************)
(* What OZKSSimple promises for any instances, storages, keys, payloads,   *)
(* numbers of threads and ways of using the instances.                     *)
(*                                                                         *)
(* A trie takes the insertions of a flush when each of its threads has     *)
(* saved the element of each of them.  The elements of an id are always in *)
(* the same store, that of the instance constructed with it, so they are   *)
(* there for every instance of the trie.  Without clear, what an element   *)
(* store lacks the trie lacks too, so that the trie takes what the tasks   *)
(* labelled, and what is stored of it only grows.                          *)
(***************************************************************************)
EXTENDS OZKSSimple, WellFoundedInduction, TLAPS

Entry == [key : Keys, payload : Payloads]
InstanceState == [id : Ids, store : Stores]
TrieState == [store : AllStores, epoch : Nat, dict : SUBSET (Keys \X Payloads \X Nat)]
Elements == [AllStores -> [Ids -> [Keys -> Payloads \cup {None}]]]

Dict(i) == TrieFor(i).dict

Types ==
  /\ use \in Uses
  /\ instance \in [Instances -> InstanceState \cup {None}]
  /\ made \subseteq InstanceState
  /\ config \in AllStores
  /\ tries \in [Ids -> TrieState \cup {None}]
  /\ elementsIn \in Elements /\ elementsKept \in Elements
  /\ pending \in [Instances -> Seq(Entry)]
  /\ \A x \in Instances : Len(pending[x]) <= MaxPending
  /\ restarts \in Nat

(* The flush that runs; what its tasks have labelled without failing has   *)
(* its element.                                                            *)
Calling ==
  \/ call = NoCall
  \/ /\ DOMAIN call = {"of", "failed", "labelled", "left"}
     /\ call.of \in Open
     /\ call.labelled \subseteq DOMAIN pending[call.of]
     /\ call.left = [i \in DOMAIN call.left |-> call.left[i]]
     /\ \A i \in DOMAIN call.left : call.left[i] \subseteq DOMAIN pending[call.of]
     /\ call.failed = {} =>
          \A j \in call.labelled :
            ElementOf(call.of, pending[call.of][j].key) = pending[call.of][j].payload

(* An id belongs to the storage that its instance was constructed with.    *)
Owned ==
  /\ \A x \in Open : instance[x] \in made
  /\ \A f, g \in made : f.id = g.id => f = g
  /\ \A i \in Ids : tries[i] # None => \E f \in made : f.id = i

Backed ==
  ~use.clear =>
    \A f \in made : \A e \in Dict(f.id) : elementsIn[f.store][f.id][e[1]] = e[2]

(* What holds besides for callers who insert no key twice: no two          *)
(* insertions are of one key,                                              *)
Distinct ==
  \A x, y \in Instances : \A j \in DOMAIN pending[x], l \in DOMAIN pending[y] :
    pending[x][j].key = pending[y][l].key => x = y /\ j = l
(* none is of a key of a trie,                                             *)
NotInTrie ==
  \A x \in Instances : \A j \in DOMAIN pending[x] :
    \A i \in Ids : \A e \in Dict(i) : e[1] # pending[x][j].key
(* or has an element before its task gets to it;                           *)
Labelled(x, j) == ~Idle /\ call.of = x /\ j \in call.labelled
NotStored ==
  \A x \in Instances : \A j \in DOMAIN pending[x] :
    ~Labelled(x, j) =>
      \A s \in AllStores, i \in Ids : elementsIn[s][i][pending[x][j].key] = None
(* the tasks share no insertion and do not fail,                           *)
TasksApart ==
  ~Idle =>
    /\ call.failed = {}
    /\ \A i \in DOMAIN call.left :
         /\ call.left[i] \cap call.labelled = {}
         /\ \A l \in DOMAIN call.left : i # l => call.left[i] \cap call.left[l] = {}
(* and an element is that of a key of its trie, or of the flush that runs. *)
HasPlace ==
  \A s \in AllStores, i \in Ids, k \in Keys :
    elementsIn[s][i][k] # None =>
      \/ \E e \in Dict(i) : e[1] = k
      \/ ~Idle /\ IdOf(call.of) = i /\ \E j \in call.labelled : pending[call.of][j].key = k

UseOnce == use.once /\ ~use.clear /\ restarts = 0
OnlyOnce == UseOnce => Distinct /\ NotInTrie /\ NotStored /\ TasksApart /\ HasPlace

IInv == Types /\ Calling /\ Owned /\ Backed /\ OnlyOnce

-----------------------------------------------------------------------------
(* A thread takes the first of the insertions it has left.                 *)
LEMMA LeastOf ==
  ASSUME NEW S \in SUBSET Nat, S # {}
  PROVE  \E m \in S : \A n \in S : m <= n
<1> DEFINE R == OpToRel(<, Nat)
<1>1. IsWellFoundedOn(R, Nat)
  BY NatLessThanWellFounded
<1>2. R = {p \in Nat \X Nat : p[1] < p[2]}
  BY DEF OpToRel
<1> HIDE DEF R
<1>3. PICK m \in S : \A n \in S : ~(<<n, m>> \in R)
  BY <1>1, WFMin
<1>4. \A n \in S : ~(n < m)
  BY <1>2, <1>3
<1> QED
  BY <1>4

LEMMA NextInFact ==
  ASSUME NEW S \in SUBSET Nat, S # {}
  PROVE  NextIn(S) \in S
BY LeastOf DEF NextIn

(* No insertion is in two chunks. *)
LEMMA ChunksApart ==
  ASSUME NEW n \in Nat \ {0}, NEW i \in Nat, NEW l \in Nat, i # l
  PROVE  Chunk(i, n) \cap Chunk(l, n) = {} /\ Chunk(i, n) \subseteq 1..n
<1> DEFINE size == (n + ThreadsFor(n) - 1) \div ThreadsFor(n)
<1>1. ThreadsFor(n) \in Nat \ {0}
  BY LimitAssumption DEF ThreadsFor
<1>2. size \in Nat
  BY <1>1
<1> HIDE DEF size
<1>3. ASSUME NEW a \in Nat, NEW b \in Nat, a < b
      PROVE  (a + 1) * size <= b * size
  BY <1>2, <1>3
<1>4. ASSUME NEW a \in Nat, NEW b \in Nat, a < b, NEW j \in 1..n
      PROVE  ~(a * size < j /\ j <= (a + 1) * size /\ b * size < j /\ j <= (b + 1) * size)
  <2>1. (a + 1) * size \in Nat /\ b * size \in Nat
    BY <1>2
  <2> HIDE DEF size
  <2> QED
    BY <1>3, <1>4, <2>1
<1> QED
  BY <1>4 DEF Chunk, size

LEMMA NoneFact ==
  /\ None \notin Payloads /\ None \notin Instances
  /\ None \notin InstanceState /\ None \notin TrieState
BY NoneAssumption DEF InstanceState, TrieState

LEMMA OpenFact ==
  ASSUME Types, NEW x \in Open
  PROVE  /\ x \in Instances /\ instance[x] \in InstanceState
         /\ IdOf(x) \in Ids /\ StoreOf(x) \in Stores /\ StoreOf(x) \in AllStores
BY DEF Types, Open, InstanceState, IdOf, StoreOf, AllStores

LEMMA PendingFact ==
  ASSUME Types, NEW x \in Instances, NEW j \in DOMAIN pending[x]
  PROVE  /\ pending[x][j] \in Entry /\ j \in 1..MaxPending /\ j \in Nat
         /\ pending[x][j].key \in Keys /\ pending[x][j].payload \in Payloads
<1>1. pending[x] \in Seq(Entry) /\ Len(pending[x]) <= MaxPending
  BY DEF Types
<1>2. pending[x][j] \in Entry
  BY <1>1
<1>3. j \in 1..MaxPending
  BY <1>1, BoundAssumption
<1> QED
  BY <1>2, <1>3 DEF Entry

LEMMA CallingFact ==
  ASSUME Types, Calling, ~Idle
  PROVE  /\ DOMAIN call = {"of", "failed", "labelled", "left"}
         /\ call.of \in Open /\ call.of \in Instances
         /\ call.labelled \subseteq DOMAIN pending[call.of]
         /\ call.left = [i \in DOMAIN call.left |-> call.left[i]]
         /\ \A i \in DOMAIN call.left : call.left[i] \subseteq DOMAIN pending[call.of]
         /\ call.failed = {} =>
              \A j \in call.labelled :
                ElementOf(call.of, pending[call.of][j].key) = pending[call.of][j].payload
BY OpenFact DEF Calling, Idle, NoCall

LEMMA IdleFact ==
  ASSUME Types, Calling, Idle
  PROVE  call = NoCall
BY NoneFact, OpenFact DEF Calling, Idle

LEMMA DictFact ==
  ASSUME Types, NEW i \in Ids
  PROVE  /\ TrieFor(i) \in TrieState
         /\ Dict(i) \subseteq Keys \X Payloads \X Nat
         /\ tries[i] = None => Dict(i) = {}
<1>1. tries[i] # None => tries[i] \in TrieState
  BY DEF Types
<1>2. [store |-> config, epoch |-> 0, dict |-> {}] \in TrieState
  BY DEF Types, TrieState
<1> QED
  BY <1>1, <1>2 DEF TrieFor, Dict, TrieState

(* A trie's keys have elements. *)
LEMMA DictHasElements ==
  ASSUME IInv, ~use.clear, NEW i \in Ids, NEW e \in Dict(i)
  PROVE  /\ e[1] \in Keys
         /\ \E s \in AllStores : elementsIn[s][i][e[1]] # None
<1>1. e[1] \in Keys /\ e[2] \in Payloads /\ tries[i] # None
  BY DictFact DEF IInv
<1>2. PICK f \in made : f.id = i
  BY <1>1 DEF IInv, Owned
<1>3. f.store \in AllStores
  BY DEF IInv, Types, InstanceState, AllStores
<1>4. elementsIn[f.store][i][e[1]] = e[2]
  BY <1>2 DEF IInv, Backed
<1> QED
  BY <1>1, <1>3, <1>4, NoneFact

(* A trie made anew is empty, as its absence is. *)
LEMMA GetTrieFact ==
  ASSUME Types, NEW i \in Ids, GetTrie(i)
  PROVE  /\ tries' \in [Ids -> TrieState \cup {None}]
         /\ tries'[i] # None /\ \A n \in Ids : n # i => tries'[n] = tries[n]
         /\ \A n \in Ids : Dict(n)' = Dict(n)
<1>1. tries' = [tries EXCEPT ![i] = TrieFor(i)]
  BY DEF GetTrie
<1>2. TrieFor(i) \in TrieState /\ TrieFor(i) # None
  BY DictFact, NoneFact
<1>3. tries'[i] = TrieFor(i) /\ \A n \in Ids : n # i => tries'[n] = tries[n]
  BY <1>1 DEF Types
<1>4. tries' \in [Ids -> TrieState \cup {None}]
  BY <1>1, <1>2 DEF Types
<1>5. \A n \in Ids : n # i => Dict(n)' = Dict(n)
  BY <1>3 DEF Dict, TrieFor
<1>6. Dict(i)' = Dict(i)
  BY <1>2, <1>3 DEF Dict, TrieFor
<1> QED
  BY <1>2, <1>3, <1>4, <1>5, <1>6

-----------------------------------------------------------------------------
(* Steps that change neither a trie, an element nor an insertion. *)

LEMMA BackedKept ==
  ASSUME IInv, use' = use, made' = made, elementsIn' = elementsIn,
         \A i \in Ids : Dict(i)' = Dict(i)
  PROVE  Backed'
<1>1. \A f \in made : f.id \in Ids
  BY DEF IInv, Types, InstanceState
<1> QED
  BY <1>1 DEF IInv, Backed

LEMMA OnceKept ==
  ASSUME IInv, UNCHANGED <<use, elementsIn, pending, restarts, call>>,
         \A x \in Open : instance'[x] = instance[x],
         \A i \in Ids : Dict(i)' = Dict(i)
  PROVE  OnlyOnce'
<1> SUFFICES ASSUME UseOnce
             PROVE  (Distinct /\ NotInTrie /\ NotStored /\ TasksApart /\ HasPlace)'
  BY DEF OnlyOnce, UseOnce
<1>1. Distinct /\ NotInTrie /\ NotStored /\ TasksApart /\ HasPlace
  BY DEF IInv, OnlyOnce
<1>2. Distinct' /\ NotInTrie' /\ NotStored' /\ TasksApart'
  BY <1>1 DEF Distinct, NotInTrie, NotStored, TasksApart, Labelled, Idle
<1>3. ~Idle => IdOf(call.of)' = IdOf(call.of)
  BY CallingFact DEF IInv, IdOf
<1>4. HasPlace'
  BY <1>1, <1>3 DEF HasPlace, Idle
<1> QED
  BY <1>2, <1>4

LEMMA CallingKept ==
  ASSUME IInv, UNCHANGED <<elementsIn, pending, call>>,
         \A x \in Open : instance'[x] = instance[x]
  PROVE  Calling'
<1>1. CASE Idle
  BY <1>1, IdleFact DEF IInv, Calling
<1>2. CASE ~Idle
  <2>1. call.of \in Open'
    BY <1>2, CallingFact, OpenFact DEF IInv, Open
  <2>2. \A k : ElementOf(call.of, k)' = ElementOf(call.of, k)
    BY <1>2, CallingFact DEF IInv, ElementOf, StoreOf, IdOf
  <2> QED
    BY <1>2, <2>1, <2>2, CallingFact DEF IInv, Calling
<1> QED
  BY <1>1, <1>2

LEMMA InitInv == Init => IInv
<1> SUFFICES ASSUME Init PROVE IInv
  OBVIOUS
<1>1. Types
  <2>1. NoElements \in [Keys -> Payloads \cup {None}]
    BY DEF NoElements
  <2>2. elementsIn \in Elements /\ elementsKept \in Elements
    BY <2>1 DEF Init, Elements
  <2>3. pending \in [Instances -> Seq(Entry)] /\ \A x \in Instances : Len(pending[x]) <= MaxPending
    BY BoundAssumption DEF Init
  <2> QED
    BY <2>2, <2>3 DEF Types, Init, AllStores
<1>2. Calling /\ Idle
  BY DEF Init, Calling, Idle, NoCall
<1>3. \A i \in Ids : tries[i] = None /\ Dict(i) = {}
  BY DEF Init, Dict, TrieFor
<1>4. \A s \in AllStores, i \in Ids, k \in Keys : elementsIn[s][i][k] = None
  BY DEF Init, NoElements
<1>5. Owned /\ Backed
  BY <1>3 DEF Init, Owned, Backed, Open
<1>6. OnlyOnce
  BY <1>2, <1>3, <1>4 DEF Init, OnlyOnce, Distinct, NotInTrie, NotStored, TasksApart, HasPlace
<1> QED
  BY <1>1, <1>2, <1>5, <1>6 DEF IInv

(* A new instance's id has no trie yet. *)
LEMMA ConstructInv ==
  ASSUME IInv, NEW x \in Instances, NEW s \in Stores, Construct(x, s)
  PROVE  IInv'
<1> DEFINE f == [id |-> x, store |-> s]
<1>1. /\ instance[x] = None /\ \A g \in made : g.id # x
      /\ instance' = [instance EXCEPT ![x] = f] /\ made' = made \cup {f} /\ config' = s
      /\ UNCHANGED <<use, tries, elementsIn, elementsKept, pending, call, restarts>>
  BY DEF Construct, stored
<1>2. f \in InstanceState /\ f.id = x /\ f # None
  BY NoneFact DEF InstanceState, Ids
<1> HIDE DEF f
<1>3. Types'
  <2>1. instance' \in [Instances -> InstanceState \cup {None}] /\ made' \subseteq InstanceState
    BY <1>1, <1>2 DEF IInv, Types
  <2> QED
    BY <1>1, <2>1 DEF IInv, Types, AllStores
<1>4. /\ instance'[x] = f /\ \A y \in Instances : y # x => instance'[y] = instance[y]
      /\ \A y \in Open : y # x
  BY <1>1 DEF IInv, Types, Open
<1>5. \A y \in Open : instance'[y] = instance[y]
  BY <1>4 DEF Open
<1>6. Calling'
  BY <1>1, <1>5, CallingKept
<1>7. Owned'
  <2>1. Open' = Open \cup {x}
    BY <1>2, <1>4 DEF Open
  <2> QED
    BY <1>1, <1>2, <1>4, <2>1 DEF IInv, Owned
<1>8. \A i \in Ids : Dict(i)' = Dict(i)
  <2>1. \A i \in Ids : Dict(i)' = IF tries[i] # None THEN tries[i].dict ELSE {}
    BY <1>1 DEF Dict, TrieFor
  <2> QED
    BY <2>1 DEF Dict, TrieFor
<1>9. Backed'
  <2>1. Dict(x) = {}
    BY <1>1, DictFact DEF IInv, Owned, Ids
  <2>2. \A g \in made : g.id \in Ids
    BY DEF IInv, Types, InstanceState
  <2> QED
    BY <1>1, <1>2, <1>8, <2>1, <2>2 DEF IInv, Backed, Ids
<1>10. OnlyOnce'
  BY <1>1, <1>5, <1>8, OnceKept
<1> QED
  BY <1>3, <1>6, <1>7, <1>9, <1>10 DEF IInv

LEMMA LoadInv ==
  ASSUME IInv, NEW x \in Instances, NEW f \in made, Load(x, f)
  PROVE  IInv'
<1>1. /\ instance[x] = None /\ instance' = [instance EXCEPT ![x] = f] /\ config' = Scratch
      /\ UNCHANGED <<use, made, tries, elementsIn, elementsKept, pending, call, restarts>>
  BY DEF Load, stored
<1>2. f \in InstanceState /\ f # None
  BY NoneFact DEF IInv, Types
<1>3. Types'
  <2>1. instance' \in [Instances -> InstanceState \cup {None}]
    BY <1>1, <1>2 DEF IInv, Types
  <2> QED
    BY <1>1, <2>1 DEF IInv, Types, AllStores
<1>4. instance'[x] = f /\ \A y \in Instances : y # x => instance'[y] = instance[y]
  BY <1>1 DEF IInv, Types
<1>5. \A y \in Open : instance'[y] = instance[y]
  BY <1>1, <1>4 DEF Open
<1>6. Calling'
  BY <1>1, <1>5, CallingKept
<1>7. Owned'
  <2>1. Open' = Open \cup {x}
    BY <1>2, <1>4 DEF Open
  <2> QED
    BY <1>1, <1>4, <2>1 DEF IInv, Owned, Open
<1>8. \A i \in Ids : Dict(i)' = Dict(i)
  <2>1. \A i \in Ids : Dict(i)' = IF tries[i] # None THEN tries[i].dict ELSE {}
    BY <1>1 DEF Dict, TrieFor
  <2> QED
    BY <2>1 DEF Dict, TrieFor
<1>9. Backed' /\ OnlyOnce'
  BY <1>1, <1>5, <1>8, BackedKept, OnceKept
<1> QED
  BY <1>3, <1>6, <1>7, <1>9 DEF IInv

(* Questions and check_for_update make the trie if need be. *)
LEMMA MadeTrieInv ==
  ASSUME IInv, NEW x \in Open, GetTrie(IdOf(x)),
         UNCHANGED <<use, instance, made, config, elementsIn, elementsKept, pending, call,
                     restarts>>
  PROVE  IInv'
<1>1. IdOf(x) \in Ids /\ instance[x] \in made /\ instance[x].id = IdOf(x)
  BY OpenFact DEF IInv, Owned, IdOf
<1>2. /\ tries' \in [Ids -> TrieState \cup {None}]
      /\ \A n \in Ids : n # IdOf(x) => tries'[n] = tries[n]
      /\ \A n \in Ids : Dict(n)' = Dict(n)
  BY <1>1, GetTrieFact DEF IInv
<1>3. Types'
  BY <1>2 DEF IInv, Types
<1>4. Calling'
  BY CallingKept
<1>5. Owned'
  BY <1>1, <1>2 DEF IInv, Owned, Open
<1>6. Backed' /\ OnlyOnce'
  BY <1>2, BackedKept, OnceKept
<1> QED
  BY <1>3, <1>4, <1>5, <1>6 DEF IInv

LEMMA InsertInv ==
  ASSUME IInv, NEW x \in Instances, NEW k \in Keys, NEW p \in Payloads, Insert(x, k, p)
  PROVE  IInv'
<1> DEFINE e == [key |-> k, payload |-> p]
           q == pending[x]
<1>1. /\ Idle /\ Len(q) < use.pending /\ pending' = [pending EXCEPT ![x] = Append(q, e)]
      /\ use.once => ~Inserted(k)
      /\ UNCHANGED <<use, instance, made, config, tries, elementsIn, elementsKept, call, restarts>>
  BY DEF Insert, stored
<1>2. e \in Entry /\ e.key = k /\ q \in Seq(Entry)
  BY DEF Entry, IInv, Types
<1> HIDE DEF e, q
<1>3. /\ Append(q, e) \in Seq(Entry) /\ Len(Append(q, e)) = Len(q) + 1
      /\ DOMAIN Append(q, e) = DOMAIN q \cup {Len(q) + 1} /\ Len(q) + 1 \notin DOMAIN q
      /\ Append(q, e)[Len(q) + 1] = e /\ \A j \in DOMAIN q : Append(q, e)[j] = q[j]
  BY <1>2
<1>4. /\ pending'[x] = Append(q, e) /\ pending[x] = q
      /\ \A y \in Instances : y # x => pending'[y] = pending[y]
  BY <1>1 DEF IInv, Types, q
<1>5. Types'
  <2>1. pending' \in [Instances -> Seq(Entry)]
    BY <1>1, <1>3 DEF IInv, Types
  <2>2. use.pending <= MaxPending /\ use.pending \in Nat /\ Len(q) \in Nat
    BY <1>2, UsesAssumption, BoundAssumption DEF IInv, Types
  <2>3. \A y \in Instances : Len(pending'[y]) <= MaxPending
    <3>1. Len(pending'[x]) <= MaxPending
      BY <1>1, <1>3, <1>4, <2>2, BoundAssumption
    <3> QED
      BY <1>4, <3>1 DEF IInv, Types
  <2> QED
    BY <1>1, <2>1, <2>3 DEF IInv, Types
<1>6. \A i : Dict(i)' = Dict(i)
  BY <1>1 DEF Dict, TrieFor
<1>7. Calling' /\ Owned' /\ Backed'
  <2>1. Calling'
    BY <1>1, IdleFact DEF IInv, Calling
  <2>2. Owned'
    BY <1>1 DEF IInv, Owned, Open
  <2> QED
    BY <1>1, <1>6, <2>1, <2>2, BackedKept
<1>8. OnlyOnce'
  <2> SUFFICES ASSUME UseOnce
               PROVE  (Distinct /\ NotInTrie /\ NotStored /\ TasksApart /\ HasPlace)'
    BY <1>1 DEF OnlyOnce, UseOnce
  <2>1. Distinct /\ NotInTrie /\ NotStored /\ TasksApart /\ HasPlace
    BY DEF IInv, OnlyOnce
  <2>2. \A y \in Instances : \A j \in DOMAIN pending'[y] :
          \/ j \in DOMAIN pending[y] /\ pending'[y][j] = pending[y][j]
          \/ y = x /\ j = Len(q) + 1 /\ pending'[y][j] = e
    BY <1>3, <1>4
  <2>3. \A y \in Instances : \A j \in DOMAIN pending[y] : pending[y][j].key # k
    BY <1>1, PendingFact DEF IInv, Inserted, UseOnce
  <2>4. \A s \in AllStores, i \in Ids : elementsIn[s][i][k] = None
    BY <1>1 DEF Inserted, UseOnce
  <2>5. Distinct'
    BY <1>2, <2>1, <2>2, <2>3 DEF Distinct
  <2>6. \A i \in Ids : \A d \in Dict(i) : d[1] # k
    BY <2>4, DictHasElements DEF UseOnce
  <2>7. NotInTrie'
    BY <1>2, <1>6, <2>1, <2>2, <2>6 DEF NotInTrie
  <2>8. NotStored'
    BY <1>1, <1>2, <2>1, <2>2, <2>4 DEF NotStored, Labelled, Idle
  <2>9. TasksApart' /\ HasPlace'
    BY <1>1, <1>6, <2>1 DEF TasksApart, HasPlace, Idle
  <2> QED
    BY <2>5, <2>7, <2>8, <2>9
<1> QED
  BY <1>5, <1>7, <1>8 DEF IInv

LEMMA BeginFlushInv ==
  ASSUME IInv, NEW x \in Instances, BeginFlush(x)
  PROVE  IInv'
<1> DEFINE n == Len(pending[x])
           f == [i \in 0..(ThreadsFor(n) - 1) |-> Chunk(i, n)]
<1>1. /\ Idle /\ x \in Open /\ pending[x] # <<>>
      /\ call' = [of |-> x, failed |-> {}, labelled |-> {}, left |-> f]
      /\ UNCHANGED <<use, instance, made, config, tries, elementsIn, elementsKept, pending,
                     restarts>>
  BY DEF BeginFlush, stored
<1>2. n \in Nat \ {0} /\ DOMAIN pending[x] = 1..n
  <2>1. pending[x] \in Seq(Entry)
    BY DEF IInv, Types
  <2> QED
    BY <1>1, <2>1
<1>3. \A i \in Nat, l \in Nat : i # l => Chunk(i, n) \cap Chunk(l, n) = {}
  BY <1>2, ChunksApart
<1>4. \A i \in Nat : Chunk(i, n) \subseteq 1..n
  BY DEF Chunk
<1>5. DOMAIN f \subseteq Nat /\ \A i \in DOMAIN f : f[i] = Chunk(i, n)
  BY <1>2, LimitAssumption DEF ThreadsFor
<1>6. f = [i \in DOMAIN f |-> f[i]]
  OBVIOUS
<1> HIDE DEF f, n
<1>7. /\ call'.of = x /\ call'.failed = {} /\ call'.labelled = {} /\ call'.left = f
      /\ x # None
  BY <1>1, NoneFact
<1>8. Types' /\ Owned'
  BY <1>1 DEF IInv, Types, Owned, Open
<1>9. Calling'
  <2>1. x \in Open'
    BY <1>1 DEF Open
  <2> QED
    BY <1>1, <1>2, <1>4, <1>5, <1>6, <1>7, <2>1 DEF Calling
<1>10. \A i : Dict(i)' = Dict(i)
  BY <1>1 DEF Dict, TrieFor
<1>11. Backed'
  BY <1>1, <1>10, BackedKept
<1>12. OnlyOnce'
  <2> SUFFICES ASSUME UseOnce
               PROVE  (Distinct /\ NotInTrie /\ NotStored /\ TasksApart /\ HasPlace)'
    BY <1>1 DEF OnlyOnce, UseOnce
  <2>1. Distinct /\ NotInTrie /\ NotStored /\ TasksApart /\ HasPlace
    BY DEF IInv, OnlyOnce
  <2>2. Distinct' /\ NotInTrie' /\ NotStored' /\ HasPlace'
    BY <1>1, <1>10, <2>1 DEF Distinct, NotInTrie, NotStored, HasPlace, Labelled
  <2>3. TasksApart'
    BY <1>3, <1>5, <1>7 DEF TasksApart
  <2> QED
    BY <2>1, <2>2, <2>3
<1> QED
  BY <1>8, <1>9, <1>11, <1>12 DEF IInv

-----------------------------------------------------------------------------
LEMMA CallId ==
  ASSUME IInv, ~Idle
  PROVE  /\ call.of \in Open /\ call.of \in Instances
         /\ IdOf(call.of) \in Ids /\ StoreOf(call.of) \in AllStores
BY CallingFact, OpenFact DEF IInv

LEMMA TaskEnds ==
  ASSUME NEW c, DOMAIN c = {"of", "failed", "labelled", "left"}, NEW i, NEW j,
         NEW d, d = [c EXCEPT !.failed = @ \cup {i}, !.left[i] = {}, !.labelled = @ \cup {j}]
  PROVE  /\ DOMAIN d = {"of", "failed", "labelled", "left"} /\ d.of = c.of
         /\ d.failed = c.failed \cup {i} /\ d.labelled = c.labelled \cup {j}
         /\ d.left = [c.left EXCEPT ![i] = {}]
BY Zenon

LEMMA TaskGoesOn ==
  ASSUME NEW c, DOMAIN c = {"of", "failed", "labelled", "left"}, NEW i, NEW j,
         NEW d, d = [c EXCEPT !.left[i] = @ \ {j}, !.labelled = @ \cup {j}]
  PROVE  /\ DOMAIN d = {"of", "failed", "labelled", "left"} /\ d.of = c.of
         /\ d.failed = c.failed /\ d.labelled = c.labelled \cup {j}
         /\ d.left = [c.left EXCEPT ![i] = @ \ {j}]
BY Zenon

(* The insertion j of thread i; only the element of its key may change.    *)
LEMMA LabelInv ==
  ASSUME IInv, NEW i \in 0..(ThreadLimit - 1), Label(i)
  PROVE  IInv'
<1>1. /\ ~Idle /\ i \in DOMAIN call.left /\ call.left[i] # {}
      /\ UNCHANGED <<use, instance, made, config, tries, elementsKept, pending, restarts>>
  BY DEF Label
<1>2. PICK x \in Instances : x = call.of
  BY <1>1, CallId
<1>3. /\ DOMAIN call = {"of", "failed", "labelled", "left"} /\ x \in Open
      /\ call.labelled \subseteq DOMAIN pending[x]
      /\ call.left = [l \in DOMAIN call.left |-> call.left[l]]
      /\ \A l \in DOMAIN call.left : call.left[l] \subseteq DOMAIN pending[x]
      /\ call.failed = {} =>
           \A l \in call.labelled : ElementOf(x, pending[x][l].key) = pending[x][l].payload
  BY <1>1, <1>2, CallingFact DEF IInv
<1>4. PICK s \in AllStores, n \in Ids :
        /\ s = StoreOf(x) /\ n = IdOf(x) /\ instance[x] \in made
        /\ instance[x].store = s /\ instance[x].id = n
  BY <1>3, OpenFact DEF IInv, Owned, StoreOf, IdOf
<1>5. PICK j \in DOMAIN pending[x] : j = NextIn(call.left[i]) /\ j \in call.left[i]
  <2>1. \A l \in DOMAIN pending[x] : l \in Nat
    BY <1>3, PendingFact DEF IInv
  <2>2. call.left[i] \in SUBSET Nat
    BY <1>1, <1>3, <2>1
  <2> QED
    BY <1>1, <1>3, <2>2, NextInFact
<1>6. PICK r \in Entry : r = pending[x][j]
  BY PendingFact DEF IInv
<1>7. r.key \in Keys /\ r.payload \in Payloads /\ r.payload # None
  BY NoneFact DEF Entry
<1> DEFINE free == elementsIn[s][n][r.key] = None
<1>a. \A k : ElementOf(x, k) = elementsIn[s][n][k]
  BY <1>4 DEF ElementOf
<1>b. \/ /\ ~free /\ elementsIn' = elementsIn
         /\ call' = [call EXCEPT !.failed = @ \cup {i}, !.left[i] = {},
                                 !.labelled = @ \cup {j}]
      \/ /\ free /\ elementsIn' = [elementsIn EXCEPT ![s][n][r.key] = r.payload]
         /\ call' = [call EXCEPT !.left[i] = @ \ {j}, !.labelled = @ \cup {j}]
  BY <1>2, <1>4, <1>5, <1>6, <1>a DEF Label
<1>8. /\ DOMAIN call' = {"of", "failed", "labelled", "left"}
      /\ call'.of = x /\ call'.labelled = call.labelled \cup {j}
      /\ call'.failed = (IF free THEN call.failed ELSE call.failed \cup {i})
      /\ call'.left = [l \in DOMAIN call.left |-> call'.left[l]]
      /\ \A l \in DOMAIN call.left : call'.left[l] \subseteq call.left[l]
      /\ j \notin call'.left[i]
  <2>1. CASE ~free
    <3>1. /\ DOMAIN call' = {"of", "failed", "labelled", "left"} /\ call'.of = x
          /\ call'.failed = call.failed \cup {i} /\ call'.labelled = call.labelled \cup {j}
          /\ call'.left = [call.left EXCEPT ![i] = {}]
      BY <1>2, <1>3, <1>b, <2>1, TaskEnds
    <3> QED
      BY <1>1, <1>3, <2>1, <3>1
  <2>2. CASE free
    <3>1. /\ DOMAIN call' = {"of", "failed", "labelled", "left"} /\ call'.of = x
          /\ call'.failed = call.failed /\ call'.labelled = call.labelled \cup {j}
          /\ call'.left = [call.left EXCEPT ![i] = @ \ {j}]
      BY <1>2, <1>3, <1>b, <2>2, TaskGoesOn
    <3> QED
      BY <1>1, <1>3, <2>2, <3>1
  <2> QED
    BY <2>1, <2>2
<1>9. /\ elementsIn' \in Elements
      /\ elementsIn'[s][n][r.key] = (IF free THEN r.payload ELSE elementsIn[s][n][r.key])
      /\ \A t \in AllStores, m \in Ids, k \in Keys :
           (t # s \/ m # n \/ k # r.key) => elementsIn'[t][m][k] = elementsIn[t][m][k]
  <2>1. CASE ~free
    BY <1>b, <2>1 DEF IInv, Types
  <2>2. CASE free
    <3>1. elementsIn \in Elements /\ elementsIn' = [elementsIn EXCEPT ![s][n][r.key] = r.payload]
      BY <1>b, <2>2 DEF IInv, Types
    <3> HIDE DEF free
    <3> QED
      BY <1>7, <2>2, <3>1 DEF Elements
  <2> QED
    BY <2>1, <2>2
<1> HIDE DEF free
<1>10. Types' /\ Owned'
  BY <1>1, <1>9 DEF IInv, Types, Owned, Open
<1>11. \A m : Dict(m)' = Dict(m)
  BY <1>1 DEF Dict, TrieFor
<1> DEFINE keyAt(l) == pending[x][l].key
<1>12. \A l \in DOMAIN pending[x] : keyAt(l) \in Keys /\ pending[x][l].payload \in Payloads
  BY <1>3, PendingFact DEF IInv
<1>13. /\ x \in Open'
       /\ \A k : ElementOf(x, k)' = elementsIn'[s][n][k]
  BY <1>1, <1>3, <1>4 DEF Open, ElementOf, StoreOf, IdOf
<1>14. Calling'
  <2>1. ASSUME call'.failed = {}, NEW l \in call'.labelled
        PROVE  elementsIn'[s][n][keyAt(l)] = pending[x][l].payload
    <3>1. free /\ call.failed = {}
      BY <1>8, <2>1
    <3>2. CASE l = j
      BY <1>6, <1>9, <3>1, <3>2
    <3>3. CASE l \in call.labelled
      <4>1. elementsIn[s][n][keyAt(l)] = pending[x][l].payload /\ l \in DOMAIN pending[x]
        BY <1>3, <1>a, <3>1, <3>3
      <4>2. keyAt(l) \in Keys /\ keyAt(l) # r.key
        BY <1>12, <3>1, <4>1, NoneFact DEF free
      <4> QED
        BY <1>9, <4>1, <4>2
    <3> QED
      BY <1>8, <3>2, <3>3
  <2>2. call'.labelled \subseteq DOMAIN pending'[x]
    BY <1>1, <1>3, <1>8
  <2>3. \A l \in DOMAIN call'.left : call'.left[l] \subseteq DOMAIN pending'[x]
    BY <1>1, <1>3, <1>8
  <2>4. call'.failed = {} =>
          \A l \in call'.labelled : ElementOf(x, pending[x][l].key)' = pending'[x][l].payload
    BY <1>1, <1>13, <2>1
  <2>5. call'.left = [l \in DOMAIN call'.left |-> call'.left[l]]
    BY <1>8
  <2> QED
    BY <1>1, <1>8, <1>13, <2>2, <2>3, <2>4, <2>5 DEF Calling, ElementOf, StoreOf, IdOf
<1>15. Backed'
  <2> SUFFICES ASSUME ~use.clear, NEW f \in made, NEW e \in Dict(f.id)
               PROVE  elementsIn'[f.store][f.id][e[1]] = e[2]
    BY <1>1, <1>11 DEF Backed
  <2>1. f.id \in Ids /\ f.store \in AllStores
    BY DEF IInv, Types, InstanceState, AllStores
  <2>2. e[1] \in Keys /\ e[2] \in Payloads /\ e[2] # None
    BY <2>1, DictFact, NoneFact DEF IInv
  <2>3. elementsIn[f.store][f.id][e[1]] = e[2]
    BY DEF IInv, Backed
  <2> QED
    BY <1>9, <2>1, <2>2, <2>3 DEF free
<1>16. OnlyOnce'
  <2> SUFFICES ASSUME UseOnce
               PROVE  (Distinct /\ NotInTrie /\ NotStored /\ TasksApart /\ HasPlace)'
    BY <1>1 DEF OnlyOnce, UseOnce
  <2>1. Distinct /\ NotInTrie /\ NotStored /\ TasksApart /\ HasPlace
    BY DEF IInv, OnlyOnce
  <2>2. Distinct' /\ NotInTrie'
    BY <1>1, <1>11, <2>1 DEF Distinct, NotInTrie
  <2>3. ~Idle' /\ call'.of = x
    BY <1>8, NoneFact DEF Idle
  <2>4. j \notin call.labelled
    BY <1>1, <1>5, <2>1 DEF TasksApart
  <2>5. \A t \in AllStores, m \in Ids : elementsIn[t][m][r.key] = None
    BY <1>2, <1>6, <2>1, <2>4 DEF NotStored, Labelled
  <2>6. call'.failed = {}
    BY <1>1, <1>8, <2>1, <2>5 DEF TasksApart, free
  <2>7. NotStored'
    <3> SUFFICES ASSUME NEW y \in Instances, NEW l \in DOMAIN pending[y], ~Labelled(y, l)',
                        NEW t \in AllStores, NEW m \in Ids
                 PROVE  elementsIn'[t][m][pending[y][l].key] = None
      BY <1>1 DEF NotStored
    <3>1. y # x \/ (l # j /\ l \notin call.labelled)
      BY <1>8, <2>3 DEF Labelled
    <3>2. elementsIn[t][m][pending[y][l].key] = None
      BY <1>2, <2>1, <3>1 DEF NotStored, Labelled
    <3>3. pending[y][l].key # r.key /\ pending[y][l].key \in Keys
      BY <1>6, <2>1, <3>1, PendingFact DEF Distinct, IInv
    <3> QED
      BY <1>9, <3>2, <3>3
  <2>8. TasksApart'
    <3>1. \A l \in DOMAIN call.left : l # i => j \notin call.left[l]
      BY <1>1, <1>5, <2>1 DEF TasksApart
    <3> QED
      BY <1>1, <1>8, <2>1, <2>6, <3>1 DEF TasksApart
  <2>9. HasPlace'
    <3> SUFFICES ASSUME NEW t \in AllStores, NEW m \in Ids, NEW k \in Keys,
                        elementsIn'[t][m][k] # None
                 PROVE  \/ \E e \in Dict(m) : e[1] = k
                        \/ n = m /\ \E l \in call'.labelled : pending[x][l].key = k
      BY <1>1, <1>4, <1>11, <2>3 DEF HasPlace, IdOf
    <3>1. CASE t = s /\ m = n /\ k = r.key
      BY <1>6, <1>8, <3>1
    <3>2. CASE elementsIn[t][m][k] # None
      BY <1>2, <1>4, <1>8, <2>1, <3>2 DEF HasPlace
    <3> QED
      BY <1>9, <3>1, <3>2
  <2> QED
    BY <2>2, <2>7, <2>8, <2>9
<1> QED
  BY <1>10, <1>14, <1>15, <1>16 DEF IInv

LEMMA FlushThrowsInv ==
  ASSUME IInv, FlushThrows
  PROVE  IInv'
<1>1. /\ ~Idle /\ call.failed # {} /\ call' = NoCall /\ NoCall.of = None
      /\ UNCHANGED <<use, instance, made, config, tries, elementsIn, elementsKept, pending,
                     restarts>>
  BY DEF FlushThrows, TasksDone, NoCall, stored
<1>2. Types' /\ Owned' /\ Calling'
  BY <1>1 DEF IInv, Types, Owned, Open, Calling
<1>3. \A i : Dict(i)' = Dict(i)
  BY <1>1 DEF Dict, TrieFor
<1>4. Backed'
  BY <1>1, <1>3, BackedKept
<1>5. OnlyOnce'
  BY <1>1 DEF IInv, OnlyOnce, TasksApart, UseOnce
<1> QED
  BY <1>2, <1>4, <1>5 DEF IInv

(* The trie of a flush with the insertions of S, which have their elements. *)
LEMMA GrownFact ==
  ASSUME IInv, ~Idle, NEW n \in Ids, n = IdOf(call.of), NEW S \in SUBSET call.labelled,
         tries' = [tries EXCEPT ![n] = Grown(TrieFor(n), S)]
  PROVE  /\ tries' \in [Ids -> TrieState \cup {None}]
         /\ tries'[n] = Grown(TrieFor(n), S) /\ tries'[n] \in TrieState
         /\ Dict(n)' = Dict(n) \cup Entries(S, TrieFor(n).epoch + 1)
         /\ \A i \in Ids : i # n => Dict(i)' = Dict(i) /\ tries'[i] = tries[i]
<1> DEFINE t == TrieFor(n)
           new == Grown(t, S)
<1>1. t \in TrieState
  BY DictFact DEF IInv
<1>2. Entries(S, t.epoch + 1) \subseteq Keys \X Payloads \X Nat
  <2>1. t.epoch + 1 \in Nat
    BY <1>1 DEF TrieState
  <2>2. \A l \in S : pending[call.of][l].key \in Keys /\ pending[call.of][l].payload \in Payloads
    BY CallingFact, PendingFact DEF IInv
  <2> QED
    BY <2>1, <2>2 DEF Entries
<1>3. new \in TrieState /\ new.dict = t.dict \cup Entries(S, t.epoch + 1)
  <2> DEFINE d == Entries(S, t.epoch + 1)
  <2>1. new = [t EXCEPT !.epoch = @ + 1, !.dict = @ \cup d]
    BY DEF Grown
  <2> HIDE DEF t, d
  <2>2. new = [store |-> t.store, epoch |-> t.epoch + 1, dict |-> t.dict \cup d]
    BY <1>1, <2>1 DEF TrieState
  <2>3. t.store \in AllStores /\ t.epoch + 1 \in Nat /\ t.dict \cup d \subseteq Keys \X Payloads \X Nat
    BY <1>1, <1>2 DEF TrieState, d
  <2> HIDE DEF new
  <2>4. new \in TrieState /\ new.dict = t.dict \cup d
    BY <2>2, <2>3 DEF TrieState
  <2> QED
    BY <2>4 DEF d
<1> HIDE DEF new, t
<1>4. tries' = [tries EXCEPT ![n] = new]
  BY DEF new, t
<1>5. tries'[n] = new /\ \A i \in Ids : i # n => tries'[i] = tries[i]
  BY <1>4 DEF IInv, Types
<1>6. tries' \in [Ids -> TrieState \cup {None}]
  BY <1>3, <1>4 DEF IInv, Types
<1>7. Dict(n)' = Dict(n) \cup Entries(S, t.epoch + 1)
  <2>1. Dict(n)' = new.dict
    BY <1>3, <1>5, NoneFact DEF Dict, TrieFor
  <2> QED
    BY <1>3, <2>1 DEF Dict, t
<1>8. \A i \in Ids : i # n => Dict(i)' = Dict(i)
  <2> SUFFICES ASSUME NEW i \in Ids, i # n PROVE Dict(i)' = Dict(i)
    OBVIOUS
  <2>1. Dict(i)' = IF tries[i] # None THEN tries[i].dict ELSE {}
    BY <1>5 DEF Dict, TrieFor
  <2> QED
    BY <2>1 DEF Dict, TrieFor
<1> QED
  BY <1>3, <1>5, <1>6, <1>7, <1>8 DEF t, new

LEMMA GrownBacked ==
  ASSUME IInv, ~Idle, call.failed = {}, NEW n \in Ids, n = IdOf(call.of),
         NEW S \in SUBSET call.labelled,
         tries' = [tries EXCEPT ![n] = Grown(TrieFor(n), S)],
         UNCHANGED <<use, instance, made, elementsIn>>
  PROVE  Backed' /\ Owned'
<1> DEFINE x == call.of
<1>1. /\ x \in Open /\ instance[x] \in made
      /\ instance[x].id = n /\ instance[x].store = StoreOf(x)
  BY CallingFact, OpenFact DEF IInv, Owned, IdOf, StoreOf
<1>2. /\ Dict(n)' = Dict(n) \cup Entries(S, TrieFor(n).epoch + 1)
      /\ \A i \in Ids : i # n => Dict(i)' = Dict(i) /\ tries'[i] = tries[i]
  BY GrownFact
<1>3. ASSUME NEW f \in made, NEW e \in Dict(f.id)', ~use.clear
      PROVE  elementsIn[f.store][f.id][e[1]] = e[2]
  <2>0. f.id \in Ids
    BY DEF IInv, Types, InstanceState
  <2>1. CASE e \in Dict(f.id)
    BY <1>3, <2>1 DEF IInv, Backed
  <2>2. CASE e \notin Dict(f.id)
    <3>1. f.id = n /\ e \in Entries(S, TrieFor(n).epoch + 1)
      BY <1>2, <1>3, <2>0, <2>2
    <3>2. f = instance[x]
      BY <1>1, <3>1 DEF IInv, Owned
    <3>3. PICK l \in S : e = <<pending[x][l].key, pending[x][l].payload, TrieFor(n).epoch + 1>>
      BY <3>1 DEF Entries
    <3>4. ElementOf(x, pending[x][l].key) = pending[x][l].payload
      BY <3>3, CallingFact DEF IInv
    <3> QED
      BY <1>1, <3>1, <3>2, <3>3, <3>4 DEF ElementOf
  <2> QED
    BY <2>1, <2>2
<1>4. Backed'
  BY <1>3 DEF Backed
<1>5. Owned'
  BY <1>1, <1>2 DEF IInv, Owned, Open
<1> QED
  BY <1>4, <1>5

(* A trie that has one of the keys has been given it before. *)
LEMMA TrieThrowsInv ==
  ASSUME IInv, TrieThrows
  PROVE  IInv'
<1>1. ~Idle
  BY DEF TrieThrows, TasksDone
<1>2. PICK n \in Ids : n = IdOf(call.of)
  BY <1>1, CallId
<1>3. /\ call.failed = {} /\ call' = NoCall /\ NoCall.of = None
      /\ KeysAt(call.labelled) \cap KeysIn(TrieFor(n)) # {}
      /\ UNCHANGED <<use, instance, made, config, elementsIn, elementsKept, pending, restarts>>
  BY <1>2 DEF TrieThrows, NoCall, stored
<1>4. PICK S \in SUBSET call.labelled : tries' = [tries EXCEPT ![n] = Grown(TrieFor(n), S)]
  BY <1>2 DEF TrieThrows
<1>5. tries' \in [Ids -> TrieState \cup {None}]
  BY <1>1, <1>2, <1>4, GrownFact
<1>6. Types'
  BY <1>3, <1>5 DEF IInv, Types
<1>7. Backed' /\ Owned'
  BY <1>1, <1>2, <1>3, <1>4, GrownBacked
<1>8. Calling'
  BY <1>3 DEF Calling
<1>9. OnlyOnce'
  <2> SUFFICES ASSUME UseOnce PROVE FALSE
    BY <1>3 DEF OnlyOnce, UseOnce
  <2>1. PICK l \in call.labelled, e \in Dict(n) : e[1] = pending[call.of][l].key
    BY <1>3 DEF KeysAt, KeysIn, Dict
  <2>2. call.of \in Instances /\ l \in DOMAIN pending[call.of]
    BY <1>1, <2>1, CallingFact DEF IInv
  <2> QED
    BY <2>1, <2>2 DEF IInv, OnlyOnce, NotInTrie
<1> QED
  BY <1>6, <1>7, <1>8, <1>9 DEF IInv

LEMMA FlushInsertsInv ==
  ASSUME IInv, FlushInserts
  PROVE  IInv'
<1>0. ~Idle
  BY DEF FlushInserts, TasksDone
<1>a. PICK x \in Instances, n \in Ids, S \in SUBSET call.labelled :
        x = call.of /\ n = IdOf(x) /\ S = call.labelled
  BY <1>0, CallId
<1>1. /\ call.failed = {} /\ call' = NoCall /\ NoCall.of = None
      /\ tries' = [tries EXCEPT ![n] = Grown(TrieFor(n), S)]
      /\ pending' = [pending EXCEPT ![x] = <<>>]
      /\ elementsKept' = [elementsKept EXCEPT ![StoreOf(x)][n] = elementsIn[StoreOf(x)][n]]
      /\ UNCHANGED <<use, instance, made, config, elementsIn, restarts>>
  BY <1>a DEF FlushInserts, NoCall, Flushed
<1>2. x \in Open /\ StoreOf(x) \in AllStores
  BY <1>0, <1>a, CallId
<1>3. /\ tries' \in [Ids -> TrieState \cup {None}]
      /\ Dict(n)' = Dict(n) \cup Entries(S, TrieFor(n).epoch + 1)
      /\ \A i \in Ids : i # n => Dict(i)' = Dict(i)
  BY <1>0, <1>1, <1>a, GrownFact
<1>4. pending'[x] = <<>> /\ \A y \in Instances : y # x => pending'[y] = pending[y]
  BY <1>1, <1>2 DEF IInv, Types
<1>5. Types'
  <2>1. elementsKept' \in Elements
    BY <1>1, <1>2 DEF IInv, Types, Elements
  <2>2. pending' \in [Instances -> Seq(Entry)] /\ \A y \in Instances : Len(pending'[y]) <= MaxPending
    BY <1>1, <1>4, BoundAssumption DEF IInv, Types
  <2> QED
    BY <1>1, <1>3, <2>1, <2>2 DEF IInv, Types
<1>6. Calling' /\ Backed' /\ Owned'
  BY <1>0, <1>1, <1>a, GrownBacked DEF Calling
<1>7. OnlyOnce'
  <2> SUFFICES ASSUME UseOnce
               PROVE  (Distinct /\ NotInTrie /\ NotStored /\ TasksApart /\ HasPlace)'
    BY <1>1 DEF OnlyOnce, UseOnce
  <2>1. Distinct /\ NotInTrie /\ NotStored /\ TasksApart /\ HasPlace
    BY DEF IInv, OnlyOnce
  <2>2. Idle'
    BY <1>1 DEF Idle
  <2>3. \A y \in Instances : \A j \in DOMAIN pending'[y] :
          y # x /\ j \in DOMAIN pending[y] /\ pending'[y][j] = pending[y][j]
    BY <1>4
  <2>4. S \subseteq DOMAIN pending[x]
    BY <1>0, <1>a, CallingFact DEF IInv
  <2>5. Distinct'
    BY <2>1, <2>3 DEF Distinct
  <2>6. NotInTrie'
    <3> SUFFICES ASSUME NEW y \in Instances, NEW j \in DOMAIN pending'[y],
                        NEW i \in Ids, NEW e \in Dict(i)'
                 PROVE  e[1] # pending'[y][j].key
      BY DEF NotInTrie
    <3>1. CASE e \in Dict(i)
      BY <2>1, <2>3, <3>1 DEF NotInTrie
    <3>2. CASE e \in Entries(S, TrieFor(n).epoch + 1)
      <4>1. PICK l \in S : e[1] = pending[x][l].key
        BY <1>a, <3>2 DEF Entries
      <4> QED
        BY <2>1, <2>3, <2>4, <4>1 DEF Distinct
    <3> QED
      BY <1>3, <3>1, <3>2
  <2>7. NotStored'
    <3>1. \A y \in Instances : \A j : y # x => ~Labelled(y, j)
      BY <1>a DEF Labelled
    <3> QED
      BY <1>1, <2>1, <2>3, <3>1 DEF NotStored
  <2>8. TasksApart'
    BY <2>2 DEF TasksApart
  <2>9. HasPlace'
    <3> SUFFICES ASSUME NEW s \in AllStores, NEW i \in Ids, NEW k \in Keys,
                        elementsIn[s][i][k] # None
                 PROVE  \E e \in Dict(i)' : e[1] = k
      BY <1>1 DEF HasPlace
    <3>1. CASE \E e \in Dict(i) : e[1] = k
      BY <1>3, <3>1
    <3>2. CASE n = i /\ \E j \in S : pending[x][j].key = k
      <4>1. PICK j \in S : pending[x][j].key = k
        BY <3>2
      <4> DEFINE e == <<pending[x][j].key, pending[x][j].payload, TrieFor(n).epoch + 1>>
      <4>2. e \in Entries(S, TrieFor(n).epoch + 1) /\ e[1] = k
        BY <1>a, <4>1 DEF Entries
      <4> HIDE DEF e
      <4> QED
        BY <1>3, <3>2, <4>2
    <3> QED
      BY <1>a, <2>1, <3>1, <3>2 DEF HasPlace
  <2> QED
    BY <2>5, <2>6, <2>7, <2>8, <2>9
<1> QED
  BY <1>5, <1>6, <1>7 DEF IInv

-----------------------------------------------------------------------------
LEMMA ClearInv ==
  ASSUME IInv, NEW x \in Instances, Clear(x)
  PROVE  IInv'
<1> DEFINE s == StoreOf(x)
           i == IdOf(x)
<1>1. /\ use.clear /\ Idle /\ x \in Open /\ config' = s
      /\ elementsIn' = [elementsIn EXCEPT ![s][i] = NoElements]
      /\ elementsKept' = [elementsKept EXCEPT ![s][i] = NoElements]
      /\ pending' = [pending EXCEPT ![x] = <<>>]
      /\ UNCHANGED <<use, instance, made, tries, call, restarts>>
  BY DEF Clear
<1>2. s \in AllStores /\ i \in Ids /\ NoElements \in [Keys -> Payloads \cup {None}]
  BY <1>1, OpenFact DEF IInv, NoElements
<1>3. Types'
  <2>1. elementsIn' \in Elements /\ elementsKept' \in Elements
    BY <1>1, <1>2 DEF IInv, Types, Elements
  <2>2. pending' \in [Instances -> Seq(Entry)] /\ \A y \in Instances : Len(pending'[y]) <= MaxPending
    BY <1>1, BoundAssumption DEF IInv, Types
  <2> QED
    BY <1>1, <1>2, <2>1, <2>2 DEF IInv, Types
<1>4. Calling' /\ Owned'
  BY <1>1, IdleFact DEF IInv, Calling, Owned, Open
<1>5. Backed' /\ OnlyOnce'
  BY <1>1 DEF Backed, OnlyOnce, UseOnce
<1> QED
  BY <1>3, <1>4, <1>5 DEF IInv

(* The new process has no instance and no trie. *)
LEMMA RestartInv ==
  ASSUME IInv, Restart
  PROVE  IInv'
<1>1. /\ restarts' = restarts + 1 /\ instance' = [x \in Instances |-> None]
      /\ config' = Scratch /\ tries' = [i \in Ids |-> None] /\ elementsIn' = elementsKept
      /\ pending' = [x \in Instances |-> <<>>] /\ call' = NoCall
      /\ UNCHANGED <<use, made, elementsKept>>
  BY DEF Restart
<1>2. Types'
  <2>1. pending' \in [Instances -> Seq(Entry)] /\ \A y \in Instances : Len(pending'[y]) <= MaxPending
    BY <1>1, BoundAssumption
  <2> QED
    BY <1>1, <2>1 DEF IInv, Types, AllStores
<1>3. Calling' /\ Owned'
  BY <1>1 DEF IInv, Calling, Owned, Open
<1>4. \A f \in made : Dict(f.id)' = {}
  BY <1>1 DEF IInv, Types, InstanceState, Dict, TrieFor
<1>5. Backed' /\ OnlyOnce'
  BY <1>1, <1>4 DEF IInv, Types, Backed, OnlyOnce, UseOnce
<1> QED
  BY <1>2, <1>3, <1>5 DEF IInv

LEMMA StutterInv ==
  ASSUME IInv, UNCHANGED vars
  PROVE  IInv'
<1>1. UNCHANGED <<use, instance, made, config, tries, elementsIn, elementsKept, pending,
                  call, restarts>>
  BY DEF vars, stored
<1>2. \A i : Dict(i)' = Dict(i)
  BY <1>1 DEF Dict, TrieFor
<1>3. Types' /\ Owned'
  BY <1>1 DEF IInv, Types, Owned, Open
<1> QED
  BY <1>1, <1>2, <1>3, CallingKept, BackedKept, OnceKept DEF IInv

LEMMA NextInv == IInv /\ [Next]_vars => IInv'
<1> SUFFICES ASSUME IInv, [Next]_vars PROVE IInv'
  OBVIOUS
<1>1. CASE \E x \in Instances, s \in Stores : Construct(x, s)
  BY <1>1, ConstructInv
<1>2. CASE \E x \in Instances, f \in made : Load(x, f)
  BY <1>2, LoadInv
<1>3. CASE \E x \in Instances : Ask(x) \/ CheckForUpdate(x)
  BY <1>3, MadeTrieInv DEF Ask, CheckForUpdate
<1>4. CASE \E x \in Instances, k \in Keys, p \in Payloads : Insert(x, k, p)
  BY <1>4, InsertInv
<1>5. CASE \E x \in Instances : BeginFlush(x)
  BY <1>5, BeginFlushInv
<1>6. CASE \E i \in 0..(ThreadLimit - 1) : Label(i)
  BY <1>6, LabelInv
<1>7. CASE FlushThrows
  BY <1>7, FlushThrowsInv
<1>8. CASE TrieThrows
  BY <1>8, TrieThrowsInv
<1>9. CASE FlushInserts
  BY <1>9, FlushInsertsInv
<1>10. CASE \E x \in Instances : Clear(x)
  BY <1>10, ClearInv
<1>11. CASE Restart
  BY <1>11, RestartInv
<1>12. CASE UNCHANGED vars
  BY <1>12, StutterInv
<1> QED
  BY <1>1, <1>2, <1>3, <1>4, <1>5, <1>6, <1>7, <1>8, <1>9, <1>10, <1>11, <1>12 DEF Next

LEMMA Inductive == Spec => []IInv
BY InitInv, NextInv, PTL DEF Spec

-----------------------------------------------------------------------------
(* query finds the payload that the trie commits to, through every         *)
(* instance of the trie.                                                   *)
THEOREM PayloadOfFound == Spec => []FoundHasPayload
<1>1. IInv => FoundHasPayload
  <2> SUFFICES ASSUME IInv, ~use.clear, NEW x \in Open, NEW e \in TrieFor(IdOf(x)).dict
               PROVE  ElementOf(x, e[1]) = e[2]
    BY DEF FoundHasPayload
  <2> QED
    BY DEF IInv, Owned, Backed, Dict, ElementOf, IdOf, StoreOf
<1> QED
  BY <1>1, Inductive, PTL

(* Between calls, an element is that of a key in the trie, for callers who *)
(* insert no key twice, without clear and in a process that is not stopped. *)
THEOREM NothingHalfDone == Spec => []NothingIsHalfDone
<1>1. IInv => NothingIsHalfDone
  <2> SUFFICES ASSUME IInv, Idle, UseOnce, NEW x \in Open, NEW k \in Keys,
                      ElementOf(x, k) # None
               PROVE  Found(x, k)
    BY DEF NothingIsHalfDone, UseOnce
  <2>1. IdOf(x) \in Ids /\ StoreOf(x) \in AllStores
    BY OpenFact DEF IInv
  <2> QED
    BY <2>1 DEF IInv, OnlyOnce, HasPlace, ElementOf, Found, Dict
<1> QED
  BY <1>1, Inductive, PTL

-----------------------------------------------------------------------------
(* What is kept of a trie                                                  *)

(***************************************************************************)
(* The insertions that the running flush has labelled are of keys that the *)
(* trie does not have, no two of one key: CompressedTrie::insert does not  *)
(* throw.                                                                  *)
(***************************************************************************)
LabelledAreNew ==
  ~Idle /\ call.failed = {} =>
    /\ \A j \in call.labelled : \A e \in Dict(IdOf(call.of)) : e[1] # pending[call.of][j].key
    /\ \A j, l \in call.labelled : pending[call.of][j].key = pending[call.of][l].key => j = l

TrieRecord == [epoch : Nat, dict : SUBSET (Keys \X Payloads \X Nat)]
Records == [AllStores -> [Ids -> TrieRecord \cup {None}]]

Owns(s, i) == [id |-> i, store |-> s] \in made
SeenDict(s, i) == IF trieIn[s][i] = None THEN {} ELSE trieIn[s][i].dict
NoOther(i) == use.restarts = 0 \/ use.instances = {i}

(***************************************************************************)
(* What is kept of a trie in storage s: the whole of it when the trie is   *)
(* over s, or would be if it were made now; otherwise what is seen in s.   *)
(* Nothing is kept in a storage that is not that of the trie's instance,   *)
(* nor of a trie that nobody asked for, unless the process was stopped.    *)
(***************************************************************************)
KeptInv(s, i) ==
  /\ Owns(s, i) /\ TrieFor(i).store = s => KeptDict(s, i) = Dict(i)
  /\ tries[i] = None \/ tries[i].store # s => SeenDict(s, i) = KeptDict(s, i)
  /\ ~Owns(s, i) => KeptDict(s, i) = {}
  /\ tries[i] = None /\ use.restarts = 0 => KeptDict(s, i) = {}

EpochsPast(i) == \A e \in Dict(i) : e[3] <= TrieFor(i).epoch

(* While nobody clears a storage: *)
RecordInv ==
  /\ trieIn \in Records /\ trieKept \in Records
  /\ LabelledAreNew
  /\ \A i \in Ids : EpochsPast(i)
  /\ \A s \in Stores, i \in Ids : NoOther(i) => KeptInv(s, i)

LEMMA RecordFact ==
  ASSUME Types, NEW i \in Ids
  PROVE  Record(TrieFor(i)) \in TrieRecord /\ TrieFor(i).store \in AllStores
BY DictFact DEF Record, TrieRecord, TrieState

LEMMA NoRecord == None \notin TrieRecord /\ Scratch \notin Stores
BY NoneAssumption, ScratchAssumption DEF TrieRecord

(* A flush that ends, or has not begun. *)
LEMMA NoFlushNew ==
  ASSUME call' = NoCall \/ (Idle /\ call' = call)
  PROVE  LabelledAreNew'
BY DEF LabelledAreNew, Idle, NoCall

LEMMA BeginFlushNew ==
  ASSUME NEW x \in Instances, BeginFlush(x)
  PROVE  LabelledAreNew'
<1>1. call'.labelled = {}
  BY DEF BeginFlush
<1> QED
  BY <1>1 DEF LabelledAreNew

(* A task goes on with a key that has no element: one that neither the     *)
(* trie has nor the flush has labelled.                                    *)
LEMMA LabelNew ==
  ASSUME IInv, ~use.clear, LabelledAreNew, NEW i \in 0..(ThreadLimit - 1), Label(i)
  PROVE  LabelledAreNew'
<1>1. /\ ~Idle /\ i \in DOMAIN call.left /\ call.left[i] # {}
      /\ UNCHANGED <<use, instance, made, config, tries, pending>>
  BY DEF Label
<1>2. PICK x \in Instances : x = call.of
  BY <1>1, CallId
<1>3. /\ DOMAIN call = {"of", "failed", "labelled", "left"} /\ x \in Open
      /\ call.labelled \subseteq DOMAIN pending[x]
      /\ call.left = [l \in DOMAIN call.left |-> call.left[l]]
      /\ call.failed = {} =>
           \A l \in call.labelled : ElementOf(x, pending[x][l].key) = pending[x][l].payload
  BY <1>1, <1>2, CallingFact DEF IInv
<1> DEFINE j == NextIn(call.left[i])
           key == pending[x][j].key
<1>4. CASE ElementOf(x, key) # None
  <2>1. call' = [call EXCEPT !.failed = @ \cup {i}, !.left[i] = {}, !.labelled = @ \cup {j}]
    BY <1>2, <1>4 DEF Label
  <2> HIDE DEF j
  <2>2. call'.failed = call.failed \cup {i}
    BY <1>1, <1>3, <2>1, TaskEnds
  <2> QED
    BY <2>2 DEF LabelledAreNew
<1>5. CASE ElementOf(x, key) = None
  <2>1. call' = [call EXCEPT !.left[i] = @ \ {j}, !.labelled = @ \cup {j}]
    BY <1>2, <1>5 DEF Label
  <2> HIDE DEF j
  <2>2. /\ call'.of = x /\ call'.failed = call.failed
        /\ call'.labelled = call.labelled \cup {j}
    BY <1>1, <1>2, <1>3, <2>1, TaskGoesOn
  <2> SUFFICES ASSUME call.failed = {}
               PROVE  /\ \A m \in call.labelled \cup {j} : \A e \in Dict(IdOf(x)) :
                           e[1] # pending[x][m].key
                      /\ \A m, l \in call.labelled \cup {j} :
                           pending[x][m].key = pending[x][l].key => m = l
    <3>1. Dict(IdOf(x))' = Dict(IdOf(x)) /\ IdOf(x)' = IdOf(x)
      BY <1>1 DEF Dict, TrieFor, IdOf
    <3> QED
      BY <1>1, <2>2, <3>1 DEF LabelledAreNew
  <2>3. /\ \A m \in call.labelled : \A e \in Dict(IdOf(x)) : e[1] # pending[x][m].key
        /\ \A m, l \in call.labelled : pending[x][m].key = pending[x][l].key => m = l
    BY <1>1, <1>2 DEF LabelledAreNew
  <2>4. \A e \in Dict(IdOf(x)) : e[1] # key
    <3> SUFFICES ASSUME NEW e \in Dict(IdOf(x)) PROVE ElementOf(x, e[1]) # None
      BY <1>5
    <3>1. e[2] \in Payloads
      BY <1>3, OpenFact, DictFact DEF IInv
    <3>2. ElementOf(x, e[1]) = e[2]
      BY <1>3 DEF IInv, Owned, Backed, ElementOf, IdOf, StoreOf
    <3> QED
      BY <3>1, <3>2, NoneFact
  <2>5. \A m \in call.labelled : pending[x][m].key # key
    <3> SUFFICES ASSUME NEW m \in call.labelled PROVE ElementOf(x, pending[x][m].key) # None
      BY <1>5
    <3>1. pending[x][m].payload \in Payloads
      BY <1>3, PendingFact DEF IInv
    <3> QED
      BY <1>3, <3>1, NoneFact
  <2> QED
    BY <2>3, <2>4, <2>5
<1> QED
  BY <1>4, <1>5

-----------------------------------------------------------------------------
LEMMA InitRecords == Init => RecordInv
<1> SUFFICES ASSUME Init PROVE RecordInv
  OBVIOUS
<1>1. trieIn \in Records /\ trieKept \in Records
  BY DEF Init, Records
<1>2. \A i \in Ids : tries[i] = None /\ Dict(i) = {}
  BY DEF Init, Dict, TrieFor
<1>3. \A s \in Stores, i \in Ids : KeptDict(s, i) = {} /\ SeenDict(s, i) = {}
  BY DEF Init, KeptDict, SeenDict, AllStores
<1>4. LabelledAreNew
  BY DEF Init, LabelledAreNew, Idle, NoCall
<1>5. \A s \in Stores, i \in Ids : KeptInv(s, i)
  BY <1>2, <1>3 DEF KeptInv
<1> QED
  BY <1>1, <1>2, <1>4, <1>5 DEF RecordInv, EpochsPast

LEMMA SameRecords ==
  ASSUME RecordInv, LabelledAreNew', UNCHANGED <<use, made, config, tries, trieIn, trieKept>>
  PROVE  RecordInv' /\ \A s, i : KeptAlone(s, i)' = KeptAlone(s, i)
<1>1. \A i \in Ids : EpochsPast(i)'
  BY DEF RecordInv, EpochsPast, Dict, TrieFor
<1>2. \A s \in Stores, i \in Ids : NoOther(i) => KeptInv(s, i)'
  BY DEF RecordInv, KeptInv, Owns, TrieFor, Dict, KeptDict, SeenDict
<1> QED
  BY <1>1, <1>2 DEF RecordInv, NoOther, KeptAlone, KeptDict

(* The storage of the new instance is the one that new tries are over.     *)
(* Nothing is kept of them there: not of a new id, nor of another one,     *)
(* unless the process was stopped.                                         *)
LEMMA ConstructRecords ==
  ASSUME IInv, RecordInv, NEW x \in Instances, NEW s \in Stores, Construct(x, s)
  PROVE  RecordInv'
<1>1. /\ x \in use.instances /\ \A f \in made : f.id # x
      /\ made' = made \cup {[id |-> x, store |-> s]} /\ config' = s
      /\ UNCHANGED <<use, tries, trieIn, trieKept>>
  BY DEF Construct, stored
<1>2. LabelledAreNew'
  BY NoFlushNew DEF Construct
<1>3. \A i \in Ids : /\ Dict(i)' = Dict(i) /\ EpochsPast(i)'
                     /\ tries[i] # None => TrieFor(i)' = TrieFor(i)
                     /\ tries[i] = None => TrieFor(i)'.store = s /\ Dict(i) = {}
  BY <1>1 DEF RecordInv, EpochsPast, Dict, TrieFor
<1>4. ASSUME NEW u \in Stores, NEW i \in Ids, NoOther(i)
      PROVE  KeptInv(u, i)'
  <2>1. /\ KeptInv(u, i) /\ KeptDict(u, i)' = KeptDict(u, i) /\ SeenDict(u, i)' = SeenDict(u, i)
    BY <1>1, <1>4 DEF RecordInv, KeptDict, SeenDict
  <2>2. Owns(u, i)' => Owns(u, i) \/ (i = x /\ u = s)
    BY <1>1 DEF Owns
  <2>3. ~Owns(u, i)' => ~Owns(u, i)
    BY <1>1 DEF Owns
  <2>4. Owns(u, i)' /\ TrieFor(i)'.store = u => KeptDict(u, i) = Dict(i)
    <3> SUFFICES ASSUME Owns(u, i)', TrieFor(i)'.store = u PROVE KeptDict(u, i) = Dict(i)
      OBVIOUS
    <3>1. CASE tries[i] # None
      <4>1. Owns(u, i)
        <5>1. i # x
          BY <1>1, <3>1 DEF IInv, Owned
        <5> QED
          BY <2>2, <5>1
      <4> QED
        BY <1>3, <2>1, <3>1, <4>1 DEF KeptInv
    <3>2. CASE tries[i] = None /\ use.restarts = 0
      BY <1>3, <2>1, <3>2 DEF KeptInv
    <3>3. CASE tries[i] = None /\ use.restarts # 0
      <4>1. i = x
        BY <1>1, <1>4, <3>3 DEF NoOther
      <4>2. ~Owns(u, i)
        BY <1>1, <4>1 DEF Owns
      <4> QED
        BY <1>3, <2>1, <3>3, <4>2 DEF KeptInv
    <3> QED
      BY <3>1, <3>2, <3>3
  <2> QED
    BY <1>1, <1>3, <2>1, <2>3, <2>4 DEF KeptInv
<1> QED
  BY <1>1, <1>2, <1>3, <1>4 DEF RecordInv, NoOther

(* New tries are over the storage that is lost with the process. *)
LEMMA LoadRecords ==
  ASSUME RecordInv, NEW x \in Instances, NEW f \in made, Load(x, f)
  PROVE  RecordInv'
<1>1. config' = Scratch /\ UNCHANGED <<use, made, tries, trieIn, trieKept>>
  BY DEF Load, stored
<1>2. LabelledAreNew'
  BY NoFlushNew DEF Load
<1>3. \A i \in Ids : /\ Dict(i)' = Dict(i) /\ EpochsPast(i)'
                     /\ tries[i] # None => TrieFor(i)' = TrieFor(i)
                     /\ tries[i] = None => TrieFor(i)'.store = Scratch
  BY <1>1 DEF RecordInv, EpochsPast, Dict, TrieFor
<1>4. ASSUME NEW s \in Stores, NEW i \in Ids, NoOther(i)
      PROVE  KeptInv(s, i)'
  <2>1. /\ KeptInv(s, i) /\ KeptDict(s, i)' = KeptDict(s, i) /\ SeenDict(s, i)' = SeenDict(s, i)
        /\ Owns(s, i)' = Owns(s, i)
    BY <1>1, <1>4 DEF RecordInv, KeptDict, SeenDict, Owns
  <2> QED
    BY <1>1, <1>3, <2>1, NoRecord DEF KeptInv
<1> QED
  BY <1>1, <1>2, <1>3, <1>4 DEF RecordInv, NoOther

(* A trie that is made is empty, and so is what is kept where it is over. *)
LEMMA MadeTrieRecords ==
  ASSUME IInv, RecordInv, NEW n \in Ids, GetTrie(n), Idle,
         UNCHANGED <<use, made, config, trieKept, call>>
  PROVE  RecordInv'
<1>1. tries' = [tries EXCEPT ![n] = TrieFor(n)]
  BY DEF GetTrie
<1>2. TrieFor(n) \in TrieState /\ TrieFor(n) # None
  BY DictFact, NoneFact DEF IInv
<1>3. tries'[n] = TrieFor(n) /\ \A i \in Ids : i # n => tries'[i] = tries[i]
  BY <1>1 DEF IInv, Types
<1>4. \A i \in Ids : TrieFor(i)' = TrieFor(i)
  BY <1>2, <1>3 DEF TrieFor
<1>5. \A i \in Ids : Dict(i)' = Dict(i) /\ EpochsPast(i)'
  BY <1>4 DEF RecordInv, EpochsPast, Dict
<1>6. trieIn' \in Records
  <2>1. Record(TrieFor(n)) \in TrieRecord /\ config \in AllStores
    BY RecordFact DEF IInv, Types
  <2> HIDE DEF TrieRecord
  <2> QED
    BY <2>1 DEF GetTrie, RecordInv, Records
<1>7. \A s \in AllStores, i \in Ids :
        trieIn'[s][i] = trieIn[s][i] \/ (i = n /\ tries[n] = None /\ s = config)
  BY DEF GetTrie, RecordInv, Records
<1>8. ASSUME NEW s \in Stores, NEW i \in Ids, NoOther(i)
      PROVE  KeptInv(s, i)'
  <2>1. /\ KeptInv(s, i) /\ KeptDict(s, i)' = KeptDict(s, i) /\ Owns(s, i)' = Owns(s, i)
    BY <1>8 DEF RecordInv, KeptDict, Owns
  <2>2. tries'[i] = None => tries[i] = None
    BY <1>2, <1>3
  <2>3. tries'[i] = None \/ tries'[i].store # s => SeenDict(s, i)' = KeptDict(s, i)
    <3> SUFFICES ASSUME tries'[i] = None \/ tries'[i].store # s
                 PROVE  SeenDict(s, i)' = KeptDict(s, i)
      OBVIOUS
    <3>1. tries[i] = None \/ tries[i].store # s
      BY <1>2, <1>3 DEF TrieFor
    <3>2. ~(i = n /\ tries[n] = None /\ s = config)
      BY <1>2, <1>3 DEF TrieFor
    <3>3. trieIn'[s][i] = trieIn[s][i]
      BY <1>7, <3>2 DEF AllStores
    <3> QED
      BY <2>1, <3>1, <3>3 DEF KeptInv, SeenDict
  <2> QED
    BY <1>4, <1>5, <2>1, <2>2, <2>3 DEF KeptInv
<1> QED
  BY <1>5, <1>6, <1>8, NoFlushNew DEF RecordInv, NoOther

(* The keys of the insertions are new to the trie, so it does not throw. *)
LEMMA NeverTrieThrows ==
  ASSUME RecordInv, TrieThrows
  PROVE  FALSE
<1>1. /\ ~Idle /\ call.failed = {}
      /\ KeysAt(call.labelled) \cap KeysIn(TrieFor(IdOf(call.of))) # {}
  BY DEF TrieThrows, TasksDone
<1>2. PICK j \in call.labelled, e \in Dict(IdOf(call.of)) : e[1] = pending[call.of][j].key
  BY <1>1 DEF KeysAt, KeysIn, Dict
<1> QED
  BY <1>1, <1>2 DEF RecordInv, LabelledAreNew

LEMMA KeptAloneFact ==
  ASSUME Types, ~use.clear, use' = use, NEW s, NEW i
  PROVE  /\ NoOther(i) => KeptAlone(s, i) = KeptDict(s, i) /\ KeptAlone(s, i)' = KeptDict(s, i)'
         /\ ~NoOther(i) => KeptAlone(s, i) = {} /\ KeptAlone(s, i)' = {}
<1>1. use.restarts \in Nat
  BY UsesAssumption DEF Types
<1> QED
  BY <1>1 DEF NoOther, KeptAlone

LEMMA GrownState ==
  ASSUME NEW t \in TrieState, NEW S
  PROVE  LET new == Grown(t, S)
         IN  /\ new.store = t.store /\ new.epoch = t.epoch + 1
             /\ new.dict = t.dict \cup Entries(S, t.epoch + 1)
<1> DEFINE d == Entries(S, t.epoch + 1)
<1>1. Grown(t, S) = [t EXCEPT !.epoch = @ + 1, !.dict = @ \cup d]
  BY DEF Grown
<1> HIDE DEF d
<1>2. Grown(t, S) = [store |-> t.store, epoch |-> t.epoch + 1, dict |-> t.dict \cup d]
  BY <1>1 DEF TrieState
<1> QED
  BY <1>2 DEF d

(***************************************************************************)
(* A flush adds its insertions to the trie under a new epoch.  What is     *)
(* kept of the trie in the instance's storage is then all of it, if the    *)
(* trie is over that storage, and otherwise what it was.                   *)
(***************************************************************************)
LEMMA FlushInsertsRecords ==
  ASSUME IInv, ~use.clear, RecordInv, FlushInserts
  PROVE  /\ RecordInv'
         /\ \A s \in Stores, i \in Ids : [OwnDirectory(s, i)!Append]_(KeptAlone(s, i))
<1>0. ~Idle
  BY DEF FlushInserts, TasksDone
<1>1. PICK x \in Instances, n \in Ids, o \in AllStores :
        x = call.of /\ x \in Open /\ n = IdOf(x) /\ o = StoreOf(x)
  BY <1>0, CallId
<1> DEFINE t == TrieFor(n)
           new == Grown(t, call.labelled)
           added == Entries(call.labelled, t.epoch + 1)
<1>2. /\ call.failed = {} /\ call' = NoCall
      /\ tries' = [tries EXCEPT ![n] = new]
      /\ trieIn' = [trieIn EXCEPT ![new.store][n] = Record(new)]
      /\ trieKept' = [trieKept EXCEPT ![o][n] = trieIn'[o][n]]
      /\ UNCHANGED <<use, made, config, restarts>>
  BY <1>1 DEF FlushInserts, Flushed
<1>3. t \in TrieState /\ t.store \in AllStores /\ t.epoch \in Nat
  BY DictFact DEF IInv, TrieState
<1>4. /\ new.store = t.store /\ new.epoch = t.epoch + 1 /\ new.dict = Dict(n) \cup added
  BY <1>3, GrownState DEF Dict
<1>5. /\ tries' \in [Ids -> TrieState \cup {None}]
      /\ tries'[n] = new /\ new \in TrieState
      /\ Dict(n)' = Dict(n) \cup added
      /\ \A i \in Ids : i # n => Dict(i)' = Dict(i) /\ tries'[i] = tries[i]
  BY <1>0, <1>1, <1>2, GrownFact
<1> HIDE DEF new, added
<1>6. /\ TrieFor(n)' = new /\ new # None
      /\ \A i \in Ids : i # n => TrieFor(i)' = TrieFor(i)
  BY <1>2, <1>5, NoneFact DEF TrieFor
<1>7. Record(new) \in TrieRecord /\ Record(new) # None /\ Record(new).dict = new.dict
  BY <1>5, NoRecord DEF Record, TrieRecord, TrieState
<1>8. /\ trieIn' \in Records /\ trieKept' \in Records
      /\ \A s \in AllStores, i \in Ids :
           /\ trieIn'[s][i] = IF s = t.store /\ i = n THEN Record(new) ELSE trieIn[s][i]
           /\ trieKept'[s][i] = IF s = o /\ i = n THEN trieIn'[s][i] ELSE trieKept[s][i]
  <2> HIDE DEF t, TrieRecord
  <2>1. trieIn \in Records /\ trieKept \in Records
    BY DEF RecordInv
  <2>2. trieIn' = [trieIn EXCEPT ![t.store][n] = Record(new)]
    BY <1>2, <1>4
  <2>3. trieIn' \in Records
    BY <1>3, <1>7, <2>1, <2>2 DEF Records
  <2>4. \A s \in AllStores, i \in Ids :
          trieIn'[s][i] = IF s = t.store /\ i = n THEN Record(new) ELSE trieIn[s][i]
    BY <1>3, <2>1, <2>2 DEF Records
  <2>5. trieIn'[o][n] \in TrieRecord \cup {None}
    BY <2>3 DEF Records
  <2>6. trieKept' \in Records
    BY <1>2, <2>1, <2>5 DEF Records
  <2>7. \A s \in AllStores, i \in Ids :
          trieKept'[s][i] = IF s = o /\ i = n THEN trieIn'[s][i] ELSE trieKept[s][i]
    BY <1>2, <2>1 DEF Records
  <2> QED
    BY <2>3, <2>4, <2>6, <2>7
<1>9. \A i \in Ids : EpochsPast(i)'
  <2> SUFFICES ASSUME NEW i \in Ids PROVE EpochsPast(i)'
    OBVIOUS
  <2>1. CASE i # n
    BY <1>5, <1>6, <2>1 DEF RecordInv, EpochsPast
  <2>2. CASE i = n
    <3>1. \A e \in added : e[3] = t.epoch + 1
      BY DEF added, Entries
    <3>2. \A e \in Dict(n) : e[3] \in Nat /\ e[3] <= t.epoch
      BY DictFact DEF IInv, RecordInv, EpochsPast
    <3> HIDE DEF t
    <3>3. \A e \in Dict(n) \cup added : e[3] <= t.epoch + 1
      BY <1>3, <3>1, <3>2
    <3> QED
      BY <1>4, <1>5, <1>6, <2>2, <3>3 DEF EpochsPast
  <2> QED
    BY <2>1, <2>2
<1>10. Owns(o, n) /\ \A s : Owns(s, n) => s = o
  <2>1. instance[x] \in made /\ instance[x] = [id |-> n, store |-> o]
    BY <1>1, OpenFact DEF IInv, Owned, IdOf, StoreOf, InstanceState
  <2>2. \A s : Owns(s, n) => [id |-> n, store |-> s] = [id |-> n, store |-> o]
    BY <2>1 DEF IInv, Owned, Owns
  <2>3. \A s : [id |-> n, store |-> s].store = s
    OBVIOUS
  <2> QED
    BY <2>1, <2>2, <2>3 DEF Owns
<1>11. ASSUME NEW s \in Stores, NEW i \in Ids, NoOther(i)
       PROVE  /\ KeptInv(s, i)'
              /\ KeptDict(s, i)' = KeptDict(s, i)
                   \/ (i = n /\ KeptDict(s, i) = Dict(n) /\ KeptDict(s, i)' = Dict(n) \cup added)
  <2>1. KeptInv(s, i) /\ s \in AllStores /\ Owns(s, i)' = Owns(s, i)
    BY <1>2, <1>11 DEF RecordInv, AllStores, Owns
  <2>2. CASE i # n
    <3>1. KeptDict(s, i)' = KeptDict(s, i) /\ SeenDict(s, i)' = SeenDict(s, i)
      BY <1>8, <2>1, <2>2 DEF KeptDict, SeenDict
    <3> QED
      BY <1>2, <1>5, <1>6, <2>1, <2>2, <3>1 DEF KeptInv
  <2>3. CASE i = n /\ s # t.store
    <3>1. SeenDict(s, i)' = SeenDict(s, i) /\ SeenDict(s, i) = KeptDict(s, i)
      BY <1>8, <2>1, <2>3 DEF SeenDict, KeptInv, TrieFor
    <3>2. KeptDict(s, i)' = KeptDict(s, i)
      BY <1>8, <2>1, <2>3, <3>1 DEF KeptDict, SeenDict
    <3> QED
      BY <1>4, <1>5, <1>6, <2>1, <2>3, <3>1, <3>2 DEF KeptInv
  <2>4. CASE i = n /\ s = t.store /\ s = o
    <3>1. KeptDict(s, i) = Dict(n)
      BY <1>10, <2>1, <2>4 DEF KeptInv
    <3>2. KeptDict(s, i)' = Dict(n) \cup added
      BY <1>4, <1>7, <1>8, <2>1, <2>4 DEF KeptDict
    <3> QED
      BY <1>4, <1>5, <1>6, <1>10, <2>1, <2>4, <3>1, <3>2 DEF KeptInv
  <2>5. CASE i = n /\ s = t.store /\ s # o
    <3>1. ~Owns(s, i) /\ KeptDict(s, i)' = KeptDict(s, i)
      BY <1>8, <1>10, <2>1, <2>5 DEF KeptDict
    <3> QED
      BY <1>4, <1>5, <1>6, <2>1, <2>5, <3>1 DEF KeptInv
  <2> QED
    BY <2>2, <2>3, <2>4, <2>5
<1>12. RecordInv'
  BY <1>2, <1>8, <1>9, <1>11, NoFlushNew DEF RecordInv, NoOther
<1>13. \A s \in Stores, i \in Ids :
         /\ NoOther(i) => KeptAlone(s, i) = KeptDict(s, i) /\ KeptAlone(s, i)' = KeptDict(s, i)'
         /\ ~NoOther(i) => KeptAlone(s, i)' = KeptAlone(s, i)
  BY <1>2, KeptAloneFact DEF IInv
<1>14. ASSUME NEW s \in Stores, NEW i \in Ids, NoOther(i), i = n, KeptDict(s, i) = Dict(n),
              KeptDict(s, i)' = Dict(n) \cup added
       PROVE  OwnDirectory(s, i)!Append
  <2> DEFINE d == KeptAlone(s, i)
             e == KeptAlone(s, i)'
  <2>1. /\ \A u \in added : u[3] = t.epoch + 1 /\ \E j \in call.labelled : u[1] = pending[x][j].key
        /\ \A u, v \in added : u[1] = v[1] => u = v
    <3>1. \A u \in added : \E j \in call.labelled :
            u = <<pending[x][j].key, pending[x][j].payload, t.epoch + 1>>
      BY <1>1 DEF added, Entries
    <3>2. \A j, l \in call.labelled : pending[x][j].key = pending[x][l].key => j = l
      BY <1>0, <1>1, <1>2 DEF RecordInv, LabelledAreNew
    <3> QED
      BY <3>1, <3>2
  <2>2. \A v \in Dict(n) : \A u \in added : v[1] # u[1] /\ u[3] > v[3]
    <3>1. \A v \in Dict(n) : \A j \in call.labelled : v[1] # pending[x][j].key
      BY <1>0, <1>1, <1>2 DEF RecordInv, LabelledAreNew
    <3>2. \A v \in Dict(n) : v[3] \in Nat /\ v[3] <= t.epoch
      BY DictFact DEF IInv, RecordInv, EpochsPast
    <3> HIDE DEF t
    <3> QED
      BY <1>3, <2>1, <3>1, <3>2
  <2>3. d = Dict(n) /\ e = Dict(n) \cup added
    BY <1>13, <1>14
  <2> HIDE DEF d, e
  <2>4. d \subseteq e /\ e \ d \subseteq added
    BY <2>3
  <2>5. OwnDirectory(s, i)!Labels(e \ d) \cap OwnDirectory(s, i)!Labels(d) = {}
    BY <2>2, <2>3, <2>4 DEF OwnDirectory!Labels
  <2> QED
    BY <2>1, <2>2, <2>3, <2>4, <2>5 DEF OwnDirectory!Append, d, e
<1> QED
  BY <1>11, <1>12, <1>13, <1>14

LEMMA RestartRecords ==
  ASSUME IInv, RecordInv, Restart
  PROVE  RecordInv'
<1>1. /\ use.restarts # 0 /\ config' = Scratch /\ tries' = [i \in Ids |-> None]
      /\ trieIn' = [trieKept EXCEPT ![Scratch] = [i \in Ids |-> None]]
      /\ call' = NoCall /\ UNCHANGED <<use, made, trieKept>>
  BY DEF Restart, IInv, Types
<1>2. /\ trieIn' \in Records
      /\ \A s \in Stores, i \in Ids : trieIn'[s][i] = trieKept[s][i]
  BY <1>1, NoRecord DEF RecordInv, Records, AllStores
<1>3. \A i \in Ids : tries'[i] = None /\ Dict(i)' = {} /\ TrieFor(i)'.store = Scratch
  BY <1>1 DEF Dict, TrieFor
<1>4. \A i \in Ids : EpochsPast(i)'
  BY <1>3 DEF EpochsPast
<1>5. ASSUME NEW s \in Stores, NEW i \in Ids, NoOther(i)
      PROVE  KeptInv(s, i)'
  <2>1. KeptInv(s, i) /\ Owns(s, i)' = Owns(s, i) /\ KeptDict(s, i)' = KeptDict(s, i)
    BY <1>1, <1>5 DEF RecordInv, Owns, KeptDict
  <2>2. SeenDict(s, i)' = KeptDict(s, i)
    BY <1>2 DEF SeenDict, KeptDict
  <2> QED
    BY <1>1, <1>3, <2>1, <2>2, NoRecord DEF KeptInv
<1> QED
  BY <1>1, <1>2, <1>4, <1>5, NoFlushNew DEF RecordInv, NoOther

LEMMA UseStays ==
  ASSUME [Next]_vars
  PROVE  use' = use
BY DEF Next, vars, Construct, Load, Ask, Insert, BeginFlush, CheckForUpdate, Clear, Label,
       FlushThrows, TrieThrows, FlushInserts, Restart

(* Only a flush that inserts changes what is kept. *)
LEMMA NextRecords ==
  ASSUME IInv, ~use.clear, RecordInv, [Next]_vars
  PROVE  /\ RecordInv'
         /\ \A s \in Stores, i \in Ids : [OwnDirectory(s, i)!Append]_(KeptAlone(s, i))
<1>1. CASE UNCHANGED <<use, made, config, tries, trieIn, trieKept>> /\ LabelledAreNew'
  BY <1>1, SameRecords
<1>2. CASE UNCHANGED <<use, trieKept>> /\ RecordInv'
  BY <1>2 DEF KeptAlone, KeptDict
<1>3. CASE \E x \in Instances, s \in Stores : Construct(x, s)
  BY <1>2, <1>3, ConstructRecords DEF Construct, stored
<1>4. CASE \E x \in Instances, f \in made : Load(x, f)
  BY <1>2, <1>4, LoadRecords DEF Load, stored
<1>5. CASE \E x \in Instances : Ask(x) \/ CheckForUpdate(x)
  <2>1. PICK n \in Ids : GetTrie(n) /\ Idle /\ UNCHANGED <<use, made, config, trieKept, call>>
    BY <1>5, OpenFact DEF Ask, CheckForUpdate, IInv
  <2> QED
    BY <1>2, <2>1, MadeTrieRecords
<1>6. CASE \E x \in Instances, k \in Keys, p \in Payloads : Insert(x, k, p)
  BY <1>1, <1>6, NoFlushNew DEF Insert, stored
<1>7. CASE \E x \in Instances : BeginFlush(x)
  BY <1>1, <1>7, BeginFlushNew DEF BeginFlush, stored
<1>8. CASE \E i \in 0..(ThreadLimit - 1) : Label(i)
  <2>1. LabelledAreNew'
    BY <1>8, LabelNew DEF RecordInv
  <2> QED
    BY <1>1, <1>8, <2>1 DEF Label
<1>9. CASE FlushThrows
  BY <1>1, <1>9, NoFlushNew DEF FlushThrows, stored
<1>10. CASE TrieThrows
  BY <1>10, NeverTrieThrows
<1>11. CASE FlushInserts
  BY <1>11, FlushInsertsRecords
<1>12. CASE \E x \in Instances : Clear(x)
  BY <1>12 DEF Clear
<1>13. CASE Restart
  BY <1>2, <1>13, RestartRecords DEF Restart
<1>14. CASE UNCHANGED vars
  <2>1. UNCHANGED <<use, instance, made, config, tries, trieIn, trieKept, pending, call>>
    BY <1>14 DEF vars, stored
  <2>2. LabelledAreNew'
    BY <2>1 DEF RecordInv, LabelledAreNew, Idle, Dict, TrieFor, IdOf
  <2> QED
    BY <1>1, <2>1, <2>2
<1> QED
  BY <1>3, <1>4, <1>5, <1>6, <1>7, <1>8, <1>9, <1>10, <1>11, <1>12, <1>13, <1>14 DEF Next

(***************************************************************************)
(* What is kept of a trie is an append-only dictionary: flushes that fail  *)
(* change nothing, the others add their insertions, all of them at once    *)
(* and under a later epoch, and no restart takes anything away, as long as *)
(* the process has no other instance and nobody clears it.                 *)
(***************************************************************************)
THEOREM StoredOnlyGrows == Spec => StoredAloneIsAppendOnly
<1> DEFINE Kept == ~use.clear => RecordInv
           Grow == \A s \in Stores, i \in Ids : [OwnDirectory(s, i)!Append]_(KeptAlone(s, i))
<1>1. Init => Kept /\ \A s \in Stores, i \in Ids : OwnDirectory(s, i)!Init
  <2>1. Init => RecordInv
    BY InitRecords
  <2>2. Init => \A s \in Stores, i \in Ids : KeptAlone(s, i) = {}
    BY DEF Init, KeptAlone, KeptDict, AllStores
  <2> QED
    BY <2>1, <2>2 DEF OwnDirectory!Init
<1>2. IInv /\ Kept /\ [Next]_vars => Kept' /\ [Grow]_vars
  <2> SUFFICES ASSUME IInv, Kept, [Next]_vars PROVE Kept' /\ Grow
    OBVIOUS
  <2>1. CASE ~use.clear
    BY <2>1, NextRecords
  <2>2. CASE use.clear
    <3>1. use' = use
      BY UseStays
    <3> QED
      BY <2>2, <3>1 DEF KeptAlone
  <2> QED
    BY <2>1, <2>2
<1> HIDE DEF Kept
<1> QED
  BY <1>1, <1>2, Inductive, PTL DEF Spec, StoredAloneIsAppendOnly

(* Without clear CompressedTrie::insert never finds a key that the trie    *)
(* has: a second insertion of a key has failed before, in its task.        *)
THEOREM TrieThrowsOnlyCleared == Spec => [][TrieThrows => use.clear]_vars
<1> DEFINE Kept == ~use.clear => RecordInv
<1>1. Init => Kept
  BY InitRecords
<1>2. IInv /\ Kept /\ [Next]_vars => Kept'
  BY NextRecords, UseStays
<1>3. IInv /\ Kept /\ [Next]_vars => [TrieThrows => use.clear]_vars
  BY NeverTrieThrows
<1> HIDE DEF Kept
<1> QED
  BY <1>1, <1>2, <1>3, Inductive, PTL DEF Spec

=============================================================================
