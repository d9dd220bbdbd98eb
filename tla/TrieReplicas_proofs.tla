------------------------- MODULE TrieReplicas_proofs -------------------------
(***************************************************************************)
(* Theorems about the queriers of one query provider, for any number of    *)
(* them, of keys and of epochs: no published key is missed, and an answer  *)
(* that follows a refresh is one of the published trie.                    *)
(***************************************************************************)
EXTENDS TrieReplicas, CTNode_proofs

(* The trie stays in the cache while queriers read through it. *)
StaysCached == \A p \in Providers : p.cache => ~p.trieMayLeave

-----------------------------------------------------------------------------
(* The invariant                                                           *)

(* The dictionary as it was at an epoch. *)
Past(e) == {t \in dict : t[3] <= e}

(* The node is as an epoch of the given one or later had it. *)
From(e, n, node) ==
  \E v \in e..epoch : n \in NodeLabels(Past(v)) /\ node = TrieOf(Past(v))[n]

Batch(e) ==
  [n \in SavedBy(TrieOf(Past(e - 1)), TrieOf(Past(e))) |-> TrieOf(Past(e))[n]]

StorageInv ==
  /\ provider \in Providers
  /\ dict \subseteq FullLabel \X {"c"} \X Nat
  /\ epoch \in 0..provider.epochs
  /\ \A t \in dict : t[3] <= epoch
  /\ stored = TrieOf(dict)
  /\ updates = [e \in Epochs |-> updates[e]]
  /\ checked \in 0..epoch

(* Which batches were handed over: those after epoch b, at which the cache *)
(* first took the trie, up to epoch f.  No cached node is older than f.    *)
CacheInv(b, f) ==
  /\ b \in 0..f /\ f \in 0..epoch
  /\ ~HasCache => b = 0 /\ f = epoch /\ cachedTrie = {} /\ DOMAIN cachedNodes = {}
  /\ HasCache =>
       /\ cachedTrie = {} \/ \E e \in b..f : cachedTrie = {e}
       /\ cachedTrie = {} => f = 0 /\ DOMAIN cachedNodes = {}
       /\ \A n \in DOMAIN cachedNodes : From(f, n, cachedNodes[n])
       /\ \A e \in (b + 1)..f : DOMAIN updates[e] = {}
       /\ \A e \in (f + 1)..epoch : updates[e] = Batch(e)

Loaded == [epoch : 0..epoch, root : {TrieOf(Past(v))[EmptyLabel] : v \in 0..epoch}]

QueriersInv(b, f) ==
  /\ queriers \in Seq(Loaded) /\ Len(queriers) <= QuerierCount
  /\ queriers # <<>> /\ HasCache => cachedTrie # {}
  /\ \A q \in DOMAIN queriers :
       /\ queriers[q].epoch \in b..f /\ checked <= queriers[q].epoch
       /\ From(queriers[q].epoch, EmptyLabel, queriers[q].root)

(* A walk of a query for l: each node below the one before, on its side,   *)
(* and the children of all but the last were read.                         *)
IsWalk(s, l, c) ==
  /\ c \in Seq(DOMAIN s) /\ Len(c) > 0 /\ c[1] = EmptyLabel
  /\ \A i \in 1..Len(c) : Len(c[i]) >= i - 1
  /\ \A i \in 1..(Len(c) - 1) :
       /\ c[i] # l /\ ~IsLeaf(s[c[i]])
       /\ s[c[i]].left \in DOMAIN s /\ s[c[i]].right \in DOMAIN s
       /\ c[i + 1] = ChildOn(s[c[i]], NextBit(c[i], l)) /\ c[i + 1] # EmptyLabel

Walking ==
  /\ call.pc = "walk"
  /\ call = [pc |-> "walk", querier |-> call.querier, key |-> call.key, at |-> call.at,
             seen |-> call.seen]
  /\ call.querier \in DOMAIN queriers /\ call.key \in Searched
  /\ Len(queriers) = QuerierCount
  /\ call.seen = [n \in DOMAIN call.seen |-> call.seen[n]]
  /\ EmptyLabel \in DOMAIN call.seen
  /\ \A n \in DOMAIN call.seen : From(queriers[call.querier].epoch, n, call.seen[n])
  /\ \E c : IsWalk(call.seen, call.key, c) /\ c[Len(c)] = call.at
  /\ call.key \in LabelsOf(Past(queriers[call.querier].epoch)) => Starts(call.at, call.key)

Idle ==
  /\ call = NoCall
  /\ \/ queriers = <<>> /\ checked = 0 /\ cachedTrie = {}
     \/ Len(queriers) = QuerierCount

(* The queriers that the call is done with. *)
Done == {p \in 1..call.querier : p < call.querier \/ call.pc = "next"}

Loading(b, f) ==
  /\ call \in [pc : {"load", "root", "next", "epoch", "updates"}, op : {"create", "check"},
               querier : 1..QuerierCount, epoch : Nat, last : Nat, began : 0..epoch]
  /\ checked <= call.began
  /\ \A p \in Done : p \in DOMAIN queriers /\ call.began <= queriers[p].epoch
  /\ call.op = "create" =>
       /\ call.pc \in {"load", "root", "next"} /\ checked = 0
       /\ Len(queriers) = IF call.pc = "next" THEN call.querier ELSE call.querier - 1
       /\ HasCache /\ cachedTrie = {} => call.pc = "load"
       /\ \A e \in cachedTrie : call.began <= e
  /\ call.op = "check" => Len(queriers) = QuerierCount
  /\ call.op = "check" /\ call.pc \in {"load", "updates"} =>
       call.began <= call.last /\ queriers[call.querier].epoch < call.last /\ call.last <= epoch
  /\ call.pc = "updates" =>
       /\ call.op = "check"
       /\ queriers[call.querier].epoch < call.epoch
       /\ call.epoch <= f + 1 /\ call.epoch <= call.last + 1
       /\ HasCache /\ queriers[call.querier].epoch + 1 < call.epoch =>
            cachedTrie = {call.epoch - 1}
  /\ call.op = "check" /\ call.pc = "load" /\ HasCache => cachedTrie = {call.last}
  /\ call.pc = "root" => call.epoch \in b..f /\ call.began <= call.epoch

Fits(b, f) ==
  /\ CacheInv(b, f) /\ QueriersInv(b, f)
  /\ Idle \/ Walking \/ Loading(b, f)

IInv == StorageInv /\ \E b, f \in 0..epoch : Fits(b, f)

-----------------------------------------------------------------------------
(* What steps leave as it was                                              *)

LEMMA PastFact ==
  ASSUME StorageInv
  PROVE  /\ Past(epoch) = dict /\ epoch \in 0..MaxEpoch
         /\ \A e : Past(e) \subseteq dict /\ LabelsOf(Past(e)) \subseteq FullLabel
         /\ \A e, v \in Nat : e <= v => Past(e) \subseteq Past(v)
<1>1. dict \subseteq FullLabel \X {"c"} \X Nat /\ \A t \in dict : t[3] <= epoch
  BY DEF StorageInv
<1>2. \A t \in dict : t[1] \in FullLabel /\ t[3] \in Nat
  BY <1>1
<1>3. epoch \in 0..MaxEpoch
  BY ProvidersAssumption, BoundsAssumption DEF StorageInv
<1>4. \A e, v \in Nat : e <= v => Past(e) \subseteq Past(v)
  BY <1>2 DEF Past
<1> QED
  BY <1>1, <1>2, <1>3, <1>4 DEF Past, LabelsOf

LEMMA SameDict ==
  ASSUME dict' = dict, epoch' = epoch
  PROVE  /\ \A e : Past(e)' = Past(e)
         /\ \A e, n, x : From(e, n, x)' <=> From(e, n, x)
         /\ \A e : Batch(e)' = Batch(e)
         /\ Loaded' = Loaded
<1>1. \A e : Past(e)' = Past(e)
  BY DEF Past
<1>2. \A e, n, x : From(e, n, x)' <=> From(e, n, x)
  BY <1>1 DEF From
<1>3. \A e : Batch(e)' = Batch(e)
  BY <1>1 DEF Batch
<1>4. Loaded' = Loaded
  BY <1>1 DEF Loaded
<1> QED
  BY <1>1, <1>2, <1>3, <1>4

LEMMA StorageSame ==
  ASSUME StorageInv, UNCHANGED <<provider, dict, stored, epoch, updates>>, checked' \in 0..epoch
  PROVE  StorageInv'
BY DEF StorageInv

LEMMA CacheSame ==
  ASSUME NEW b, NEW f, CacheInv(b, f), UNCHANGED <<storage, cachedTrie>>,
         DOMAIN cachedNodes' \subseteq DOMAIN cachedNodes,
         \A n \in DOMAIN cachedNodes' : cachedNodes'[n] = cachedNodes[n]
  PROVE  CacheInv(b, f)'
<1>1. UNCHANGED <<provider, dict, epoch, updates>>
  BY DEF storage
<1>2. /\ \A e, n, x : From(e, n, x)' <=> From(e, n, x)
      /\ \A e : Batch(e)' = Batch(e)
  BY <1>1, SameDict
<1>3. HasCache' = HasCache
  BY <1>1 DEF HasCache
<1> QED
  BY <1>1, <1>2, <1>3 DEF CacheInv

LEMMA QueriersSame ==
  ASSUME NEW b, NEW f, QueriersInv(b, f), UNCHANGED <<provider, dict, epoch, queriers>>,
         cachedTrie # {} => cachedTrie' # {},
         \A q \in DOMAIN queriers : checked' <= queriers[q].epoch
  PROVE  QueriersInv(b, f)'
<1>1. /\ \A e, n, x : From(e, n, x)' <=> From(e, n, x)
      /\ Loaded' = Loaded
  BY SameDict
<1>2. HasCache' = HasCache /\ QuerierCount' = QuerierCount
  BY DEF HasCache, QuerierCount
<1> QED
  BY <1>1, <1>2 DEF QueriersInv

LEMMA WalkingSame ==
  ASSUME Walking, UNCHANGED <<provider, dict, epoch, queriers, call>>
  PROVE  Walking'
<1>1. /\ \A e, n, x : From(e, n, x)' <=> From(e, n, x)
      /\ \A e : Past(e)' = Past(e)
  BY SameDict
<1>2. QuerierCount' = QuerierCount
  BY DEF QuerierCount
<1> QED
  BY <1>1, <1>2 DEF Walking

LEMMA LoadingSame ==
  ASSUME NEW b, NEW f, Loading(b, f),
         UNCHANGED <<provider, dict, epoch, queriers, call, cachedTrie, checked>>
  PROVE  Loading(b, f)'
<1>1. HasCache' = HasCache /\ QuerierCount' = QuerierCount /\ Done' = Done
  BY DEF HasCache, QuerierCount, Done
<1> QED
  BY <1>1 DEF Loading

LEMMA IdleSame ==
  ASSUME Idle, UNCHANGED <<provider, queriers, call, cachedTrie, checked>>
  PROVE  Idle'
BY DEF Idle, QuerierCount, NoCall

LEMMA FitsInv ==
  ASSUME StorageInv', NEW b \in Nat, NEW f \in Nat, CacheInv(b, f)', QueriersInv(b, f)',
         (Idle \/ Walking \/ Loading(b, f))'
  PROVE  IInv'
<1>1. Fits(b, f)'
  BY DEF Fits
<1>2. b \in 0..epoch' /\ f \in 0..epoch'
  BY DEF CacheInv, StorageInv
<1> QED
  BY <1>1, <1>2 DEF IInv

-----------------------------------------------------------------------------
(* Publish and Evict                                                       *)

LEMMA PublishPast ==
  ASSUME StorageInv, NEW S \in SUBSET Keys, Publish(S)
  PROVE  /\ \A e \in 0..epoch : Past(e)' = Past(e)
         /\ \A e \in Nat : \A n, x : From(e, n, x) => From(e, n, x)'
         /\ \A e \in 1..epoch : Batch(e)' = Batch(e)
         /\ \A e \in Nat : e = epoch + 1 => updates'[e] = Batch(e)'
         /\ \A e \in Epochs : e # epoch + 1 => updates'[e] = updates[e]
         /\ epoch \in Nat /\ epoch' = epoch + 1 /\ epoch' \in Epochs
         /\ StorageInv'
<1>1. /\ dict' = dict \cup {<<k, "c", epoch + 1>> : k \in S}
      /\ stored' = TrieOf(dict') /\ epoch' = epoch + 1
      /\ updates' = [updates EXCEPT ![epoch + 1] =
                       [n \in SavedBy(stored, stored') |-> stored'[n]]]
      /\ epoch < provider.epochs /\ UNCHANGED <<provider, checked>>
  BY DEF Publish
<1>2. /\ dict \subseteq FullLabel \X {"c"} \X Nat
      /\ epoch \in 0..provider.epochs /\ provider.epochs \in 0..MaxEpoch /\ MaxEpoch \in Nat
      /\ \A t \in dict : t[3] <= epoch
      /\ stored = TrieOf(dict) /\ updates = [e \in Epochs |-> updates[e]]
      /\ Past(epoch) = dict
  BY ProvidersAssumption, BoundsAssumption, PastFact DEF StorageInv
<1>3. epoch \in Nat /\ epoch' \in Epochs
  BY <1>1, <1>2 DEF Epochs
<1>4. \A t \in {<<k, "c", epoch + 1>> : k \in S} : t[3] = epoch + 1
  OBVIOUS
<1>5. \A e \in 0..epoch : Past(e)' = Past(e)
  BY <1>1, <1>3, <1>4 DEF Past
<1>6. ASSUME NEW e \in Nat, NEW n, NEW x, From(e, n, x)
      PROVE  From(e, n, x)'
  <2>1. PICK v \in e..epoch : n \in NodeLabels(Past(v)) /\ x = TrieOf(Past(v))[n]
    BY <1>6 DEF From
  <2>2. v \in 0..epoch /\ v \in e..(epoch + 1)
    BY <1>3
  <2>3. Past(v)' = Past(v)
    BY <1>5, <2>2
  <2> QED
    BY <1>1, <2>1, <2>2, <2>3 DEF From
<1>7. ASSUME NEW e \in 1..epoch
      PROVE  Batch(e)' = Batch(e)
  <2>1. e \in 0..epoch /\ e - 1 \in 0..epoch
    BY <1>3
  <2> QED
    BY <1>5, <2>1 DEF Batch
<1>8. ASSUME NEW e \in Nat, e = epoch + 1
      PROVE  updates'[e] = Batch(e)'
  <2>1. updates'[e] = [n \in SavedBy(stored, stored') |-> stored'[n]]
    BY <1>1, <1>2, <1>3, <1>8
  <2>2. Past(e - 1)' = dict
    <3>1. e - 1 = epoch /\ e - 1 \in 0..epoch
      BY <1>3, <1>8
    <3> QED
      BY <1>2, <1>5, <3>1
  <2>3. Past(e)' = dict'
    <3>1. \A t \in dict' : t[3] <= e
      BY <1>1, <1>2, <1>3, <1>4, <1>8
    <3> QED
      BY <3>1 DEF Past
  <2> QED
    BY <1>1, <1>2, <2>1, <2>2, <2>3 DEF Batch
<1>9. StorageInv'
  <2>1. dict' \subseteq FullLabel \X {"c"} \X Nat /\ \A t \in dict' : t[3] <= epoch'
    BY <1>1, <1>2, <1>3, <1>4, KeysAssumption
  <2>2. updates' = [e \in Epochs |-> updates'[e]]
    BY <1>1, <1>2
  <2>3. epoch' \in 0..provider.epochs /\ checked' \in 0..epoch'
    BY <1>1, <1>2, <1>3 DEF StorageInv
  <2> QED
    BY <1>1, <2>1, <2>2, <2>3 DEF StorageInv
<1> QED
  BY <1>1, <1>2, <1>3, <1>5, <1>6, <1>7, <1>8, <1>9

LEMMA PublishInv ==
  ASSUME StorageInv, NEW b \in Nat, NEW f \in Nat, Fits(b, f),
         NEW S \in SUBSET Keys, Publish(S)
  PROVE  IInv'
<1>0. PICK g \in Nat : g = IF HasCache THEN f ELSE f + 1
  OBVIOUS
<1> USE DEF Fits
<1>1. /\ \A e \in 0..epoch : Past(e)' = Past(e)
      /\ \A e \in Nat : \A n, x : From(e, n, x) => From(e, n, x)'
      /\ \A e \in 1..epoch : Batch(e)' = Batch(e)
      /\ \A e \in Nat : e = epoch + 1 => updates'[e] = Batch(e)'
      /\ \A e \in Epochs : e # epoch + 1 => updates'[e] = updates[e]
      /\ epoch \in Nat /\ epoch' = epoch + 1 /\ epoch' \in Epochs
      /\ StorageInv'
  BY PublishPast
<1>2. UNCHANGED <<provider, cache, queriers, call, checked>>
  BY DEF Publish
<1>3. HasCache' = HasCache /\ QuerierCount' = QuerierCount /\ Done' = Done
  BY <1>2 DEF HasCache, QuerierCount, Done
<1>4. g \in 0..epoch' /\ f <= g /\ b <= f /\ g \in Nat /\ f <= epoch
  BY <1>0, <1>1 DEF CacheInv
<1>5. CacheInv(b, g)'
  <2>1. UNCHANGED <<cachedNodes, cachedTrie>>
    BY <1>2 DEF cache
  <2>2. ~HasCache => b = 0 /\ g = epoch' /\ cachedTrie = {} /\ DOMAIN cachedNodes = {}
    BY <1>0, <1>1 DEF CacheInv
  <2>3. ASSUME HasCache
        PROVE  /\ cachedTrie = {} \/ \E e \in b..f : cachedTrie = {e}
               /\ cachedTrie = {} => f = 0 /\ DOMAIN cachedNodes = {}
               /\ \A n \in DOMAIN cachedNodes : From(f, n, cachedNodes[n])'
               /\ \A e \in (b + 1)..f : DOMAIN updates'[e] = {}
               /\ \A e \in (f + 1)..epoch' : updates'[e] = Batch(e)'
    <3>1. \A e \in 1..epoch : e \in Epochs /\ e # epoch + 1
      BY <1>1, BoundsAssumption DEF Epochs
    <3>2. \A e \in (b + 1)..f : DOMAIN updates'[e] = {}
      <4>1. \A e \in (b + 1)..f : DOMAIN updates[e] = {} /\ e \in 1..epoch
        BY <1>4, <2>3, <1>1 DEF CacheInv
      <4> QED
        BY <1>1, <3>1, <4>1
    <3>3. ASSUME NEW e \in (f + 1)..epoch'
          PROVE  updates'[e] = Batch(e)'
      <4>1. CASE e = epoch + 1
        <5>1. e \in Nat
          BY <1>1, <4>1
        <5> QED
          BY <1>1, <4>1, <5>1
      <4>2. CASE e # epoch + 1
        <5>1. e \in 1..epoch /\ e \in (f + 1)..epoch
          BY <1>1, <4>2
        <5>2. updates[e] = Batch(e)
          BY <2>3, <5>1 DEF CacheInv
        <5> QED
          BY <1>1, <3>1, <5>1, <5>2
      <4> QED
        BY <4>1, <4>2
    <3>4. \A n \in DOMAIN cachedNodes : \A x : x = cachedNodes[n] => From(f, n, x)'
      BY <1>1, <2>3 DEF CacheInv
    <3>5. \A n \in DOMAIN cachedNodes : From(f, n, cachedNodes[n])'
      BY <2>1, <3>4
    <3>6. /\ cachedTrie = {} \/ \E e \in b..f : cachedTrie = {e}
          /\ cachedTrie = {} => f = 0 /\ DOMAIN cachedNodes = {}
      BY <2>3 DEF CacheInv
    <3> QED
      BY <3>2, <3>3, <3>5, <3>6
  <2> QED
    BY <1>0, <1>3, <1>4, <2>1, <2>2, <2>3 DEF CacheInv
<1>6. QueriersInv(b, g)'
  <2>1. Loaded \subseteq Loaded'
    <3>1. \A v \in 0..epoch : v \in 0..epoch' /\ TrieOf(Past(v))[EmptyLabel] = TrieOf(Past(v)')[EmptyLabel]
      BY <1>1
    <3> QED
      BY <1>1, <3>1 DEF Loaded
  <2>2. queriers \in Seq(Loaded')
    BY <2>1, SeqGrows DEF QueriersInv
  <2>3. \A q \in DOMAIN queriers : queriers[q].epoch \in b..g /\ queriers[q].epoch \in Nat
    BY <1>4 DEF QueriersInv
  <2> QED
    BY <1>1, <1>2, <1>3, <2>2, <2>3 DEF QueriersInv, cache
<1>7. Idle => Idle'
  BY <1>2, IdleSame DEF cache
<1>8. Walking => Walking'
  <2> SUFFICES ASSUME Walking PROVE Walking'
    OBVIOUS
  <2>1. PICK e \in 0..epoch : e = queriers[call.querier].epoch /\ e \in Nat
    BY <1>1, <1>4 DEF Walking, QueriersInv
  <2>2. Past(e)' = Past(e)
    BY <1>1, <2>1
  <2> QED
    BY <1>1, <1>2, <1>3, <2>1, <2>2 DEF Walking
<1>9. Loading(b, f) => Loading(b, g)'
  BY <1>1, <1>2, <1>3, <1>4 DEF Loading, cache
<1> QED
  BY <1>1, <1>5, <1>6, <1>7, <1>8, <1>9, FitsInv

LEMMA EvictInv ==
  ASSUME StorageInv, StaysCached, NEW b \in Nat, NEW f \in Nat, Fits(b, f), Evict
  PROVE  IInv'
<1>1. UNCHANGED <<storage, queriers, call, checked>>
  BY DEF Evict
<1>2. /\ UNCHANGED cachedTrie
      /\ DOMAIN cachedNodes' \subseteq DOMAIN cachedNodes
      /\ \A n \in DOMAIN cachedNodes' : cachedNodes'[n] = cachedNodes[n]
  <2>1. ~(provider.trieMayLeave /\ cachedTrie # {})
    BY DEF StaysCached, StorageInv, Fits, CacheInv, HasCache
  <2> QED
    BY <2>1 DEF Evict
<1>3. UNCHANGED <<provider, dict, stored, epoch, updates>>
  BY <1>1 DEF storage
<1>4. StorageInv'
  BY <1>1, <1>3, StorageSame DEF StorageInv
<1>5. CacheInv(b, f)'
  BY <1>1, <1>2, CacheSame DEF Fits
<1>6. QueriersInv(b, f)'
  BY <1>1, <1>2, <1>3, QueriersSame DEF Fits, QueriersInv
<1>7. (Idle \/ Walking \/ Loading(b, f))'
  BY <1>1, <1>2, <1>3, IdleSame, WalkingSame, LoadingSame DEF Fits
<1> QED
  BY <1>4, <1>5, <1>6, <1>7, FitsInv

-----------------------------------------------------------------------------
(* The start of a call, which changes nothing else                         *)

LEMMA CallSame ==
  ASSUME StorageInv, NEW b \in Nat, NEW f \in Nat, Fits(b, f),
         UNCHANGED <<storage, cache, queriers, checked>>
  PROVE  /\ StorageInv' /\ CacheInv(b, f)' /\ QueriersInv(b, f)'
         /\ UNCHANGED <<provider, dict, epoch, cachedTrie>>
<1>1. UNCHANGED <<provider, dict, stored, epoch, updates, cachedNodes, cachedTrie>>
  BY DEF storage, cache
<1>2. StorageInv'
  BY <1>1, StorageSame DEF StorageInv
<1>3. CacheInv(b, f)'
  BY <1>1, CacheSame DEF Fits
<1>4. QueriersInv(b, f)'
  BY <1>1, QueriersSame DEF Fits, QueriersInv
<1> QED
  BY <1>1, <1>2, <1>3, <1>4

LEMMA CountFact ==
  ASSUME StorageInv
  PROVE  QuerierCount \in Nat \ {0} /\ QuerierCount <= MaxQueriers
BY ProvidersAssumption, BoundsAssumption DEF StorageInv, QuerierCount

LEMMA CreateInv ==
  ASSUME StorageInv, NEW b \in Nat, NEW f \in Nat, Fits(b, f), CreateQueriers
  PROVE  IInv'
<1>1. /\ call.pc = "idle" /\ queriers = <<>> /\ UNCHANGED <<storage, cache, queriers, checked>>
      /\ call' = [pc |-> "load", op |-> "create", querier |-> 1, epoch |-> 0,
                  last |-> 0, began |-> epoch]
  BY DEF CreateQueriers
<1>2. /\ StorageInv' /\ CacheInv(b, f)' /\ QueriersInv(b, f)'
      /\ UNCHANGED <<provider, dict, epoch, cachedTrie>>
  BY <1>1, CallSame
<1>3. QuerierCount \in Nat \ {0}
  BY CountFact
<1>4. checked = 0 /\ cachedTrie = {} /\ epoch \in 0..epoch
  <2>1. Idle
    BY <1>1 DEF Fits, Walking, Loading
  <2>2. Len(queriers) = 0
    BY <1>1
  <2> QED
    BY <1>3, <2>1, <2>2, PastFact DEF Idle, StorageInv
<1>5. Loading(b, f)'
  <2>1. Done' = {}
    BY <1>1 DEF Done
  <2>2. QuerierCount' = QuerierCount /\ Len(queriers') = 0
    BY <1>1, <1>2 DEF QuerierCount
  <2>3. call' \in [pc : {"load", "root", "next", "epoch", "updates"}, op : {"create", "check"},
                   querier : 1..QuerierCount, epoch : Nat, last : Nat, began : 0..epoch]
    BY <1>1, <1>3, <1>4
  <2> QED
    BY <1>1, <1>2, <1>3, <1>4, <2>1, <2>2, <2>3 DEF Loading
<1> QED
  BY <1>2, <1>5, FitsInv

LEMMA CheckInv ==
  ASSUME StorageInv, NEW b \in Nat, NEW f \in Nat, Fits(b, f), CheckForUpdate
  PROVE  IInv'
<1>1. /\ call.pc = "idle" /\ queriers # <<>> /\ UNCHANGED <<storage, cache, queriers, checked>>
      /\ call' = [pc |-> "epoch", op |-> "check", querier |-> 1, epoch |-> 0,
                  last |-> 0, began |-> epoch]
  BY DEF CheckForUpdate
<1>2. /\ StorageInv' /\ CacheInv(b, f)' /\ QueriersInv(b, f)'
      /\ UNCHANGED <<provider, dict, epoch, cachedTrie>>
  BY <1>1, CallSame
<1>3. QuerierCount \in Nat \ {0}
  BY CountFact
<1>4. Len(queriers) = QuerierCount /\ epoch \in 0..epoch /\ checked <= epoch
  BY <1>1, PastFact DEF Fits, Idle, Walking, Loading, StorageInv
<1>5. Loading(b, f)'
  <2>1. Done' = {}
    BY <1>1 DEF Done
  <2>2. QuerierCount' = QuerierCount
    BY <1>2 DEF QuerierCount
  <2>3. call' \in [pc : {"load", "root", "next", "epoch", "updates"}, op : {"create", "check"},
                   querier : 1..QuerierCount, epoch : Nat, last : Nat, began : 0..epoch]
    BY <1>1, <1>3, <1>4
  <2> QED
    BY <1>1, <1>2, <1>3, <1>4, <2>1, <2>2, <2>3 DEF Loading
<1> QED
  BY <1>2, <1>5, FitsInv

-----------------------------------------------------------------------------
(* The walk of a query                                                     *)

(* Nodes of an epoch or later lead on to every key of that epoch. *)
LEMMA FromFact ==
  ASSUME StorageInv, NEW e \in Nat, NEW n, NEW node, From(e, n, node)
  PROVE  /\ n \in Label /\ n \in NodeLabels(dict) /\ ~node.dirty
         /\ \A bit \in Bit : ChildOn(node, bit) # EmptyLabel =>
              /\ ChildOn(node, bit) \in NodeLabels(dict) /\ ChildOn(node, bit) \in Label
              /\ IsUnder(ChildOn(node, bit), n, bit)
         /\ \A bit \in Bit, l \in LabelsOf(Past(e)) :
              IsUnder(l, n, bit) => ChildOn(node, bit) # EmptyLabel /\ Starts(ChildOn(node, bit), l)
<1>1. PICK v \in e..epoch : n \in NodeLabels(Past(v)) /\ node = TrieOf(Past(v))[n]
  BY DEF From
<1>2. /\ v \in Nat /\ e <= v
      /\ LabelsOf(Past(v)) \subseteq FullLabel /\ Past(v) \subseteq dict
      /\ Past(e) \subseteq Past(v) /\ LabelsOf(dict) \subseteq FullLabel
  <2>1. v \in Nat /\ e <= v /\ Past(epoch) = dict
    BY <1>1, PastFact
  <2> QED
    BY <2>1, PastFact
<1>3. /\ NodeLabels(Past(v)) \subseteq NodeLabels(dict) /\ NodeLabels(dict) \subseteq Label
      /\ LabelsOf(Past(e)) \subseteq LabelsOf(Past(v))
      /\ LabelsOf(Past(v)) \subseteq NodeLabels(Past(v))
  BY <1>2, NodeLabelsGrow, NodeLabelsFact
<1>4. ~node.dirty
  BY <1>1, TrieOfFact
<1>5. \A bit \in Bit :
        \/ /\ ChildOn(node, bit) = EmptyLabel
           /\ \A x \in NodeLabels(Past(v)) : ~IsUnder(x, n, bit)
        \/ /\ ChildOn(node, bit) # EmptyLabel /\ ChildOn(node, bit) \in NodeLabels(Past(v))
           /\ IsUnder(ChildOn(node, bit), n, bit)
           /\ \A x \in NodeLabels(Past(v)) : IsUnder(x, n, bit) => Starts(ChildOn(node, bit), x)
  BY <1>1, <1>2, ChildOfTrieOf
<1> QED
  BY <1>1, <1>3, <1>4, <1>5

LEMMA FromEarlier ==
  ASSUME NEW e \in Nat, NEW f \in Nat, e <= f, NEW n, NEW node, From(f, n, node), epoch \in Nat
  PROVE  From(e, n, node)
<1>1. f..epoch \subseteq e..epoch
  OBVIOUS
<1> QED
  BY <1>1 DEF From

(* What is loaded is no older than what was handed over. *)
LEMMA LoadedIsFrom ==
  ASSUME StorageInv, NEW b \in Nat, NEW f \in Nat, CacheInv(b, f), NEW n \in NodeLabels(dict)
  PROVE  From(f, n, LoadedNode(n))
<1>1. CASE n \in DOMAIN cachedNodes
  BY <1>1 DEF CacheInv, LoadedNode
<1>2. CASE n \notin DOMAIN cachedNodes
  <2>1. LoadedNode(n) = TrieOf(dict)[n] /\ Past(epoch) = dict /\ epoch \in f..epoch
    BY <1>2, PastFact DEF LoadedNode, StorageInv, CacheInv
  <2> QED
    BY <2>1 DEF From
<1> QED
  BY <1>1, <1>2

LEMMA FillInv ==
  ASSUME StorageInv, NEW b \in Nat, NEW f \in Nat, CacheInv(b, f), NEW n \in NodeLabels(dict),
         HasCache => cachedTrie # {}, FillNode(n), UNCHANGED <<storage, cachedTrie>>
  PROVE  CacheInv(b, f)'
<1>1. UNCHANGED <<provider, dict, epoch, updates>>
  BY DEF storage
<1>2. /\ \A e, m, x : From(e, m, x)' <=> From(e, m, x)
      /\ \A e : Batch(e)' = Batch(e)
  BY <1>1, SameDict
<1>3. HasCache' = HasCache
  BY <1>1 DEF HasCache
<1>4. ~HasCache => cachedNodes' = cachedNodes
  BY DEF FillNode
<1>5. ASSUME HasCache, NEW m \in DOMAIN cachedNodes'
      PROVE  From(f, m, cachedNodes'[m])
  <2>1. cachedNodes' = Put(cachedNodes, n, LoadedNode(n))
    BY <1>5 DEF FillNode
  <2>2. cachedNodes'[m] = IF m = n THEN LoadedNode(n) ELSE cachedNodes[m]
    BY <1>5, <2>1 DEF Put
  <2>3. m = n \/ m \in DOMAIN cachedNodes
    BY <1>5, <2>1 DEF Put
  <2> QED
    BY <1>5, <2>2, <2>3, LoadedIsFrom DEF CacheInv
<1> QED
  BY <1>1, <1>2, <1>3, <1>4, <1>5 DEF CacheInv

LEMMA QueryInv ==
  ASSUME StorageInv, NEW b \in Nat, NEW f \in Nat, Fits(b, f),
         NEW q \in 1..MaxQueriers, NEW k \in Searched, Query(q, k)
  PROVE  IInv'
<1>1. /\ call.pc = "idle" /\ q \in DOMAIN queriers
      /\ UNCHANGED <<storage, cache, queriers, checked>>
      /\ call' = [pc |-> "walk", querier |-> q, key |-> k, at |-> EmptyLabel,
                  seen |-> [n \in {EmptyLabel} |-> queriers[q].root]]
  BY DEF Query
<1>2. /\ StorageInv' /\ CacheInv(b, f)' /\ QueriersInv(b, f)'
      /\ UNCHANGED <<provider, dict, epoch, cachedTrie>>
  BY <1>1, CallSame
<1>3. Len(queriers) = QuerierCount /\ QuerierCount' = QuerierCount
  BY <1>1, <1>2 DEF Fits, Idle, Walking, Loading, QuerierCount
<1>4. From(queriers[q].epoch, EmptyLabel, queriers[q].root)
  BY <1>1 DEF Fits, QueriersInv
<1>5. k \in FullLabel /\ Starts(EmptyLabel, k)
  BY KeysAssumption, FullIsLabel, EmptyIsNotFull, AllUnderRoot
<1>6. PICK s : s = [n \in {EmptyLabel} |-> queriers[q].root]
  OBVIOUS
<1>7. IsWalk(s, k, <<EmptyLabel>>)
  <2>1. /\ <<EmptyLabel>> \in Seq({EmptyLabel}) /\ Len(<<EmptyLabel>>) = 1
        /\ <<EmptyLabel>>[1] = EmptyLabel /\ Len(EmptyLabel) = 0
    BY DEF EmptyLabel
  <2> QED
    BY <1>6, <2>1 DEF IsWalk
<1>8. <<EmptyLabel>>[Len(<<EmptyLabel>>)] = EmptyLabel
  OBVIOUS
<1>9. /\ call'.pc = "walk" /\ call'.querier = q /\ call'.key = k /\ call'.at = EmptyLabel
      /\ call'.seen = s
      /\ call' = [pc |-> "walk", querier |-> q, key |-> k, at |-> EmptyLabel, seen |-> s]
  BY <1>1, <1>6
<1>10. /\ \A e, n, x : From(e, n, x)' <=> From(e, n, x)
       /\ DOMAIN s = {EmptyLabel} /\ s[EmptyLabel] = queriers[q].root
       /\ s = [n \in DOMAIN s |-> s[n]]
  BY <1>2, <1>6, SameDict
<1>11. Walking'
  <2>1. \A n \in DOMAIN s : From(queriers[q].epoch, n, s[n])
    BY <1>4, <1>10
  <2> QED
    BY <1>1, <1>3, <1>5, <1>7, <1>8, <1>9, <1>10, <2>1 DEF Walking
<1> QED
  BY <1>2, <1>11, FitsInv

(* The children of the node where a query is. *)
LEMMA HereFact ==
  ASSUME StorageInv, NEW b \in Nat, NEW f \in Nat, Fits(b, f), Walking
  PROVE  /\ call.at \in DOMAIN call.seen /\ call.at \in Label /\ call.key \in FullLabel
         /\ EmptyLabel \in DOMAIN call.seen
         /\ queriers[call.querier].epoch \in Nat /\ queriers[call.querier].epoch <= f
         /\ From(queriers[call.querier].epoch, call.at, Here)
         /\ Unread # EmptyLabel =>
              Unread \in {Here.left, Here.right} \ DOMAIN call.seen /\ Unread \in NodeLabels(dict)
         /\ Unread = EmptyLabel => \/ call.at = call.key \/ IsLeaf(Here)
                                  \/ {Here.left, Here.right} \subseteq DOMAIN call.seen
<1>1. PICK c : IsWalk(call.seen, call.key, c) /\ c[Len(c)] = call.at
  BY DEF Walking
<1>2. call.at \in DOMAIN call.seen
  BY <1>1 DEF IsWalk
<1>3. queriers[call.querier].epoch \in Nat /\ queriers[call.querier].epoch <= f
  BY DEF Walking, Fits, QueriersInv
<1>4. From(queriers[call.querier].epoch, call.at, Here)
  BY <1>2 DEF Walking, Here
<1>5. /\ call.at \in Label
      /\ \A bit \in Bit : ChildOn(Here, bit) # EmptyLabel => ChildOn(Here, bit) \in NodeLabels(dict)
  BY <1>3, <1>4, FromFact
<1>6. \A x \in {Here.left, Here.right} : x # EmptyLabel => x \in NodeLabels(dict)
  BY <1>5 DEF ChildOn, Bit
<1>7. EmptyLabel \in DOMAIN call.seen /\ call.key \in FullLabel
  BY KeysAssumption DEF Walking
<1>8. Unread # EmptyLabel => Unread \in {Here.left, Here.right} \ DOMAIN call.seen
  BY <1>7 DEF Unread
<1>9. Unread = EmptyLabel => \/ call.at = call.key \/ IsLeaf(Here)
                            \/ {Here.left, Here.right} \subseteq DOMAIN call.seen
  BY <1>7 DEF Unread
<1> QED
  BY <1>2, <1>3, <1>4, <1>5, <1>6, <1>7, <1>8, <1>9

LEMMA WalkGrows ==
  ASSUME NEW s, NEW u, DOMAIN s \subseteq DOMAIN u, \A n \in DOMAIN s : u[n] = s[n],
         NEW l, NEW c, IsWalk(s, l, c)
  PROVE  IsWalk(u, l, c)
<1>1. c \in Seq(DOMAIN u)
  BY SeqGrows DEF IsWalk
<1>2. \A i \in 1..Len(c) : c[i] \in DOMAIN s
  BY DEF IsWalk
<1>3. \A i \in 1..(Len(c) - 1) : i \in 1..Len(c)
  BY DEF IsWalk
<1> QED
  BY <1>1, <1>2, <1>3 DEF IsWalk

LEMMA ReadChildInv ==
  ASSUME StorageInv, NEW b \in Nat, NEW f \in Nat, Fits(b, f), ReadChild
  PROVE  IInv'
<1>1. /\ call.pc = "walk" /\ Unread # EmptyLabel /\ FillNode(Unread)
      /\ call' = [call EXCEPT !.seen = Put(call.seen, Unread, LoadedNode(Unread))]
      /\ UNCHANGED <<storage, cachedTrie, queriers, checked>>
  BY DEF ReadChild
<1>2. Walking
  BY <1>1 DEF Fits, Idle, NoCall, Loading
<1>3. /\ queriers[call.querier].epoch \in Nat /\ queriers[call.querier].epoch <= f
      /\ Unread \notin DOMAIN call.seen /\ Unread \in NodeLabels(dict)
  BY <1>1, <1>2, HereFact
<1>4. UNCHANGED <<provider, dict, stored, epoch, updates>>
  BY <1>1 DEF storage
<1>5. StorageInv'
  BY <1>1, <1>4, StorageSame DEF StorageInv
<1>6. CacheInv(b, f)'
  <2>1. queriers # <<>>
    BY <1>2 DEF Walking
  <2>2. HasCache => cachedTrie # {}
    BY <2>1 DEF Fits, QueriersInv
  <2> QED
    BY <1>1, <1>3, <2>2, FillInv DEF Fits
<1>7. QueriersInv(b, f)'
  BY <1>1, <1>4, QueriersSame DEF Fits, QueriersInv
<1>8. Walking'
  <2>1. PICK u : u = Put(call.seen, Unread, LoadedNode(Unread))
    OBVIOUS
  <2>2. /\ DOMAIN u = DOMAIN call.seen \cup {Unread} /\ u[Unread] = LoadedNode(Unread)
        /\ \A n \in DOMAIN call.seen : u[n] = call.seen[n]
        /\ u = [n \in DOMAIN u |-> u[n]]
    BY <1>3, <2>1 DEF Put
  <2>3. From(queriers[call.querier].epoch, Unread, LoadedNode(Unread))
    <3>1. From(f, Unread, LoadedNode(Unread))
      BY <1>3, LoadedIsFrom DEF Fits
    <3>2. epoch \in Nat
      BY PastFact
    <3> QED
      BY <1>3, <3>1, <3>2, FromEarlier
  <2>4. \A n \in DOMAIN u : From(queriers[call.querier].epoch, n, u[n])
    BY <1>2, <2>2, <2>3 DEF Walking
  <2>5. PICK c : IsWalk(call.seen, call.key, c) /\ c[Len(c)] = call.at
    BY <1>2 DEF Walking
  <2>6. IsWalk(u, call.key, c)
    BY <2>2, <2>5, WalkGrows
  <2>7. /\ call'.pc = "walk" /\ call'.querier = call.querier /\ call'.key = call.key
        /\ call'.at = call.at /\ call'.seen = u
        /\ call' = [pc |-> "walk", querier |-> call.querier, key |-> call.key, at |-> call.at,
                    seen |-> u]
    BY <1>1, <1>2, <2>1 DEF Walking
  <2>8. /\ \A e, n, x : From(e, n, x)' <=> From(e, n, x)
        /\ \A e : Past(e)' = Past(e)
        /\ QuerierCount' = QuerierCount
    BY <1>4, SameDict DEF QuerierCount
  <2>9. EmptyLabel \in DOMAIN u
    BY <1>2, <2>2 DEF Walking
  <2>10. /\ call.querier \in DOMAIN queriers /\ call.key \in Searched
         /\ Len(queriers) = QuerierCount
         /\ call.key \in LabelsOf(Past(queriers[call.querier].epoch)) => Starts(call.at, call.key)
    BY <1>2 DEF Walking
  <2> QED
    BY <1>1, <2>2, <2>4, <2>5, <2>6, <2>7, <2>8, <2>9, <2>10 DEF Walking
<1> QED
  BY <1>5, <1>6, <1>7, <1>8, FitsInv

LEMMA GoDownInv ==
  ASSUME StorageInv, NEW b \in Nat, NEW f \in Nat, Fits(b, f), GoDown
  PROVE  IInv'
<1>1. /\ call.pc = "walk" /\ Unread = EmptyLabel /\ ~AtEnd
      /\ call' = [call EXCEPT !.at = NextDown]
      /\ UNCHANGED <<storage, cache, queriers, checked>>
  BY DEF GoDown
<1>2. /\ StorageInv' /\ CacheInv(b, f)' /\ QueriersInv(b, f)'
      /\ UNCHANGED <<provider, dict, epoch, cachedTrie>>
  BY <1>1, CallSame
<1>3. Walking
  BY <1>1 DEF Fits, Idle, NoCall, Loading
<1>4. PICK e \in Nat : e = queriers[call.querier].epoch
  BY <1>3, HereFact
<1>5. /\ call.at \in DOMAIN call.seen /\ call.at \in Label /\ call.key \in FullLabel
      /\ From(e, call.at, Here)
  BY <1>3, <1>4, HereFact
<1>6. call.at # call.key /\ ~IsLeaf(Here) /\ NextDown # EmptyLabel
  BY <1>1 DEF AtEnd
<1>7. {Here.left, Here.right} \subseteq DOMAIN call.seen
  BY <1>1, <1>3, <1>6, HereFact
<1>8. PICK bit \in Bit : bit = NextBit(call.at, call.key)
  BY <1>5, <1>6, CommonIsStart
<1>9. NextDown = ChildOn(Here, bit) /\ NextDown \in DOMAIN call.seen
  BY <1>7, <1>8 DEF NextDown, ChildOn
<1>10. /\ IsUnder(NextDown, call.at, bit) /\ NextDown \in Label
       /\ \A l \in LabelsOf(Past(e)) : IsUnder(l, call.at, bit) => Starts(NextDown, l)
  BY <1>5, <1>6, <1>9, FromFact
<1>11. call.key \in LabelsOf(Past(e)) => Starts(NextDown, call.key)
  <2> SUFFICES ASSUME call.key \in LabelsOf(Past(e)) PROVE Starts(NextDown, call.key)
    OBVIOUS
  <2>1. Starts(call.at, call.key)
    BY <1>3, <1>4 DEF Walking
  <2>2. call.key[Len(call.at) + 1] = bit
    BY <1>5, <1>6, <1>8, <2>1, CommonIsStart
  <2>3. IsUnder(call.key, call.at, bit)
    BY <1>5, <1>6, <2>1, <2>2, FullIsLabel, StartsIsUnder
  <2> QED
    BY <1>10, <2>3
<1>12. PICK c : IsWalk(call.seen, call.key, c) /\ c[Len(c)] = call.at
  BY <1>3 DEF Walking
<1> DEFINE d == Append(c, NextDown)
<1>13. IsWalk(call.seen, call.key, d) /\ d[Len(d)] = NextDown
  <2>1. c \in Seq(DOMAIN call.seen)
    BY <1>12 DEF IsWalk
  <2>2. PICK m \in Nat : Len(c) = m /\ m > 0
    BY <1>12, <2>1 DEF IsWalk
  <2>3. /\ d \in Seq(DOMAIN call.seen) /\ Len(d) = m + 1 /\ d[m + 1] = NextDown
        /\ \A i \in 1..m : d[i] = c[i]
    BY <1>9, <2>1, <2>2, AppendFact
  <2> HIDE DEF d
  <2>4. d[1] = EmptyLabel
    BY <1>12, <2>2, <2>3 DEF IsWalk
  <2>5. ASSUME NEW i \in 1..(m + 1)
        PROVE  Len(d[i]) >= i - 1
    <3>1. CASE i = m + 1
      <4>1. Len(call.at) \in Nat /\ Len(NextDown) \in Nat /\ Len(call.at) >= m - 1
        BY <1>5, <1>10, <1>12, <2>2, LabelLen DEF IsWalk
      <4> QED
        BY <1>10, <2>3, <3>1, <4>1 DEF IsUnder
    <3>2. CASE i # m + 1
      BY <1>12, <2>2, <2>3, <3>2 DEF IsWalk
    <3> QED
      BY <3>1, <3>2
  <2>6. ASSUME NEW i \in 1..m
        PROVE  /\ d[i] # call.key /\ ~IsLeaf(call.seen[d[i]])
               /\ call.seen[d[i]].left \in DOMAIN call.seen
               /\ call.seen[d[i]].right \in DOMAIN call.seen
               /\ d[i + 1] = ChildOn(call.seen[d[i]], NextBit(d[i], call.key))
               /\ d[i + 1] # EmptyLabel
    <3>1. CASE i = m
      <4>1. d[i] = call.at /\ d[i + 1] = NextDown /\ call.seen[call.at] = Here
        BY <1>12, <2>2, <2>3, <3>1 DEF Here
      <4> QED
        BY <1>6, <1>7, <1>8, <1>9, <4>1
    <3>2. CASE i # m
      <4>1. i \in 1..(m - 1) /\ i + 1 \in 1..m
        BY <3>2
      <4>2. d[i] = c[i] /\ d[i + 1] = c[i + 1]
        BY <2>3, <4>1
      <4> QED
        BY <1>12, <2>2, <4>1, <4>2 DEF IsWalk
    <3> QED
      BY <3>1, <3>2
  <2> QED
    BY <2>2, <2>3, <2>4, <2>5, <2>6 DEF IsWalk
<1> HIDE DEF d
<1>14. Walking'
  <2>1. PICK x : x = NextDown
    OBVIOUS
  <2>2. /\ call'.pc = "walk" /\ call'.querier = call.querier /\ call'.key = call.key
        /\ call'.at = x /\ call'.seen = call.seen
        /\ call' = [pc |-> "walk", querier |-> call.querier, key |-> call.key, at |-> x,
                    seen |-> call.seen]
    BY <1>1, <1>3, <2>1 DEF Walking
  <2>3. /\ \A m, n, y : From(m, n, y)' <=> From(m, n, y)
        /\ \A m : Past(m)' = Past(m)
        /\ QuerierCount' = QuerierCount
    BY <1>2, SameDict DEF QuerierCount
  <2>4. /\ call.querier \in DOMAIN queriers /\ call.key \in Searched
        /\ Len(queriers) = QuerierCount /\ EmptyLabel \in DOMAIN call.seen
        /\ \A n \in DOMAIN call.seen : From(queriers[call.querier].epoch, n, call.seen[n])
        /\ call.seen = [n \in DOMAIN call.seen |-> call.seen[n]]
    BY <1>3 DEF Walking
  <2>5. IsWalk(call.seen, call.key, d) /\ d[Len(d)] = x
    BY <1>13, <2>1
  <2>6. call.key \in LabelsOf(Past(queriers[call.querier].epoch)) => Starts(x, call.key)
    BY <1>4, <1>11, <2>1
  <2> QED
    BY <1>1, <2>2, <2>3, <2>4, <2>5, <2>6 DEF Walking
<1> QED
  BY <1>2, <1>14, FitsInv

LEMMA QueryReturnsInv ==
  ASSUME StorageInv, NEW b \in Nat, NEW f \in Nat, Fits(b, f), QueryReturns
  PROVE  IInv'
<1>1. call.pc = "walk" /\ call' = NoCall /\ UNCHANGED <<storage, cache, queriers, checked>>
  BY DEF QueryReturns
<1>2. /\ StorageInv' /\ CacheInv(b, f)' /\ QueriersInv(b, f)'
      /\ UNCHANGED <<provider, dict, epoch, cachedTrie>>
  BY <1>1, CallSame
<1>3. Len(queriers) = QuerierCount
  BY <1>1 DEF Fits, Idle, NoCall, Loading, Walking
<1>4. Idle'
  BY <1>1, <1>2, <1>3 DEF Idle, QuerierCount, NoCall
<1> QED
  BY <1>2, <1>4, FitsInv

-----------------------------------------------------------------------------
(* Loading                                                                 *)

(* A call that is loading is neither idle nor a query. *)
LEMMA IsLoading ==
  ASSUME NEW b, NEW f, Fits(b, f), call.pc \notin {"idle", "walk"}
  PROVE  Loading(b, f)
BY DEF Fits, Idle, NoCall, Walking

LEMMA LoadTrieInv ==
  ASSUME StorageInv, NEW b \in Nat, NEW f \in Nat, Fits(b, f),
         NEW q \in 1..MaxQueriers, LoadTrie(q)
  PROVE  IInv'
<1>1. /\ call.pc = "load" /\ call.querier = q /\ FillTrie
      /\ call' = [call EXCEPT !.pc = "root", !.epoch = LoadedEpoch]
      /\ UNCHANGED <<storage, cachedNodes, queriers, checked>>
  BY DEF LoadTrie
<1>2. Loading(b, f) /\ CacheInv(b, f) /\ QueriersInv(b, f)
  BY <1>1, IsLoading DEF Fits
<1>3. UNCHANGED <<provider, dict, stored, epoch, updates>>
  BY <1>1 DEF storage
<1>4. /\ \A e, n, x : From(e, n, x)' <=> From(e, n, x)
      /\ \A e : Batch(e)' = Batch(e)
      /\ Loaded' = Loaded
      /\ HasCache' = HasCache /\ QuerierCount' = QuerierCount /\ epoch \in Nat
  BY <1>3, SameDict, PastFact DEF HasCache, QuerierCount
<1>5. StorageInv'
  BY <1>1, <1>3, StorageSame DEF StorageInv
<1>6. PICK e : e = LoadedEpoch
  OBVIOUS
<1>7. /\ call \in [pc : {"load", "root", "next", "epoch", "updates"}, op : {"create", "check"},
                   querier : 1..QuerierCount, epoch : Nat, last : Nat, began : 0..epoch]
      /\ call' = [call EXCEPT !.pc = "root", !.epoch = e]
      /\ Done' = Done
  <2>1. call \in [pc : {"load", "root", "next", "epoch", "updates"}, op : {"create", "check"},
                  querier : 1..QuerierCount, epoch : Nat, last : Nat, began : 0..epoch]
    BY <1>2 DEF Loading
  <2> QED
    BY <1>1, <1>6, <2>1 DEF Done
<1>8. ASSUME NEW d \in Nat, NEW g \in Nat, g <= epoch, e \in d..g, call.began <= e, e \in Nat,
             CacheInv(d, g)', QueriersInv(d, g)', HasCache => cachedTrie' = {e}, ~HasCache => cachedTrie' = {}
      PROVE  IInv'
  <2>1. Loading(d, g)'
    <3>1. \A x \in cachedTrie' : x = e
      BY <1>8
    <3>2. HasCache => cachedTrie' # {}
      BY <1>8
    <3>3. /\ call'.pc = "root" /\ call'.op = call.op /\ call'.querier = call.querier
          /\ call'.epoch = e /\ call'.last = call.last /\ call'.began = call.began
          /\ call' \in [pc : {"load", "root", "next", "epoch", "updates"},
                        op : {"create", "check"}, querier : 1..QuerierCount, epoch : Nat,
                        last : Nat, began : 0..epoch]
      BY <1>7, <1>8
    <3> QED
      BY <1>1, <1>2, <1>3, <1>4, <1>7, <1>8, <3>1, <3>2, <3>3 DEF Loading
  <2> QED
    BY <1>5, <1>8, <2>1, FitsInv
<1>9. CASE ~HasCache
  <2>1. cachedTrie = {} /\ cachedTrie' = {} /\ f = epoch /\ b = 0 /\ e = epoch
    BY <1>1, <1>2, <1>6, <1>9 DEF FillTrie, LoadedEpoch, CacheInv
  <2>2. CacheInv(b, f)'
    BY <1>1, <1>2, <2>1, CacheSame
  <2>3. QueriersInv(b, f)'
    BY <1>1, <1>2, <1>3, <2>1, QueriersSame DEF QueriersInv
  <2>4. call.began <= e
    BY <1>4, <1>7, <2>1
  <2> QED
    BY <1>4, <1>8, <1>9, <2>1, <2>2, <2>3, <2>4
<1>10. CASE HasCache /\ cachedTrie # {}
  <2>1. PICK x \in b..f : cachedTrie = {x}
    BY <1>2, <1>10 DEF CacheInv
  <2>2. e = x /\ cachedTrie' = cachedTrie
    BY <1>1, <1>6, <1>10, <2>1 DEF FillTrie, LoadedEpoch
  <2>3. CacheInv(b, f)'
    BY <1>1, <1>2, <2>2, CacheSame
  <2>4. QueriersInv(b, f)'
    BY <1>1, <1>2, <1>3, <2>2, QueriersSame DEF QueriersInv
  <2>5. call.began <= e
    <3>1. call.op = "create" => \A y \in cachedTrie : call.began <= y
      BY <1>2 DEF Loading
    <3>2. call.op = "check" => cachedTrie = {call.last} /\ call.began <= call.last
      BY <1>1, <1>2, <1>10 DEF Loading
    <3> QED
      BY <1>7, <2>1, <2>2, <3>1, <3>2
  <2>6. f <= epoch
    BY <1>2, <1>4 DEF CacheInv
  <2> QED
    BY <1>8, <1>10, <2>1, <2>2, <2>3, <2>4, <2>5, <2>6
<1>11. CASE HasCache /\ cachedTrie = {}
  <2>1. e = epoch /\ cachedTrie' = {e} /\ DOMAIN cachedNodes = {} /\ queriers = <<>>
    BY <1>1, <1>2, <1>6, <1>11 DEF FillTrie, LoadedEpoch, CacheInv, QueriersInv
  <2>2. CacheInv(epoch, epoch)'
    <3>1. \A x \in (epoch + 1)..epoch : FALSE
      BY <1>4
    <3> QED
      BY <1>1, <1>3, <1>4, <1>11, <2>1, <3>1 DEF CacheInv
  <2>3. QueriersInv(epoch, epoch)'
    BY <1>1, <1>2, <1>3, <1>4, <2>1 DEF QueriersInv
  <2>4. call.began <= e
    BY <1>4, <1>7, <2>1
  <2>5. PICK g \in Nat : g = epoch /\ CacheInv(g, g)' /\ QueriersInv(g, g)'
    <3>1. PICK g \in Nat : g = epoch
      BY <1>4
    <3>2. epoch' = g
      BY <1>3, <3>1
    <3>3. CacheInv(epoch, epoch)' => CacheInv(g, g)'
      BY <3>2, Zenon
    <3>4. QueriersInv(epoch, epoch)' => QueriersInv(g, g)'
      BY <3>2, Zenon
    <3> QED
      BY <2>2, <2>3, <3>1, <3>3, <3>4
  <2> QED
    BY <1>8, <1>11, <2>1, <2>4, <2>5
<1> QED
  BY <1>9, <1>10, <1>11

LEMMA LoadRootInv ==
  ASSUME StorageInv, NEW b \in Nat, NEW f \in Nat, Fits(b, f),
         NEW q \in 1..MaxQueriers, LoadRoot(q)
  PROVE  IInv'
<1>1. PICK loaded :
        /\ loaded = [epoch |-> call.epoch, root |-> LoadedNode(EmptyLabel)]
        /\ queriers' = IF q > Len(queriers) THEN Append(queriers, loaded)
                       ELSE [queriers EXCEPT ![q] = loaded]
  BY DEF LoadRoot
<1>2. /\ call.pc = "root" /\ call.querier = q /\ FillNode(EmptyLabel)
      /\ call' = [call EXCEPT !.pc = "next"]
      /\ UNCHANGED <<storage, cachedTrie, checked>>
  BY DEF LoadRoot
<1>3. Loading(b, f) /\ CacheInv(b, f) /\ QueriersInv(b, f)
  BY <1>2, IsLoading DEF Fits
<1>4. UNCHANGED <<provider, dict, stored, epoch, updates>>
  BY <1>2 DEF storage
<1>5. /\ \A e, n, x : From(e, n, x)' <=> From(e, n, x)
      /\ Loaded' = Loaded
      /\ HasCache' = HasCache /\ QuerierCount' = QuerierCount
      /\ epoch \in Nat /\ QuerierCount \in Nat \ {0} /\ checked \in Nat
  BY <1>4, SameDict, PastFact, CountFact DEF HasCache, QuerierCount, StorageInv
<1>6. StorageInv'
  BY <1>2, <1>4, StorageSame DEF StorageInv
<1>7. /\ call \in [pc : {"load", "root", "next", "epoch", "updates"}, op : {"create", "check"},
                   querier : 1..QuerierCount, epoch : Nat, last : Nat, began : 0..epoch]
      /\ call.epoch \in b..f /\ call.began <= call.epoch /\ checked <= call.began
      /\ f <= epoch /\ q \in 1..QuerierCount
  BY <1>2, <1>3 DEF Loading, CacheInv
<1>8. PICK m \in Nat : Len(queriers) = m /\ queriers \in Seq(Loaded) /\ m <= QuerierCount
  BY <1>3 DEF QueriersInv
<1>9. /\ call.op = "create" => m = q - 1
      /\ call.op = "check" => m = QuerierCount
  BY <1>2, <1>3, <1>8 DEF Loading
<1>10. HasCache => cachedTrie # {}
  <2>1. CASE call.op = "create"
    BY <1>2, <1>3, <2>1 DEF Loading
  <2>2. CASE call.op = "check"
    <3>1. queriers # <<>>
      BY <1>5, <1>8, <1>9, <2>2
    <3> QED
      BY <1>3, <3>1 DEF QueriersInv
  <2> QED
    BY <1>7, <2>1, <2>2
<1>11. EmptyLabel \in NodeLabels(dict)
  BY DEF NodeLabels
<1>12. CacheInv(b, f)'
  BY <1>2, <1>3, <1>10, <1>11, FillInv
<1>13. From(call.epoch, EmptyLabel, LoadedNode(EmptyLabel))
  <2>1. From(f, EmptyLabel, LoadedNode(EmptyLabel))
    BY <1>3, <1>11, LoadedIsFrom
  <2> QED
    BY <1>5, <1>7, <2>1, FromEarlier
<1>14. loaded \in Loaded /\ loaded.epoch = call.epoch /\ loaded.root = LoadedNode(EmptyLabel)
  <2>1. PICK v \in call.epoch..epoch : LoadedNode(EmptyLabel) = TrieOf(Past(v))[EmptyLabel]
    BY <1>13 DEF From
  <2>2. v \in 0..epoch /\ call.epoch \in 0..epoch
    BY <1>5, <1>7, <2>1
  <2> QED
    BY <1>1, <2>1, <2>2 DEF Loaded
<1>15. /\ queriers' \in Seq(Loaded)
       /\ Len(queriers') = IF m = q - 1 THEN q ELSE m
       /\ q \in DOMAIN queriers' /\ queriers'[q] = loaded
       /\ \A p \in DOMAIN queriers' : p # q => p \in DOMAIN queriers /\ queriers'[p] = queriers[p]
       /\ \A p \in DOMAIN queriers : p \in DOMAIN queriers'
  <2>1. DOMAIN queriers = 1..m
    BY <1>8
  <2>2. CASE m = q - 1
    <3>1. queriers' = Append(queriers, loaded)
      BY <1>1, <1>7, <1>8, <2>2
    <3>2. /\ queriers' \in Seq(Loaded) /\ Len(queriers') = m + 1 /\ queriers'[m + 1] = loaded
          /\ \A i \in 1..m : queriers'[i] = queriers[i]
      BY <1>8, <1>14, <3>1, AppendFact
    <3>3. DOMAIN queriers' = 1..(m + 1)
      BY <1>8, <3>2
    <3> QED
      BY <1>7, <1>8, <2>1, <2>2, <3>2, <3>3
  <2>3. CASE m # q - 1
    <3>1. m = QuerierCount /\ q <= m
      BY <1>7, <1>9, <2>3
    <3>2. queriers' = [queriers EXCEPT ![q] = loaded]
      BY <1>1, <1>5, <1>7, <1>8, <3>1
    <3> QED
      BY <1>7, <1>8, <1>14, <2>1, <2>3, <3>1, <3>2
  <2> QED
    BY <2>2, <2>3
<1>16. QueriersInv(b, f)'
  <2>1. Len(queriers') <= QuerierCount
    BY <1>7, <1>8, <1>15
  <2>2. ASSUME NEW p \in DOMAIN queriers'
        PROVE  /\ queriers'[p].epoch \in b..f /\ checked <= queriers'[p].epoch
               /\ From(queriers'[p].epoch, EmptyLabel, queriers'[p].root)
    <3>1. CASE p = q
      BY <1>5, <1>7, <1>13, <1>14, <1>15, <3>1
    <3>2. CASE p # q
      BY <1>3, <1>15, <3>2 DEF QueriersInv
    <3> QED
      BY <3>1, <3>2
  <2> QED
    BY <1>2, <1>5, <1>10, <1>15, <2>1, <2>2 DEF QueriersInv
<1>17. Loading(b, f)'
  <2>1. /\ call'.pc = "next" /\ call'.op = call.op /\ call'.querier = q
        /\ call'.last = call.last /\ call'.began = call.began
        /\ call' \in [pc : {"load", "root", "next", "epoch", "updates"},
                      op : {"create", "check"}, querier : 1..QuerierCount, epoch : Nat,
                      last : Nat, began : 0..epoch]
    BY <1>2, <1>7
  <2>2. Done' \subseteq Done \cup {q}
    BY <1>2, <2>1 DEF Done
  <2>3. \A p \in Done' : p \in DOMAIN queriers' /\ call.began <= queriers'[p].epoch
    <3>1. \A p \in Done : p \in DOMAIN queriers /\ call.began <= queriers[p].epoch
      BY <1>3 DEF Loading
    <3> QED
      BY <1>7, <1>14, <1>15, <2>2, <3>1
  <2>4. call.op = "create" => Len(queriers') = q /\ checked = 0 /\ \A e \in cachedTrie : call.began <= e
    BY <1>3, <1>9, <1>15 DEF Loading
  <2>5. call.op = "check" => Len(queriers') = QuerierCount
    BY <1>7, <1>9, <1>15
  <2> QED
    BY <1>2, <1>4, <1>5, <1>7, <1>10, <2>1, <2>3, <2>4, <2>5 DEF Loading
<1> QED
  BY <1>6, <1>12, <1>16, <1>17, FitsInv

-----------------------------------------------------------------------------
(* A refresh                                                               *)

LEMMA GetEpochInv ==
  ASSUME StorageInv, NEW b \in Nat, NEW f \in Nat, Fits(b, f),
         NEW q \in 1..MaxQueriers, GetEpoch(q)
  PROVE  IInv'
<1>1. /\ call.pc = "epoch" /\ call.querier = q /\ UNCHANGED <<storage, cache, queriers, checked>>
      /\ call' = IF epoch <= queriers[q].epoch THEN [call EXCEPT !.pc = "next"]
                 ELSE [call EXCEPT !.pc = "updates", !.epoch = queriers[q].epoch + 1,
                                   !.last = epoch]
  BY DEF GetEpoch
<1>2. /\ StorageInv' /\ CacheInv(b, f)' /\ QueriersInv(b, f)'
      /\ UNCHANGED <<provider, dict, epoch, cachedTrie>>
  BY <1>1, CallSame
<1>3. Loading(b, f) /\ CacheInv(b, f) /\ QueriersInv(b, f)
  BY <1>1, IsLoading DEF Fits
<1>4. /\ HasCache' = HasCache /\ QuerierCount' = QuerierCount
      /\ epoch \in Nat /\ QuerierCount \in Nat \ {0}
  BY <1>2, PastFact, CountFact DEF HasCache, QuerierCount
<1>5. /\ call \in [pc : {"load", "root", "next", "epoch", "updates"}, op : {"create", "check"},
                   querier : 1..QuerierCount, epoch : Nat, last : Nat, began : 0..epoch]
      /\ call.op = "check" /\ Len(queriers) = QuerierCount /\ q \in 1..QuerierCount
      /\ checked <= call.began
      /\ \A p \in Done : p \in DOMAIN queriers /\ call.began <= queriers[p].epoch
  BY <1>1, <1>3 DEF Loading
<1>6. PICK e \in b..f : e = queriers[q].epoch /\ q \in DOMAIN queriers
  <2>1. q \in DOMAIN queriers
    BY <1>3, <1>4, <1>5 DEF QueriersInv
  <2> QED
    BY <1>3, <2>1 DEF QueriersInv
<1>7. CASE epoch <= e
  <2>1. /\ call' = [call EXCEPT !.pc = "next"]
        /\ call' \in [pc : {"load", "root", "next", "epoch", "updates"},
                      op : {"create", "check"}, querier : 1..QuerierCount, epoch : Nat,
                      last : Nat, began : 0..epoch]
    BY <1>1, <1>5, <1>6, <1>7
  <2>2. /\ call'.pc = "next" /\ call'.op = "check" /\ call'.querier = q /\ call'.began = call.began
    BY <1>1, <1>5, <2>1
  <2>3. Done' \subseteq Done \cup {q}
    BY <1>1, <2>2 DEF Done
  <2>4. call.began <= e
    BY <1>4, <1>5, <1>6, <1>7
  <2>5. \A p \in Done' : p \in DOMAIN queriers /\ call.began <= queriers[p].epoch
    BY <1>5, <1>6, <2>3, <2>4
  <2>6. Loading(b, f)'
    BY <1>1, <1>2, <1>4, <1>5, <2>1, <2>2, <2>5 DEF Loading
  <2> QED
    BY <1>2, <2>6, FitsInv
<1>8. CASE ~(epoch <= e)
  <2>1. call' = [call EXCEPT !.pc = "updates", !.epoch = e + 1, !.last = epoch]
    BY <1>1, <1>6, <1>8
  <2>2. /\ call'.pc = "updates" /\ call'.op = "check" /\ call'.querier = q
        /\ call'.began = call.began /\ call'.epoch = e + 1 /\ call'.last = epoch
        /\ call' \in [pc : {"load", "root", "next", "epoch", "updates"},
                      op : {"create", "check"}, querier : 1..QuerierCount, epoch : Nat,
                      last : Nat, began : 0..epoch]
    <3>1. PICK v \in Nat : v = e + 1
      BY <1>6
    <3>2. call' = [call EXCEPT !.pc = "updates", !.epoch = v, !.last = epoch]
      BY <2>1, <3>1
    <3> QED
      BY <1>1, <1>4, <1>5, <3>1, <3>2
  <2>3. Done' = Done
    BY <1>1, <2>2 DEF Done
  <2>4. /\ call.began <= epoch /\ e < epoch /\ epoch <= epoch /\ e < e + 1 /\ e + 1 <= f + 1
        /\ e + 1 <= epoch + 1 /\ ~(e + 1 < e + 1)
    BY <1>4, <1>5, <1>6, <1>8
  <2>5. queriers'[q].epoch = e
    BY <1>1, <1>6
  <2>6. Loading(b, f)'
    BY <1>1, <1>2, <1>4, <1>5, <2>2, <2>3, <2>4, <2>5 DEF Loading
  <2> QED
    BY <1>2, <2>6, FitsInv
<1> QED
  BY <1>7, <1>8

LEMMA UpdatesLoadedInv ==
  ASSUME StorageInv, NEW b \in Nat, NEW f \in Nat, Fits(b, f),
         NEW q \in 1..MaxQueriers, UpdatesLoaded(q)
  PROVE  IInv'
<1>1. /\ call.pc = "updates" /\ call.querier = q /\ call.epoch > call.last
      /\ UNCHANGED <<storage, cache, queriers, checked>>
      /\ call' = [call EXCEPT !.pc = "load"]
  BY DEF UpdatesLoaded
<1>2. /\ StorageInv' /\ CacheInv(b, f)' /\ QueriersInv(b, f)'
      /\ UNCHANGED <<provider, dict, epoch, cachedTrie>>
  BY <1>1, CallSame
<1>3. Loading(b, f) /\ CacheInv(b, f) /\ QueriersInv(b, f)
  BY <1>1, IsLoading DEF Fits
<1>4. HasCache' = HasCache /\ QuerierCount' = QuerierCount
  BY <1>2 DEF HasCache, QuerierCount
<1>5. /\ call \in [pc : {"load", "root", "next", "epoch", "updates"}, op : {"create", "check"},
                   querier : 1..QuerierCount, epoch : Nat, last : Nat, began : 0..epoch]
      /\ call.op = "check" /\ Len(queriers) = QuerierCount /\ q \in 1..QuerierCount
      /\ checked <= call.began
      /\ \A p \in Done : p \in DOMAIN queriers /\ call.began <= queriers[p].epoch
      /\ call.began <= call.last /\ queriers[q].epoch < call.last /\ call.last <= epoch
      /\ call.epoch <= call.last + 1
      /\ HasCache /\ queriers[q].epoch + 1 < call.epoch => cachedTrie = {call.epoch - 1}
  BY <1>1, <1>3 DEF Loading
<1>6. PICK e \in b..f : e = queriers[q].epoch
  <2>1. q \in DOMAIN queriers
    BY <1>5, CountFact DEF QueriersInv
  <2> QED
    BY <1>3, <2>1 DEF QueriersInv
<1>7. HasCache => cachedTrie = {call.last}
  <2>1. call.epoch = call.last + 1 /\ call.epoch - 1 = call.last /\ e + 1 < call.epoch
    BY <1>1, <1>5, <1>6
  <2> QED
    BY <1>5, <1>6, <2>1
<1>8. /\ call'.pc = "load" /\ call'.op = "check" /\ call'.querier = q
      /\ call'.began = call.began /\ call'.last = call.last
      /\ call' \in [pc : {"load", "root", "next", "epoch", "updates"},
                    op : {"create", "check"}, querier : 1..QuerierCount, epoch : Nat,
                    last : Nat, began : 0..epoch]
  BY <1>1, <1>5
<1>9. Done' = Done
  BY <1>1, <1>8 DEF Done
<1>10. Loading(b, f)'
  BY <1>1, <1>2, <1>4, <1>5, <1>7, <1>8, <1>9 DEF Loading
<1> QED
  BY <1>2, <1>10, FitsInv

LEMMA NextQuerierInv ==
  ASSUME StorageInv, NEW b \in Nat, NEW f \in Nat, Fits(b, f), NextQuerier
  PROVE  IInv'
<1>1. /\ call.pc = "next" /\ UNCHANGED <<storage, cache, queriers>>
      /\ \/ /\ call.querier < QuerierCount /\ UNCHANGED checked
            /\ call' = [call EXCEPT !.querier = call.querier + 1,
                                    !.pc = IF call.op = "create" THEN "load" ELSE "epoch"]
         \/ call.querier >= QuerierCount /\ call' = NoCall /\ checked' = call.began
  <2>1. Loading(b, f)
    BY IsLoading DEF NextQuerier
  <2>2. call.querier \in 1..QuerierCount /\ QuerierCount \in Nat \ {0}
    BY <2>1, CountFact DEF Loading
  <2> QED
    BY <2>2 DEF NextQuerier
<1>2. UNCHANGED <<provider, dict, stored, epoch, updates, cachedNodes, cachedTrie>>
  BY <1>1 DEF storage, cache
<1>3. Loading(b, f) /\ CacheInv(b, f) /\ QueriersInv(b, f)
  BY <1>1, IsLoading DEF Fits
<1>4. /\ HasCache' = HasCache /\ QuerierCount' = QuerierCount
      /\ epoch \in Nat /\ QuerierCount \in Nat \ {0}
  BY <1>2, PastFact, CountFact DEF HasCache, QuerierCount
<1>5. /\ call \in [pc : {"load", "root", "next", "epoch", "updates"}, op : {"create", "check"},
                   querier : 1..QuerierCount, epoch : Nat, last : Nat, began : 0..epoch]
      /\ checked <= call.began /\ checked \in 0..epoch
      /\ \A p \in Done : p \in DOMAIN queriers /\ call.began <= queriers[p].epoch
      /\ call.op = "create" =>
           /\ checked = 0 /\ Len(queriers) = call.querier
           /\ HasCache => cachedTrie # {}
           /\ \A e \in cachedTrie : call.began <= e
      /\ call.op = "check" => Len(queriers) = QuerierCount
  BY <1>1, <1>3 DEF Loading, StorageInv
<1>6. Done = 1..call.querier
  BY <1>1 DEF Done
<1>7. CacheInv(b, f)'
  BY <1>1, <1>2, <1>3, CacheSame
<1>8. CASE call.querier < QuerierCount
  <2>1. PICK q \in 1..QuerierCount : q = call.querier + 1
    BY <1>4, <1>5, <1>8
  <2>2. PICK pc \in {"load", "epoch"} : pc = IF call.op = "create" THEN "load" ELSE "epoch"
    OBVIOUS
  <2>3. UNCHANGED checked /\ call' = [call EXCEPT !.querier = q, !.pc = pc]
    <3>1. ~(call.querier >= QuerierCount)
      BY <1>4, <1>5, <1>8
    <3>2. /\ UNCHANGED checked
          /\ call' = [call EXCEPT !.querier = call.querier + 1,
                                  !.pc = IF call.op = "create" THEN "load" ELSE "epoch"]
      BY <1>1, <3>1
    <3> QED
      BY <2>1, <2>2, <3>2, Zenon
  <2>4. /\ call'.pc = pc /\ call'.op = call.op /\ call'.querier = q
        /\ call'.began = call.began
        /\ call' \in [pc : {"load", "root", "next", "epoch", "updates"},
                      op : {"create", "check"}, querier : 1..QuerierCount, epoch : Nat,
                      last : Nat, began : 0..epoch]
    BY <1>5, <2>1, <2>2, <2>3
  <2>5. Done' \subseteq Done
    BY <1>5, <1>6, <2>1, <2>2, <2>4 DEF Done
  <2>6. Loading(b, f)'
    <3>1. call.op = "create" => pc = "load" /\ Len(queriers') = q - 1
      BY <1>1, <1>5, <2>1, <2>2
    <3>2. call.op = "check" => pc = "epoch" /\ Len(queriers') = QuerierCount
      BY <1>1, <1>5, <2>2
    <3>3. \A p \in Done' : p \in DOMAIN queriers' /\ call.began <= queriers'[p].epoch
      BY <1>1, <1>5, <2>5
    <3> QED
      BY <1>2, <1>4, <1>5, <2>2, <2>3, <2>4, <3>1, <3>2, <3>3 DEF Loading
  <2>7. StorageInv' /\ QueriersInv(b, f)'
    BY <1>1, <1>2, <1>3, <1>5, <2>3, StorageSame, QueriersSame DEF QueriersInv
  <2> QED
    BY <1>7, <2>6, <2>7, FitsInv
<1>9. CASE call.querier >= QuerierCount
  <2>1. call' = NoCall /\ checked' = call.began /\ call.querier = QuerierCount
    BY <1>1, <1>4, <1>5, <1>9
  <2>2. Len(queriers) = QuerierCount
    BY <1>5, <2>1
  <2>3. Idle'
    BY <1>1, <1>4, <2>1, <2>2 DEF Idle, NoCall
  <2>4. StorageInv'
    BY <1>2, <1>5, <2>1, StorageSame
  <2>5. DOMAIN queriers = Done
    BY <1>3, <1>6, <2>1, <2>2 DEF QueriersInv
  <2>6. QueriersInv(b, f)'
    BY <1>1, <1>2, <1>3, <1>5, <2>1, <2>5, QueriersSame
  <2> QED
    BY <1>7, <2>3, <2>4, <2>6, FitsInv
<1> QED
  BY <1>4, <1>5, <1>8, <1>9

(* Its batch brings every cached node to the next epoch. *)
LEMMA BatchBrings ==
  ASSUME StorageInv, NEW f \in Nat, NEW e \in Nat, e = f + 1, e <= epoch,
         NEW n, NEW node, From(f, n, node), n \notin DOMAIN Batch(e)
  PROVE  From(e, n, node)
<1>1. PICK v \in f..epoch : n \in NodeLabels(Past(v)) /\ node = TrieOf(Past(v))[n]
  BY DEF From
<1>2. CASE v # f
  <2>1. v \in e..epoch
    BY <1>2, PastFact
  <2> QED
    BY <1>1, <2>1 DEF From
<1>3. CASE v = f
  <2>1. e - 1 = f
    OBVIOUS
  <2>2. /\ LabelsOf(Past(e)) \subseteq FullLabel /\ Past(f) \subseteq Past(e)
    BY PastFact
  <2>3. NodeLabels(Past(f)) \subseteq NodeLabels(Past(e))
    BY <2>2, NodeLabelsGrow
  <2>4. DOMAIN TrieOf(Past(e)) = NodeLabels(Past(e))
    BY DEF TrieOf
  <2>5. n \notin SavedBy(TrieOf(Past(f)), TrieOf(Past(e)))
    BY <2>1 DEF Batch
  <2>6. TrieOf(Past(e))[n] = TrieOf(Past(f))[n]
    BY <1>1, <1>3, <2>3, <2>4, <2>5 DEF SavedBy
  <2>7. e \in e..epoch
    BY PastFact
  <2> QED
    BY <1>1, <1>3, <2>3, <2>6, <2>7 DEF From
<1> QED
  BY <1>2, <1>3

LEMMA LoadUpdatedInv ==
  ASSUME StorageInv, NEW b \in Nat, NEW f \in Nat, Fits(b, f),
         NEW q \in 1..MaxQueriers, LoadUpdatedElements(q)
  PROVE  IInv'
<1>1. PICK e : e = call.epoch
  OBVIOUS
<1>2. /\ call.pc = "updates" /\ call.querier = q /\ e <= call.last
      /\ call' = [call EXCEPT !.epoch = e + 1]
      /\ UNCHANGED <<provider, dict, stored, epoch, queriers, checked>>
  BY <1>1 DEF LoadUpdatedElements
<1>3. /\ ~HasCache => UNCHANGED <<cachedNodes, cachedTrie, updates>>
      /\ HasCache =>
           /\ cachedNodes' = [n \in DOMAIN cachedNodes \cup DOMAIN updates[e] |->
                IF n \in DOMAIN updates[e] THEN updates[e][n] ELSE cachedNodes[n]]
           /\ cachedTrie' = {e}
           /\ updates' = [updates EXCEPT ![e] = NoNodes]
  BY <1>1 DEF LoadUpdatedElements, cache
<1>4. Loading(b, f) /\ CacheInv(b, f) /\ QueriersInv(b, f)
  BY <1>2, IsLoading DEF Fits
<1>5. /\ \A x, n, y : From(x, n, y)' <=> From(x, n, y)
      /\ \A x : Batch(x)' = Batch(x)
      /\ Loaded' = Loaded
      /\ HasCache' = HasCache /\ QuerierCount' = QuerierCount
      /\ epoch \in Nat /\ epoch \in 0..MaxEpoch /\ MaxEpoch \in Nat
      /\ QuerierCount \in Nat \ {0}
  BY <1>2, SameDict, PastFact, CountFact, BoundsAssumption DEF HasCache, QuerierCount
<1>6. /\ call \in [pc : {"load", "root", "next", "epoch", "updates"}, op : {"create", "check"},
                   querier : 1..QuerierCount, epoch : Nat, last : Nat, began : 0..epoch]
      /\ call.op = "check" /\ Len(queriers) = QuerierCount /\ q \in 1..QuerierCount
      /\ checked <= call.began
      /\ \A p \in Done : p \in DOMAIN queriers /\ call.began <= queriers[p].epoch
      /\ call.began <= call.last /\ queriers[q].epoch < call.last /\ call.last <= epoch
      /\ queriers[q].epoch < e /\ e <= f + 1 /\ e \in Nat
  BY <1>1, <1>2, <1>4 DEF Loading
<1>7. PICK x \in b..f : x = queriers[q].epoch /\ q \in DOMAIN queriers
  <2>1. q \in DOMAIN queriers
    BY <1>6, CountFact DEF QueriersInv
  <2> QED
    BY <1>4, <2>1 DEF QueriersInv
<1>8. e \in (b + 1)..(f + 1) /\ e <= epoch /\ e \in Epochs
  BY <1>2, <1>4, <1>5, <1>6, <1>7 DEF CacheInv, Epochs
<1>9. StorageInv'
  BY <1>2, <1>3, <1>5, <1>8 DEF StorageInv
<1>10. PICK g \in Nat : g = IF HasCache /\ e = f + 1 THEN e ELSE f
  BY <1>6
<1>11. f <= g /\ g <= epoch /\ e <= g + 1 /\ e <= epoch /\ (HasCache => e \in b..g)
  BY <1>4, <1>5, <1>8, <1>10 DEF CacheInv
<1>12. queriers # <<>>
  BY <1>7
<1>13. CacheInv(b, g)'
  <2>1. CASE ~HasCache
    <3>1. g = f /\ UNCHANGED <<provider, dict, stored, epoch, updates, cachedNodes, cachedTrie>>
      BY <1>2, <1>3, <1>10, <2>1
    <3> QED
      BY <1>4, <3>1, CacheSame DEF storage
  <2>2. CASE HasCache
    <3>1. /\ \A n \in DOMAIN cachedNodes : From(f, n, cachedNodes[n])
          /\ \A y \in (b + 1)..f : DOMAIN updates[y] = {}
          /\ \A y \in (f + 1)..epoch : updates[y] = Batch(y)
          /\ b \in 0..f
      BY <1>4, <2>2 DEF CacheInv
    <3>2. \A y \in Epochs : updates'[y] = IF y = e THEN NoNodes ELSE updates[y]
      BY <1>3, <1>8, <2>2 DEF StorageInv
    <3>3. DOMAIN NoNodes = {}
      BY DEF NoNodes
    <3>4. \A y \in (b + 1)..g : DOMAIN updates'[y] = {}
      <4>1. \A y \in (b + 1)..g : y \in Epochs /\ (y = e \/ y \in (b + 1)..f)
        BY <1>5, <1>8, <1>10, <1>11, <3>1 DEF Epochs
      <4> QED
        BY <3>1, <3>2, <3>3, <4>1
    <3>5. \A y \in (g + 1)..epoch : updates'[y] = Batch(y)
      <4>1. \A y \in (g + 1)..epoch : y \in Epochs /\ y # e /\ y \in (f + 1)..epoch
        BY <1>5, <1>8, <1>10, <1>11, <2>2, <3>1 DEF Epochs
      <4> QED
        BY <3>1, <3>2, <4>1
    <3>6. ASSUME NEW n \in DOMAIN cachedNodes'
          PROVE  From(g, n, cachedNodes'[n])
      <4>1. CASE e # f + 1
        <5>1. e \in (b + 1)..f /\ g = f
          BY <1>8, <1>10, <3>1, <4>1
        <5>2. DOMAIN updates[e] = {}
          BY <3>1, <5>1
        <5>3. n \in DOMAIN cachedNodes /\ cachedNodes'[n] = cachedNodes[n]
          BY <1>3, <2>2, <5>2
        <5> QED
          BY <3>1, <5>1, <5>3
      <4>2. CASE e = f + 1
        <5>1. g = e /\ updates[e] = Batch(e)
          <6>1. e \in (f + 1)..epoch
            BY <1>5, <1>8, <4>2
          <6> QED
            BY <1>10, <2>2, <3>1, <4>2, <6>1
        <5>2. CASE n \in DOMAIN updates[e]
          <6>1. cachedNodes'[n] = updates[e][n]
            BY <1>3, <2>2, <5>2
          <6>2. /\ n \in SavedBy(TrieOf(Past(e - 1)), TrieOf(Past(e)))
                /\ cachedNodes'[n] = TrieOf(Past(e))[n]
            BY <5>1, <5>2, <6>1 DEF Batch
          <6>3. n \in NodeLabels(Past(e))
            BY <6>2 DEF SavedBy, TrieOf
          <6>4. e \in e..epoch
            BY <1>5, <1>8
          <6> QED
            BY <5>1, <6>2, <6>3, <6>4 DEF From
        <5>3. CASE n \notin DOMAIN updates[e]
          <6>1. n \in DOMAIN cachedNodes /\ cachedNodes'[n] = cachedNodes[n]
            BY <1>3, <2>2, <5>3
          <6>2. From(f, n, cachedNodes[n]) /\ n \notin DOMAIN Batch(e)
            BY <3>1, <5>1, <5>3, <6>1
          <6> QED
            BY <1>6, <1>8, <4>2, <5>1, <6>1, <6>2, BatchBrings
        <5> QED
          BY <5>2, <5>3
      <4> QED
        BY <4>1, <4>2
    <3>7. b \in 0..g /\ g \in 0..epoch /\ cachedTrie' = {e} /\ e \in b..g
      BY <1>3, <1>10, <1>11, <2>2, <3>1
    <3> QED
      BY <1>2, <1>5, <2>2, <3>4, <3>5, <3>6, <3>7 DEF CacheInv
  <2> QED
    BY <2>1, <2>2
<1>14. QueriersInv(b, g)'
  <2>1. HasCache => cachedTrie' # {}
    BY <1>3
  <2>2. \A p \in DOMAIN queriers : queriers[p].epoch \in b..g
    BY <1>4, <1>11 DEF QueriersInv
  <2> QED
    BY <1>2, <1>4, <1>5, <2>1, <2>2 DEF QueriersInv
<1>15. Loading(b, g)'
  <2>1. PICK v \in Nat : v = e + 1
    BY <1>6
  <2>2. /\ call'.pc = "updates" /\ call'.op = "check" /\ call'.querier = q
        /\ call'.began = call.began /\ call'.last = call.last /\ call'.epoch = v
        /\ call' \in [pc : {"load", "root", "next", "epoch", "updates"},
                      op : {"create", "check"}, querier : 1..QuerierCount, epoch : Nat,
                      last : Nat, began : 0..epoch]
    <3>1. call' = [call EXCEPT !.epoch = v]
      BY <1>2, <2>1
    <3> QED
      BY <1>2, <1>6, <2>1, <3>1
  <2>3. Done' = Done
    BY <1>2, <2>2 DEF Done
  <2>4. /\ x < v /\ v <= g + 1 /\ v - 1 = e /\ v <= call.last + 1
    <3>1. e <= g
      BY <1>4, <1>5, <1>6, <1>10, <1>11 DEF CacheInv
    <3>2. call.last \in Nat /\ x < e
      BY <1>6, <1>7
    <3>3. x \in Nat /\ e \in Nat /\ g \in Nat /\ e <= call.last
      BY <1>2, <1>6, <1>7
    <3> QED
      BY <2>1, <3>1, <3>2, <3>3
  <2>5. HasCache => cachedTrie' = {v - 1}
    BY <1>3, <2>4
  <2> QED
    BY <1>2, <1>5, <1>6, <1>7, <2>2, <2>3, <2>4, <2>5 DEF Loading
<1> QED
  BY <1>9, <1>10, <1>13, <1>14, <1>15, FitsInv

-----------------------------------------------------------------------------
(* The invariant holds                                                     *)

LEMMA InitInv ==
  ASSUME Init
  PROVE  IInv
<1>1. /\ provider \in Providers /\ provider.epochs \in 0..MaxEpoch /\ MaxEpoch \in Nat
      /\ provider.queriers \in Nat
  BY ProvidersAssumption, BoundsAssumption DEF Init
<1>2. /\ dict = {} /\ stored = TrieOf({}) /\ epoch = 0 /\ checked = 0
      /\ updates = [e \in Epochs |-> NoNodes] /\ cachedNodes = NoNodes /\ cachedTrie = {}
      /\ queriers = <<>> /\ call = NoCall
  BY DEF Init
<1>3. StorageInv
  BY <1>1, <1>2 DEF StorageInv
<1>4. CacheInv(0, 0)
  <2>1. DOMAIN cachedNodes = {}
    BY <1>2 DEF NoNodes
  <2> QED
    BY <1>2, <2>1 DEF CacheInv
<1>5. QueriersInv(0, 0)
  BY <1>1, <1>2 DEF QueriersInv, QuerierCount
<1>6. Idle
  BY <1>2 DEF Idle
<1> QED
  BY <1>2, <1>3, <1>4, <1>5, <1>6 DEF IInv, Fits

LEMMA SameInv ==
  ASSUME IInv, UNCHANGED vars
  PROVE  IInv'
<1>1. PICK b \in 0..epoch, f \in 0..epoch : Fits(b, f)
  BY DEF IInv
<1>2. StorageInv /\ epoch \in Nat
  BY PastFact DEF IInv
<1>3. UNCHANGED <<storage, cache, queriers, call, checked>>
  BY DEF vars
<1>4. /\ StorageInv' /\ CacheInv(b, f)' /\ QueriersInv(b, f)'
      /\ UNCHANGED <<provider, dict, epoch, cachedTrie>>
  BY <1>1, <1>2, <1>3, CallSame
<1>5. (Idle \/ Walking \/ Loading(b, f))'
  BY <1>1, <1>3, <1>4, IdleSame, WalkingSame, LoadingSame DEF Fits
<1> QED
  BY <1>2, <1>4, <1>5, FitsInv

LEMMA Invariance == StaysCached => (Spec => []IInv)
<1> SUFFICES ASSUME StaysCached PROVE Spec => []IInv
  OBVIOUS
<1>1. Init => IInv
  BY InitInv
<1>2. IInv /\ [Next]_vars => IInv'
  <2> SUFFICES ASSUME IInv, [Next]_vars PROVE IInv'
    OBVIOUS
  <2>1. StorageInv /\ epoch \in Nat
    BY PastFact DEF IInv
  <2>2. PICK b \in Nat, f \in Nat : Fits(b, f)
    BY <2>1 DEF IInv
  <2>3. ASSUME NEW S \in SUBSET Keys, Publish(S) PROVE IInv'
    BY <2>1, <2>2, <2>3, PublishInv
  <2>4. CASE Evict
    BY <2>1, <2>2, <2>4, EvictInv
  <2>5. CASE CreateQueriers
    BY <2>1, <2>2, <2>5, CreateInv
  <2>6. CASE CheckForUpdate
    BY <2>1, <2>2, <2>6, CheckInv
  <2>7. CASE NextQuerier
    BY <2>1, <2>2, <2>7, NextQuerierInv
  <2>8. ASSUME NEW q \in 1..MaxQueriers, LoadTrie(q) PROVE IInv'
    BY <2>1, <2>2, <2>8, LoadTrieInv
  <2>9. ASSUME NEW q \in 1..MaxQueriers, LoadRoot(q) PROVE IInv'
    BY <2>1, <2>2, <2>9, LoadRootInv
  <2>10. ASSUME NEW q \in 1..MaxQueriers, GetEpoch(q) PROVE IInv'
    BY <2>1, <2>2, <2>10, GetEpochInv
  <2>11. ASSUME NEW q \in 1..MaxQueriers, LoadUpdatedElements(q) PROVE IInv'
    BY <2>1, <2>2, <2>11, LoadUpdatedInv
  <2>12. ASSUME NEW q \in 1..MaxQueriers, UpdatesLoaded(q) PROVE IInv'
    BY <2>1, <2>2, <2>12, UpdatesLoadedInv
  <2>13. ASSUME NEW q \in 1..MaxQueriers, NEW k \in Searched, Query(q, k) PROVE IInv'
    BY <2>1, <2>2, <2>13, QueryInv
  <2>14. CASE ReadChild
    BY <2>1, <2>2, <2>14, ReadChildInv
  <2>15. CASE GoDown
    BY <2>1, <2>2, <2>15, GoDownInv
  <2>16. CASE QueryReturns
    BY <2>1, <2>2, <2>16, QueryReturnsInv
  <2>17. CASE UNCHANGED vars
    BY <2>17, SameInv
  <2> QED
    BY <2>3, <2>4, <2>5, <2>6, <2>7, <2>8, <2>9, <2>10, <2>11, <2>12, <2>13, <2>14, <2>15,
       <2>16, <2>17 DEF Next
<1> QED
  BY <1>1, <1>2, PTL DEF Spec

-----------------------------------------------------------------------------
(* The answer of a query that is done                                      *)

(* A walk that is over: at the label, at a leaf, or where no child is. *)
Ended(s, l, c) ==
  LET at == c[Len(c)]
  IN  \/ at = l \/ IsLeaf(s[at])
      \/ /\ s[at].left \in DOMAIN s /\ s[at].right \in DOMAIN s
         /\ ChildOn(s[at], NextBit(at, l)) = EmptyLabel

(* The state r after k steps of a lookup that takes the walk. *)
OnWalk(r, k, l, c) ==
  \/ r.status = "walk" /\ k < Len(c) /\ r.cur = c[k + 1]
  \/ /\ r.status = IF c[Len(c)] = l THEN "found" ELSE "missing"
     /\ k >= Len(c)

(* A lookup takes the same step in every trie that has the nodes read. *)
LEMMA WalkStep ==
  ASSUME NEW s, NEW t, \A n \in DOMAIN s : t[n] = s[n] /\ ~s[n].dirty,
         NEW l, NEW c, IsWalk(s, l, c), Ended(s, l, c), NEW r, NEW k \in Nat, OnWalk(r, k, l, c)
  PROVE  /\ Visit(s, l, r) = Visit(t, l, r)
         /\ OnWalk(Visit(s, l, r), k + 1, l, c)
<1>1. PICK m \in Nat : Len(c) = m /\ m > 0 /\ \A i \in 1..m : c[i] \in DOMAIN s
  BY DEF IsWalk
<1>2. CASE r.status # "walk"
  <2>1. Visit(s, l, r) = r /\ Visit(t, l, r) = r
    BY <1>2 DEF Visit
  <2>2. k + 1 >= m
    BY <1>1, <1>2 DEF OnWalk
  <2> QED
    BY <1>1, <1>2, <2>1, <2>2 DEF OnWalk
<1>3. CASE r.status = "walk"
  <2>1. k < m /\ r.cur = c[k + 1] /\ k + 1 \in 1..m /\ r.cur \in DOMAIN s
    <3>1. k < m /\ r.cur = c[k + 1]
      BY <1>1, <1>3 DEF OnWalk
    <3>2. k + 1 \in 1..m
      BY <3>1
    <3> QED
      BY <1>1, <3>1, <3>2
  <2> DEFINE n == r.cur
             bit == NextBit(n, l)
             down == ChildOn(s[n], bit)
             side == ChildOn(s[n], 1 - bit)
             here == PathEntry(s, n)
  <2>2. t[n] = s[n] /\ ~Refuses(s, n) /\ ~Refuses(t, n) /\ here = PathEntry(t, n)
    BY <2>1 DEF Refuses, PathEntry
  <2>3. CASE n = l
    <3>1. /\ Visit(s, l, r) = [r EXCEPT !.status = "found", !.path = <<here>> \o r.path]
          /\ Visit(t, l, r) = [r EXCEPT !.status = "found", !.path = <<here>> \o r.path]
      BY <1>3, <2>2, <2>3 DEF Visit
    <3>2. k + 1 = m
      <4>1. k + 1 \in 1..(m - 1) => c[k + 1] # l
        BY <1>1 DEF IsWalk
      <4> QED
        BY <1>1, <2>1, <2>3, <4>1
    <3>3. Visit(s, l, r).status = "found" /\ Visit(s, l, r) = Visit(t, l, r)
      BY <3>1
    <3>4. c[m] = l
      BY <2>1, <2>3, <3>2, Zenon
    <3>5. k + 1 >= m
      BY <3>2
    <3> HIDE DEF n
    <3> QED
      BY <1>1, <3>3, <3>4, <3>5 DEF OnWalk
  <2>4. CASE n # l /\ IsLeaf(s[n])
    <3>1. /\ Visit(s, l, r) = [r EXCEPT !.status = "missing",
                                        !.path = WithLeaf(r.path, here, r.siblingIsLeft)]
          /\ Visit(t, l, r) = [r EXCEPT !.status = "missing",
                                        !.path = WithLeaf(r.path, here, r.siblingIsLeft)]
      BY <1>3, <2>2, <2>4 DEF Visit
    <3>2. k + 1 = m
      <4>1. k + 1 \in 1..(m - 1) => ~IsLeaf(s[c[k + 1]])
        BY <1>1 DEF IsWalk
      <4> QED
        BY <1>1, <2>1, <2>4, <4>1
    <3>3. Visit(s, l, r).status = "missing"
      BY <3>1
    <3> QED
      BY <1>1, <2>1, <2>4, <3>1, <3>2, <3>3 DEF OnWalk
  <2>5. CASE n # l /\ ~IsLeaf(s[n])
    <3>1. /\ s[n].left \in DOMAIN s /\ s[n].right \in DOMAIN s
          /\ k + 1 < m => down = c[k + 2] /\ down # EmptyLabel
          /\ k + 1 = m => down = EmptyLabel
      <4>1. CASE k + 1 < m
        <5>1. k + 1 \in 1..(m - 1) /\ (k + 1) + 1 = k + 2
          BY <2>1, <4>1
        <5>2. \A i \in 1..(m - 1) :
                /\ s[c[i]].left \in DOMAIN s /\ s[c[i]].right \in DOMAIN s
                /\ c[i + 1] = ChildOn(s[c[i]], NextBit(c[i], l)) /\ c[i + 1] # EmptyLabel
          BY <1>1 DEF IsWalk
        <5> QED
          BY <2>1, <4>1, <5>1, <5>2
      <4>2. CASE k + 1 = m
        BY <1>1, <2>1, <2>5, <4>2 DEF Ended
      <4> QED
        BY <2>1, <4>1, <4>2
    <3>2. side \in DOMAIN s /\ ~Refuses(s, side) /\ ~Refuses(t, side)
          /\ PathEntry(s, side) = PathEntry(t, side)
      <4>1. side \in DOMAIN s
        BY <3>1 DEF ChildOn
      <4> QED
        BY <4>1 DEF Refuses, PathEntry
    <3> DEFINE next == [cur |-> down, siblingIsLeft |-> bit = 1,
                        path |-> IF side = EmptyLabel THEN r.path
                                 ELSE <<PathEntry(s, side)>> \o r.path,
                        status |-> IF down = EmptyLabel THEN "missing" ELSE "walk"]
    <3>3. Visit(s, l, r) = next /\ Visit(t, l, r) = next
      BY <1>3, <2>2, <2>5, <3>2 DEF Visit
    <3>4. next.cur = down /\ next.status = IF down = EmptyLabel THEN "missing" ELSE "walk"
      OBVIOUS
    <3> HIDE DEF next, down, side
    <3>5. CASE k + 1 < m
      <4>1. (k + 1) + 1 = k + 2
        OBVIOUS
      <4> QED
        BY <1>1, <3>1, <3>3, <3>4, <3>5, <4>1 DEF OnWalk
    <3>6. CASE k + 1 = m
      BY <1>1, <2>1, <2>5, <3>1, <3>3, <3>4, <3>6 DEF OnWalk
    <3> QED
      BY <2>1, <3>5, <3>6
  <2> QED
    BY <2>3, <2>4, <2>5
<1> QED
  BY <1>2, <1>3

(* Where a walk is over, lookup ends as well, with what it found.  It is   *)
(* the lookup of every trie that has the nodes read.                       *)
LEMMA LookupOfWalk ==
  ASSUME NEW s, NEW t, \A n \in DOMAIN s : t[n] = s[n] /\ ~s[n].dirty, DOMAIN s \subseteq Label,
         NEW l, NEW c, IsWalk(s, l, c), Ended(s, l, c)
  PROVE  /\ Lookup(s, l) = Lookup(t, l)
         /\ Lookup(s, l).status = IF c[Len(c)] = l THEN "found" ELSE "missing"
<1> DEFINE n == MaxBitCount + 2
           start == [cur |-> EmptyLabel, siblingIsLeft |-> FALSE, path |-> <<>>,
                     status |-> "walk"]
           v == CHOOSE g : g = [k \in 0..n |-> IF k = 0 THEN start
                  ELSE CHOOSE x \in {Visit(s, l, r) : r \in {g[k - 1]}} : TRUE]
           w == CHOOSE g : g = [k \in 0..n |-> IF k = 0 THEN start
                  ELSE CHOOSE x \in {Visit(t, l, r) : r \in {g[k - 1]}} : TRUE]
           Bad == {k \in 0..n : ~(v[k] = w[k] /\ OnWalk(v[k], k, l, c))}
<1>1. n \in Nat /\ n \in 0..n /\ MaxBitCount \in Nat
  BY MaxBitCountAssumption
<1>2. Visits(v, s, l, n) /\ Visits(w, t, l, n)
  <2>1. (\E g : Visits(g, s, l, n)) /\ (\E g : Visits(g, t, l, n))
    BY <1>1, VisitsExist
  <2> QED
    BY <2>1, Zenon DEF Visits
<1>3. Lookup(s, l) = v[n] /\ Lookup(t, l) = w[n]
  BY Zenon DEF Lookup
<1> HIDE DEF v, w
<1>4. /\ v[0] = start /\ w[0] = start
      /\ \A k \in 0..n : k # 0 => v[k] = Visit(s, l, v[k - 1]) /\ w[k] = Visit(t, l, w[k - 1])
  <2>1. 0 \in 0..n
    BY <1>1
  <2>2. /\ \A k \in 0..n : v[k] = IF k = 0 THEN start
                 ELSE CHOOSE x \in {Visit(s, l, r) : r \in {v[k - 1]}} : TRUE
        /\ \A k \in 0..n : w[k] = IF k = 0 THEN start
                 ELSE CHOOSE x \in {Visit(t, l, r) : r \in {w[k - 1]}} : TRUE
    BY <1>2 DEF Visits
  <2> HIDE DEF start, n
  <2> QED
    BY <2>1, <2>2
<1>5. PICK m \in Nat : Len(c) = m /\ m > 0 /\ m <= MaxBitCount + 1
  <2>1. Len(c) \in Nat /\ Len(c) > 0 /\ c[Len(c)] \in Label /\ Len(c[Len(c)]) >= Len(c) - 1
    BY DEF IsWalk
  <2> QED
    BY <1>1, <2>1, LabelLen
<1>6. OnWalk(start, 0, l, c)
  BY <1>5 DEF OnWalk, IsWalk
<1>7. Bad = {}
  <2> SUFFICES ASSUME Bad # {} PROVE FALSE
    OBVIOUS
  <2>1. PICK k \in Bad : \A j \in Bad : k <= j
    <3>1. Bad \subseteq Nat
      OBVIOUS
    <3> HIDE DEF Bad
    <3> QED
      BY <3>1, LeastNatural
  <2>2. k # 0
    BY <1>4, <1>6, <2>1
  <2>3. k - 1 \in 0..n /\ k - 1 \in Nat /\ (k - 1) + 1 = k /\ k - 1 \notin Bad
    <3>1. k \in 0..n
      BY <2>1
    <3> HIDE DEF n, Bad
    <3> QED
      BY <1>1, <2>1, <2>2, <3>1
  <2>4. v[k - 1] = w[k - 1] /\ OnWalk(v[k - 1], k - 1, l, c)
    BY <2>3
  <2> HIDE DEF Bad
  <2>5. /\ Visit(s, l, v[k - 1]) = Visit(t, l, v[k - 1])
        /\ OnWalk(Visit(s, l, v[k - 1]), (k - 1) + 1, l, c)
    BY <2>3, <2>4, WalkStep
  <2>6. v[k] = w[k] /\ OnWalk(v[k], k, l, c)
    BY <1>4, <2>1, <2>2, <2>3, <2>4, <2>5 DEF Bad
  <2> QED
    BY <2>1, <2>6 DEF Bad
<1>8. v[n] = w[n] /\ OnWalk(v[n], n, l, c)
  BY <1>1, <1>7
<1> QED
  BY <1>1, <1>3, <1>5, <1>8 DEF OnWalk

LEMMA Answered ==
  ASSUME IInv, IsAnswered
  PROVE  /\ StorageInv /\ Walking /\ call.key \in FullLabel
         /\ queriers[call.querier].epoch \in 0..epoch /\ checked <= queriers[call.querier].epoch
         /\ \A n \in DOMAIN call.seen : From(queriers[call.querier].epoch, n, call.seen[n])
         /\ Answer.status = IF call.at = call.key THEN "found" ELSE "missing"
         /\ \A t : (\A n \in DOMAIN call.seen : t[n] = call.seen[n]) =>
                    Answer = Lookup(t, call.key)
<1>1. StorageInv /\ epoch \in Nat
  BY PastFact DEF IInv
<1>2. PICK b \in Nat, f \in Nat : Fits(b, f) /\ f <= epoch
  BY <1>1 DEF IInv
<1>3. Walking
  BY <1>2 DEF IsAnswered, Fits, Idle, NoCall, Loading
<1>4. /\ queriers[call.querier].epoch \in 0..epoch /\ checked <= queriers[call.querier].epoch
      /\ \A n \in DOMAIN call.seen : From(queriers[call.querier].epoch, n, call.seen[n])
  BY <1>1, <1>2, <1>3 DEF Fits, QueriersInv, Walking
<1>5. PICK c : IsWalk(call.seen, call.key, c) /\ c[Len(c)] = call.at
  BY <1>3 DEF Walking
<1>6. Ended(call.seen, call.key, c)
  <2>1. \/ call.at = call.key \/ IsLeaf(Here)
        \/ {Here.left, Here.right} \subseteq DOMAIN call.seen /\ NextDown = EmptyLabel
    BY <1>1, <1>2, <1>3, HereFact DEF IsAnswered, AtEnd
  <2> QED
    BY <1>5, <2>1 DEF Ended, Here, NextDown
<1>7. \A n \in DOMAIN call.seen : n \in Label /\ ~call.seen[n].dirty
  BY <1>1, <1>4, FromFact
<1>8. /\ Answer.status = IF call.at = call.key THEN "found" ELSE "missing"
      /\ \A t : (\A n \in DOMAIN call.seen : t[n] = call.seen[n]) => Answer = Lookup(t, call.key)
  <2>1. \A t : (\A n \in DOMAIN call.seen : t[n] = call.seen[n]) =>
          /\ Lookup(call.seen, call.key) = Lookup(t, call.key)
          /\ Lookup(call.seen, call.key).status =
               IF c[Len(c)] = call.key THEN "found" ELSE "missing"
    BY <1>5, <1>6, <1>7, LookupOfWalk
  <2> QED
    BY <1>5, <2>1 DEF Answer
<1> QED
  BY <1>1, <1>3, <1>4, <1>8, KeysAssumption DEF Walking

(* A walk that ends does so at its label, if the querier's epoch had it. *)
LEMMA AnswerFinds ==
  ASSUME IInv
  PROVE  PublishedIsFound
<1> SUFFICES ASSUME IsAnswered, NEW t \in dict, t[1] = call.key,
                    t[3] <= queriers[call.querier].epoch
             PROVE  Answer.status = "found"
  BY DEF PublishedIsFound
<1>1. /\ StorageInv /\ Walking /\ call.key \in FullLabel
      /\ Answer.status = IF call.at = call.key THEN "found" ELSE "missing"
  BY Answered
<1>2. PICK b \in Nat, f \in Nat : Fits(b, f)
  BY <1>1, PastFact DEF IInv
<1>3. PICK e \in Nat : e = queriers[call.querier].epoch
  BY <1>1, <1>2, HereFact
<1>4. call.at \in Label /\ From(e, call.at, Here)
  BY <1>1, <1>2, <1>3, HereFact
<1>5. call.key \in LabelsOf(Past(e))
  BY <1>3 DEF LabelsOf, Past
<1> SUFFICES ASSUME call.at # call.key PROVE FALSE
  BY <1>1
<1>6. Starts(call.at, call.key)
  BY <1>1, <1>3, <1>5 DEF Walking
<1>7. PICK bit \in Bit : bit = NextBit(call.at, call.key) /\ call.key[Len(call.at) + 1] = bit
  BY <1>1, <1>4, <1>6, CommonIsStart
<1>8. IsUnder(call.key, call.at, bit)
  BY <1>1, <1>4, <1>6, <1>7, FullIsLabel, StartsIsUnder
<1>9. ChildOn(Here, bit) # EmptyLabel
  BY <1>1, <1>4, <1>5, <1>8, FromFact
<1>10. IsLeaf(Here) \/ NextDown = EmptyLabel
  BY DEF IsAnswered, AtEnd
<1> QED
  BY <1>7, <1>9, <1>10 DEF IsLeaf, NextDown, ChildOn

(* A querier with the published epoch has read nodes of it only. *)
LEMMA AnswerIsFresh ==
  ASSUME IInv
  PROVE  FreshAnswers
<1> SUFFICES ASSUME IsAnswered, checked = epoch
             PROVE  /\ Answer.status = "found" <=> call.key \in LabelsOf(dict)
                    /\ VerifyLookupPath(Answer.path, stored[EmptyLabel].hash)
  BY DEF FreshAnswers
<1>1. /\ StorageInv /\ call.key \in FullLabel
      /\ queriers[call.querier].epoch \in 0..epoch /\ checked <= queriers[call.querier].epoch
      /\ \A n \in DOMAIN call.seen : From(queriers[call.querier].epoch, n, call.seen[n])
      /\ \A t : (\A n \in DOMAIN call.seen : t[n] = call.seen[n]) =>
                 Answer = Lookup(t, call.key)
  BY Answered
<1>2. /\ Past(epoch) = dict /\ epoch \in Nat /\ LabelsOf(dict) \subseteq FullLabel
      /\ stored = TrieOf(dict)
  BY <1>1, PastFact DEF StorageInv
<1>3. queriers[call.querier].epoch = epoch
  BY <1>1, <1>2
<1>4. \A v \in epoch..epoch : v = epoch
  BY <1>2
<1>5. \A n \in DOMAIN call.seen : stored[n] = call.seen[n]
  BY <1>1, <1>2, <1>3, <1>4 DEF From
<1>6. Answer = Lookup(stored, call.key)
  BY <1>1, <1>5
<1>7. Answers(stored, call.key, Answer.status, Answer.path)
  BY <1>1, <1>2, <1>6, TrieOfIsHashed, LookupAnswers
<1>8. call.key \in DOMAIN stored <=> call.key \in LabelsOf(dict)
  BY <1>1, <1>2, TrieOfFact, NodeLabelsFact
<1> QED
  BY <1>7, <1>8 DEF Answers

(* A query of a querier that has the epoch of a key finds the key, though  *)
(* epochs are published, refreshes hand nodes over and the cache loses     *)
(* nodes between any two of its reads.                                     *)
THEOREM PublishedAlwaysFound == StaysCached => (Spec => []PublishedIsFound)
<1> SUFFICES ASSUME StaysCached PROVE Spec => []PublishedIsFound
  OBVIOUS
<1>1. Spec => []IInv
  BY Invariance
<1>2. IInv => PublishedIsFound
  BY AnswerFinds
<1> QED
  BY <1>1, <1>2, PTL

(* With nothing published since the last completed refresh began, every    *)
(* querier answers as the published trie does, found or not, with a path   *)
(* that verifies with its commitment.                                      *)
THEOREM AnswersAreFresh == StaysCached => (Spec => []FreshAnswers)
<1> SUFFICES ASSUME StaysCached PROVE Spec => []FreshAnswers
  OBVIOUS
<1>1. Spec => []IInv
  BY Invariance
<1>2. IInv => FreshAnswers
  BY AnswerIsFresh
<1> QED
  BY <1>1, <1>2, PTL
==============================================================================
