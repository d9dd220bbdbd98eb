---------------------------- MODULE TrieReplicas ----------------------------
(***************************************************************************)
(* The reading side of the distributed example: the queriers of one        *)
(* QueryProvider, which hold the epoch and the root of a trie in memory    *)
(* and reach every other node through one cache, while the timer's thread  *)
(* of an Updater publishes new epochs in the storage below                 *)
(* (providers/dist_query_provider.cpp, providers/querier/querier.cpp,      *)
(* CompressedTrie::LoadFromStorage, MemoryStorageCache).                   *)
(*                                                                         *)
(* One thread calls query and check_for_update.  The storage at the bottom *)
(* is a BatchStorage: it applies a flushed batch at once and keeps the     *)
(* batch of each epoch until load_updated_elements hands it over.          *)
(***************************************************************************)
EXTENDS DictionaryTrie

CONSTANTS
  Keys,          \* the labels that are published
  Searched,      \* the labels that are looked up
  Providers,     \* the query providers: the number of their queriers (4 in the
                 \* code); whether they read through a cache or storage_querier
                 \* is the storage at the bottom; whether other tries can push
                 \* this trie out of the cache; bound: how many epochs appear
  MaxQueriers, MaxEpoch

ASSUME BoundsAssumption == MaxQueriers \in Nat /\ MaxEpoch \in Nat
ASSUME KeysAssumption == Keys \subseteq FullLabel /\ Searched \subseteq FullLabel
ASSUME ProvidersAssumption ==
  Providers \subseteq [queriers : 1..MaxQueriers, cache : BOOLEAN,
                       trieMayLeave : BOOLEAN, epochs : 0..MaxEpoch]

VARIABLES
  provider,      \* the query provider
  dict,          \* the dictionary that is published
  stored,        \* its nodes in the storage at the bottom
  epoch,         \* the epoch of the trie there
  updates,       \* epoch -> its batch of nodes, until it is handed over
  cachedNodes,   \* the node cache: label -> node
  cachedTrie,    \* the trie cache: the epochs of the tries it has, 0 or 1 of them
  queriers,      \* the queriers created so far: their epoch and root
  call,          \* the call of the one client, and where it is
  checked        \* the epoch when the last completed refresh began

storage == <<provider, dict, stored, epoch, updates>>
cache == <<cachedNodes, cachedTrie>>
vars == <<storage, cache, queriers, call, checked>>

HasCache == provider.cache
QuerierCount == provider.queriers

Epochs == 1..MaxEpoch
NoNodes == [n \in {} |-> EmptyRoot]
NoCall == [pc |-> "idle"]
Put(m, n, node) == [x \in DOMAIN m \cup {n} |-> IF x = n THEN node ELSE m[x]]

-----------------------------------------------------------------------------
Init ==
  /\ provider \in Providers
  /\ dict = {} /\ stored = TrieOf({}) /\ epoch = 0
  /\ updates = [e \in Epochs |-> NoNodes]
  /\ cachedNodes = NoNodes /\ cachedTrie = {}
  /\ queriers = <<>>
  /\ call = NoCall
  /\ checked = 0

(***************************************************************************)
(* Updater::time_tick up to its flush: the keys of one batch appear under  *)
(* the next epoch, with the nodes that their insertion saved.              *)
(***************************************************************************)
Publish(S) ==
  /\ epoch < provider.epochs /\ S # {} /\ S \cap LabelsOf(dict) = {}
  /\ dict' = dict \cup {<<k, "c", epoch + 1>> : k \in S}
  /\ stored' = TrieOf(dict')
  /\ epoch' = epoch + 1
  /\ updates' = [updates EXCEPT ![epoch + 1] =
                   [n \in SavedBy(stored, stored') |-> stored'[n]]]
  /\ UNCHANGED <<provider, cache, queriers, call, checked>>

(* Entries of other tries that share the cache push out one of this trie's. *)
Evict ==
  /\ \/ \E n \in DOMAIN cachedNodes :
          /\ cachedNodes' = [x \in DOMAIN cachedNodes \ {n} |-> cachedNodes[x]]
          /\ UNCHANGED cachedTrie
     \/ provider.trieMayLeave /\ cachedTrie # {} /\ cachedTrie' = {} /\ UNCHANGED cachedNodes
  /\ UNCHANGED <<storage, queriers, call, checked>>

-----------------------------------------------------------------------------
(* Loads, from the cache or else from below, which fills the cache.        *)

LoadedNode(n) == IF n \in DOMAIN cachedNodes THEN cachedNodes[n] ELSE stored[n]
LoadedEpoch == IF cachedTrie # {} THEN CHOOSE e \in cachedTrie : TRUE ELSE epoch

FillNode(n) ==
  cachedNodes' = IF HasCache THEN Put(cachedNodes, n, LoadedNode(n)) ELSE cachedNodes
FillTrie == cachedTrie' = IF HasCache THEN {LoadedEpoch} ELSE {}

(***************************************************************************)
(* CompressedTrie::LoadFromStorage for querier q, in two steps: the trie   *)
(* and the root.  It ends a querier's constructor or its check_for_update. *)
(***************************************************************************)
LoadTrie(q) ==
  /\ call.pc = "load" /\ call.querier = q
  /\ FillTrie
  /\ call' = [call EXCEPT !.pc = "root", !.epoch = LoadedEpoch]
  /\ UNCHANGED <<storage, cachedNodes, queriers, checked>>

(* Mutant: the trie is replaced and its old root kept. *)
LoadRootOnce(q) ==
  /\ call.pc = "root" /\ call.querier = q
  /\ FillNode(EmptyLabel)
  /\ queriers' = IF q > Len(queriers)
                 THEN Append(queriers, [epoch |-> call.epoch, root |-> LoadedNode(EmptyLabel)])
                 ELSE [queriers EXCEPT ![q].epoch = call.epoch]
  /\ call' = [call EXCEPT !.pc = "next"]
  /\ UNCHANGED <<storage, cachedTrie, checked>>

LoadRoot(q) ==
  /\ call.pc = "root" /\ call.querier = q
  /\ FillNode(EmptyLabel)
  /\ LET loaded == [epoch |-> call.epoch, root |-> LoadedNode(EmptyLabel)]
     IN  queriers' = IF q > Len(queriers) THEN Append(queriers, loaded)
                     ELSE [queriers EXCEPT ![q] = loaded]
  /\ call' = [call EXCEPT !.pc = "next"]
  /\ UNCHANGED <<storage, cachedTrie, checked>>

-----------------------------------------------------------------------------
(* QueryProvider::query: the first one creates all queriers (get_querier); *)
(* a coin chooses the one that answers.                                    *)
CreateQueriers ==
  /\ call.pc = "idle" /\ queriers = <<>>
  /\ call' = [pc |-> "load", op |-> "create", querier |-> 1, epoch |-> 0,
              last |-> 0, began |-> epoch]
  /\ UNCHANGED <<storage, cache, queriers, checked>>

Query(q, k) ==
  /\ call.pc = "idle" /\ q \in DOMAIN queriers
  /\ call' = [pc |-> "walk", querier |-> q, key |-> k, at |-> EmptyLabel,
              seen |-> [n \in {EmptyLabel} |-> queriers[q].root]]
  /\ UNCHANGED <<storage, cache, queriers, checked>>

Here == call.seen[call.at]
NextDown == ChildOn(Here, NextBit(call.at, call.key))

(* current->left() and current->right(), in this order *)
Unread ==
  IF call.at = call.key \/ IsLeaf(Here) THEN EmptyLabel
  ELSE IF Here.left \notin DOMAIN call.seen THEN Here.left
  ELSE IF Here.right \notin DOMAIN call.seen THEN Here.right ELSE EmptyLabel

ReadChild ==
  /\ call.pc = "walk" /\ Unread # EmptyLabel
  /\ FillNode(Unread)
  /\ call' = [call EXCEPT !.seen = Put(@, Unread, LoadedNode(Unread))]
  /\ UNCHANGED <<storage, cachedTrie, queriers, checked>>

AtEnd ==
  IF call.at = call.key \/ IsLeaf(Here) THEN TRUE ELSE NextDown = EmptyLabel

GoDown ==
  /\ call.pc = "walk" /\ Unread = EmptyLabel /\ ~AtEnd
  /\ call' = [call EXCEPT !.at = NextDown]
  /\ UNCHANGED <<storage, cache, queriers, checked>>

(* The nodes that were read are a trie of their own; lookup's result. *)
IsAnswered == call.pc = "walk" /\ Unread = EmptyLabel /\ AtEnd
Answer == Lookup(call.seen, call.key)

QueryReturns ==
  /\ call.pc = "walk" /\ Unread = EmptyLabel /\ AtEnd
  /\ call' = NoCall
  /\ UNCHANGED <<storage, cache, queriers, checked>>

-----------------------------------------------------------------------------
(* QueryProvider::check_for_update: one querier after the other.           *)

CheckForUpdate ==
  /\ call.pc = "idle" /\ queriers # <<>>
  /\ call' = [pc |-> "epoch", op |-> "check", querier |-> 1, epoch |-> 0,
              last |-> 0, began |-> epoch]
  /\ UNCHANGED <<storage, cache, queriers, checked>>

(* Mutant: the epochs are loaded from the second new one on. *)
GetEpochOffByOne(q) ==
  /\ call.pc = "epoch" /\ call.querier = q
  /\ call' = IF epoch <= queriers[q].epoch THEN [call EXCEPT !.pc = "next"]
             ELSE [call EXCEPT !.pc = "updates", !.epoch = queriers[q].epoch + 2,
                               !.last = epoch]
  /\ UNCHANGED <<storage, cache, queriers, checked>>

(* get_compressed_trie_epoch, which asks the storage below the cache *)
GetEpoch(q) ==
  /\ call.pc = "epoch" /\ call.querier = q
  /\ call' = IF epoch <= queriers[q].epoch THEN [call EXCEPT !.pc = "next"]
             ELSE [call EXCEPT !.pc = "updates", !.epoch = queriers[q].epoch + 1,
                               !.last = epoch]
  /\ UNCHANGED <<storage, cache, queriers, checked>>

(* load_updated_elements of one epoch: the cache takes the batch's nodes   *)
(* and trie; the nodes are handed over once, the trie every time.  Without *)
(* a cache there is nobody to hand them to.                                *)
LoadUpdatedElements(q) ==
  /\ call.pc = "updates" /\ call.querier = q /\ call.epoch <= call.last
  /\ IF HasCache
     THEN LET batch == updates[call.epoch]
          IN  /\ cachedNodes' = [n \in DOMAIN cachedNodes \cup DOMAIN batch |->
                   IF n \in DOMAIN batch THEN batch[n] ELSE cachedNodes[n]]
              /\ cachedTrie' = {call.epoch}
              /\ updates' = [updates EXCEPT ![call.epoch] = NoNodes]
     ELSE UNCHANGED <<cache, updates>>
  /\ call' = [call EXCEPT !.epoch = @ + 1]
  /\ UNCHANGED <<provider, dict, stored, epoch, queriers, checked>>

UpdatesLoaded(q) ==
  /\ call.pc = "updates" /\ call.querier = q /\ call.epoch > call.last
  /\ call' = [call EXCEPT !.pc = "load"]
  /\ UNCHANGED <<storage, cache, queriers, checked>>

(* The loop over the queriers, of get_querier and of check_for_update. *)
NextQuerier ==
  /\ call.pc = "next"
  /\ IF call.querier < QuerierCount
     THEN /\ call' = [call EXCEPT !.querier = @ + 1,
                                  !.pc = IF call.op = "create" THEN "load" ELSE "epoch"]
          /\ UNCHANGED checked
     ELSE call' = NoCall /\ checked' = call.began
  /\ UNCHANGED <<storage, cache, queriers>>

-----------------------------------------------------------------------------
Next ==
  \/ \E S \in SUBSET Keys : Publish(S)
  \/ Evict
  \/ CreateQueriers \/ CheckForUpdate \/ NextQuerier
  \/ \E q \in 1..MaxQueriers :
       \/ LoadTrie(q) \/ LoadRoot(q) \/ GetEpoch(q)
       \/ LoadUpdatedElements(q) \/ UpdatesLoaded(q)
       \/ \E k \in Searched : Query(q, k)
  \/ ReadChild \/ GoDown \/ QueryReturns

Spec == Init /\ [][Next]_vars

-----------------------------------------------------------------------------
(* Properties                                                              *)

TypeOK ==
  /\ provider \in Providers
  /\ LabelsOf(dict) \subseteq Keys /\ epoch \in 0..MaxEpoch
  /\ \A e \in Epochs : DOMAIN updates[e] \subseteq DOMAIN stored
  /\ DOMAIN cachedNodes \subseteq DOMAIN stored /\ cachedTrie \subseteq 0..MaxEpoch
  /\ ~HasCache => DOMAIN cachedNodes = {} /\ cachedTrie = {}
  /\ Len(queriers) <= QuerierCount
  /\ call.pc = "walk" => DOMAIN call.seen \subseteq DOMAIN stored
  /\ checked \in 0..MaxEpoch

(* A query that follows a completed refresh, with nothing published since  *)
(* the refresh began, is answered as by the published trie: the right      *)
(* answer, and a path that verifies with its commitment, from any querier  *)
(* and whatever the cache holds or lost (ozks_dist_tests.cpp:366-385).     *)
FreshAnswers ==
  (IsAnswered /\ checked = epoch) =>
     \A answer \in {Answer} :
       /\ answer.status = "found" <=> call.key \in LabelsOf(dict)
       /\ VerifyLookupPath(answer.path, stored[EmptyLabel].hash)

(* A key is found by every query of a querier that has its epoch, though   *)
(* the nodes on the way are of different epochs and are read while others  *)
(* are published and pushed out: old roots never lead past a leaf.         *)
PublishedIsFound ==
  IsAnswered =>
    \A t \in dict :
      (t[1] = call.key /\ t[3] <= queriers[call.querier].epoch) =>
         Answer.status = "found"

(* README: each querier holds "a copy of the directory in memory": a path  *)
(* verifies with the root of the querier that answered.                    *)
AnswersFromOneCopy ==
  IsAnswered => VerifyLookupPath(Answer.path, queriers[call.querier].root.hash)
=============================================================================
