---------------------------- MODULE Serialization ----------------------------
(***************************************************************************)
(* What the classes of oZKS write to a stream or a byte vector, and what   *)
(* they read back (oZKS/serialization_helpers.*, the save and Load members *)
(* of the classes, read_from_serialization_reader of utilities.cpp).       *)
(*                                                                         *)
(* Input and output are sequences of units, which stand for bytes.  A      *)
(* flatbuffer is a size and that many units, each of which is known by the *)
(* table it is a part of: a reader that starts elsewhere, or reads more or *)
(* less, does not get a whole table.                                       *)
(***************************************************************************)
EXTENDS Naturals, Sequences, SequencesExt

CONSTANTS
  Objects,      \* what may be saved
  Sources,      \* "stream": one reader for all; "vector": a new one each time
  Version,      \* ozks_serialization_version of the writer
  OwnVersion,   \* that of the reader
  FirstToRead,  \* size of the first round of reading
  MaxObjects    \* bound: objects in one output

(* What is assumed of the constants. *)
ConstantsAreGiven ==
  /\ Sources \subseteq {"stream", "vector"} /\ Sources # {}
  /\ FirstToRead \in Nat \ {0} /\ MaxObjects \in Nat

VARIABLES
  source,   \* which kind of source is used
  units,    \* what was written and not cut off
  saved,    \* the objects saved, with the sizes that save returned
  loaded,   \* what Load returned or threw, one after the other
  position, \* where the next object is read
  cut       \* whether the end of the input was lost

vars == <<source, units, saved, loaded, position, cut>>

-----------------------------------------------------------------------------
(* Writing *)

FlatBuffer(table, size, fields) ==
  <<[prefix |-> size]>> \o
    [k \in 1..size |-> [table |-> table, fields |-> fields, unit |-> k, of |-> size]]

One(value) == <<[value |-> value]>>

WritePathElement(element) == FlatBuffer("PathElement", 2, element)
WritePath(path) == FlattenSeq([k \in DOMAIN path |-> WritePathElement(path[k])])

SaveCommitment(c) ==
  FlatBuffer("Commitment", 3,
    [version |-> Version, public_key |-> c.public_key, root_commitment |-> c.root_commitment])

SaveInsertResult(r) ==
  FlatBuffer("InsertResult", 2,
    [commitment |-> r.commitment, append_proof_count |-> Len(r.append_proof)])
  \o WritePath(r.append_proof)

SaveQueryResult(r) ==
  FlatBuffer("QueryResult", 4 + Len(r.key) + Len(r.payload) + (IF r.use_vrf THEN 3 ELSE 0),
    [is_member |-> r.is_member, key |-> r.key, payload |-> r.payload,
     vrf_proof |-> IF r.use_vrf THEN r.vrf_proof ELSE <<>>,
     randomness |-> r.randomness, use_vrf |-> r.use_vrf,
     lookup_proof_count |-> Len(r.lookup_proof)])
  \o WritePath(r.lookup_proof)

(* A child that is the empty label is left out; hash_ has the dirty bit.   *)
SaveCTNode(n) ==
  FlatBuffer("CTNode", 2 + Len(SelectSeq(<<n.left, n.right>>, LAMBDA c : c # <<>>)),
    [label |-> n.label, left |-> n.left, right |-> n.right, hash |-> n.hash, dirty |-> n.dirty])

SaveTrie(t) ==
  FlatBuffer("CompressedTrie", 5,
    [version |-> Version, epoch |-> t.epoch, id |-> t.id, thread_count |-> t.thread_count,
     trie_type |-> t.trie_type])

(* OZKSConfig is written field by field, without a size of the whole.      *)
SaveConfig(c) ==
  One(c.commitment_type) \o One(c.label_type) \o One(c.trie_type) \o One("has storage")
  \o One(Len(c.vrf_seed)) \o [k \in DOMAIN c.vrf_seed |-> [value |-> c.vrf_seed[k]]]
  \o One(c.vrf_cache_size) \o One(c.thread_count)

(* The size that it returns leaves the seed out. *)
ConfigSize == 6

SaveOZKS(o) ==
  LET config == SaveConfig(o.config)
      vrf_sk == IF o.config.label_type = "VRFLabels" THEN <<o.vrf_sk>> ELSE <<>>
  IN  FlatBuffer("OZKS", 3 + Len(config) + Len(vrf_sk),
        [version |-> Version, vrf_sk |-> vrf_sk, configuration |-> config, trie_id |-> o.id])

(* The storage of the querier is no part of a saved configuration.         *)
SaveOZKSDistributed(o) == SaveOZKS(o)

SaveObject(o) ==
  CASE o.class = "Commitment" -> SaveCommitment(o)
    [] o.class = "InsertResult" -> SaveInsertResult(o)
    [] o.class = "QueryResult" -> SaveQueryResult(o)
    [] o.class = "CTNode" -> SaveCTNode(o)
    [] o.class = "CompressedTrie" -> SaveTrie(o)
    [] o.class = "OZKSConfig" -> SaveConfig(o)
    [] o.class = "OZKS" -> SaveOZKS(o)
    [] o.class = "OZKSDistributed" -> SaveOZKSDistributed(o)

SizeReturned(o) == IF o.class = "OZKSConfig" THEN ConfigSize ELSE Len(SaveObject(o))

-----------------------------------------------------------------------------
(* Reading.  A result is what was read, how many units the code says that  *)
(* it took, and where the reader is then.                                  *)

Threw == [threw |-> TRUE]
Result(value, size, next) == [threw |-> FALSE, value |-> value, size |-> size, next |-> next]

(* What follows a read that did not throw. *)
Then(read, Continue(_)) == IF read.threw THEN Threw ELSE Continue(read)
Unless(fails, result) == IF fails THEN Threw ELSE result

(* SerializationReader::read; past the end it throws. *)
Read(input, at, count) ==
  Unless(at + count > Len(input), Result(SubSeq(input, at + 1, at + count), count, at + count))

Least(a, b) == IF a < b THEN a ELSE b

(* The rounds in which a buffer is read: each twice the one before, as far *)
(* as something is left.                                                   *)
Rounds(count) ==
  LET rounds[left \in 0..count, toRead \in 0..count] ==
        IF left = 0 THEN <<>>
        ELSE <<toRead>> \o rounds[left - toRead, Least(2 * toRead, left - toRead)]
  IN  rounds[count, Least(count, FirstToRead)]

ReadRounds(input, at, count) ==
  Read(input, at, FoldLeft(LAMBDA a, b : a + b, 0, Rounds(count)))

(* The size, then the rounds.  What is no size leads to no valid buffer.   *)
ReadBuffer(input, at) ==
  Then(Read(input, at, 1), LAMBDA prefix :
    Unless(DOMAIN prefix.value[1] # {"prefix"},
      Then(ReadRounds(input, at + 1, prefix.value[1].prefix), LAMBDA body :
        Result(body.value, 1 + body.size, body.next))))

(* The flatbuffers verifier: all units are those of one table.             *)
Verifies(buffer, table) ==
  \A k \in DOMAIN buffer :
    /\ DOMAIN buffer[k] = {"table", "fields", "unit", "of"}
    /\ buffer[k].table = table /\ buffer[k].unit = k /\ buffer[k].of = Len(buffer)

ReadTable(input, at, table) ==
  Then(ReadBuffer(input, at), LAMBDA buffer :
    Unless(~Verifies(buffer.value, table),
      Result(buffer.value[1].fields, buffer.size, buffer.next)))

(* count path elements, one after the other. *)
ReadPath(input, at, count) ==
  LET read[n \in 0..count] ==
        IF n = 0 THEN Result(<<>>, 0, at)
        ELSE Then(read[n - 1], LAMBDA before :
               Then(ReadTable(input, before.next, "PathElement"), LAMBDA element :
                 Result(Append(before.value, element.value),
                        before.size + element.size, element.next)))
  IN  read[count]

LoadCommitment(input, at) ==
  Then(ReadTable(input, at, "Commitment"), LAMBDA t :
    Unless(t.value.version # OwnVersion,
      Result([class |-> "Commitment", public_key |-> t.value.public_key,
              root_commitment |-> t.value.root_commitment], t.size, t.next)))

LoadInsertResult(input, at) ==
  Then(ReadTable(input, at, "InsertResult"), LAMBDA t :
    Then(ReadPath(input, t.next, t.value.append_proof_count), LAMBDA path :
      Result([class |-> "InsertResult", commitment |-> t.value.commitment,
              append_proof |-> path.value], t.size + path.size, path.next)))

QueryResultOf(t, path) ==
  [class |-> "QueryResult", is_member |-> t.is_member, key |-> t.key, payload |-> t.payload,
   lookup_proof |-> path, vrf_proof |-> IF t.use_vrf THEN t.vrf_proof ELSE <<>>,
   randomness |-> t.randomness, use_vrf |-> t.use_vrf]

(* Mutant: the size of the path is left out of what Load returns. *)
LoadQueryResultShort(input, at) ==
  Then(ReadTable(input, at, "QueryResult"), LAMBDA t :
    Then(ReadPath(input, t.next, t.value.lookup_proof_count), LAMBDA path :
      Result(QueryResultOf(t.value, path.value), t.size, path.next)))

LoadQueryResult(input, at) ==
  Then(ReadTable(input, at, "QueryResult"), LAMBDA t :
    Then(ReadPath(input, t.next, t.value.lookup_proof_count), LAMBDA path :
      Result(QueryResultOf(t.value, path.value), t.size + path.size, path.next)))

(* init(label, hash) clears the dirty bit. *)
LoadCTNode(input, at) ==
  Then(ReadTable(input, at, "CTNode"), LAMBDA t :
    Result([class |-> "CTNode", label |-> t.value.label, left |-> t.value.left,
            right |-> t.value.right, hash |-> t.value.hash, dirty |-> FALSE], t.size, t.next))

(* The version is written and not read; the root comes from storage. *)
LoadTrie(input, at) ==
  Then(ReadTable(input, at, "CompressedTrie"), LAMBDA t :
    Result([class |-> "CompressedTrie", epoch |-> t.value.epoch, id |-> t.value.id,
            thread_count |-> t.value.thread_count, trie_type |-> t.value.trie_type],
           t.size, t.next))

(* The fields one after the other, then the constructor of OZKSConfig,     *)
(* which throws for a seed without VRF labels.                             *)
ConfigOf(head, rest, seedSize) ==
  [class |-> "OZKSConfig", commitment_type |-> head[1].value, label_type |-> head[2].value,
   trie_type |-> head[3].value, vrf_seed |-> [k \in 1..seedSize |-> rest[k].value],
   vrf_cache_size |-> IF head[2].value = "VRFLabels" THEN rest[seedSize + 1].value ELSE 0,
   thread_count |-> rest[seedSize + 2].value]

LoadConfig(input, at) ==
  Then(Read(input, at, 5), LAMBDA head :
    Then(Read(input, head.next, head.value[5].value + 2), LAMBDA rest :
      Unless(head.value[2].value # "VRFLabels" /\ head.value[5].value # 0,
        Result(ConfigOf(head.value, rest.value, head.value[5].value), ConfigSize, rest.next))))

LoadOZKS(input, at) ==
  Then(ReadTable(input, at, "OZKS"), LAMBDA t :
    Then(LoadConfig(t.value.configuration, 0), LAMBDA config :
      Unless(t.value.version # OwnVersion,
        Result([class |-> "OZKS", config |-> config.value,
                vrf_sk |-> IF config.value.label_type = "VRFLabels"
                           THEN t.value.vrf_sk[1] ELSE "uninitialized",
                id |-> t.value.trie_id], t.size, t.next))))

(* A configuration is made of the one that was read, without a storage of  *)
(* the querier's own.                                                      *)
LoadOZKSDistributed(input, at) ==
  Then(LoadOZKS(input, at), LAMBDA o :
    Result([class |-> "OZKSDistributed", config |-> o.value.config,
            vrf_sk |-> o.value.vrf_sk, id |-> o.value.id, storage_querier |-> "of the trie"],
           o.size, o.next))

LoadObject(class, input, at) ==
  CASE class = "Commitment" -> LoadCommitment(input, at)
    [] class = "InsertResult" -> LoadInsertResult(input, at)
    [] class = "QueryResult" -> LoadQueryResult(input, at)
    [] class = "CTNode" -> LoadCTNode(input, at)
    [] class = "CompressedTrie" -> LoadTrie(input, at)
    [] class = "OZKSConfig" -> LoadConfig(input, at)
    [] class = "OZKS" -> LoadOZKS(input, at)
    [] class = "OZKSDistributed" -> LoadOZKSDistributed(input, at)

-----------------------------------------------------------------------------
Init ==
  /\ source \in Sources
  /\ units = <<>> /\ saved = <<>> /\ loaded = <<>>
  /\ position = 0 /\ cut = FALSE

Save(o) ==
  /\ loaded = <<>> /\ ~cut /\ Len(saved) < MaxObjects
  /\ units' = units \o SaveObject(o)
  /\ saved' = Append(saved, [object |-> o, size |-> SizeReturned(o)])
  /\ UNCHANGED <<source, loaded, position, cut>>

(* The end of the output is lost. *)
Cut(n) ==
  /\ ~cut /\ loaded = <<>> /\ n < Len(units)
  /\ units' = SubSeq(units, 1, n)
  /\ cut' = TRUE
  /\ UNCHANGED <<source, saved, loaded, position>>

NothingThrew == \A k \in DOMAIN loaded : ~loaded[k].threw

(* The next object is loaded: by a reader that goes on where it is, or by  *)
(* one that starts at the sum of the sizes that were returned.             *)
Load ==
  /\ Len(loaded) < Len(saved) /\ NothingThrew
  /\ \E result \in {LoadObject(saved[Len(loaded) + 1].object.class, units, position)} :
         /\ loaded' = Append(loaded, result)
         /\ position' = IF result.threw THEN position
                        ELSE IF source = "stream" THEN result.next
                        ELSE position + result.size
  /\ UNCHANGED <<source, units, saved, cut>>

Next ==
  \/ \E o \in Objects : Save(o)
  \/ \E n \in 0..Len(units) : Cut(n)
  \/ Load

Spec == Init /\ [][Next]_vars

-----------------------------------------------------------------------------
(* Properties *)

(* What an object is when it is loaded: a node is clean, and the querier   *)
(* of a distributed instance reads the trie's storage.                     *)
Restored(o) ==
  CASE o.class = "CTNode" -> [o EXCEPT !.dirty = FALSE]
    [] o.class = "OZKSDistributed" -> [o EXCEPT !.storage_querier = "of the trie"]
    [] OTHER -> o

(* What is loaded is what was saved there, also from an input whose end is *)
(* lost: then a load throws and never returns something else.              *)
LoadedIsSaved ==
  \A k \in DOMAIN loaded : loaded[k].threw \/ loaded[k].value = Restored(saved[k].object)

(* A complete input is loaded without an exception, object after object,   *)
(* the reader of each starting where the one before ended.                 *)
CompleteIsLoaded == ~cut => NothingThrew

(* Load returns the size that save returned, and it is what Load consumed. *)
SizesAgree ==
  \A k \in DOMAIN loaded : loaded[k].threw \/ loaded[k].size = saved[k].size
=============================================================================
