-------------------------- MODULE PartialLabelWords --------------------------
(***************************************************************************)
(* PartialLabel as it is kept (oZKS/partial_label.h, partial_label.cpp):   *)
(* an array of 64-bit words, of which the first bit is the high-order bit  *)
(* of the first word, and the number of bits.                              *)
(*                                                                         *)
(* The program reads the words as bytes too.  A byte is a function of      *)
(* 0..BitsPerByte - 1 and a word one of 0..WordBits - 1, high-order bit    *)
(* first; the byte of a word with the lowest address is the low-order one. *)
(***************************************************************************)
EXTENDS Integers, Sequences, FiniteSetsExt, SequencesExt

CONSTANTS
  BitsPerByte,   \* 8 in the code
  BytesPerWord,  \* sizeof(uint64_t)
  WordCount      \* 4 in the code

ASSUME WordAssumption ==
  {BitsPerByte, BytesPerWord, WordCount} \subseteq Nat \ {0}

VARIABLES
  a, b  \* two labels

vars == <<a, b>>

Bit == {0, 1}
WordBits == BitsPerByte * BytesPerWord
ByteCount == BytesPerWord * WordCount
MaxBitCount == ByteCount * BitsPerByte

Byte == [0..BitsPerByte - 1 -> Bit]
Word == [0..WordBits - 1 -> Bit]
PartialLabel == [label : [0..WordCount - 1 -> Word], bit_count : 0..MaxBitCount]

Zero == [i \in 0..WordBits - 1 |-> 0]
Empty == [label |-> [w \in 0..WordCount - 1 |-> Zero], bit_count |-> 0]

-----------------------------------------------------------------------------
(* Words and bytes *)

(* Where the bit of a word is that is bit t of the byte at address k.      *)
BitOfByte(k, t) == (BytesPerWord - 1 - k) * BitsPerByte + t

Bytes(words) ==
  [j \in 0..ByteCount - 1 |->
    [t \in 0..BitsPerByte - 1 |-> words[j \div BytesPerWord][BitOfByte(j % BytesPerWord, t)]]]

Words(bytes) ==
  [w \in 0..WordCount - 1 |->
    [i \in 0..WordBits - 1 |->
      bytes[w * BytesPerWord + (BytesPerWord - 1 - i \div BitsPerByte)][i % BitsPerByte]]]

ReverseWords(bytes) ==
  [j \in 0..ByteCount - 1 |->
    bytes[(j \div BytesPerWord) * BytesPerWord + (BytesPerWord - 1 - (j % BytesPerWord))]]

(* The bytes that bit_count bits take.                                     *)
ByteSize(bit_count) == (bit_count + BitsPerByte - 1) \div BitsPerByte

(* init copies the bytes that are needed, masks the last of them, and      *)
(* turns the bytes of every word around.                                   *)
InitWords(bytes, bit_count) ==
  LET byte_size == ByteSize(bit_count)
      mask_size == bit_count % BitsPerByte
      Masked(j, t) == mask_size > 0 /\ j = byte_size - 1 /\ t >= mask_size
  IN  Words(ReverseWords(
        [j \in 0..ByteCount - 1 |->
          [t \in 0..BitsPerByte - 1 |->
            IF j < byte_size /\ ~Masked(j, t) THEN bytes[j][t] ELSE 0]]))

(* From size bytes; a bit count of zero takes all of them.                 *)
FromBytes(bytes, size, bit_count) ==
  LET count == IF bit_count = 0 THEN size * BitsPerByte ELSE bit_count
  IN  [label |-> InitWords(bytes, count), bit_count |-> count]

(* From a label: the words are copied as bytes in the order of memory, and *)
(* bit_count_ stays what the memory held.                                  *)
FromLabel(label, bit_count) ==
  {[label |-> InitWords(Bytes(label.label), bit_count), bit_count |-> found] :
     found \in 0..MaxBitCount}

ToBytes(label) == [j \in 0..ByteSize(label.bit_count) - 1 |-> ReverseWords(Bytes(label.label))[j]]

-----------------------------------------------------------------------------
(* Bits *)

BitAt(label, i) == label.label[i \div WordBits][i % WordBits]

SetBit(label, i, value) ==
  LET byte_idx == LET d == (i % WordBits) \div BitsPerByte - (BytesPerWord - 1)
                  IN  IF d < 0 THEN 0 - d ELSE d
  IN  [label EXCEPT !.label[i \div WordBits][BitOfByte(byte_idx, i % BitsPerByte)] = value]

AddBit(label, value) ==
  SetBit([label EXCEPT !.bit_count = @ + 1], label.bit_count, value)

(* The position of the first bit that differs; the words are not equal.    *)
FirstDifference(word, other) == Min({i \in 0..WordBits - 1 : word[i] # other[i]})

(* ~(0xFF... >> shift), where the processor takes the shift modulo the     *)
(* size of the word; the language does not define a shift by all of it.    *)
Mask(shift) == [i \in 0..WordBits - 1 |-> IF i < shift % WordBits THEN 1 ELSE 0]
And(word, mask) == [i \in 0..WordBits - 1 |-> IF mask[i] = 1 THEN word[i] ELSE 0]

(* Mutant: a last word that is full is not skipped. *)
SkipLess(label1, label2, max) ==
  Max({n \in 0..WordCount :
    /\ n = 0 \/ n * WordBits < max
    /\ \A w \in 0..n - 1 : label1.label[w] = label2.label[w]})

(* How many words are the same, and full in both labels.                   *)
Skip(label1, label2, max) ==
  Max({n \in 0..WordCount :
    /\ n * WordBits <= max
    /\ \A w \in 0..n - 1 : label1.label[w] = label2.label[w]})

CommonPrefix(label1, label2) ==
  LET max  == Min({label1.bit_count, label2.bit_count})
      n    == Skip(label1, label2, max)
      rest == max - n * WordBits
      same == IF rest = 0 THEN 0
              ELSE IF label1.label[n] = label2.label[n] THEN rest
              ELSE Min({FirstDifference(label1.label[n], label2.label[n]), rest})
  IN  [label     |-> [w \in 0..WordCount - 1 |->
                       IF w < n THEN label1.label[w]
                       ELSE IF w = n /\ rest > 0 THEN And(label1.label[w], Mask(same))
                       ELSE Zero],
       bit_count |-> n * WordBits + same]

(* Words are compared as numbers, and arrays by their first difference.    *)
LessWord(word, other) ==
  word # other /\ LET i == FirstDifference(word, other) IN word[i] < other[i]

(* Mutant: the words are compared first. *)
LessByWords(label1, label2) ==
  IF label1.label = label2.label THEN label1.bit_count < label2.bit_count
  ELSE LET w == Min({v \in 0..WordCount - 1 : label1.label[v] # label2.label[v]})
       IN  LessWord(label1.label[w], label2.label[w])

Less(label1, label2) ==
  IF label1.bit_count # label2.bit_count THEN label1.bit_count < label2.bit_count
  ELSE label1.label # label2.label
       /\ LET w == Min({v \in 0..WordCount - 1 : label1.label[v] # label2.label[v]})
          IN  LessWord(label1.label[w], label2.label[w])

-----------------------------------------------------------------------------
(* The two labels *)

Init == a = Empty /\ b = Empty

(* The constructors are given bytes, and a bit count that they have.       *)
Constructed ==
  {FromBytes(bytes, given[1], given[2]) :
     bytes \in [0..ByteCount - 1 -> Byte],
     given \in {g \in (0..ByteCount) \X (0..MaxBitCount) : g[2] <= g[1] * BitsPerByte}}

(* From a list of bits, set one after the other.                           *)
FromBits(bits) ==
  FoldLeft(LAMBDA label, i : SetBit(label, i - 1, bits[i]),
           [Empty EXCEPT !.bit_count = Len(bits)], [i \in 1..Len(bits) |-> i])

Construct == a = Empty /\ a' \in Constructed /\ UNCHANGED b
ConstructOther ==
  /\ b = Empty
  /\ \E size \in 0..MaxBitCount : \E bits \in [1..size -> Bit] : b' = FromBits(bits)
  /\ UNCHANGED a
Extend ==
  /\ a.bit_count < MaxBitCount
  /\ \E bit \in Bit : a' = AddBit(a, bit)
  /\ UNCHANGED b
Cut == a' = CommonPrefix(a, b) /\ UNCHANGED b
Clear == a' = Empty /\ UNCHANGED b
SaveAndLoad == b' = a /\ UNCHANGED a

Next == Construct \/ ConstructOther \/ Extend \/ Cut \/ Clear \/ SaveAndLoad

Spec == Init /\ [][Next]_vars

-----------------------------------------------------------------------------
(* Properties *)

TypeOK == {a, b} \subseteq PartialLabel

BitsOf(label) == [i \in 1..label.bit_count |-> BitAt(label, i - 1)]

(* Words and bytes keep the promises of strings of bits: also at the       *)
(* boundaries of words, and when two labels are equal in all of a word.    *)
Strings == INSTANCE LabelPair WITH a <- BitsOf(a), b <- BitsOf(b)
KeepsBits == Strings!Spec

(* The bits after the last are zero, so that labels are equal when their   *)
(* bits are (operator==, partial_label.h), and hash to the same value.     *)
ZeroBeyondCount ==
  \A label \in {a, b} : \A i \in label.bit_count..MaxBitCount - 1 : BitAt(label, i) = 0

(* operator< puts shorter labels first and then compares bit for bit,      *)
(* although it compares words.                                             *)
OrderIsOfBits ==
  Less(a, b) <=>
    \/ a.bit_count < b.bit_count
    \/ /\ a.bit_count = b.bit_count
       /\ \E n \in 0..a.bit_count - 1 :
            /\ \A i \in 0..n - 1 : BitAt(a, i) = BitAt(b, i)
            /\ BitAt(a, n) < BitAt(b, n)

(* A label can be made again of what to_bytes returns and its bit count.   *)
BytesMakeTheLabel ==
  LET size == ByteSize(b.bit_count)
      padded == [j \in 0..ByteCount - 1 |->
                  IF j < size THEN ToBytes(b)[j] ELSE [t \in 0..BitsPerByte - 1 |-> 0]]
  IN  FromBytes(padded, size, b.bit_count) = b

(* partial_label.h: "Construct an instance of a PartialLabel from the      *)
(* given label and take bit_count bits from it."                           *)
PrefixIsTaken ==
  \A n \in 0..a.bit_count : \A taken \in FromLabel(a, n) :
    BitsOf(taken) = SubSeq(BitsOf(a), 1, n)
=============================================================================
