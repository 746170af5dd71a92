---------------------------- MODULE PostingBlocks ----------------------------
(***************************************************************************)
(* How a posting list lies on disk (src/compress.rs, src/postings.rs):     *)
(* blocks of PerBlock postings, in each the gaps between documents and     *)
(* then the frequencies, packed at the width of the largest and read back  *)
(* a machine word at a time, possibly past the end of the block.           *)
(*                                                                         *)
(* A byte has ByteBits bits and a word WordBytes bytes; the code's are 8   *)
(* and 8.  A field of a header is a cell of its own, whatever its width.   *)
(***************************************************************************)
EXTENDS Integers, SequencesExt

CONSTANTS PerBlock, ByteBits, WordBytes

ASSUME BlockAssumption == PerBlock \in Nat \ {0} /\ ByteBits \in Nat \ {0} /\ WordBytes \in Nat \ {0, 1}

Posting(doc, freq) == [doc |-> doc, tf |-> freq]

MaxIn(s) == Max(ToSet(s))
MinIn(s) == Min(ToSet(s))
Field(ps, Of(_)) == [i \in DOMAIN ps |-> Of(ps[i])]
DocOf(posting)   == posting.doc
TfOf(posting)    == posting.tf

Ceiling(n, m) == (n + m - 1) \div m

-----------------------------------------------------------------------------
(* Blocks, and what is kept of each for skipping it. *)

NumBlocks(df)     == Ceiling(df, PerBlock)
BlockEnd(df, i)   == Min({i * PerBlock, df})
Block(ps, i)      == SubSeq(ps, (i - 1) * PerBlock + 1, BlockEnd(Len(ps), i))
BuildBlocks(ps, lens) ==
  [i \in 1 .. NumBlocks(Len(ps)) |->
     LET ours == Block(ps, i)
     IN  [last |-> Last(ours).doc, maxTf |-> MaxIn(Field(ours, TfOf)),
          minLen |-> MinIn([j \in DOMAIN ours |-> lens[ours[j].doc]])]]

-----------------------------------------------------------------------------
(* Bits. *)

BitsNeeded(value) == CHOOSE n \in 0 .. value : value < 2 ^ n /\ \A m \in 0 .. n - 1 : 2 ^ m <= value

(* What is written, a value after the other and its lowest bit first.      *)
BitStream(values, bits) ==
  [i \in 1 .. Len(values) * bits |->
     (values[((i - 1) \div bits) + 1] \div 2 ^ ((i - 1) % bits)) % 2]

(* The last byte is filled up with zeros.                                  *)
Bytes(bits) ==
  [i \in 1 .. Ceiling(Len(bits), ByteBits) |->
     LET BitAt(j) == LET at == (i - 1) * ByteBits + j IN IF at <= Len(bits) THEN bits[at] * 2 ^ (j - 1) ELSE 0
     IN  FoldFunction(+, 0, [j \in 1 .. ByteBits |-> BitAt(j)])]

HeaderBytes == 4
Payload(bytes) == SubSeq(bytes, HeaderBytes + 1, Len(bytes))
DocBits(bytes) == bytes[2]
TfBits(bytes)  == bytes[3]

EncodeBlock(ps) ==
  LET gaps  == [i \in 1 .. Len(ps) - 1 |-> ps[i + 1].doc - ps[i].doc - 1]
      freqs == [i \in DOMAIN ps |-> ps[i].tf - 1]
      db    == BitsNeeded(MaxIn(<<0>> \o gaps))
      fb    == BitsNeeded(MaxIn(freqs))
  IN  <<Len(ps), db, fb, ps[1].doc>> \o Bytes(BitStream(gaps, db) \o BitStream(freqs, fb))

-----------------------------------------------------------------------------
(* Reading. *)

(* A word from byte at on; there are zeros past the end.                   *)
ReadWord(payload, at) ==
  FoldFunction(+, 0, [j \in 0 .. WordBytes - 1 |->
    IF at + j < Len(payload) THEN (payload[at + j + 1] % 2 ^ ByteBits) * 2 ^ (ByteBits * j) ELSE 0])

InWord(word, shift, bits) == (word \div 2 ^ shift) % 2 ^ bits

Read(payload, bit, bits) == InWord(ReadWord(payload, bit \div ByteBits), bit % ByteBits, bits)

(* Mutation of PerLoad: a word may begin in the middle of a byte, and is taken to hold as many all the same. *)
PerLoadAligned(bits) == Max({(WordBytes * ByteBits) \div bits, 1})

(* How many values a word holds wherever in its first byte they begin.     *)
PerLoad(bits) == Max({(WordBytes * ByteBits - (ByteBits - 1)) \div bits, 1})

(* The gaps, PerLoad from a word as long as a whole one is there, the      *)
(* others one by one.                                                      *)
Gaps(payload, db, n) ==
  LET per == PerLoad(db)
      From[i \in 0 .. n] ==
        LET bit == i * db
            at  == bit \div ByteBits
        IN  IF i = n THEN <<>>
            ELSE IF i + per <= n /\ at + WordBytes <= Len(payload)
            THEN [j \in 1 .. per |-> InWord(ReadWord(payload, at), (bit % ByteBits) + (j - 1) * db, db)] \o From[i + per]
            ELSE <<Read(payload, bit, db)>> \o From[i + 1]
  IN  From[0]

(* The documents: each the one before, the gap, and one more.              *)
DocsOfGaps(first, gaps) ==
  [i \in 1 .. Len(gaps) + 1 |-> first + (i - 1) + FoldFunction(+, 0, SubSeq(gaps, 1, i - 1))]

DecodeBlockDocs(bytes) ==
  LET n == bytes[1] - 1
  IN  DocsOfGaps(bytes[4], IF DocBits(bytes) = 0 THEN [i \in 1 .. n |-> 0] ELSE Gaps(Payload(bytes), DocBits(bytes), n))

(* The frequency of posting idx, counted from 0, without reading another.  *)
BlockTf(bytes, idx) ==
  Read(Payload(bytes), (bytes[1] - 1) * DocBits(bytes) + idx * TfBits(bytes), TfBits(bytes)) + 1

PayloadLen(bytes) == Ceiling((bytes[1] - 1) * DocBits(bytes) + bytes[1] * TfBits(bytes), ByteBits)

DecodeBlock(bytes) ==
  LET payload == SubSeq(Payload(bytes), 1, PayloadLen(bytes))
      n       == bytes[1] - 1
      docs    == DocsOfGaps(bytes[4], [i \in 1 .. n |-> Read(payload, (i - 1) * DocBits(bytes), DocBits(bytes))])
  IN  [i \in 1 .. n + 1 |->
         Posting(docs[i], Read(payload, n * DocBits(bytes) + (i - 1) * TfBits(bytes), TfBits(bytes)) + 1)]

-----------------------------------------------------------------------------
(* A list on disk: its blocks one after the other, and where each begins.  *)

Region(ps) == FlattenSeq([i \in 1 .. NumBlocks(Len(ps)) |-> EncodeBlock(Block(ps, i))])

BlockOffsets(ps) ==
  [i \in 1 .. NumBlocks(Len(ps)) |->
     FoldFunction(+, 0, [j \in 1 .. i - 1 |-> Len(EncodeBlock(Block(ps, j)))])]

(* A block is read to the end of the region, not to its own.               *)
BlockBytes(region, offset) == SubSeq(region, offset + 1, Len(region))

(* What a region says of a list, by each of the ways it is read.           *)
ReadsBack(region, offsets, ps) ==
  \A i \in 1 .. NumBlocks(Len(ps)) :
    LET bytes == BlockBytes(region, offsets[i])
        ours  == Block(ps, i)
    IN  /\ DecodeBlockDocs(bytes) = Field(ours, DocOf)
        /\ \A j \in DOMAIN ours : BlockTf(bytes, j - 1) = ours[j].tf
        /\ DecodeBlock(bytes) = ours

(* No posting of a block is behind its last one, or outdoes the block's    *)
(* pair: its frequency is no larger, its document no shorter.              *)
BoundsHold(ps, lens) ==
  \A i \in 1 .. NumBlocks(Len(ps)) : \A j \in DOMAIN Block(ps, i) :
    LET kept == BuildBlocks(ps, lens)[i]
        e    == Block(ps, i)[j]
    IN  e.doc <= kept.last /\ e.tf <= kept.maxTf /\ lens[e.doc] >= kept.minLen
===============================================================================
