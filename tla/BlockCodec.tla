----------------------------- MODULE BlockCodec -----------------------------
(***************************************************************************)
(* The values of a repository: the nested items of cbor/dag-cbor.ts in     *)
(* hono-factory-atproto-repo, over the bytes of BlockBytes.  Values are    *)
(* put into the block store, exported as a CAR file and imported.          *)
(*                                                                         *)
(* A value is [t |-> "int", n], [t |-> "text", s], [t |-> "bytes", s],     *)
(* [t |-> "link", c], [t |-> "array", s], [t |-> "map", s] with s a        *)
(* sequence of <<key, value>> in insertion order, [t |-> "simple", n], or  *)
(* [t |-> "linkand", c, s]: an object with a text $link and the further    *)
(* pairs s.  A key "__proto__" is left out.                                *)
(***************************************************************************)
EXTENDS BlockBytes, FiniteSets, SequencesExt, SeqFilter

CONSTANTS
    Inputs,      \* the values that may be put
    MaxPuts

ASSUME CodecAssumption == MaxPuts \in Nat

VARIABLES
    puts,        \* history: the values put, in order
    blockStore,  \* the blocks, [cid, bytes] in the order of the values
    car,         \* the CAR file last exported, none or bytes
    imported     \* what importCar made of it

codecVars == <<puts, blockStore, car, imported>>

NoCar == <<>>
NoImport == [roots |-> <<>>, blocks |-> <<>>]

-----------------------------------------------------------------------------
(* Encoder                                                                 *)

\* keys.sort: shorter keys first, then by their characters.
Lexicographic(a, b) ==
    \E i \in DOMAIN a : (\A j \in 1..(i - 1) : a[j] = b[j]) /\ a[i] < b[i]
KeyBefore(a, b) == Len(a) < Len(b) \/ (Len(a) = Len(b) /\ Lexicographic(a, b))

\* Mutation: the keys stay in the order of insertion.
SortKeysNever(pairs) == pairs

SortKeys(pairs) == SortSeq(pairs, LAMBDA p, q : KeyBefore(p[1], q[1]))

\* encodeValue throws on a number that is no safe integer, where it meets one.
RECURSIVE Encodable(_)
Encodable(v) ==
    CASE v.t = "map" -> \A i \in DOMAIN v.s : Encodable(v.s[i][2])
      [] v.t = "array" -> \A i \in DOMAIN v.s : Encodable(v.s[i])
      [] v.t = "int" -> v.n \in -MaxSafe..MaxSafe
      [] OTHER -> TRUE

RECURSIVE EncodeValue(_)
EncodeValue(v) ==
    CASE v.t = "array" ->
             WriteHeader(4, Len(v.s)) \o FlattenSeq([i \in DOMAIN v.s |-> EncodeValue(v.s[i])])
      [] v.t = "map" ->
             LET ps == SortKeys(v.s) IN
             WriteHeader(5, Len(ps))
                 \o FlattenSeq([i \in DOMAIN ps |->
                        EncodeValue([t |-> "text", s |-> ps[i][1]]) \o EncodeValue(ps[i][2])])
      [] v.t = "linkand" -> WriteItem([t |-> "link", c |-> v.c])
      [] OTHER -> WriteItem(v)

-----------------------------------------------------------------------------
(* Decoder                                                                 *)

\* obj[key] = value, pair after pair: the last one of a key stays.
ObjectOf(pairs) ==
    AtIndices(pairs, {i \in DOMAIN pairs : \A j \in (i + 1)..Len(pairs) : pairs[j][1] # pairs[i][1]})

\* decode: the value at p and where the next one starts.
RECURSIVE DecodeAt(_, _), DecodeMany(_, _, _)
DecodeAt(buf, p) ==
    LET h == ReadHeader(buf, p)
        many(n) == DecodeMany(buf, h.next, n)
    IN  CASE h.major = 4 ->
                 [value |-> [t |-> "array", s |-> many(h.value).values], next |-> many(h.value).next]
          [] h.major = 5 ->
                 [value |-> [t |-> "map",
                             s |-> ObjectOf([i \in 1..h.value |-> <<many(2 * h.value).values[2 * i - 1].s,
                                                                    many(2 * h.value).values[2 * i]>>])],
                  next |-> many(2 * h.value).next]
          [] OTHER -> ReadItem(buf, p)
DecodeMany(buf, p, n) ==
    IF n <= 0 THEN [values |-> <<>>, next |-> p]
    ELSE LET one == DecodeAt(buf, p)
             rest == DecodeMany(buf, one.next, n - 1)
         IN  [values |-> <<one.value>> \o rest.values, next |-> rest.next]

Decode(buf) == DecodeAt(buf, 1).value

-----------------------------------------------------------------------------
(* CAR files                                                               *)

CarHeader(cid) ==
    EncodeValue([t |-> "map",
                 s |-> << <<<<1>>, [t |-> "array", s |-> <<[t |-> "bytes", s |-> Base32Decode(cid)]>>]>>,
                          <<<<2>>, [t |-> "int", n |-> 1]>> >>])

CarBytes(cid, blocks) == Archive(CarHeader(cid), blocks)

ReadCar(buf) ==
    LET archive == ReadArchive(buf)
        header == Decode(archive.header)
        roots == header.s[CHOOSE i \in DOMAIN header.s : header.s[i][1] = <<1>>][2].s
    IN  [roots  |-> [i \in DOMAIN roots |-> Base32Encode(roots[i].s)],
         blocks |-> archive.blocks]

-----------------------------------------------------------------------------
(* The store                                                               *)

CodecInit == puts = <<>> /\ blockStore = <<>> /\ car = NoCar /\ imported = NoImport

\* Equal bytes are one block: they have one digest.
PutBlock(v) ==
    /\ Len(puts) < MaxPuts /\ Encodable(v)
    /\ puts' = Append(puts, v)
    /\ LET bytes == EncodeValue(v)
           same == {i \in DOMAIN blockStore : blockStore[i].bytes = bytes}
           cid == IF same = {} THEN CidFromDigest(Len(puts) + 1)
                  ELSE blockStore[CHOOSE i \in same : TRUE].cid
       IN  blockStore' = Append(blockStore, [cid |-> cid, bytes |-> bytes])
    /\ UNCHANGED <<car, imported>>

\* The root is the block put last.
ExportCar ==
    /\ blockStore # <<>> /\ car = NoCar
    /\ car' = CarBytes(Last(blockStore).cid, blockStore)
    /\ UNCHANGED <<puts, blockStore, imported>>

ImportCar ==
    /\ car # NoCar /\ imported = NoImport
    /\ imported' = ReadCar(car)
    /\ UNCHANGED <<puts, blockStore, car>>

CodecNext == (\E v \in Inputs : PutBlock(v)) \/ ExportCar \/ ImportCar
CodecSpec == CodecInit /\ [][CodecNext]_codecVars

-----------------------------------------------------------------------------
(* Properties                                                              *)

\* The parts of a value that hold no others, its keys among them.
RECURSIVE Leaves(_)
Leaves(v) ==
    CASE v.t = "map" -> UNION {{[t |-> "text", s |-> p[1]]} \cup Leaves(p[2]) : p \in Range(v.s)}
      [] v.t = "array" -> UNION {Leaves(w) : w \in Range(v.s)}
      [] OTHER -> {v}

\* What the encoder tells apart: neither the order of the keys of a map nor what
\* stands beside a $link.
RECURSIVE Unordered(_)
Unordered(v) ==
    CASE v.t = "map" -> [t |-> "map", s |-> {<<p[1], Unordered(p[2])>> : p \in Range(v.s)}]
      [] v.t = "array" -> [t |-> "array", s |-> [i \in DOMAIN v.s |-> Unordered(v.s[i])]]
      [] v.t = "linkand" -> [t |-> "link", c |-> v.c]
      [] OTHER -> v

\* Values without lone surrogates, and those of them that are to be read back:
\* no text begins with a byte order mark, integers fit a signed word, and nothing
\* stands beside a $link.
WellFormed(v) == \A leaf \in Leaves(v) : leaf.t = "text" => LoneSurrogate \notin Range(leaf.s)
Lasting(v) ==
    /\ WellFormed(v)
    /\ \A leaf \in Leaves(v) :
           /\ leaf.t = "text" => leaf.s = <<>> \/ leaf.s[1] # ByteOrderMark
           /\ leaf.t = "int" => leaf.n \in -(Word \div 2)..((Word \div 2) - 1)
           /\ leaf.t # "linkand"

\* dag-cbor.ts: two values without lone surrogates have one CID exactly when
\* they are the same up to the order in which the keys of their maps were
\* inserted, at any depth, and up to what stands beside a $link: an object with
\* a link and further keys is stored as the link alone.
SameValueSameCid ==
    \A i, j \in DOMAIN puts :
        WellFormed(puts[i]) /\ WellFormed(puts[j]) =>
            ((blockStore[i].cid = blockStore[j].cid) <=> (Unordered(puts[i]) = Unordered(puts[j])))

\* What leaves in a CAR file is what arrives: root, CIDs and bytes of every
\* block, whatever lengths its varints and headers take; and a record is decoded
\* to what was put, but for the losses Lasting names: a byte order mark at the
\* front of a text, lone surrogates, integers wider than a signed word, and the
\* keys beside a $link.
ImportedIsExported ==
    imported # NoImport =>
        /\ Len(imported.blocks) \in 1..Len(blockStore)
        /\ imported.blocks = SubSeq(blockStore, 1, Len(imported.blocks))
        /\ imported.roots = <<Last(imported.blocks).cid>>
        /\ \A i \in DOMAIN imported.blocks :
               Lasting(puts[i]) =>
                   Unordered(Decode(imported.blocks[i].bytes)) = Unordered(puts[i])

\* test/cbor/dag-cbor_test.ts, "cbor: integer round-trip", for every integer the
\* encoder accepts.
RecordsReadBack ==
    \A i \in DOMAIN puts : puts[i].t = "int" => Decode(blockStore[i].bytes) = puts[i]

\* Blocks are content-addressed independently of the order in which fields were
\* written, and an archive brings back the blocks it was made from.
BlocksAreSound == SameValueSameCid /\ ImportedIsExported
=============================================================================
