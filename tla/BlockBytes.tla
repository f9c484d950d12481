----------------------------- MODULE BlockBytes -----------------------------
(***************************************************************************)
(* The bytes of a repository, apart from the nesting of values: the base32 *)
(* of util/bytes.ts and util/cid.ts, the items of dag-cbor.ts that hold no *)
(* others and the framing of repo/car.ts in hono-factory-atproto-repo.     *)
(*                                                                         *)
(* Widths are parameters, so that TLC can reach every boundary: a byte has *)
(* ByteBits bits (8 in the code) and a character of a CID CharBits (5).    *)
(* The first byte of an item is the record of its major type and           *)
(* additional information; values below Immediate (24) fit into it.        *)
(*                                                                         *)
(* Numbers are those of JavaScript: a shift or an or of bytes makes a word *)
(* of 4 * ByteBits bits with a sign.  A CASE has no arm where the code     *)
(* throws.                                                                 *)
(***************************************************************************)
EXTENDS Integers, Sequences

CONSTANTS
    ByteBits, CharBits,
    Immediate,   \* values that fit into the first byte
    CidLength,   \* bytes of a CID, CIDV1_LEN
    MaxSafe      \* Number.MAX_SAFE_INTEGER

\* The number b to the power n.
Power(b, n) ==
    LET up[k \in 0..n] == IF k = 0 THEN 1 ELSE b * up[k - 1] IN up[n]

Byte == Power(2, ByteBits)
Half == Power(2, ByteBits - 1)
Word == Power(Byte, 4)

ASSUME BytesAssumption ==
    /\ ByteBits \in Nat /\ CharBits \in Nat \ {0} /\ CidLength \in Nat \ {0}
    /\ ByteBits > 1 /\ CharBits <= ByteBits
    /\ Immediate \in 1..Byte
    /\ CidLength + 1 < Word \div 2
    /\ MaxSafe \in Nat /\ Word <= MaxSafe

\* The n lowest digits of v, the highest first, and the number they make.
Digits(base, v, n) == [i \in 1..n |-> (v \div Power(base, n - i)) % base]

NumberOf(base, d, n) ==
    LET up[k \in 0..n] == IF k = 0 THEN 0 ELSE base * up[k - 1] + d[k] IN up[n]

-----------------------------------------------------------------------------
(* util/bytes.ts and util/cid.ts                                           *)

\* Bit i of a sequence of w-bit numbers, 0 behind its end.
BitAt(s, w, i) ==
    LET q == ((i - 1) \div w) + 1
    IN  IF q > Len(s) THEN 0 ELSE Digits(2, s[q], w)[((i - 1) % w) + 1]

\* The number in bits from+1 .. from+n of a sequence of w-bit numbers.
Number(s, w, from, n) == NumberOf(2, [i \in 1..n |-> BitAt(s, w, from + i)], n)

\* The last character is filled up with zero bits.
Base32Encode(b) ==
    [i \in 1..((Len(b) * ByteBits + CharBits - 1) \div CharBits) |->
        Number(b, ByteBits, (i - 1) * CharBits, CharBits)]

\* Bits that do not fill a byte are left off.
Base32Decode(s) ==
    [i \in 1..((Len(s) * CharBits) \div ByteBits) |->
        Number(s, CharBits, (i - 1) * ByteBits, ByteBits)]

\* cidFromDigest: a header, then the digest; the n-th block has digest n.
CidFromDigest(n) ==
    Base32Encode([i \in 1..CidLength |-> IF i = CidLength THEN n ELSE 1])

-----------------------------------------------------------------------------
(* cbor/dag-cbor.ts: items that hold no others                             *)

WriteHeader(major, v) ==
    LET first(ai) == <<[major |-> major, ai |-> ai]>> IN
    CASE v < Immediate -> first(v)
      [] v >= Immediate /\ v < Byte -> first(Immediate) \o Digits(Byte, v, 1)
      [] v >= Byte /\ v < Power(Byte, 2) -> first(Immediate + 1) \o Digits(Byte, v, 2)
      [] v >= Power(Byte, 2) /\ v < Word -> first(Immediate + 2) \o Digits(Byte, v, 4)
      [] OTHER -> first(Immediate + 3) \o Digits(Byte, v \div Word, 4)
                                       \o Digits(Byte, v % Word, 4)

\* Shifts and ors of four bytes make a signed 32-bit number in JavaScript.
Signed(x) == IF x >= Word \div 2 THEN x - Word ELSE x

FromBytes(buf, p, n) == NumberOf(Byte, [i \in 1..n |-> buf[p + i - 1]], n)

\* readHeader: the major type, the value and where the next byte is.
ReadHeader(buf, p) ==
    LET ai == buf[p].ai
        at(value, n) == [major |-> buf[p].major, value |-> value, next |-> p + 1 + n]
        word(q) == Signed(FromBytes(buf, q, 4))
        double == word(p + 1) * Word + word(p + 5)
    IN  CASE ai < Immediate -> at(ai, 0)
          [] ai = Immediate -> at(FromBytes(buf, p + 1, 1), 1)
          [] ai = Immediate + 1 -> at(FromBytes(buf, p + 1, 2), 2)
          [] ai = Immediate + 2 -> at(word(p + 1), 4)
          [] ai = Immediate + 3 /\ double \in -MaxSafe..MaxSafe -> at(double, 8)

TagCid == Immediate + 1     \* needs a byte of its own, as 42 does

\* A text is a sequence of characters, each of one byte in UTF-8 here, but for
\* a lone surrogate: that has none and leaves as the replacement character.
LoneSurrogate == Byte
Replacement   == Byte - 1
ByteOrderMark == Byte - 2

\* TextEncoder and TextDecoder, which takes a mark at the front for no text.
Utf8(s) == [i \in DOMAIN s |-> IF s[i] = LoneSurrogate THEN Replacement ELSE s[i]]
FromUtf8(b) == IF b # <<>> /\ b[1] = ByteOrderMark THEN Tail(b) ELSE b

\* encodeValue of a value that holds no others.
WriteItem(v) ==
    CASE v.t = "simple" -> WriteHeader(7, v.n)
      [] v.t = "int" -> IF v.n >= 0 THEN WriteHeader(0, v.n) ELSE WriteHeader(1, -1 - v.n)
      [] v.t = "text" -> WriteHeader(3, Len(Utf8(v.s))) \o Utf8(v.s)
      [] v.t = "bytes" -> WriteHeader(2, Len(v.s)) \o v.s
      [] v.t = "link" ->
             LET marked == <<0>> \o Base32Decode(v.c)
             IN  WriteHeader(6, TagCid) \o (WriteHeader(2, Len(marked)) \o marked)

\* The CID in the bytes of a link, without the 0 before it.
CidIn(bytes) ==
    Base32Encode(IF bytes # <<>> /\ bytes[1] = 0 THEN Tail(bytes) ELSE bytes)

\* decode of such a value: the one at p and where the next one starts.
ReadItem(buf, p) ==
    LET h == ReadHeader(buf, p)
        raw(q, n) == SubSeq(buf, q, q + n - 1)
        is(v, q) == [value |-> v, next |-> q]
        inner == ReadHeader(buf, h.next)
    IN  CASE h.major = 0 -> is([t |-> "int", n |-> h.value], h.next)
          [] h.major = 1 -> is([t |-> "int", n |-> -1 - h.value], h.next)
          [] h.major = 2 -> is([t |-> "bytes", s |-> raw(h.next, h.value)], h.next + h.value)
          [] h.major = 3 -> is([t |-> "text", s |-> FromUtf8(raw(h.next, h.value))], h.next + h.value)
          [] h.major = 6 ->
                 is([t |-> "link", c |-> CidIn(raw(inner.next, inner.value))],
                    inner.next + inner.value)
          [] h.major = 7 -> is([t |-> "simple", n |-> h.value], h.next)

-----------------------------------------------------------------------------
(* repo/car.ts                                                             *)

\* Groups of ByteBits - 1 bits, as many as n needs, the lowest first; the top
\* bit of a byte is for "more".
Groups(n) ==
    CHOOSE m \in 1..(n + 1) : n < Power(Half, m) /\ (m = 1 \/ n >= Power(Half, m - 1))

Varint(n) ==
    LET m == Groups(n)
    IN  [i \in 1..m |-> Digits(Half, n, m)[m + 1 - i] + (IF i < m THEN Half ELSE 0)]

\* The first shift leaves a word of n, whatever n was.
VarintEncode(n) ==
    IF n < Word THEN Varint(n)
    ELSE <<(n % Half) + Half>> \o Varint((n % Word) \div Half)

\* The word that has every bit of the groups, each shifted by ByteBits - 1 more
\* than the one before it, and a shift counted modulo the bits of a word.
OrOfGroups(groups) ==
    LET bits == 4 * ByteBits
        lowest(i) == ((i - 1) * (ByteBits - 1)) % bits
        set == {k \in 0..(bits - 1) :
                   \E i \in DOMAIN groups : \E j \in 0..(ByteBits - 2) :
                       k = lowest(i) + j /\ (groups[i] \div Power(2, j)) % 2 = 1}
    IN  NumberOf(2, [i \in 1..bits |-> IF bits - i \in set THEN 1 ELSE 0], bits)

\* A varint ends with the first byte without "more", or with the buffer.  Up to
\* the last group that begins in the word, no two groups share a bit of it.
ReadVarint(buf, p) ==
    LET last == CHOOSE q \in p..Len(buf) :
                    /\ q = Len(buf) \/ buf[q] < Half
                    /\ \A j \in p..(q - 1) : buf[j] >= Half
        m == last + 1 - p
        read(value) == [value |-> Signed(value), next |-> last + 1]
        shifts == IF buf[last] < Half THEN m - 1 ELSE m
    IN  CASE Power(Half, m - 1) < Word ->
                 read(NumberOf(Half, [i \in 1..m |-> buf[last + 1 - i] % Half], m) % Word)
          [] Power(Half, m - 1) >= Word /\ shifts * (ByteBits - 1) < 8 * ByteBits ->
                 read(OrOfGroups([i \in 1..m |-> buf[p + i - 1] % Half]))

\* A part of a CAR file: its length, then its bytes.
Framed(bytes) == VarintEncode(Len(bytes)) \o bytes

\* exportCar: the header, then block after block.
Archive(header, blocks) ==
    LET upTo[k \in 0..Len(blocks)] ==
            IF k = 0 THEN Framed(header)
            ELSE upTo[k - 1] \o Framed(Base32Decode(blocks[k].cid) \o blocks[k].bytes)
    IN  upTo[Len(blocks)]

\* Mutation: the length of the CID is left on the data.
SplitBlockLate(part) ==
    [cid |-> Base32Encode(SubSeq(part, 1, CidLength)), bytes |-> SubSeq(part, CidLength, Len(part))]

SplitBlock(part) ==
    [cid |-> Base32Encode(SubSeq(part, 1, CidLength)), bytes |-> SubSeq(part, CidLength + 1, Len(part))]

\* One turn of the loop of importCar; at its end it stands still.
ReadBlock(buf, at) ==
    LET len == ReadVarint(buf, at.offset)
        part == SubSeq(buf, len.next, len.next + len.value - 1)
    IN  CASE at.offset > Len(buf) -> at
          [] at.offset <= Len(buf) /\ len.value = 0 -> [at EXCEPT !.offset = len.next]
          [] at.offset <= Len(buf) /\ len.value # 0 /\ Len(part) >= CidLength ->
                 [offset |-> len.next + len.value, blocks |-> Append(at.blocks, SplitBlock(part))]

\* Every turn takes a byte at least.
ReadBlocks(buf, p) ==
    LET turn[k \in 0..Len(buf)] ==
            IF k = 0 THEN [offset |-> p, blocks |-> <<>>] ELSE ReadBlock(buf, turn[k - 1])
    IN  turn[Len(buf)].blocks

ReadArchive(buf) ==
    LET len == ReadVarint(buf, 1)
    IN  [header |-> SubSeq(buf, len.next, len.next + len.value - 1),
         blocks |-> ReadBlocks(buf, len.next + len.value)]
=============================================================================
