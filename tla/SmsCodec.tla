------------------------------ MODULE SmsCodec ------------------------------
(***************************************************************************)
(* How a text becomes SMS PDUs and becomes a text again: segmentation and  *)
(* packing as in sms_codec.py build_submit_pdus, the way through a network *)
(* that delivers the segments in any order, decode_deliver, and the        *)
(* reassembly of receive.py Assembler.                                     *)
(*                                                                         *)
(* A character is the septets it takes in the GSM alphabet (none: it is    *)
(* not in it) and its UTF-16 code units.  User data are octets, packed bit *)
(* by bit as in the code; of the rest of a PDU the fields are kept.  The   *)
(* sender may be this gateway's codec or a phone that numbers its messages *)
(* with 16 bits, which decode_deliver accepts, too.                        *)
(***************************************************************************)
EXTENDS Integers, FiniteSets, Sequences, SequencesExt

CONSTANTS
    Alphabet,   \* the characters in play: [sept, units]
    Unknown,    \* the replacement character
    Texts,      \* the texts people send
    Phones,     \* their senders: [number, wide], wide if it numbers with 16 bits;
                \* a number is [plus, digits] or [name]
    Refs,       \* values of the random reference
    MaxSends,   \* bound: messages
    MaxFlushes  \* bound: sets of segments given up as stale

ASSUME CodecAssumption ==
    /\ Alphabet \subseteq [sept : Seq(0 .. 127), units : Seq(0 .. 65535)]
    /\ \A c \in Alphabet : Len(c.sept) <= 2 /\ Len(c.units) \in 1 .. 2
    /\ Texts \subseteq Seq(Alphabet) \ {<<>>} /\ Refs \subseteq 0 .. 255
    /\ MaxSends \in Nat /\ MaxFlushes \in Nat

ASSUME PhonesAssumption == \A p \in Phones : p.wide \in BOOLEAN
-----------------------------------------------------------------------------
(* Alphabets and packing.                                                  *)

is_gsm7(text) == \A k \in DOMAIN text : text[k].sept # <<>>

\* Where the codes of a text come from in an alphabet, "sept" or "units", one
\* or two of each character: <<character, code of it>>.
Places(text, alphabet) ==
    SelectSeq([i \in 1 .. 2 * Len(text) |-> <<(i + 1) \div 2, 2 - (i % 2)>>],
              LAMBDA p : p[2] <= Len(text[p[1]][alphabet]))
Codes(text, alphabet) ==
    LET places == Places(text, alphabet)
    IN  [i \in DOMAIN places |-> text[places[i][1]][alphabet][places[i][2]]]

to_septets(text) == Codes(text, "sept")
\* text.encode("utf-16-be")
ToUtf16(text) ==
    LET units == Codes(text, "units")
    IN  [i \in 1 .. 2 * Len(units) |-> IF i % 2 = 1 THEN units[(i + 1) \div 2] \div 256
                                       ELSE units[i \div 2] % 256]

\* The text of a sequence of codes; those at the places `second` are the second
\* ones of a character, those at `dropped` stand for nothing.
Decoded(codes, alphabet, second, dropped) ==
    LET starts == SelectSeq([k \in DOMAIN codes |-> k], LAMBDA k : k \notin second \cup dropped)
        own(k) == IF k + 1 \in second THEN <<codes[k], codes[k + 1]>> ELSE <<codes[k]>>
        char(k) == LET with == {c \in Alphabet : c[alphabet] = own(k)}
                   IN  IF with = {} THEN Unknown ELSE CHOOSE c \in with : TRUE
    IN  [i \in DOMAIN starts |-> char(starts[i])]

\* 27 is the escape: the second septet of a character follows an odd number of
\* them.  An escape at the end yields nothing.
from_septets(septets) ==
    LET escaped(k) == k > 1 /\ septets[k - 1] = 27 /\ \E n \in 1 .. k - 1 :
            /\ n % 2 = 1 /\ \A i \in k - n .. k - 1 : septets[i] = 27
            /\ k - n > 1 => septets[k - n - 1] # 27
        second == {k \in DOMAIN septets : escaped(k)}
    IN  Decoded(septets, "sept", second,
                {k \in {Len(septets)} \ (second \cup {0}) : septets[k] = 27})

\* payload.decode("utf-16-be", errors="replace"): half a character is replaced.
FromUtf16(octets) ==
    LET units == [k \in 1 .. Len(octets) \div 2 |-> octets[2 * k - 1] * 256 + octets[2 * k]]
        second == {k \in DOMAIN units :
                      k > 1 /\ units[k - 1] \div 1024 = 54 /\ units[k] \div 1024 = 55}
    IN  Decoded(units, "units", second, {})

At(s, k) == IF k \in DOMAIN s THEN s[k] ELSE 0

\* Octet k holds the bits 8(k-1) .. 8k-1 of the septets after `fill` zero bits,
\* least significant bit first: parts of two septets, or of three.
pack_septets(septets, fill) ==
    [k \in 1 .. (fill + 7 * Len(septets) + 7) \div 8 |->
        LET bit == (8 * (k - 1)) - fill
            q == bit \div 7 + 1
            r == bit % 7
        IN  (At(septets, q) \div 2^r + At(septets, q + 1) * 2^(7 - r)
                + At(septets, q + 2) * 2^(14 - r)) % 256]

unpack_septets(data, count, fill) ==
    [k \in 1 .. count |->
        LET bit == fill + 7 * (k - 1)
        IN  (At(data, bit \div 8 + 1) \div 2^(bit % 8)
                + At(data, bit \div 8 + 2) * 2^(8 - (bit % 8))) % 128]

\* Bits that bring the septets after a header of n octets to a septet boundary.
Fill(n) == (7 - ((n * 8) % 7)) % 7
-----------------------------------------------------------------------------
(* Addresses.                                                              *)

\* Two digits an octet, the first in the low half, 15 to fill the last one.
\* A name is packed like text (by the network; the code only decodes it).
encode_address(number) ==
    IF "name" \in DOMAIN number
    THEN LET septets == to_septets(number.name)
         IN  [count |-> (7 * Len(septets) + 3) \div 4, toa |-> 208, octets |-> pack_septets(septets, 0)]
    ELSE LET n == Len(number.digits)
             digit(k) == IF k <= n THEN number.digits[k] ELSE 15
         IN  [count |-> n, toa |-> IF number.plus THEN 145 ELSE 129,
              octets |-> [k \in 1 .. (n + 1) \div 2 |-> digit(2 * k) * 16 + digit(2 * k - 1)]]

decode_address(a) ==
    IF (a.toa \div 16) % 8 = 5
    THEN [name |-> from_septets(unpack_septets(a.octets, (a.count * 4) \div 7, 0))]
    ELSE LET nibbles == [k \in 1 .. 2 * Len(a.octets) |->
                            (a.octets[(k + 1) \div 2] \div 16^((k + 1) % 2)) % 16]
         IN  [plus |-> (a.toa \div 16) % 8 = 1,
              digits |-> SelectSeq(SubSeq(nibbles, 1, a.count), LAMBDA d : d # 15)]
-----------------------------------------------------------------------------
(* Segments.                                                               *)

\* SINGLE_GSM7 septets, or SINGLE_UCS2 octets in units of UTF-16.
Single(gsm7) == IF gsm7 THEN 160 ELSE 140 \div 2
\* (Bug: the bit that fills up the header is not counted.)
MultiUnfilled(gsm7) == IF gsm7 THEN 154 ELSE 134 \div 2
\* MULTI_GSM7 and MULTI_UCS2: what the header of this codec leaves.
Multi(gsm7) == IF gsm7 THEN 153 ELSE 134 \div 2
\* The same for a header with a 16-bit reference, one octet longer.
MultiWide(gsm7) == IF gsm7 THEN 152 ELSE 132 \div 2

\* _split_gsm7 and _split_ucs2: each segment takes as many characters as fit,
\* and none is cut in two.
Split(text, alphabet, max) ==
    LET places == Places(text, alphabet)
        from[k \in Nat] ==
            LET full == k + max - 1
                last == IF full >= Len(places) THEN Len(places)
                        ELSE IF places[full + 1][2] = 2 THEN full - 1
                        ELSE full
            IN  IF k > Len(places) THEN <<>>
                ELSE <<SubSeq(text, places[k][1], places[last][1])>> \o from[last + 1]
    IN  from[1]

PartsOf(text, wide) ==
    LET gsm7 == is_gsm7(text)
        alphabet == IF gsm7 THEN "sept" ELSE "units"
    IN  IF Len(Codes(text, alphabet)) <= Single(gsm7) THEN <<text>>
        ELSE Split(text, alphabet, IF wide THEN MultiWide(gsm7) ELSE Multi(gsm7))

\* The header of segment n with its length octet, nothing for a single one.
Header(ref, total, n, wide) ==
    IF total = 1 THEN <<>>
    ELSE IF wide THEN <<6, 8, 4, ref \div 256, ref % 256, total, n>>
    ELSE <<5, 0, 3, ref, total, n>>

\* build_submit_pdus: one PDU for each segment, the header first.
build_submit_pdus(text, ref, wide) ==
    LET gsm7 == is_gsm7(text)
        parts == PartsOf(text, wide)
        pdu(n) ==
            LET header == Header(ref, Len(parts), n, wide)
                fill == IF header = <<>> THEN 0 ELSE Fill(Len(header))
                septets == to_septets(parts[n])
                payload == IF gsm7 THEN pack_septets(septets, fill) ELSE ToUtf16(parts[n])
            IN  [udhi |-> header # <<>>,
                 dcs |-> IF gsm7 THEN 0 ELSE 8,
                 udl |-> IF gsm7 THEN (Len(header) * 8 + fill) \div 7 + Len(septets)
                         ELSE Len(header) + Len(payload),
                 ud |-> header \o payload]
    IN  [n \in DOMAIN parts |-> pdu(n)]
-----------------------------------------------------------------------------
(* decode_deliver.                                                         *)

\* 0 for the GSM alphabet, 2 for UCS-2, 1 for 8-bit data.
AlphabetOf(dcs) == IF dcs \div 64 = 0 THEN (dcs \div 4) % 4
                   ELSE IF dcs \div 64 = 3 THEN (dcs \div 4) % 2
                   ELSE 0

\* The last concatenation element of a header, as <<ref, total, seq>>, or <<>>.
Concat(udh) ==
    LET from[j \in Nat] ==
            IF j + 1 > Len(udh) THEN <<>>
            ELSE LET later == from[j + 2 + udh[j + 1]]
                 IN  IF later # <<>> THEN later
                     ELSE IF udh[j] = 0 /\ udh[j + 1] = 3
                     THEN <<udh[j + 2], udh[j + 3], udh[j + 4]>>
                     ELSE IF udh[j] = 8 /\ udh[j + 1] = 4
                     THEN <<udh[j + 2] * 256 + udh[j + 3], udh[j + 4], udh[j + 5]>>
                     ELSE <<>>
    IN  from[1]

\* The text and the concatenation of a PDU; latin-1 data mean nothing here.
decode_deliver(pdu) ==
    LET n == IF pdu.udhi THEN pdu.ud[1] + 1 ELSE 0
        payload == SubSeq(pdu.ud, n + 1, Len(pdu.ud))
        fill == IF n = 0 THEN 0 ELSE Fill(n)
        septets == unpack_septets(payload, pdu.udl - ((n * 8 + fill) \div 7), fill)
    IN  [sender |-> decode_address(pdu.from),
         concat |-> IF n = 0 THEN <<>> ELSE Concat(SubSeq(pdu.ud, 2, n)),
         text |-> CASE AlphabetOf(pdu.dcs) = 0 -> from_septets(septets)
                    [] AlphabetOf(pdu.dcs) = 2 -> FromUtf16(payload)
                    [] OTHER -> [k \in DOMAIN payload |-> Unknown]]
-----------------------------------------------------------------------------
(* Messages under way.                                                     *)

VARIABLES
    sent,       \* the messages: [from, text, ref, pdus]
    air,        \* segments <<message, position>> the network has
    parts,      \* Assembler._parts: {[key, seq, text]}
    published,  \* what was published: {[sender, text, partial]}
    clashed,    \* history: keys that two messages under way shared
    flushed     \* history: keys whose sets were given up as stale

codecVars == <<sent, air, parts, published, clashed, flushed>>

CodecInit ==
    /\ sent = <<>> /\ air = {} /\ parts = {} /\ published = {}
    /\ clashed = {} /\ flushed = <<>>

\* What can be sent, encoded once.
Message(p, t, r) == [from |-> p.number, text |-> t, ref |-> r,
                     pdus |-> build_submit_pdus(t, r, p.wide)]
Messages == {Message(p, t, r) : p \in Phones, t \in Texts, r \in Refs}

\* What the receiver reads in segment n of a message.
Read(m, n) ==
    LET pdu == m.pdus[n]
    IN  decode_deliver([from |-> encode_address(m.from), udhi |-> pdu.udhi,
                        dcs |-> pdu.dcs, udl |-> pdu.udl, ud |-> pdu.ud])

\* What the receiver keys the segments of a message by.
Key(m) == <<m.from, m.ref, Len(m.pdus)>>
SetOf(key) == {e \in parts : e.key = key}
UnderWay(key) == \/ \E s \in air : Key(sent[s[1]]) = key
                 \/ SetOf(key) # {}

\* A phone sends a text.  The reference is a random byte for every message.
Send(m) ==
    /\ Len(sent) < MaxSends
    /\ sent' = Append(sent, m)
    /\ air' = air \cup {<<Len(sent'), n>> : n \in DOMAIN m.pdus}
    /\ clashed' = IF Len(m.pdus) > 1 /\ UnderWay(Key(m)) THEN clashed \cup {Key(m)}
                  ELSE clashed
    /\ UNCHANGED <<parts, published, flushed>>

\* (Bug: the segments are joined as they are stored, here the last one first.)
AsStored(S) == FlattenSeq([k \in 1 .. Cardinality(S) |->
                   (CHOOSE e \in S : Cardinality({d \in S : d.seq > e.seq}) = k - 1).text])
\* The texts of a set in the order of their numbers.
InOrder(S) == FlattenSeq([k \in 1 .. Cardinality(S) |->
                  (CHOOSE e \in S : Cardinality({d \in S : d.seq < e.seq}) = k - 1).text])
\* (Bug: sets are told apart by sender only.)
KeyOfSender(d) == <<d.sender, 0, d.concat[2]>>
KeyOf(d) == <<d.sender, d.concat[1], d.concat[2]>>

Publish(sender, text, partial) ==
    published' = published \cup {[sender |-> sender, text |-> text, partial |-> partial]}

\* Assembler.add of a decoded segment.
Add(d) ==
    LET key == KeyOf(d)
        set == {e \in SetOf(key) : e.seq # d.concat[3]}
                   \cup {[key |-> key, seq |-> d.concat[3], text |-> d.text]}
    IN  IF d.concat = <<>>
        THEN Publish(d.sender, d.text, FALSE) /\ UNCHANGED parts
        ELSE IF Cardinality(set) = d.concat[2]
        THEN Publish(d.sender, InOrder(set), FALSE) /\ parts' = parts \ SetOf(key)
        ELSE UNCHANGED published /\ parts' = (parts \ SetOf(key)) \cup set

\* The network delivers a segment with its sender's address.
Receive(s) ==
    /\ s \in air
    /\ air' = air \ {s}
    /\ Add(Read(sent[s[1]], s[2]))
    /\ UNCHANGED <<sent, clashed, flushed>>

\* Assembler.flush_stale: a set incomplete for 300 s is published as it is.
Flush(key) ==
    /\ SetOf(key) # {} /\ Len(flushed) < MaxFlushes
    /\ parts' = parts \ SetOf(key)
    /\ Publish(key[1], InOrder(SetOf(key)), TRUE)
    /\ flushed' = Append(flushed, key)
    /\ UNCHANGED <<sent, air, clashed>>

CodecNext ==
    \/ \E m \in Messages : Send(m)
    \/ \E s \in air : Receive(s)
    \/ \E key \in {e.key : e \in parts} : Flush(key)

CodecSpec == CodecInit /\ [][CodecNext]_codecVars
-----------------------------------------------------------------------------
(* What the theorems take from the recursive operators, of each text and   *)
(* phone in play: TLC evaluates both.                                      *)

\* Segmentation loses no character, and no segment has more than fits.
SplitsToFit ==
    \A t \in Texts, wide \in BOOLEAN :
        LET segments == PartsOf(t, wide)
            gsm7 == is_gsm7(t)
            max == IF Len(segments) = 1 THEN Single(gsm7)
                   ELSE IF wide THEN MultiWide(gsm7) ELSE Multi(gsm7)
        IN  /\ segments \in Seq(Seq(Alphabet)) \ {<<>>}
            /\ FlattenSeq(segments) = t
            /\ \A n \in DOMAIN segments :
                  Len(Codes(segments[n], IF gsm7 THEN "sept" ELSE "units")) \in 0 .. max

\* Every PDU decodes to its sender, its place in the message and its segment.
DecodesBack ==
    \A p \in Phones, t \in Texts, r \in Refs :
        LET m == Message(p, t, r)
            total == Len(m.pdus)
        IN  \A n \in DOMAIN m.pdus :
                Read(m, n) = [sender |-> m.from,
                              concat |-> IF total = 1 THEN <<>> ELSE <<r, total, n>>,
                              text |-> PartsOf(t, p.wide)[n]]
-----------------------------------------------------------------------------
\* Every PDU holds at most 140 octets of user data and announces as many as it
\* holds, in septets for the GSM alphabet (TS 23.040; PLAN.md:163-165): the
\* limits of a segment, the header and its fill bits agree.
Fits ==
    \A k \in DOMAIN sent : \A n \in DOMAIN sent[k].pdus :
        LET pdu == sent[k].pdus[n]
        IN  /\ Len(pdu.ud) <= 140
            /\ Len(pdu.ud) = IF pdu.dcs = 0 THEN (pdu.udl * 7 + 7) \div 8 ELSE pdu.udl

\* What is published as a whole message is a text its sender sent, unless two
\* of the sender's messages under way at a time had the same reference and
\* number of segments, which the key of a set cannot tell apart
\* (receive.py:73-74).
WholeIsAsSent ==
    \A p \in published : ~p.partial =>
        \/ \E k \in DOMAIN sent : sent[k].from = p.sender /\ sent[k].text = p.text
        \/ \E key \in clashed : key[1] = p.sender

\* A message whose segments all arrived, in whatever order, was published
\* whole under its sender, character by character, unless its key clashed or
\* its set was given up as stale.
ArrivedIsPublished ==
    \A k \in DOMAIN sent :
        \/ \E n \in DOMAIN sent[k].pdus : <<k, n>> \in air
        \/ Key(sent[k]) \in clashed \cup Range(flushed)
        \/ [sender |-> sent[k].from, text |-> sent[k].text, partial |-> FALSE] \in published
=============================================================================
