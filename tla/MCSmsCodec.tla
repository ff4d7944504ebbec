----------------------------- MODULE MCSmsCodec -----------------------------
(* SmsCodec for TLC: texts at the limits of one, two and three segments.   *)
EXTENDS SmsCodec

at == [sept |-> <<0>>, units |-> <<64>>]
ae == [sept |-> <<123>>, units |-> <<228>>]
euro == [sept |-> <<27, 101>>, units |-> <<8364>>]
han == [sept |-> <<>>, units |-> <<20013>>]
smile == [sept |-> <<>>, units |-> <<55357, 56834>>]
Chars == {at, ae, euro, han, smile}
Replacement == [sept |-> <<>>, units |-> <<65533>>]

Times(c, n) == [k \in 1 .. n |-> c]
\* In the GSM alphabet: a full single message, one septet more, an escape
\* where the first segment ends, a message of three segments.
FullSingle == Times(at, 159) \o <<ae>>
TwoSegments == Times(ae, 160) \o <<at>>
EscapeAtLimit == Times(at, 152) \o <<euro>> \o Times(ae, 10)
ThreeSegments == <<euro>> \o Times(ae, 305)
\* In UCS-2: the same, with a surrogate pair at the limit.
FullSingleUcs2 == Times(han, 69) \o <<ae>>
PairAtLimit == Times(han, 66) \o <<smile>> \o Times(at, 4)
ThreeSegmentsUcs2 == Times(ae, 134) \o <<han>>
LimitTexts == {FullSingle, TwoSegments, EscapeAtLimit, ThreeSegments,
               FullSingleUcs2, PairAtLimit, ThreeSegmentsUcs2}

\* This codec with a number of three digits, and a named sender whose messages
\* have references of 16 bits.
SomePhones == {[number |-> [plus |-> TRUE, digits |-> <<4, 9, 1>>], wide |-> FALSE],
               [number |-> [name |-> <<ae, at, euro>>], wide |-> TRUE]}
TwoRefs == {7, 200}

ASSUME CodecWorks == SplitsToFit /\ DecodesBack
=============================================================================
