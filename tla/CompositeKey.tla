----------------------------- MODULE CompositeKey -----------------------------
(***************************************************************************)
(* The keys of versioned cells (src/src/secure/composite.rs): row, family, *)
(* qualifier and visibility as escaped, terminated fields, then the        *)
(* timestamp so that newer versions sort first.                            *)
(*                                                                         *)
(* A byte is a digit below ByteBase, a timestamp a signed number of two    *)
(* bytes instead of eight.                                                 *)
(***************************************************************************)
EXTENDS ByteOrder

CONSTANTS
    ByteBase,     \* number of byte values
    MaxKeyLen     \* MAX_USER_KEY_LEN

ASSUME CompositeKeyAssumption == ByteBase \in Nat /\ ByteBase % 2 = 0 /\ ByteBase > 4 /\ MaxKeyLen \in Nat

FormatVersion == 1
Terminator == 0
Escape == 1
EscapedZero == 1
EscapedOne == 2

Modulus == ByteBase * ByteBase

EncodeField(field) ==
    FlattenSeq([i \in DOMAIN field |->
        CASE field[i] = Terminator -> <<Escape, EscapedZero>>
          [] field[i] = Escape -> <<Escape, EscapedOne>>
          [] OTHER -> <<field[i]>>]) \o <<Terminator>>

EncodePrefixFields(fields) ==
    <<FormatVersion>> \o FlattenSeq([i \in DOMAIN fields |-> EncodeField(fields[i])])

ValidEncodedLen(bytes) == Len(bytes) <= MaxKeyLen

\* Mutant: the sign bit is not flipped.
EncodeUnsignedTimestamp(t) ==
    LET descending == Modulus - 1 - (t % Modulus)
    IN  <<descending \div ByteBase, descending % ByteBase>>

\* Flip the sign bit, invert, write big-endian.
EncodeDescendingTimestamp(t) ==
    LET ascending == ((t % Modulus) + (Modulus \div 2)) % Modulus
        descending == Modulus - 1 - ascending
    IN  <<descending \div ByteBase, descending % ByteBase>>

DecodeDescendingTimestamp(bytes) ==
    LET ascending == Modulus - 1 - (bytes[1] * ByteBase + bytes[2])
    IN  ascending - (Modulus \div 2)

\* CompositeKey::encode; too long a key is an error.
Encode(k) ==
    EncodePrefixFields(<<k.row, k.family, k.qualifier, k.visibility>>) \o EncodeDescendingTimestamp(k.timestamp)

Encodes(k) == ValidEncodedLen(Encode(k))

\* decode_field, one byte: a terminator ends the current field, an escape takes
\* the next byte with it; what follows the fourth field is the rest.
DecodeByte(acc, b) ==
    CASE Len(acc.fields) > 4 -> [acc EXCEPT !.rest = Append(@, b)]
      [] acc.escaped /\ b \notin {EscapedZero, EscapedOne} -> [acc EXCEPT !.ok = FALSE]
      [] acc.escaped -> [acc EXCEPT !.escaped = FALSE,
                                    !.fields[Len(acc.fields)] = Append(@, b - 1)]
      [] b = Escape -> [acc EXCEPT !.escaped = TRUE]
      [] b = Terminator -> [acc EXCEPT !.fields = Append(@, <<>>)]
      [] OTHER -> [acc EXCEPT !.fields[Len(acc.fields)] = Append(@, b)]

DecodeFields(bytes) ==
    FoldLeft(DecodeByte, [ok |-> TRUE, escaped |-> FALSE, fields |-> <<<<>>>>, rest |-> <<>>], bytes)

\* CompositeKey::decode: the version, four terminated fields, the timestamp.
Decode(bytes) ==
    LET d == DecodeFields(Tail(bytes))
    IN  IF bytes # <<>> /\ bytes[1] = FormatVersion /\ d.ok /\ Len(d.rest) = 2
        THEN [ok |-> TRUE,
              key |-> [row |-> d.fields[1], family |-> d.fields[2], qualifier |-> d.fields[3],
                       visibility |-> d.fields[4], timestamp |-> DecodeDescendingTimestamp(d.rest)]]
        ELSE [ok |-> FALSE, key |-> <<>>]

\* prefix_to_range: from the prefix up to the next string that does not start
\* with it; a prefix of highest bytes only has no upper bound.
InRange(bytes, prefix) ==
    LET body == {i \in DOMAIN prefix : prefix[i] < ByteBase - 1}
        upper == [SubSeq(prefix, 1, Max(body)) EXCEPT ![Max(body)] = @ + 1]
    IN  ~LexLess(bytes, prefix) /\ (body # {} => LexLess(bytes, upper))

\* CompositePrefix::range, of the fields given from row onward.
PrefixRange(fields) == EncodePrefixFields(fields)
=============================================================================
