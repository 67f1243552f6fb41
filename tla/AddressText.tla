---------------------------- MODULE AddressText ----------------------------
(***************************************************************************)
(* The text forms of an address (src/tvm/address.rs): "workchain:hash" and *)
(* the user-friendly one, a tag, the workchain, the hash and a CRC-16 in   *)
(* base64.  Bytes are read as their bits.  A character of base64 is its    *)
(* six bits and the alphabet it belongs to: 62 and 63 are "-" and "_" in   *)
(* the URL-safe one, "+" and "/" in the standard one.                      *)
(***************************************************************************)
EXTENDS Integers, Sequences

CONSTANT AddressHashBytes                                  \* 32

\* The bytes of a text fill whole groups of four characters.
ASSUME AddressAssumption == AddressHashBytes \in Nat /\ AddressHashBytes % 3 = 2

Bit == {0, 1}

USER_FRIENDLY_ADDRESS_LEN == 4 + AddressHashBytes

\* The tags 0x11 and 0x51 without their first bit, which is TEST_ONLY_FLAG.
BOUNCEABLE_TAG == <<0, 0, 1, 0, 0, 0, 1>>
NON_BOUNCEABLE_TAG == <<1, 0, 1, 0, 0, 0, 1>>

Address(workchain, hash_part, is_bounceable, is_test_only) ==
  [workchain |-> workchain, hash_part |-> hash_part,
   is_bounceable |-> is_bounceable, is_test_only |-> is_test_only]

\* Address::new.
NewAddress(workchain, hash_part) == Address(workchain, hash_part, TRUE, FALSE)

\* The casts between i8 and u8.
as_u8(workchain) ==
  [i \in 1 .. 8 |-> (workchain \div <<128, 64, 32, 16, 8, 4, 2, 1>>[i]) % 2]
as_i8(b) ==
  64 * b[2] + 32 * b[3] + 16 * b[4] + 8 * b[5] + 4 * b[6] + 2 * b[7] + b[8] - 128 * b[1]

-----------------------------------------------------------------------------
Polynomial == <<0, 0, 0, 1, 0, 0, 0, 0, 0, 0, 1, 0, 0, 0, 0, 1>>     \* 0x1021

Shifted(crc) ==
  LET left == [i \in 1 .. 16 |-> IF i = 16 THEN 0 ELSE crc[i + 1]]
  IN  IF crc[1] = 1 THEN [i \in 1 .. 16 |-> (left[i] + Polynomial[i]) % 2] ELSE left
Shifted4(crc) == Shifted(Shifted(Shifted(Shifted(crc))))

\* The n-th byte of the data enters the upper half.
Entered(crc, data, n) ==
  [i \in 1 .. 16 |-> IF i <= 8 THEN (crc[i] + data[8 * (n - 1) + i]) % 2 ELSE crc[i]]

\* It is shifted out bit by bit.
Updated(crc, data, n) == Shifted4(Shifted4(Entered(crc, data, n)))

\* The checksums of the first bytes of the data.
Checksums(data) ==
  LET crc[n \in 0 .. Len(data) \div 8] ==
        IF n = 0 THEN [i \in 1 .. 16 |-> 0]
        ELSE Updated(crc[n - 1], data, n)
  IN  crc

\* Mutant: the tag and the workchain are not under the checksum.
crc16_of_hash(data) ==
  LET hash == SubSeq(data, 17, Len(data)) IN Checksums(hash)[Len(hash) \div 8]

crc16(data) == Checksums(data)[Len(data) \div 8]

-----------------------------------------------------------------------------
\* The base64 engines.  The bytes of an address need no padding.

Char ==
  {c \in [sextet : [1 .. 6 -> Bit], alphabet : {"both", "url_safe", "standard"}] :
     c.alphabet = "both" <=> \E i \in 1 .. 5 : c.sextet[i] = 0}

CharOf(sextet, url_safe) ==
  [sextet |-> sextet,
   alphabet |-> IF \E i \in 1 .. 5 : sextet[i] = 0 THEN "both"
                ELSE IF url_safe THEN "url_safe" ELSE "standard"]

Base64(bits, url_safe) ==
  [i \in 1 .. Len(bits) \div 6 |-> CharOf(SubSeq(bits, 6 * i - 5, 6 * i), url_safe)]

BitOf(chars, n) == chars[1 + ((n - 1) \div 6)].sextet[1 + ((n - 1) % 6)]

\* decode_user_friendly: the alphabets are tried one after the other.
decode_user_friendly(chars) ==
  LET WrittenIn(alphabet) == \A i \in DOMAIN chars : chars[i].alphabet \in {"both", alphabet}
      bytes == (6 * Len(chars)) \div 8
  IN  IF /\ WrittenIn("url_safe") \/ WrittenIn("standard")
         /\ Len(chars) % 4 # 1
         /\ \A n \in 8 * bytes + 1 .. 6 * Len(chars) : BitOf(chars, n) = 0
        THEN {[n \in 1 .. 8 * bytes |-> BitOf(chars, n)]}
        ELSE {}

validate_workchain(workchain) == workchain >= -1

-----------------------------------------------------------------------------
\* Texts: raw ones are a workchain and a hash.

to_raw(a) == [form |-> "raw", workchain |-> a.workchain, hash |-> a.hash_part]

\* What the checksum is computed over.
TextData(a, bounceable, test_only) ==
  <<IF test_only THEN 1 ELSE 0>> \o (IF bounceable THEN BOUNCEABLE_TAG ELSE NON_BOUNCEABLE_TAG)
    \o as_u8(a.workchain) \o a.hash_part

to_string(a, url_safe, bounceable, test_only) ==
  LET data == TextData(a, bounceable, test_only)
  IN  [form |-> "friendly", chars |-> Base64(data \o crc16(data), url_safe)]

\* to_user_friendly_url_safe, to_user_friendly_base64.
to_user_friendly(a, url_safe) == to_string(a, url_safe, a.is_bounceable, a.is_test_only)

\* All of a text that follows the workchain is the hash, in hexadecimal.
from_hex(text) ==
  IF text.form = "raw" /\ text.workchain \in -128 .. 127 /\ validate_workchain(text.workchain)
       /\ Len(text.hash) = 8 * AddressHashBytes
    THEN {NewAddress(text.workchain, text.hash)} ELSE {}

\* The address in the bits of a friendly text.
AddressIn(bits) ==
  LET tag == SubSeq(bits, 2, 8)
      workchain == as_i8(SubSeq(bits, 9, 16))
      data == SubSeq(bits, 1, Len(bits) - 16)
  IN  IF Len(bits) # 8 * USER_FRIENDLY_ADDRESS_LEN THEN {}
      ELSE IF tag \notin {BOUNCEABLE_TAG, NON_BOUNCEABLE_TAG} THEN {}
      ELSE IF ~validate_workchain(workchain) THEN {}
      ELSE IF SubSeq(bits, Len(bits) - 15, Len(bits)) # crc16(data) THEN {}
      ELSE {Address(workchain, SubSeq(data, 17, Len(data)), tag = BOUNCEABLE_TAG, bits[1] = 1)}

from_base64(text) ==
  IF text.form # "friendly" THEN {}
  ELSE UNION {AddressIn(bits) : bits \in decode_user_friendly(text.chars)}

from_str(text) == IF from_hex(text) # {} THEN from_hex(text) ELSE from_base64(text)

\* A friendly text as it may be typed: one character is wrong, or left out.
Without(s, i) == [j \in 1 .. Len(s) - 1 |-> IF j < i THEN s[j] ELSE s[j + 1]]
Mistyped(text) ==
  ({[text EXCEPT !.chars[i] = char] : i \in DOMAIN text.chars, char \in Char} \ {text})
    \cup {[text EXCEPT !.chars = Without(@, i)] : i \in DOMAIN text.chars}

=============================================================================
