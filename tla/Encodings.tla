----------------------------- MODULE Encodings -----------------------------
(***************************************************************************)
(* The SDK's text forms: strkeys (src/sdk/src/stellar.ts), here with a key  *)
(* of KeyBytes bytes instead of 32, and amounts (src/sdk/src/units.ts).  A  *)
(* character is its value in the base32 alphabet, a byte is its bits.       *)
(***************************************************************************)
EXTENDS Integers, Sequences, SequencesExt, FiniteSetsExt, Aggregates

CONSTANTS
    KeyBytes,     \* bytes of a key
    Keys,         \* the keys that are written down
    Amounts,      \* amounts in smallest units, of either sign
    MaxDecimals

ASSUME EncodingsAssumption ==
    /\ KeyBytes \in Nat \ {0} /\ (8 * (KeyBytes + 3)) % 5 = 0
    /\ Keys \subseteq [1 .. 8 * KeyBytes -> {0, 1}]
    /\ Amounts \subseteq Int /\ MaxDecimals \in Nat

VARIABLES
    written,  \* a strkey as it was encoded
    typed,    \* and as someone typed it
    slips,    \* the mistakes made in typing it
    amount, decimals  \* an amount that is shown

encVars == <<written, typed, slips, amount, decimals>>

Null == <<>>
NotInAlphabet == 32

-----------------------------------------------------------------------------
(* Strkeys *)

Zeros(n) == [i \in 1 .. n |-> 0]
Xor(a, b) == [i \in DOMAIN a |-> IF a[i] = b[i] THEN 0 ELSE 1]

\* crc16: CRC-16/XMODEM, most significant bit first, bit by bit.
Polynomial == [i \in 1 .. 16 |-> IF i \in {4, 11, 16} THEN 1 ELSE 0]
Shifted(crc) ==
    LET shifted == [i \in 1 .. 16 |-> IF i = 16 THEN 0 ELSE crc[i + 1]]
    IN IF crc[1] = 1 THEN Xor(shifted, Polynomial) ELSE shifted

\* The byte whose first bit is bit k, as the high byte of a register.
ByteAt(bits, k) == [i \in 1 .. 16 |-> IF i <= 8 THEN bits[k - 1 + i] ELSE 0]

\* The register after k bits; a byte enters it whole, before its first bit is shifted out.
Entered(crc, bits, k) == IF k % 8 = 1 THEN Xor(crc, ByteAt(bits, k)) ELSE crc
Registers(bits) ==
    LET crc[k \in 0 .. Len(bits)] ==
            IF k = 0 THEN Zeros(16) ELSE Shifted(Entered(crc[k - 1], bits, k))
    IN crc
Crc16(bits) == Registers(bits)[Len(bits)]

\* base32Decode: the bits of whole bytes, or Null.
CharBit(c, i) == (c \div <<16, 8, 4, 2, 1>>[i]) % 2
Base32Decode(chars) ==
    IF (5 * Len(chars)) % 8 # 0 \/ NotInAlphabet \in ToSet(chars) THEN Null
    ELSE [j \in 1 .. 5 * Len(chars) |-> CharBit(chars[(j + 4) \div 5], ((j + 4) % 5) + 1)]

\* The version bytes of G... and C... strkeys.
AccountVersion == <<0,0,1,1, 0,0,0,0>>
ContractVersion == <<0,0,0,1, 0,0,0,0>>
Versions == {AccountVersion, ContractVersion}

\* The checksum is stored with its low byte first.
ChecksumHolds(bits) ==
    LET n == Len(bits)
    IN Crc16(SubSeq(bits, 1, n - 16)) = SubSeq(bits, n - 7, n) \o SubSeq(bits, n - 15, n - 8)

\* The checksum is not looked at (a mutant).
IsStrkeyOfVersion(chars, version) ==
    LET bits == Base32Decode(chars)
    IN Len(bits) >= 24 /\ SubSeq(bits, 1, 8) = version

IsValidStrkey(chars, version) ==
    LET bits == Base32Decode(chars)
    IN Len(bits) >= 24 /\ SubSeq(bits, 1, 8) = version /\ ChecksumHolds(bits)

\* isStellarAddress: the length, the first letter, and the strkey it announces.
StrkeyLength == (8 * (KeyBytes + 3)) \div 5
LetterG == 6
LetterC == 2
IsStellarAddress(chars) ==
    /\ Len(chars) = StrkeyLength
    /\ \/ chars[1] = LetterG /\ IsValidStrkey(chars, AccountVersion)
       \/ chars[1] = LetterC /\ IsValidStrkey(chars, ContractVersion)

\* isStellarAsset of a string that is not "native" and has no colon, or of the issuer
\* behind a well-formed code.
IsContractAsset(chars) ==
    Len(chars) = StrkeyLength /\ chars[1] = LetterC /\ IsValidStrkey(chars, ContractVersion)
IsIssuer(chars) ==
    Len(chars) = StrkeyLength /\ chars[1] = LetterG /\ IsValidStrkey(chars, AccountVersion)

\* decodeStrkey: the version and the key, or Null.
DecodeStrkey(chars) ==
    LET bits == Base32Decode(chars)
    IN IF /\ Len(bits) = 8 * (KeyBytes + 3)
          /\ SubSeq(bits, 1, 8) \in Versions
          /\ ChecksumHolds(bits)
       THEN <<SubSeq(bits, 1, 8), SubSeq(bits, 9, Len(bits) - 16)>>
       ELSE Null

\* How Stellar writes a strkey.
StrkeyBits(version, key) ==
    LET crc == Crc16(version \o key)
    IN version \o key \o SubSeq(crc, 9, 16) \o SubSeq(crc, 1, 8)
Strkey(version, key) ==
    LET bits == StrkeyBits(version, key)
    IN [k \in 1 .. StrkeyLength |->
           16 * bits[5 * k - 4] + 8 * bits[5 * k - 3] + 4 * bits[5 * k - 2]
               + 2 * bits[5 * k - 1] + bits[5 * k]]

-----------------------------------------------------------------------------
(* Amounts: a decimal is its sign, its whole part and the digits of its fraction *)

\* toSmallestUnits takes no sign and no more digits than the asset has; Absent otherwise.
NoAmount == [refused |-> TRUE]
ToSmallestUnits(h, d) ==
    IF h.negative \/ h.digits > d THEN NoAmount
    ELSE [refused |-> FALSE, units |-> h.whole * Tens[d] + h.fraction * Tens[d - h.digits]]

\* fromSmallestUnits drops the trailing zeros of the fraction, and the sign of a zero.
FromSmallestUnits(n, d) ==
    LET magnitude == IF n < 0 THEN -n ELSE n
        rest == magnitude % Tens[d]
        digits == Min({k \in 0 .. d : rest % Tens[d - k] = 0})
    IN [negative |-> n < 0, whole |-> magnitude \div Tens[d],
        fraction |-> rest \div Tens[d - digits], digits |-> digits]

-----------------------------------------------------------------------------
\* A behaviour writes a strkey down and makes one mistake in it, or shows one amount.
Write ==
    /\ written = Null /\ amount = 0 /\ decimals = 0
    /\ \E v \in Versions, key \in Keys : written' = Strkey(v, key)
    /\ typed' = written'
    /\ UNCHANGED <<slips, amount, decimals>>

\* One mistake: a wrong character, two neighbours swapped, or a character left out.
Mistyped(chars) ==
    {[chars EXCEPT ![k] = c] : k \in DOMAIN chars, c \in 0 .. NotInAlphabet}
        \cup {[chars EXCEPT ![k] = chars[k - 1], ![k - 1] = chars[k]] : k \in 2 .. Len(chars)}
        \cup {RemoveAt(chars, k) : k \in DOMAIN chars}
Slip ==
    /\ written # Null /\ slips = 0
    /\ slips' = 1
    /\ typed' \in Mistyped(typed)
    /\ UNCHANGED <<written, amount, decimals>>

Show ==
    /\ written = Null /\ amount = 0 /\ decimals = 0
    /\ amount' \in Amounts /\ decimals' \in 0 .. MaxDecimals
    /\ UNCHANGED <<written, typed, slips>>

EncInit ==
    /\ written = Null /\ typed = Null /\ slips = 0
    /\ amount = 0 /\ decimals = 0

EncNext == Write \/ Slip \/ Show

EncSpec == EncInit /\ [][EncNext]_encVars

-----------------------------------------------------------------------------
(* Properties *)

\* stellar.ts:6-9: malformed inputs are caught "before a cross-chain hop".  A strkey with
\* one slip in it is not taken for an address, a token or an issuer.
SlipIsCaught ==
    written # Null =>
        IF typed = written THEN IsStellarAddress(typed)
        ELSE ~(IsStellarAddress(typed) \/ IsContractAsset(typed) \/ IsIssuer(typed))

\* isStellarAddress and decodeStrkey, stellar.ts:76-107, are two implementations of one
\* check: what is an address can be decoded, and decodes to the key it was written for.
DecodersAgree ==
    /\ IsStellarAddress(typed) <=> DecodeStrkey(typed) # Null
    /\ DecodeStrkey(written) # Null =>
           Strkey(DecodeStrkey(written)[1], DecodeStrkey(written)[2]) = written

\* units.ts: an amount that is shown is exact and canonical, and reads back as itself; a
\* negative one is shown with its sign and is refused as an input.
AmountsRoundTrip ==
    LET h == FromSmallestUnits(amount, decimals)
    IN /\ (h.whole * Tens[h.digits] + h.fraction) * Tens[decimals - h.digits]
              = (IF h.negative THEN -amount ELSE amount)
       /\ h.digits > 0 => h.fraction % 10 # 0
       /\ ToSmallestUnits(h, decimals) =
              IF amount < 0 THEN NoAmount ELSE [refused |-> FALSE, units |-> amount]

\* Nothing that goes through text becomes another account, another token or another amount.
FormsAreFaithful == SlipIsCaught /\ DecodersAgree /\ AmountsRoundTrip

=============================================================================
