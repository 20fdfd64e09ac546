-------------------------------- MODULE AesCbc --------------------------------
(***************************************************************************)
(* EncrAesCbcCrypto.Encrypt and Decrypt (src/security/encr/                *)
(* encr_aes_cbc.go) with PKCS7Padding (src/security/lib/lib.go): the       *)
(* padding arithmetic and the chaining of blocks.  A block cipher is an    *)
(* injective function of key and input, an xor an injective pair: a block  *)
(* of ciphertext remembers the key, the block before it and the plaintext, *)
(* and any other combination decrypts to something unrelated.              *)
(***************************************************************************)
EXTENDS Octets, SequencesExt

CONSTANTS
  BlockSize,    \* aes.BlockSize
  Lengths,      \* lengths of the plaintexts
  Paddings,     \* a peer's paddings, and values of the field Padding; <<>> is nil
  Keys,         \* keys of the two objects
  Garbage       \* octets that a block decrypts to under other circumstances

ASSUME CbcAssumption ==
  /\ Octet \in Nat /\ BlockSize \in 1 .. Octet - 1
  /\ Lengths \subseteq Nat
  /\ Paddings \subseteq Seq(Octets) /\ Garbage \subseteq Octets

VARIABLES
  plain,            \* the plaintext
  sender, receiver, \* the crypto objects: [key, iv, padding]; <<>> is nil
  cipher,           \* the ciphertext: a sequence of blocks, the IV first
  fate,             \* how the ciphertext arrives: "intact", "cut", "ragged" or "swapped"
  got,              \* the plaintext that Decrypt returns
  pc                \* "encrypt", "wire", "decrypt", or the end: "ok", "error", "panic"

vars == <<plain, sender, receiver, cipher, fate, got, pc>>

Objects == [key: Keys, iv: {<<>>, <<"fixed">>}, padding: Paddings \cup {<<>>}]

\* NewCrypto leaves Iv and Padding nil; both ends of a test may set them.
Init ==
  /\ \E n \in Lengths : plain = [c \in 1 .. n |-> c % Octet]
  /\ sender \in Objects
  /\ receiver \in [key: Keys, iv: {sender.iv}, padding: {<<>>}]
  /\ cipher = <<>> /\ fate = "intact" /\ got = <<>> /\ pc = "encrypt"

------------------------------------------------------------------------------
(* Encrypt.                                                                  *)

\* The number of octets that PKCS7Padding adds; all but the last are random.
padding_Zero(n) == (BlockSize - (n % BlockSize)) % BlockSize
padding(n) == BlockSize - (n % BlockSize)
PaddingText(n) == [c \in 1 .. padding(n) |-> IF c = padding(n) THEN padding(n) - 1 ELSE 0]

Block(text, b) == SubSeq(text, (b - 1) * BlockSize + 1, b * BlockSize)

\* CBC: every block is encrypted together with the one before it, the IV first, so
\* it depends on the IV and on all texts up to its own.
IVBlock(iv) == [key |-> "", iv |-> iv, texts |-> <<>>]
Prev(c) == [key |-> IF Len(c.texts) = 1 THEN "" ELSE c.key, iv |-> c.iv, texts |-> Front(c.texts)]
CryptBlocks(key, iv, text) ==
  <<IVBlock(iv)>> \o [b \in 1 .. Len(text) \div BlockSize |->
                       [key |-> key, iv |-> iv, texts |-> [a \in 1 .. b |-> Block(text, a)]]]

IV(object) == IF object.iv = <<>> THEN <<"random">> ELSE object.iv

\* CryptBlocks panics unless it gets full blocks.
Encrypt ==
  /\ pc = "encrypt"
  /\ LET text == IF sender.padding = <<>> THEN PaddingText(Len(plain)) ELSE sender.padding
     IN  IF (Len(plain) + Len(text)) % BlockSize # 0
         THEN pc' = "panic" /\ UNCHANGED cipher
         ELSE /\ cipher' = CryptBlocks(sender.key, IV(sender), plain \o text)
              /\ pc' = "wire"
  /\ UNCHANGED <<plain, sender, receiver, fate, got>>

------------------------------------------------------------------------------
(* The way to Decrypt: nothing happens, blocks are lost from the end, the    *)
(* last one perhaps not as a whole ("ragged"), or two blocks change places.  *)

Receive(c, f) ==
  /\ pc = "wire"
  /\ cipher' = c /\ fate' = f /\ pc' = "decrypt"
  /\ UNCHANGED <<plain, sender, receiver, got>>

Intact == Receive(cipher, "intact")
Cut == \E n \in 0 .. Len(cipher) - 1, f \in {"cut", "ragged"} : Receive(SubSeq(cipher, 1, n), f)
Swapped ==
  \E b \in 2 .. Len(cipher) - 1 :
    Receive([cipher EXCEPT ![b] = cipher[b + 1], ![b + 1] = cipher[b]], "swapped")

------------------------------------------------------------------------------
(* Decrypt.                                                                  *)

ReceivedIV_Own == IVBlock(receiver.iv)
ReceivedIV == IF receiver.iv = <<>> THEN cipher[1] ELSE IVBlock(receiver.iv)

\* What the b-th block decrypts to, given the one before it.
Opened(b) ==
  LET prev == IF b = 2 THEN ReceivedIV ELSE cipher[b - 1]
  IN  IF cipher[b].key = receiver.key /\ Prev(cipher[b]) = prev
      THEN {Last(cipher[b].texts)}
      ELSE {[c \in 1 .. BlockSize |-> g] : g \in Garbage}

DecryptTexts ==
  LET texts[b \in 1 .. Len(cipher)] ==
        IF b = 1 THEN {<<>>} ELSE {t \o o : t \in texts[b - 1], o \in Opened(b)}
  IN  texts[Len(cipher)]

\* The last octet says how much padding precedes it.
PaddingTooLong(text) == text[Len(text)] + 1 > Len(text)
Unpadded(text) == SubSeq(text, 1, Len(text) - (text[Len(text)] + 1))

\* No octet to read the padding length from panics.
Decrypt ==
  /\ pc = "decrypt"
  /\ IF cipher = <<>> \/ fate = "ragged" THEN pc' = "error" /\ UNCHANGED got
     ELSE \E text \in DecryptTexts :
            IF text = <<>> THEN pc' = "panic" /\ UNCHANGED got
            ELSE IF PaddingTooLong(text) THEN pc' = "error" /\ UNCHANGED got
            ELSE pc' = "ok" /\ got' = Unpadded(text)
  /\ UNCHANGED <<plain, sender, receiver, cipher, fate>>

Next == Encrypt \/ Intact \/ Cut \/ Swapped \/ Decrypt

Spec == Init /\ [][Next]_vars

------------------------------------------------------------------------------
(* Properties.                                                               *)

Ended == pc \in {"ok", "error", "panic"}

\* A padding that another implementation may choose: any length that fills the
\* last block, told by the last octet.
Proper(text) ==
  \/ text = <<>>
  \/ Last(text) = Len(text) - 1 /\ (Len(plain) + Len(text)) % BlockSize = 0

\* Decrypt with the same key returns the plaintext, of any length, whole blocks
\* included, with the library's padding or that of another implementation, up to
\* the longest that an octet can tell (lib.go:12, 26, encr_aes_cbc.go:150).
CbcRoundTrip ==
  Ended /\ fate = "intact" /\ sender.key = receiver.key /\ Proper(sender.padding) =>
    pc = "ok" /\ got = plain

\* A ciphertext that lost blocks at its end, or in which two blocks changed places,
\* is refused, or the blocks before the damage still decrypt to the plaintext: the
\* first octets of what Decrypt returns are those that were encrypted, also if the
\* octet that is read as the padding length is arbitrary
\* (encr_aes_cbc.go:130, 145, 150).
FrontSurvives ==
  pc = "ok" /\ fate # "intact" /\ sender.key = receiver.key /\ Proper(sender.padding) =>
    \A b \in 2 .. Len(cipher) :
      (\A a \in 2 .. b : Prev(cipher[a]) = cipher[a - 1]) =>
        \A c \in (b - 2) * BlockSize + 1 .. (b - 1) * BlockSize :
          c <= Len(got) /\ c <= Len(plain) => got[c] = plain[c]
==============================================================================
