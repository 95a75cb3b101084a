--------------------------- MODULE HexCodecProofs ---------------------------
(* Theorems about HexCodec, for words and keys of any length. *)
EXTENDS HexCodec, SequenceTheorems, TLAPS

\* the memory from the start of a buffer on, the buffer and what follows it
Memory == [Nat \ {0} -> Byte]

\* a word with its letters in lower case
LowerCase(word) == [i \in 1 .. Len(word) |-> Value(word[i])]

\* A byte's digits.
LEMMA Nibbles ==
  ASSUME NEW b \in Byte
  PROVE  b \div 16 \in Lower /\ b % 16 \in Lower /\ 16 * (b \div 16) + (b % 16) = b
BY DEF Byte, Lower

\* to_hex writes two digits for each byte.
LEMMA ToHexType ==
  ASSUME NEW p \in Seq(Byte)
  PROVE  to_hex(p) \in Seq(Lower) /\ Len(to_hex(p)) = 2 * Len(p)
<1>1. Len(p) \in Nat /\ \A j \in 1 .. Len(p) : p[j] \in Byte
  OBVIOUS
<1>2. ASSUME NEW i \in 1 .. 2 * Len(p)
      PROVE  to_hex(p)[i] \in Lower
  <2>1. to_hex(p)[i] = IF i % 2 = 1 THEN p[(i + 1) \div 2] \div 16
                       ELSE p[i \div 2] % 16
    BY DEF to_hex
  <2>2. CASE i % 2 = 1
    <3>1. (i + 1) \div 2 \in 1 .. Len(p)
      BY <1>1, <2>2
    <3>2. p[(i + 1) \div 2] \in Byte
      BY <1>1, <3>1
    <3> QED BY <2>1, <2>2, <3>2, Nibbles
  <2>3. CASE i % 2 # 1
    <3>1. i \div 2 \in 1 .. Len(p)
      BY <1>1, <2>3
    <3>2. p[i \div 2] \in Byte
      BY <1>1, <3>1
    <3> QED BY <2>1, <2>3, <3>2, Nibbles
  <2> QED BY <2>2, <2>3
<1>3. to_hex(p) = [i \in 1 .. 2 * Len(p) |-> to_hex(p)[i]]
  BY DEF to_hex
<1>4. 2 * Len(p) \in Nat
  BY <1>1
<1> QED BY <1>2, <1>3, <1>4

\* A byte comes back from its two digits.
LEMMA ScanOfByte ==
  ASSUME NEW b \in Byte, NEW before
  PROVE  Scan(b \div 16, b % 16, before) = b
BY Nibbles DEF Scan, Value, Digit

\* What the node prints of a key ("my id is ...", "list") names that key when it is
\* typed into another node's command or option, whatever the buffer held, and
\* nothing behind the key's bytes is touched.
THEOREM RoundTrip ==
  ASSUME NEW p \in Seq(Byte), NEW ret \in Memory, NEW i \in Nat \ {0}
  PROVE  hex_string_to_bin(to_hex(p), ret)[i] = IF i <= Len(p) THEN p[i] ELSE ret[i]
<1>1. Len(p) \in Nat /\ Len(to_hex(p)) \div 2 = Len(p)
  <2>1. Len(p) \in Nat
    OBVIOUS
  <2>2. (2 * Len(p)) \div 2 = Len(p)
    BY <2>1
  <2> QED BY <2>1, <2>2, ToHexType
<1>2. DOMAIN ret = Nat \ {0}
  BY DEF Memory
<1>3. CASE i <= Len(p)
  <2>1. /\ 2 * i - 1 \in 1 .. 2 * Len(p)
        /\ 2 * i \in 1 .. 2 * Len(p)
        /\ (2 * i - 1) % 2 = 1
        /\ (2 * i) % 2 # 1
        /\ (2 * i - 1 + 1) \div 2 = i
        /\ (2 * i) \div 2 = i
    BY <1>1, <1>3
  <2>2. to_hex(p)[2 * i - 1] = p[i] \div 16
    BY <2>1 DEF to_hex
  <2>3. to_hex(p)[2 * i] = p[i] % 16
    BY <2>1 DEF to_hex
  <2>4. p[i] \in Byte
    BY <1>1, <1>3
  <2>5. hex_string_to_bin(to_hex(p), ret)[i]
          = Scan(to_hex(p)[2 * i - 1], to_hex(p)[2 * i], ret[i])
    BY <1>1, <1>2, <1>3 DEF hex_string_to_bin
  <2> QED BY <1>3, <2>2, <2>3, <2>4, <2>5, ScanOfByte
<1>4. CASE ~(i <= Len(p))
  BY <1>1, <1>2, <1>4 DEF hex_string_to_bin
<1> QED BY <1>3, <1>4

\* A byte read from two digits has these digits.
LEMMA DigitsOfScan ==
  ASSUME NEW high \in Digit, NEW low \in Digit, NEW before
  PROVE  /\ Scan(high, low, before) \in Byte
         /\ Scan(high, low, before) \div 16 = Value(high)
         /\ Scan(high, low, before) % 16 = Value(low)
<1>1. Scan(high, low, before) = 16 * Value(high) + Value(low)
  BY DEF Scan
<1>2. Value(high) \in Lower /\ Value(low) \in Lower
  BY DEF Value, Digit, Lower, Upper
<1>3. ASSUME NEW a \in Lower, NEW b \in Lower
      PROVE  16 * a + b \in Byte /\ (16 * a + b) \div 16 = a /\ (16 * a + b) % 16 = b
  BY DEF Byte, Lower
<1> QED BY <1>1, <1>2, <1>3

\* The call changes the first bytes, one for every two characters of the word and
\* no others, whatever the size of the buffer.
LEMMA BytesOfWord ==
  ASSUME NEW word \in Seq(Digit), NEW ret \in Memory, NEW i \in Nat \ {0}
  PROVE  IF i <= Len(word) \div 2
         THEN /\ hex_string_to_bin(word, ret)[i] \in Byte
              /\ hex_string_to_bin(word, ret)[i] \div 16 = Value(word[2 * i - 1])
              /\ hex_string_to_bin(word, ret)[i] % 16 = Value(word[2 * i])
         ELSE hex_string_to_bin(word, ret)[i] = ret[i]
<1>1. DOMAIN ret = Nat \ {0} /\ Len(word) \in Nat
  BY DEF Memory
<1>2. CASE i <= Len(word) \div 2
  <2>1. 2 * i - 1 \in 1 .. Len(word) /\ 2 * i \in 1 .. Len(word)
    BY <1>1, <1>2
  <2>2. word[2 * i - 1] \in Digit /\ word[2 * i] \in Digit
    BY <2>1
  <2>3. hex_string_to_bin(word, ret)[i] = Scan(word[2 * i - 1], word[2 * i], ret[i])
    BY <1>1, <1>2 DEF hex_string_to_bin
  <2> QED BY <1>2, <2>2, <2>3, DigitsOfScan
<1>3. CASE ~(i <= Len(word) \div 2)
  BY <1>1, <1>3 DEF hex_string_to_bin
<1> QED BY <1>2, <1>3

\* Two words of digits of a key's length name the same key exactly when they are
\* the same but for the case of their letters.
THEOREM WordsOfKey ==
  ASSUME NEW v \in Seq(Digit), NEW w \in Seq(Digit), NEW ret \in Memory,
         NEW size \in Nat, Len(v) = 2 * size, Len(w) = 2 * size
  PROVE  hex_string_to_bin(v, ret) = hex_string_to_bin(w, ret)
           <=> LowerCase(v) = LowerCase(w)
<1>1. Len(v) \div 2 = size /\ Len(w) \div 2 = size
  <2>1. (2 * size) \div 2 = size
    OBVIOUS
  <2> QED BY <2>1
<1>2. DOMAIN ret = Nat \ {0}
  BY DEF Memory
<1>3. ASSUME hex_string_to_bin(v, ret) = hex_string_to_bin(w, ret)
      PROVE  LowerCase(v) = LowerCase(w)
  <2>1. ASSUME NEW j \in 1 .. 2 * size
        PROVE  Value(v[j]) = Value(w[j])
    <3>1. CASE j % 2 = 1
      <4> DEFINE i == (j + 1) \div 2
      <4>1. i \in Nat \ {0} /\ i <= size /\ 2 * i - 1 = j
        BY <3>1
      <4> HIDE DEF i
      <4>2. hex_string_to_bin(v, ret)[i] \div 16 = Value(v[2 * i - 1])
        BY <1>1, <4>1, BytesOfWord
      <4>3. hex_string_to_bin(w, ret)[i] \div 16 = Value(w[2 * i - 1])
        BY <1>1, <4>1, BytesOfWord
      <4> QED BY <1>3, <4>1, <4>2, <4>3
    <3>2. CASE j % 2 # 1
      <4> DEFINE i == j \div 2
      <4>1. i \in Nat \ {0} /\ i <= size /\ 2 * i = j
        BY <3>2
      <4> HIDE DEF i
      <4>2. hex_string_to_bin(v, ret)[i] % 16 = Value(v[2 * i])
        BY <1>1, <4>1, BytesOfWord
      <4>3. hex_string_to_bin(w, ret)[i] % 16 = Value(w[2 * i])
        BY <1>1, <4>1, BytesOfWord
      <4> QED BY <1>3, <4>1, <4>2, <4>3
    <3> QED BY <3>1, <3>2
  <2> QED BY <2>1 DEF LowerCase
<1>4. ASSUME LowerCase(v) = LowerCase(w)
      PROVE  hex_string_to_bin(v, ret) = hex_string_to_bin(w, ret)
  <2>1. \A j \in 1 .. 2 * size : Value(v[j]) = Value(w[j])
    <3>1. ASSUME NEW j \in 1 .. 2 * size PROVE Value(v[j]) = Value(w[j])
      <4>1. LowerCase(v)[j] = Value(v[j]) /\ LowerCase(w)[j] = Value(w[j])
        BY DEF LowerCase
      <4> QED BY <1>4, <4>1
    <3> QED BY <3>1
  <2>2. ASSUME NEW i \in Nat \ {0}
        PROVE  hex_string_to_bin(v, ret)[i] = hex_string_to_bin(w, ret)[i]
    <3>1. CASE i <= size
      <4>1. 2 * i - 1 \in 1 .. 2 * size /\ 2 * i \in 1 .. 2 * size
        BY <3>1
      <4>2. /\ v[2 * i - 1] \in Digit /\ v[2 * i] \in Digit
            /\ w[2 * i - 1] \in Digit /\ w[2 * i] \in Digit
        BY <4>1
      <4>3. /\ hex_string_to_bin(v, ret)[i] = Scan(v[2 * i - 1], v[2 * i], ret[i])
            /\ hex_string_to_bin(w, ret)[i] = Scan(w[2 * i - 1], w[2 * i], ret[i])
        BY <1>1, <1>2, <3>1 DEF hex_string_to_bin
      <4>4. /\ Value(v[2 * i - 1]) = Value(w[2 * i - 1])
            /\ Value(v[2 * i]) = Value(w[2 * i])
        BY <2>1, <4>1
      <4> QED BY <4>2, <4>3, <4>4 DEF Scan
    <3>2. CASE ~(i <= size)
      BY <1>1, <3>2, BytesOfWord
    <3> QED BY <3>1, <3>2
  <2>3. /\ hex_string_to_bin(v, ret) = [i \in Nat \ {0} |-> hex_string_to_bin(v, ret)[i]]
        /\ hex_string_to_bin(w, ret) = [i \in Nat \ {0} |-> hex_string_to_bin(w, ret)[i]]
    BY <1>2 DEF hex_string_to_bin
  <2> QED BY <2>2, <2>3
<1> QED BY <1>3, <1>4

\* The node prints a key that was typed as the typed word in lower case.
THEOREM WordRoundTrip ==
  ASSUME NEW word \in Seq(Digit), NEW ret \in Memory, NEW key \in Seq(Byte),
         Len(word) = 2 * Len(key),
         \A i \in 1 .. Len(key) : key[i] = hex_string_to_bin(word, ret)[i]
  PROVE  to_hex(key) = LowerCase(word)
<1>1. Len(key) \in Nat /\ Len(word) \div 2 = Len(key)
  <2>1. Len(key) \in Nat
    OBVIOUS
  <2>2. (2 * Len(key)) \div 2 = Len(key)
    BY <2>1
  <2> QED BY <2>1, <2>2
<1>2. ASSUME NEW i \in 1 .. Len(key)
      PROVE  key[i] \div 16 = Value(word[2 * i - 1]) /\ key[i] % 16 = Value(word[2 * i])
  <2>1. i \in Nat \ {0} /\ i <= Len(word) \div 2
    BY <1>1
  <2> QED BY <2>1, BytesOfWord
<1>3. ASSUME NEW i \in 1 .. Len(word)
      PROVE  to_hex(key)[i] = Value(word[i])
  <2>1. i \in 1 .. 2 * Len(key)
    OBVIOUS
  <2>2. CASE i % 2 = 1
    <3>1. (i + 1) \div 2 \in 1 .. Len(key) /\ 2 * ((i + 1) \div 2) - 1 = i
      BY <1>1, <2>2
    <3>2. to_hex(key)[i] = key[(i + 1) \div 2] \div 16
      BY <2>1, <2>2 DEF to_hex
    <3> QED BY <1>2, <3>1, <3>2
  <2>3. CASE i % 2 # 1
    <3>1. i \div 2 \in 1 .. Len(key) /\ 2 * (i \div 2) = i
      BY <1>1, <2>3
    <3>2. to_hex(key)[i] = key[i \div 2] % 16
      BY <2>1, <2>3 DEF to_hex
    <3> QED BY <1>2, <3>1, <3>2
  <2> QED BY <2>2, <2>3
<1>4. to_hex(key) = [i \in 1 .. Len(word) |-> to_hex(key)[i]]
  BY DEF to_hex
<1> QED BY <1>3, <1>4 DEF LowerCase

\* "if it's not then the last byte just won't be written in 'ret'", says the comment
\* in hex_string_to_bin of a word of odd length: the last character has no effect.
THEOREM OddCharacterIgnored ==
  ASSUME NEW word \in Seq(Char), NEW c \in Char, NEW ret \in Memory,
         Len(word) % 2 = 0
  PROVE  hex_string_to_bin(Append(word, c), ret) = hex_string_to_bin(word, ret)
<1>1. /\ Len(word) \in Nat
      /\ Len(Append(word, c)) = Len(word) + 1
      /\ (Len(word) + 1) \div 2 = Len(word) \div 2
  <2>1. Len(word) \in Nat /\ Len(Append(word, c)) = Len(word) + 1
    OBVIOUS
  <2> QED BY <2>1
<1>2. ASSUME NEW i \in Nat \ {0}, i <= Len(word) \div 2
      PROVE  /\ Append(word, c)[2 * i - 1] = word[2 * i - 1]
             /\ Append(word, c)[2 * i] = word[2 * i]
  <2>1. 2 * i - 1 \in 1 .. Len(word) /\ 2 * i \in 1 .. Len(word)
    BY <1>1, <1>2
  <2> QED BY <2>1
<1>3. DOMAIN ret = Nat \ {0}
  BY DEF Memory
<1> QED BY <1>1, <1>2, <1>3 DEF hex_string_to_bin
=============================================================================
