------------------------------ MODULE HexCodec ------------------------------
(***************************************************************************)
(* to_hex and hex_string_to_bin (src/src/main.cpp): how Tox ids and public *)
(* keys become the words of commands, options and printed lines, and back. *)
(*                                                                         *)
(* A character is a hex digit in lower case (0 to 15, its value), one of   *)
(* the letters A to F (26 to 31), or a member of Other: a letter that is   *)
(* no digit.  Words have no white space; a sign or an "x" where a digit    *)
(* should be, which sscanf treats in its own way, is not modelled.         *)
(***************************************************************************)
EXTENDS Integers, Sequences

CONSTANT Other   \* the characters that are no hex digits, none of them a number

Byte == 0 .. 255
Lower == 0 .. 15
Upper == 26 .. 31
Digit == Lower \cup Upper
Char == Digit \cup Other

\* the value of a digit
Value(d) == IF d \in Lower THEN d ELSE d - 16

\* two digits for each byte, the high one first, letters in lower case
to_hex(p) ==
  [i \in 1 .. 2 * Len(p) |->
     IF i % 2 = 1 THEN p[(i + 1) \div 2] \div 16 ELSE p[i \div 2] % 16]

\* sscanf("%2hhx"): the digits it can take of two characters, or nothing
Scan(high, low, before) ==
  IF high \notin Digit THEN before
  ELSE IF low \notin Digit THEN Value(high) ELSE 16 * Value(high) + Value(low)

\* What the memory from ret on holds after the call.  The code is not told how
\* long the buffer at ret is: it writes a byte for every two characters, past
\* the end of the buffer if the word is longer than that.
hex_string_to_bin(word, ret) ==
  [i \in DOMAIN ret |->
     IF i <= Len(word) \div 2 THEN Scan(word[2 * i - 1], word[2 * i], ret[i])
     ELSE ret[i]]
=============================================================================
