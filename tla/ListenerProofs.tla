--------------------------- MODULE ListenerProofs ---------------------------
(***************************************************************************)
(* Proofs about Listener, for any clients and any number of lines.         *)
(***************************************************************************)
EXTENDS Listener, SequenceTheorems, TLAPS

-----------------------------------------------------------------------------
(* The symbols a client wrote, from the first one not executed *)

\* s, what getline holds, begins with a line, text and end alternate through s
\* and t, and the e lines executed and those in s and t are the b lines begun.
Counted(s, t, e, b) ==
  /\ \A i \in 1..Len(s) : s[i] = "nl" <=> i % 2 = 0
  /\ \A i \in 1..Len(t) : t[i] = "nl" <=> (Len(s) + i) % 2 = 0
  /\ e + ((Len(s) + Len(t) + 1) \div 2) = b

LEMMA Halves ==
  ASSUME NEW n \in Nat
  PROVE  /\ (n + 2) % 2 = n % 2
         /\ (n + 2) \div 2 = (n \div 2) + 1
         /\ n \div 2 \in Nat
OBVIOUS

LEMMA CountedBegin ==
  ASSUME NEW s \in Seq(Symbol), NEW t \in Seq(Symbol), NEW e \in Nat, NEW b \in Nat,
         Counted(s, t, e, b), (Len(s) + Len(t)) % 2 = 0, NEW x \in Text
  PROVE  Counted(s, Append(t, x), e, b + 1)
<1>1. /\ Len(Append(t, x)) = Len(t) + 1
      /\ \A i \in 1..Len(t) : Append(t, x)[i] = t[i]
      /\ Append(t, x)[Len(t) + 1] = x
  BY AppendProperties, x \in Symbol DEF Symbol
<1>2. x # "nl"
  BY DEF Text
<1>3. Len(s) \in Nat /\ Len(t) \in Nat
  OBVIOUS
<1>4. (Len(s) + (Len(t) + 1)) % 2 = 1
  BY <1>3
<1>5. (Len(s) + (Len(t) + 1) + 1) \div 2 = ((Len(s) + Len(t) + 1) \div 2) + 1
  BY <1>3
<1>6. ASSUME NEW i \in 1..(Len(t) + 1)
      PROVE  Append(t, x)[i] = "nl" <=> (Len(s) + i) % 2 = 0
  <2>1. CASE i = Len(t) + 1
    BY <2>1, <1>1, <1>2, <1>4
  <2>2. CASE i \in 1..Len(t)
    BY <2>2, <1>1 DEF Counted
  <2> QED BY <2>1, <2>2, <1>3
<1>7. (Len(s) + Len(t) + 1) \div 2 \in Nat
  BY <1>3, Halves
<1>8. e + ((Len(s) + Len(t) + 1) \div 2) = b
  BY DEF Counted
<1>9. e + ((Len(s) + (Len(t) + 1) + 1) \div 2) = b + 1
  BY <1>5, <1>7, <1>8
<1> QED BY <1>1, <1>6, <1>9 DEF Counted

LEMMA CountedEnd ==
  ASSUME NEW s \in Seq(Symbol), NEW t \in Seq(Symbol), NEW e \in Nat, NEW b \in Nat,
         Counted(s, t, e, b), (Len(s) + Len(t)) % 2 = 1
  PROVE  Counted(s, Append(t, "nl"), e, b)
<1>1. /\ Len(Append(t, "nl")) = Len(t) + 1
      /\ \A i \in 1..Len(t) : Append(t, "nl")[i] = t[i]
      /\ Append(t, "nl")[Len(t) + 1] = "nl"
  BY AppendProperties, "nl" \in Symbol DEF Symbol
<1>2. Len(s) \in Nat /\ Len(t) \in Nat
  OBVIOUS
<1>3. (Len(s) + (Len(t) + 1)) % 2 = 0
  BY <1>2
<1>4. (Len(s) + (Len(t) + 1) + 1) \div 2 = (Len(s) + Len(t) + 1) \div 2
  BY <1>2
<1>5. ASSUME NEW i \in 1..(Len(t) + 1)
      PROVE  Append(t, "nl")[i] = "nl" <=> (Len(s) + i) % 2 = 0
  <2>1. CASE i = Len(t) + 1
    BY <2>1, <1>1, <1>3
  <2>2. CASE i \in 1..Len(t)
    BY <2>2, <1>1 DEF Counted
  <2> QED BY <2>1, <2>2, <1>2
<1> QED BY <1>1, <1>4, <1>5 DEF Counted

LEMMA CountedFill ==
  ASSUME NEW s \in Seq(Symbol), NEW t \in Seq(Symbol), NEW e, NEW b,
         Counted(s, t, e, b)
  PROVE  Counted(s \o t, <<>>, e, b)
<1>1. /\ Len(s \o t) = Len(s) + Len(t)
      /\ \A i \in 1..(Len(s) + Len(t)) :
           (s \o t)[i] = IF i <= Len(s) THEN s[i] ELSE t[i - Len(s)]
  BY ConcatProperties
<1>2. Len(s) \in Nat /\ Len(t) \in Nat
  OBVIOUS
<1>3. ASSUME NEW i \in 1..(Len(s) + Len(t))
      PROVE  (s \o t)[i] = "nl" <=> i % 2 = 0
  <2>1. CASE i <= Len(s)
    BY <2>1, <1>1, <1>2 DEF Counted
  <2>2. CASE i > Len(s)
    <3>1. i - Len(s) \in 1..Len(t) /\ Len(s) + (i - Len(s)) = i
      BY <2>2, <1>2
    <3> QED BY <3>1, <2>2, <1>1, <1>2 DEF Counted
  <2> QED BY <2>1, <2>2, <1>2
<1>4. Len(s) + Len(t) + Len(<<>>) + 1 = Len(s) + Len(t) + 1
  BY <1>2
<1> QED BY <1>1, <1>3, <1>4 DEF Counted

LEMMA CountedTake ==
  ASSUME NEW s \in Seq(Symbol), NEW t \in Seq(Symbol), NEW e \in Nat, NEW b \in Nat,
         Counted(s, t, e, b), "nl" \in Range(s)
  PROVE  /\ Tail(Tail(s)) \in Seq(Symbol)
         /\ Len(s) = Len(Tail(Tail(s))) + 2
         /\ Counted(Tail(Tail(s)), t, e + 1, b)
<1> DEFINE u == Tail(Tail(s))
<1>1. Len(s) \in Nat /\ Len(t) \in Nat
  OBVIOUS
<1>2. PICK i \in 1..Len(s) : s[i] = "nl"
  BY DEF Range
<1>3. i % 2 = 0
  BY <1>2 DEF Counted
<1>4. Len(s) >= 2
  BY <1>1, <1>3
<1>5. /\ Tail(s) \in Seq(Symbol) /\ Len(Tail(s)) = Len(s) - 1
      /\ \A k \in 1..(Len(s) - 1) : Tail(s)[k] = s[k + 1]
  BY <1>4, HeadTailProperties
<1>6. /\ u \in Seq(Symbol) /\ Len(u) = Len(s) - 2
      /\ \A k \in 1..(Len(s) - 2) : u[k] = Tail(s)[k + 1]
  <2>1. Tail(s) # <<>>
    <3>1. Len(Tail(s)) # 0
      BY <1>1, <1>4, <1>5
    <3> QED BY <3>1, <1>5, EmptySeq
  <2>2. Len(u) = Len(Tail(s)) - 1 /\ Len(Tail(s)) - 1 = Len(s) - 2
    BY <1>1, <1>5, <2>1, HeadTailProperties
  <2> QED BY <1>5, <2>1, <2>2, HeadTailProperties
<1>7. ASSUME NEW k \in 1..Len(u) PROVE u[k] = "nl" <=> k % 2 = 0
  <2>1. u[k] = s[k + 2] /\ k + 2 \in 1..Len(s)
    <3>1. /\ k \in 1..(Len(s) - 2) /\ k + 1 \in 1..(Len(s) - 1)
          /\ k + 2 \in 1..Len(s) /\ (k + 1) + 1 = k + 2
      BY <1>1, <1>6
    <3>2. u[k] = Tail(s)[k + 1]
      BY <1>6, <3>1
    <3>3. Tail(s)[k + 1] = s[(k + 1) + 1]
      BY <1>5, <3>1
    <3> QED BY <3>1, <3>2, <3>3
  <2>2. (k + 2) % 2 = k % 2
    BY <1>1, <1>6, Halves
  <2> QED BY <2>1, <2>2 DEF Counted
<1>8. ASSUME NEW k \in 1..Len(t) PROVE t[k] = "nl" <=> (Len(u) + k) % 2 = 0
  <2>1. Len(u) + k \in Nat /\ Len(s) + k = (Len(u) + k) + 2
    BY <1>1, <1>6
  <2>2. (Len(u) + k) % 2 = (Len(s) + k) % 2
    BY <2>1, Halves
  <2> QED BY <2>2 DEF Counted
<1>9. e + 1 + ((Len(u) + Len(t) + 1) \div 2) = b
  <2>1. Len(u) + Len(t) + 1 \in Nat /\ Len(s) + Len(t) + 1 = (Len(u) + Len(t) + 1) + 2
    BY <1>1, <1>6
  <2>2. (Len(s) + Len(t) + 1) \div 2 = ((Len(u) + Len(t) + 1) \div 2) + 1
    BY <2>1, Halves
  <2>3. (Len(u) + Len(t) + 1) \div 2 \in Nat
    BY <2>1, Halves
  <2>4. e + ((Len(s) + Len(t) + 1) \div 2) = b
    BY DEF Counted
  <2> HIDE DEF u
  <2> QED BY <2>2, <2>3, <2>4
<1>10. Len(s) = Len(u) + 2
  BY <1>1, <1>6
<1> QED BY <1>6, <1>7, <1>8, <1>9, <1>10 DEF Counted

LEMMA CountedRest ==
  ASSUME NEW s \in Seq(Symbol), NEW e \in Nat, NEW b \in Nat,
         Counted(s, <<>>, e, b), s # <<>>, "nl" \notin Range(s)
  PROVE  Counted(<<>>, <<>>, e + 1, b)
<1>1. Len(s) \in Nat /\ Len(s) # 0
  BY EmptySeq
<1>2. ~(Len(s) >= 2)
  <2> SUFFICES ASSUME Len(s) >= 2 PROVE FALSE
    OBVIOUS
  <2>1. 2 \in 1..Len(s)
    BY <1>1
  <2>2. s[2] = "nl"
    BY <2>1 DEF Counted
  <2> QED BY <2>1, <2>2 DEF Range
<1>3. Len(s) = 1
  <2>1. ASSUME NEW n \in Nat, n # 0, ~(n >= 2) PROVE n = 1
    BY <2>1
  <2> QED BY <1>1, <1>2, <2>1
<1>4. e + ((1 + 0 + 1) \div 2) = b
  BY <1>3 DEF Counted
<1>5. (1 + 0 + 1) \div 2 = 1 /\ (0 + 0 + 1) \div 2 = 0
  OBVIOUS
<1> QED BY <1>4, <1>5 DEF Counted

\* The part of a line that a client has begun is counted as one begun.
LEMMA CountedMidLine ==
  ASSUME NEW s \in Seq(Symbol), NEW t \in Seq(Symbol), NEW e \in Nat, NEW b \in Nat,
         Counted(s, t, e, b), (Len(s) + Len(t)) % 2 = 1
  PROVE  e < b
<1>1. Len(s) \in Nat /\ Len(t) \in Nat /\ Len(s) + Len(t) \in Nat
  OBVIOUS
<1>2. e + ((Len(s) + Len(t) + 1) \div 2) = b
  BY DEF Counted
<1>3. ASSUME NEW n \in Nat, n % 2 = 1 PROVE (n + 1) \div 2 \in Nat \ {0}
  BY <1>3
<1>4. ASSUME NEW h \in Nat \ {0}, e + h = b PROVE e < b
  BY <1>4
<1> QED BY <1>1, <1>2, <1>3, <1>4
-----------------------------------------------------------------------------
(* Lists without duplicates *)

Distinct(s) == \A i, j \in 1..Len(s) : s[i] = s[j] => i = j

LEMMA RangeOf ==
  ASSUME NEW S, NEW s \in Seq(S)
  PROVE  Range(s) \subseteq S
BY DEF Range

\* Only the connection at i goes, and those after it move up.
LEMMA RemoveAtElements ==
  ASSUME NEW S, NEW s \in Seq(S), NEW i \in 1..Len(s)
  PROVE  /\ RemoveAt(s, i) \in Seq(S)
         /\ Len(RemoveAt(s, i)) = Len(s) - 1
         /\ \A k \in 1..(Len(s) - 1) :
              RemoveAt(s, i)[k] = IF k < i THEN s[k] ELSE s[k + 1]
<1> DEFINE before == SubSeq(s, 1, i - 1)
           after == SubSeq(s, i + 1, Len(s))
<1>1. Len(s) \in Nat
  OBVIOUS
<1>2. /\ before \in Seq(S) /\ Len(before) = i - 1
      /\ \A k \in 1..(i - 1) : before[k] = s[k]
  BY <1>1, SubSeqProperties
<1>3. /\ after \in Seq(S) /\ Len(after) = Len(s) - i
      /\ \A k \in 1..(Len(s) - i) : after[k] = s[k + i]
  <2>1. \A k \in (i + 1)..Len(s) : s[k] \in S
    BY <1>1
  <2>2. /\ after \in Seq(S) /\ Len(after) = IF i + 1 <= Len(s) THEN Len(s) - (i + 1) + 1 ELSE 0
        /\ \A k \in 1..(Len(s) - (i + 1) + 1) : after[k] = s[(i + 1) + k - 1]
    BY <1>1, <2>1, SubSeqProperties
  <2> HIDE DEF after
  <2> QED BY <1>1, <2>2
<1> HIDE DEF before, after
<1> DEFINE rest == before \o after
<1>4. /\ rest \in Seq(S) /\ Len(rest) = Len(s) - 1
      /\ \A k \in 1..(Len(s) - 1) :
           rest[k] = IF k <= i - 1 THEN before[k] ELSE after[k - (i - 1)]
  <2>1. Len(before) + Len(after) = Len(s) - 1
    BY <1>1, <1>2, <1>3
  <2>2. /\ rest \in Seq(S) /\ Len(rest) = Len(before) + Len(after)
        /\ \A k \in 1..(Len(before) + Len(after)) :
             rest[k] = IF k <= Len(before) THEN before[k] ELSE after[k - Len(before)]
    BY <1>2, <1>3, ConcatProperties
  <2> HIDE DEF rest
  <2> QED BY <1>2, <2>1, <2>2
<1>5. RemoveAt(s, i) = rest
  BY DEF RemoveAt, before, after
<1> HIDE DEF rest
<1>6. ASSUME NEW k \in 1..(Len(s) - 1)
      PROVE  rest[k] = IF k < i THEN s[k] ELSE s[k + 1]
  <2>1. CASE k < i
    <3>1. k \in 1..(i - 1)
      BY <1>1, <2>1
    <3> QED BY <1>2, <1>4, <2>1, <3>1
  <2>2. CASE ~(k < i)
    <3>1. /\ ~(k <= i - 1) /\ k - (i - 1) \in 1..(Len(s) - i)
          /\ (k - (i - 1)) + i = k + 1
      BY <1>1, <2>2
    <3>2. rest[k] = s[(k - (i - 1)) + i]
      BY <1>3, <1>4, <3>1
    <3> QED BY <2>2, <3>1, <3>2
  <2> QED BY <2>1, <2>2
<1> QED BY <1>4, <1>5, <1>6

LEMMA RemoveAtRange ==
  ASSUME NEW S, NEW s \in Seq(S), NEW i \in 1..Len(s)
  PROVE  Range(s) \subseteq Range(RemoveAt(s, i)) \cup {s[i]}
<1> DEFINE rest == RemoveAt(s, i)
<1>1. /\ Len(s) \in Nat /\ Len(rest) = Len(s) - 1 /\ rest \in Seq(S)
      /\ \A k \in 1..(Len(s) - 1) : rest[k] = IF k < i THEN s[k] ELSE s[k + 1]
  BY RemoveAtElements
<1> HIDE DEF rest
<1>2. ASSUME NEW k \in 1..Len(s), k # i PROVE s[k] \in Range(rest)
  <2>1. CASE k < i
    <3>1. k \in 1..(Len(s) - 1) /\ rest[k] = s[k]
      BY <1>1, <2>1
    <3> QED BY <1>1, <3>1 DEF Range
  <2>2. CASE k > i
    <3>1. k - 1 \in 1..(Len(s) - 1) /\ ~(k - 1 < i) /\ (k - 1) + 1 = k
      BY <1>1, <2>2
    <3>2. rest[k - 1] = s[k]
      BY <1>1, <3>1
    <3> QED BY <1>1, <3>1, <3>2 DEF Range
  <2> QED BY <1>1, <1>2, <2>1, <2>2
<1>3. ASSUME NEW x \in Range(s) PROVE x \in Range(rest) \/ x = s[i]
  <2>1. PICK k \in 1..Len(s) : x = s[k]
    BY DEF Range
  <2> QED BY <1>2, <2>1
<1> QED BY <1>3 DEF rest

LEMMA DistinctAppend ==
  ASSUME NEW S, NEW s \in Seq(S), NEW x \in S, Distinct(s), x \notin Range(s)
  PROVE  /\ Distinct(Append(s, x))
         /\ Range(Append(s, x)) = Range(s) \cup {x}
<1>1. /\ Len(s) \in Nat /\ Len(Append(s, x)) = Len(s) + 1
      /\ \A i \in 1..Len(s) : Append(s, x)[i] = s[i]
      /\ Append(s, x)[Len(s) + 1] = x
      /\ DOMAIN s = 1..Len(s) /\ DOMAIN Append(s, x) = 1..(Len(s) + 1)
  BY AppendProperties
<1>2. \A i \in 1..Len(s) : s[i] # x
  BY <1>1 DEF Range
<1> DEFINE t == Append(s, x)
<1> HIDE DEF t
<1>3. ASSUME NEW i \in 1..(Len(s) + 1), NEW j \in 1..(Len(s) + 1), t[i] = t[j]
      PROVE  i = j
  <2>1. (i \in 1..Len(s) \/ i = Len(s) + 1) /\ (j \in 1..Len(s) \/ j = Len(s) + 1)
    BY <1>1
  <2> QED BY <1>1, <1>2, <1>3, <2>1 DEF Distinct, t
<1>4. Range(t) = Range(s) \cup {x}
  <2>1. 1..(Len(s) + 1) = 1..Len(s) \cup {Len(s) + 1}
    BY <1>1
  <2> QED BY <1>1, <2>1 DEF Range, t
<1> QED BY <1>1, <1>3, <1>4 DEF Distinct, t

LEMMA DistinctTail ==
  ASSUME NEW S, NEW s \in Seq(S), s # <<>>, Distinct(s)
  PROVE  /\ Distinct(Tail(s))
         /\ Range(s) = Range(Tail(s)) \cup {Head(s)}
         /\ Head(s) \notin Range(Tail(s))
<1> DEFINE t == Tail(s)
<1>1. /\ Len(s) \in Nat /\ Len(s) # 0 /\ Len(t) = Len(s) - 1 /\ t \in Seq(S)
      /\ \A i \in 1..(Len(s) - 1) : t[i] = s[i + 1]
      /\ Head(s) = s[1]
      /\ DOMAIN s = 1..Len(s)
  BY HeadTailProperties, EmptySeq
<1> HIDE DEF t
<1>2. ASSUME NEW i \in 1..Len(t) PROVE i + 1 \in 1..Len(s) /\ t[i] = s[i + 1] /\ i + 1 # 1
  BY <1>1
<1>3. ASSUME NEW i \in 1..Len(s), i # 1 PROVE i - 1 \in 1..Len(t) /\ t[i - 1] = s[i]
  <2>1. i - 1 \in 1..(Len(s) - 1) /\ (i - 1) + 1 = i
    BY <1>1, <1>3
  <2>2. t[i - 1] = s[(i - 1) + 1]
    BY <1>1, <2>1
  <2> QED BY <1>1, <2>1, <2>2
<1>4. DOMAIN t = 1..Len(t) /\ 1 \in 1..Len(s)
  BY <1>1
<1>5. Distinct(t)
  <2> SUFFICES ASSUME NEW i \in 1..Len(t), NEW j \in 1..Len(t), t[i] = t[j]
               PROVE  i = j
    BY DEF Distinct
  <2>1. i + 1 = j + 1
    BY <1>2 DEF Distinct
  <2> QED BY <1>1, <2>1
<1>6. Head(s) \notin Range(t)
  <2>1. SUFFICES ASSUME NEW i \in 1..Len(t), t[i] = s[1] PROVE FALSE
    BY <1>1, <1>4 DEF Range
  <2>2. s[i + 1] = s[1] /\ i + 1 \in 1..Len(s) /\ i + 1 # 1
    BY <1>2, <2>1
  <2> QED BY <1>4, <2>2 DEF Distinct
<1>7. Range(s) = Range(t) \cup {Head(s)}
  <2>1. /\ Range(s) = {s[i] : i \in 1..Len(s)}
        /\ Range(t) = {t[i] : i \in 1..Len(t)}
        /\ Head(s) = s[1]
    BY <1>1, <1>4 DEF Range
  <2>2. \A i \in 1..Len(s) : i # 1 => s[i] \in {t[k] : k \in 1..Len(t)}
    BY <1>3
  <2>3. \A i \in 1..Len(t) : t[i] \in {s[k] : k \in 1..Len(s)}
    BY <1>2
  <2> QED BY <1>4, <2>1, <2>2, <2>3
<1> QED BY <1>5, <1>6, <1>7 DEF t

LEMMA DistinctRemoveAt ==
  ASSUME NEW S, NEW s \in Seq(S), NEW n \in 1..Len(s), Distinct(s)
  PROVE  /\ Distinct(RemoveAt(s, n))
         /\ Range(RemoveAt(s, n)) \subseteq Range(s) \ {s[n]}
<1> DEFINE t == RemoveAt(s, n)
           From(k) == IF k < n THEN k ELSE k + 1
<1>1. /\ Len(s) \in Nat /\ Len(t) = Len(s) - 1 /\ t \in Seq(S)
      /\ \A k \in 1..(Len(s) - 1) : t[k] = IF k < n THEN s[k] ELSE s[k + 1]
      /\ DOMAIN s = 1..Len(s)
  BY RemoveAtElements
<1> HIDE DEF t
<1>2. ASSUME NEW k \in 1..Len(t)
      PROVE  From(k) \in 1..Len(s) /\ From(k) # n /\ t[k] = s[From(k)]
  BY <1>1
<1>3. ASSUME NEW i \in 1..Len(t), NEW j \in 1..Len(t), From(i) = From(j)
      PROVE  i = j
  BY <1>1, <1>3
<1>4. DOMAIN t = 1..Len(t)
  BY <1>1
<1> HIDE DEF From
<1>5. Distinct(t)
  BY <1>2, <1>3 DEF Distinct
<1>6. Range(t) \subseteq Range(s) \ {s[n]}
  BY <1>1, <1>2, <1>4 DEF Range, Distinct
<1> QED BY <1>5, <1>6 DEF t
-----------------------------------------------------------------------------
(* A connection waits to be accepted or is held, and is at one place of its *)
(* list, so what main does with one takes nothing from another.             *)

OnePlace ==
  /\ Distinct(pending) /\ Distinct(connections)
  /\ Range(pending) \cap held = {} /\ Range(connections) \subseteq held
  /\ \A c \in Range(pending) \cup held : client[c] # "away"

\* A step that changes no list, and no client's end back to "away".
LEMMA PlacesStay ==
  ASSUME TypeOK, OnePlace, UNCHANGED <<pending, connections, held>>,
         \A c \in Client : client[c] # "away" => client'[c] # "away"
  PROVE  OnePlace'
<1>1. Range(pending) \cup held \subseteq Client
  BY RangeOf DEF TypeOK
<1> QED BY <1>1 DEF OnePlace, Distinct

\* A connection that is read is on the list.
LEMMA ReadingStays ==
  ASSUME TypeOK, NEW c \in Client, Reading(c)
  PROVE  c \in Range(connections) /\ cursor \in 1..Len(connections)
<1>1. connections \in Seq(Client) /\ cursor \in Nat \ {0} /\ cursor <= Len(connections)
  BY DEF TypeOK, Reading
<1>2. cursor \in 1..Len(connections) /\ c = connections[cursor]
  BY <1>1 DEF Reading
<1> QED BY <1>1, <1>2 DEF Range

LEMMA InitPlaces == Init => OnePlace
<1> SUFFICES ASSUME Init PROVE OnePlace
  OBVIOUS
<1>1. pending = <<>>
  BY DEF Init
<1>2. CASE console = {} /\ connections = <<>>
  BY <1>1, <1>2 DEF Init, OnePlace, Distinct, Range
<1>3. CASE \E c \in Client : console = {c} /\ connections = <<c>>
  <2>1. PICK c \in Client : console = {c} /\ connections = <<c>>
    BY <1>3
  <2>2. client[c] = "open" /\ held = {c}
    BY <2>1 DEF Init
  <2>3. /\ Range(connections) = {c} /\ Range(pending) = {} /\ Distinct(pending)
        /\ Distinct(connections)
    BY <1>1, <2>1 DEF Distinct, Range
  <2> QED BY <2>2, <2>3 DEF OnePlace
<1> QED BY <1>2, <1>3 DEF Init

LEMMA ConnectPlaces ==
  ASSUME TypeOK, OnePlace, NEW c \in Client, Connect(c)
  PROVE  OnePlace'
<1>1. /\ client' = [client EXCEPT ![c] = "open"] /\ pending' = Append(pending, c)
      /\ client[c] = "away" /\ UNCHANGED <<connections, held>>
  BY DEF Connect
<1>2. pending \in Seq(Client) /\ client \in [Client -> {"away", "open", "half", "closed"}]
  BY DEF TypeOK
<1>3. c \notin Range(pending) /\ c \notin held
  BY <1>1 DEF OnePlace
<1>4. Distinct(pending') /\ Range(pending') = Range(pending) \cup {c}
  BY <1>1, <1>2, <1>3, DistinctAppend DEF OnePlace
<1>5. \A d \in Client : client[d] # "away" \/ d = c => client'[d] # "away"
  BY <1>1, <1>2
<1>6. Range(pending) \cup held \subseteq Client
  BY RangeOf DEF TypeOK
<1>7. /\ Distinct(connections)' /\ Range(connections)' = Range(connections)
      /\ held' = held
  BY <1>1 DEF OnePlace
<1> QED BY <1>3, <1>4, <1>5, <1>6, <1>7 DEF OnePlace

LEMMA DoAcceptPlaces ==
  ASSUME TypeOK, OnePlace, DoAccept
  PROVE  /\ OnePlace'
         /\ Head(pending) \in Client /\ Head(pending) \notin Range(connections)
<1>1. /\ pc = "accept" /\ pending # <<>>
      /\ connections' = Append(connections, Head(pending)) /\ pending' = Tail(pending)
      /\ held' = held \cup {Head(pending)}
      /\ UNCHANGED client
  BY DEF DoAccept, ends, TypeOK
<1>2. pending \in Seq(Client) /\ connections \in Seq(Client)
  BY DEF TypeOK
<1>3. /\ Distinct(pending') /\ Range(pending) = Range(pending') \cup {Head(pending)}
      /\ Head(pending) \notin Range(pending')
  BY <1>1, <1>2, DistinctTail DEF OnePlace
<1>4. /\ Head(pending) \in Client /\ Head(pending) \notin held
      /\ Head(pending) \notin Range(connections)
  BY <1>1, <1>2, <1>3, HeadTailProperties DEF OnePlace
<1>5. /\ Distinct(connections')
      /\ Range(connections') = Range(connections) \cup {Head(pending)}
  BY <1>1, <1>2, <1>4, DistinctAppend DEF OnePlace
<1> QED BY <1>1, <1>3, <1>4, <1>5 DEF OnePlace

LEMMA ErasePlaces ==
  ASSUME TypeOK, OnePlace, NEW c \in Client, Erase(c)
  PROVE  OnePlace'
<1>1. /\ connections' = RemoveAt(connections, cursor) /\ Reading(c)
      /\ UNCHANGED <<pending, held, client>>
  BY DEF Erase, ends
<1>2. connections \in Seq(Client) /\ cursor \in 1..Len(connections)
  BY <1>1, ReadingStays DEF TypeOK
<1>3. Distinct(connections') /\ Range(connections') \subseteq Range(connections)
  BY <1>1, <1>2, DistinctRemoveAt DEF OnePlace
<1> QED BY <1>1, <1>3 DEF OnePlace

LEMMA NextPlaces ==
  ASSUME TypeOK, OnePlace, [Next]_vars
  PROVE  OnePlace'
<1>1. CASE \/ Turn \/ SelectReady \/ SelectIdle \/ Skip \/ CheckDone \/ Iterate
           \/ \E c \in Client : FillBuffer(c) \/ Execute(c) \/ ConsoleEnd(c)
           \/ \E c \in Client : EndLine(c) \/ \E text \in Text : BeginLine(c, text)
           \/ \E c \in Client : InterruptGetline(c)
           \/ Interrupt \/ Ended \/ UNCHANGED vars
  <2>1. UNCHANGED <<pending, connections, held, client>>
    BY <1>1 DEF Turn, SelectReady, SelectIdle, Skip, CheckDone, Iterate, FillBuffer, Execute,
                ConsoleEnd, EndLine, BeginLine, Write, InterruptGetline, Interrupt, Ended,
                Run, vars, server, ends
  <2> QED BY <2>1, PlacesStay
<1>2. ASSUME NEW c \in Client, NEW how \in {"half", "closed"}, Finish(c, how)
      PROVE  OnePlace'
  <2>1. /\ client' = [client EXCEPT ![c] = how]
        /\ UNCHANGED <<pending, connections, held>>
    BY <1>2 DEF Finish, server
  <2>2. \A d \in Client : client[d] # "away" => client'[d] # "away"
    BY <2>1 DEF TypeOK
  <2> QED BY <2>1, <2>2, PlacesStay
<1> QED BY <1>1, <1>2, ConnectPlaces, DoAcceptPlaces, ErasePlaces
        DEF Next, MainStep, ClientStep
-----------------------------------------------------------------------------
(* The inductive invariant.  Once SIGINT has made getline return a part of *)
(* a line, its client may write the rest, which is no line and which main  *)
(* does not read any more: what is said of a connection's symbols is said  *)
(* of those main may still read.                                           *)

MayBeRead(c) ==
  \/ keep_running
  \/ pc \in {"select", "accept"}
  \/ pc = "check" /\ \E i \in cursor..Len(connections) : connections[i] = c

Lines(c) ==
  /\ Counted(stdio[c], sock[c], executed[c], begun[c])
  /\ ~Finished(c) => (c \in midline <=> (Len(stdio[c]) + Len(sock[c])) % 2 = 1)

IInv ==
  /\ TypeOK
  /\ OnePlace
  /\ \A c \in Client : MayBeRead(c) => Lines(c)
  /\ ErasedAreServed

\* What is being read has its lines counted.
LEMMA ReadingCounted ==
  ASSUME IInv, NEW c \in Client, Reading(c)
  PROVE  /\ stdio[c] \in Seq(Symbol) /\ sock[c] \in Seq(Symbol)
         /\ executed[c] \in Nat /\ begun[c] \in Nat
         /\ Counted(stdio[c], sock[c], executed[c], begun[c])
         /\ ~Finished(c) => (c \in midline <=> (Len(stdio[c]) + Len(sock[c])) % 2 = 1)
<1>1. TypeOK
  BY DEF IInv
<1>2. cursor \in 1..Len(connections) /\ connections[cursor] = c /\ pc = "check"
  BY <1>1, ReadingStays DEF Reading
<1>3. cursor \in cursor..Len(connections)
  BY <1>1, <1>2 DEF TypeOK
<1>4. MayBeRead(c)
  BY <1>2, <1>3 DEF MayBeRead
<1>5. Lines(c)
  BY <1>4 DEF IInv
<1> QED BY <1>1, <1>5 DEF Lines, TypeOK

\* A connection that main will not read is not read later.
LEMMA MayBeReadBefore ==
  ASSUME TypeOK, [Next]_vars, NEW c \in Client, MayBeRead(c)'
  PROVE  MayBeRead(c)
<1> SUFFICES ASSUME ~keep_running, pc \notin {"select", "accept"} PROVE MayBeRead(c)
  BY DEF MayBeRead
<1>1. cursor \in Nat /\ connections \in Seq(Client) /\ Len(connections) \in Nat
  BY DEF TypeOK
<1>2. CASE \/ UNCHANGED <<keep_running, pc, connections, cursor>>
           \/ UNCHANGED <<keep_running, pc, connections>> /\ cursor' = cursor + 1
  <2>1. pc = "check" /\ \E i \in cursor'..Len(connections) : connections[i] = c
    BY <1>2 DEF MayBeRead
  <2>2. PICK i \in cursor'..Len(connections) : connections[i] = c
    BY <2>1
  <2>3. i \in cursor..Len(connections)
    BY <1>1, <1>2, <2>2
  <2> QED BY <2>1, <2>2, <2>3 DEF MayBeRead
<1>3. CASE pc' \notin {"select", "accept", "check"} /\ UNCHANGED keep_running
  BY <1>3 DEF MayBeRead
<1>4. CASE Turn \/ SelectIdle \/ CheckDone \/ Iterate
           \/ \E d \in Client : Erase(d) \/ ConsoleEnd(d)
  BY <1>3, <1>4 DEF Turn, SelectIdle, CheckDone, Iterate, Erase, ConsoleEnd
<1>5. CASE Skip \/ (\E d \in Client : FillBuffer(d)) \/ ClientStep \/ Ended \/ UNCHANGED vars
  BY <1>2, <1>5 DEF Skip, FillBuffer, ClientStep, Connect, BeginLine, EndLine, Write, Finish,
                    Ended, vars, loop, server
<1>6. ASSUME NEW d \in Client, Execute(d) PROVE MayBeRead(c)
  <2>1. UNCHANGED <<keep_running, connections>>
        /\ (pc' = "killed" \/ (pc' = pc /\ cursor' = cursor + 1))
    BY <1>6 DEF Execute, Run
  <2> QED BY <1>2, <1>3, <2>1
<1>7. CASE SelectReady \/ DoAccept \/ Interrupt \/ \E d \in Client : InterruptGetline(d)
  BY <1>7 DEF SelectReady, DoAccept, Interrupt, InterruptGetline
<1> QED BY <1>4, <1>5, <1>6, <1>7 DEF Next, MainStep

LEMMA InitIInv == Init => IInv
<1> SUFFICES ASSUME Init PROVE IInv
  OBVIOUS
<1>1. connections \in Seq(Client) /\ console \subseteq Client /\ held \ Range(connections) = {}
  <2>1. CASE console = {} /\ connections = <<>>
    BY <2>1 DEF Init
  <2>2. CASE \E c \in Client : console = {c} /\ connections = <<c>>
    BY <2>2 DEF Init, Range
  <2> QED BY <2>1, <2>2 DEF Init
<1>2. TypeOK
  <2>1. keep_running \in BOOLEAN
    BY DEF Init
  <2>2. /\ sock \in [Client -> Seq(Symbol)] /\ stdio \in [Client -> Seq(Symbol)]
        /\ pending \in Seq(Client)
    BY DEF Init
  <2> QED BY <1>1, <2>1, <2>2 DEF Init, TypeOK
<1>3. ASSUME NEW c \in Client PROVE Lines(c)
  <2>1. /\ stdio[c] = <<>> /\ sock[c] = <<>> /\ executed[c] = 0 /\ begun[c] = 0
        /\ c \notin midline
    BY DEF Init
  <2>2. (0 + 0 + 1) \div 2 = 0 /\ (0 + 0) % 2 # 1
    OBVIOUS
  <2> QED BY <2>1, <2>2 DEF Lines, Counted
<1>4. ErasedAreServed
  BY <1>1 DEF ErasedAreServed
<1> QED BY <1>2, <1>3, <1>4, InitPlaces DEF IInv

\* A step that moves no symbol and takes no connection off the list.
LEMMA NoneMoved ==
  ASSUME IInv, [Next]_vars, TypeOK',
         UNCHANGED <<console, sock, midline, begun, stdio, executed>>,
         \A c \in Client : Finished(c) => Finished(c)',
         held' \ Range(connections') \subseteq held \ Range(connections)
  PROVE  IInv'
<1>1. ASSUME NEW c \in Client, MayBeRead(c)' PROVE Lines(c)'
  <2>1. TypeOK /\ Lines(c)
    BY <1>1, MayBeReadBefore DEF IInv
  <2>2. Finished(c) => Finished(c)'
    OBVIOUS
  <2> QED BY <2>1, <2>2 DEF Lines
<1>2. ASSUME NEW c \in held' \ Range(connections')
      PROVE  Finished(c)' /\ Served(c)'
  <2>1. c \in held \ Range(connections) /\ c \in Client
    BY DEF IInv, TypeOK
  <2>2. Finished(c) /\ Served(c)
    BY <2>1 DEF IInv, ErasedAreServed
  <2> QED BY <1>2, <2>1, <2>2 DEF Served
<1>3. OnePlace'
  BY NextPlaces DEF IInv
<1> QED BY <1>1, <1>2, <1>3 DEF IInv, ErasedAreServed

\* A step that moves symbols of one client, whose connection is not off the list.
LEMMA OneMoved ==
  ASSUME IInv, [Next]_vars, TypeOK', NEW c \in Client,
         MayBeRead(c) /\ MayBeRead(c)' => Lines(c)',
         c \notin held \ Range(connections),
         UNCHANGED <<console, connections, held, client>>,
         \A d \in Client \ {c} :
           /\ stdio'[d] = stdio[d] /\ sock'[d] = sock[d]
           /\ executed'[d] = executed[d] /\ begun'[d] = begun[d]
           /\ d \in midline' <=> d \in midline
  PROVE  IInv'
<1>1. ASSUME NEW d \in Client, MayBeRead(d)' PROVE Lines(d)'
  <2>1. MayBeRead(d)
    BY <1>1, MayBeReadBefore DEF IInv
  <2>2. CASE d = c
    BY <1>1, <2>1, <2>2
  <2>3. CASE d # c
    <3>1. Lines(d)
      BY <2>1 DEF IInv
    <3>2. Finished(d)' <=> Finished(d)
      BY DEF Finished
    <3> QED BY <2>3, <3>1, <3>2 DEF Lines
  <2> QED BY <2>2, <2>3
<1>2. ASSUME NEW d \in held' \ Range(connections')
      PROVE  Finished(d)' /\ Served(d)'
  <2>1. d \in held \ Range(connections) /\ d \in Client \ {c}
    BY DEF IInv, TypeOK
  <2>2. Finished(d) /\ Served(d)
    BY <2>1 DEF IInv, ErasedAreServed
  <2> QED BY <2>1, <2>2 DEF Served, Finished
<1>3. OnePlace'
  BY NextPlaces DEF IInv
<1> QED BY <1>1, <1>2, <1>3 DEF IInv, ErasedAreServed
-----------------------------------------------------------------------------
(* The clients' steps *)

LEMMA ConnectIInv ==
  ASSUME IInv, [Next]_vars, NEW c \in Client, Connect(c)
  PROVE  IInv'
<1>1. /\ client' = [client EXCEPT ![c] = "open"] /\ pending' = Append(pending, c)
      /\ client[c] = "away"
      /\ UNCHANGED <<keep_running, pc, console>>
      /\ UNCHANGED <<connections, held, readset, cursor, sock, stdio, midline, begun, executed>>
  BY DEF Connect, loop
<1>2. /\ pending' \in Seq(Client) /\ pending' # <<>>
      /\ client' \in [Client -> {"away", "open", "half", "closed"}]
  <2>1. pending \in Seq(Client)
    BY DEF IInv, TypeOK
  <2>2. pending' \in Seq(Client) /\ pending' # <<>>
    BY <1>1, <2>1, AppendProperties
  <2>3. client' \in [Client -> {"away", "open", "half", "closed"}]
    BY <1>1 DEF IInv, TypeOK
  <2> QED BY <2>2, <2>3
<1>3. TypeOK'
  BY <1>1, <1>2 DEF IInv, TypeOK
<1>4. \A d \in Client : Finished(d) => Finished(d)'
  BY <1>1 DEF IInv, TypeOK, Finished
<1> QED BY <1>1, <1>3, <1>4, NoneMoved

LEMMA FinishIInv ==
  ASSUME IInv, [Next]_vars, NEW c \in Client, NEW how \in {"half", "closed"}, Finish(c, how)
  PROVE  IInv'
<1>1. /\ client' = [client EXCEPT ![c] = how]
      /\ UNCHANGED <<keep_running, pc, console>>
      /\ UNCHANGED <<pending, connections, held, readset, cursor>>
      /\ UNCHANGED <<sock, midline, begun, stdio, executed>>
  BY DEF Finish, loop, server
<1>2. client' \in [Client -> {"away", "open", "half", "closed"}]
  BY <1>1 DEF IInv, TypeOK
<1>3. TypeOK'
  BY <1>1, <1>2 DEF IInv, TypeOK
<1>4. \A d \in Client : Finished(d) => Finished(d)'
  BY <1>1 DEF IInv, TypeOK, Finished
<1> QED BY <1>1, <1>3, <1>4, NoneMoved

\* An open connection is not one that left the list.
LEMMA OpenStays ==
  ASSUME IInv, NEW c \in Client, client[c] \in {"away", "open"}
  PROVE  c \notin held \ Range(connections)
BY DEF IInv, ErasedAreServed, Finished

LEMMA BeginLineIInv ==
  ASSUME IInv, [Next]_vars, NEW c \in Client, NEW text \in Text, BeginLine(c, text)
  PROVE  IInv'
<1>1. /\ client[c] = "open" /\ c \notin midline
      /\ sock' = [sock EXCEPT ![c] = Append(@, text)]
      /\ midline' = midline \cup {c}
      /\ begun' = [begun EXCEPT ![c] = @ + 1]
      /\ UNCHANGED <<keep_running, pc, console>>
      /\ UNCHANGED <<pending, connections, held, readset, cursor>>
      /\ UNCHANGED <<client, stdio, executed>>
  BY DEF BeginLine, Write, loop, server
<1>2. /\ stdio[c] \in Seq(Symbol) /\ sock[c] \in Seq(Symbol)
      /\ executed[c] \in Nat /\ begun[c] \in Nat
  BY DEF IInv, TypeOK
<1>3. /\ Append(sock[c], text) \in Seq(Symbol)
      /\ Len(Append(sock[c], text)) = Len(sock[c]) + 1
  BY <1>2, AppendProperties DEF Symbol
<1>4. /\ sock' \in [Client -> Seq(Symbol)] /\ begun' \in [Client -> Nat]
      /\ sock'[c] = Append(sock[c], text) /\ begun'[c] = begun[c] + 1
      /\ \A d \in Client \ {c} : sock'[d] = sock[d] /\ begun'[d] = begun[d]
  <2>1. sock \in [Client -> Seq(Symbol)] /\ begun \in [Client -> Nat]
    BY DEF IInv, TypeOK
  <2> QED BY <1>1, <1>2, <1>3, <2>1
<1>5. midline' \subseteq Client
  BY <1>1 DEF IInv, TypeOK
<1>6. TypeOK'
  BY <1>1, <1>4, <1>5 DEF IInv, TypeOK
<1>7. ASSUME MayBeRead(c) PROVE Lines(c)'
  <2>1. /\ Counted(stdio[c], sock[c], executed[c], begun[c])
        /\ ~Finished(c) => (c \in midline <=> (Len(stdio[c]) + Len(sock[c])) % 2 = 1)
    BY <1>7 DEF IInv, Lines
  <2>2. (Len(stdio[c]) + Len(sock[c])) % 2 # 1
    BY <1>1, <2>1 DEF Finished
  <2>3. /\ (Len(stdio[c]) + Len(sock[c])) % 2 = 0
        /\ (Len(stdio[c]) + (Len(sock[c]) + 1)) % 2 = 1
    <3>1. Len(stdio[c]) \in Nat /\ Len(sock[c]) \in Nat
      BY <1>2
    <3>2. ASSUME NEW m \in Nat, NEW n \in Nat, (m + n) % 2 # 1
          PROVE  (m + n) % 2 = 0 /\ (m + (n + 1)) % 2 = 1
      BY <3>2
    <3> QED BY <2>2, <3>1, <3>2
  <2>4. Counted(stdio[c], Append(sock[c], text), executed[c], begun[c] + 1)
    BY <1>2, <2>1, <2>3, CountedBegin
  <2>5. c \in midline'
    BY <1>1
  <2> QED BY <1>1, <1>3, <1>4, <2>3, <2>4, <2>5 DEF Lines
<1> QED BY <1>1, <1>4, <1>6, <1>7, OpenStays, OneMoved

LEMMA EndLineIInv ==
  ASSUME IInv, [Next]_vars, NEW c \in Client, EndLine(c)
  PROVE  IInv'
<1>1. /\ client[c] = "open" /\ c \in midline
      /\ sock' = [sock EXCEPT ![c] = Append(@, "nl")]
      /\ midline' = midline \ {c}
      /\ UNCHANGED <<keep_running, pc, console>>
      /\ UNCHANGED <<pending, connections, held, readset, cursor>>
      /\ UNCHANGED <<client, begun, stdio, executed>>
  BY DEF EndLine, Write, loop, server
<1>2. /\ stdio[c] \in Seq(Symbol) /\ sock[c] \in Seq(Symbol)
      /\ executed[c] \in Nat /\ begun[c] \in Nat
  BY DEF IInv, TypeOK
<1>3. /\ Append(sock[c], "nl") \in Seq(Symbol)
      /\ Len(Append(sock[c], "nl")) = Len(sock[c]) + 1
  BY <1>2, AppendProperties DEF Symbol
<1>4. /\ sock' \in [Client -> Seq(Symbol)] /\ sock'[c] = Append(sock[c], "nl")
      /\ \A d \in Client \ {c} : sock'[d] = sock[d]
  <2>1. sock \in [Client -> Seq(Symbol)]
    BY DEF IInv, TypeOK
  <2> QED BY <1>1, <1>3, <2>1
<1>5. midline' \subseteq Client
  BY <1>1 DEF IInv, TypeOK
<1>6. TypeOK'
  BY <1>1, <1>4, <1>5 DEF IInv, TypeOK
<1>7. ASSUME MayBeRead(c) PROVE Lines(c)'
  <2>1. /\ Counted(stdio[c], sock[c], executed[c], begun[c])
        /\ ~Finished(c) => (c \in midline <=> (Len(stdio[c]) + Len(sock[c])) % 2 = 1)
    BY <1>7 DEF IInv, Lines
  <2>2. (Len(stdio[c]) + Len(sock[c])) % 2 = 1
    BY <1>1, <2>1 DEF Finished
  <2>3. (Len(stdio[c]) + (Len(sock[c]) + 1)) % 2 # 1
    <3>1. Len(stdio[c]) \in Nat /\ Len(sock[c]) \in Nat
      BY <1>2
    <3>2. ASSUME NEW m \in Nat, NEW n \in Nat, (m + n) % 2 = 1
          PROVE  (m + (n + 1)) % 2 # 1
      BY <3>2
    <3> QED BY <2>2, <3>1, <3>2
  <2>4. Counted(stdio[c], Append(sock[c], "nl"), executed[c], begun[c])
    BY <1>2, <2>1, <2>2, CountedEnd
  <2>5. c \notin midline'
    BY <1>1
  <2> QED BY <1>1, <1>3, <1>4, <2>3, <2>4, <2>5 DEF Lines
<1> QED BY <1>1, <1>4, <1>6, <1>7, OpenStays, OneMoved
-----------------------------------------------------------------------------
(* The node's steps *)

\* Steps that leave the lists, the ends and the buffers alone.
LEMMA ControlIInv ==
  ASSUME IInv, [Next]_vars,
         \/ Turn \/ SelectReady \/ SelectIdle \/ Skip \/ CheckDone \/ Iterate
         \/ \E c \in Client : ConsoleEnd(c)
         \/ Interrupt
  PROVE  IInv'
<1>1. UNCHANGED <<console, pending, connections, held, client, sock, midline, begun, stdio, executed>>
  BY DEF Turn, SelectReady, SelectIdle, Skip, CheckDone, Iterate, ConsoleEnd, Interrupt,
         loop, server, ends
<1>2. keep_running' \in BOOLEAN
  <2>1. UNCHANGED keep_running \/ keep_running' = FALSE
    BY DEF Turn, SelectReady, SelectIdle, Skip, CheckDone, Iterate, ConsoleEnd, Interrupt,
           loop
  <2>2. keep_running \in BOOLEAN
    BY DEF IInv, TypeOK
  <2> QED BY <2>1, <2>2
<1>3. /\ pc' \in {"top", "select", "accept", "check", "iterate", "ended", "killed"}
      /\ pc' = "accept" => pending # <<>>
  <2>1. \/ pc' \in {"top", "select", "check", "iterate", "ended"}
        \/ pc' = "accept" /\ pending # <<>>
        \/ pc' = pc
    BY DEF Turn, SelectReady, SelectIdle, Skip, CheckDone, Iterate, ConsoleEnd, Interrupt,
           loop
  <2> QED BY <2>1 DEF IInv, TypeOK
<1>4. cursor' \in Nat \ {0} /\ readset' \subseteq Client
  <2>1. cursor' \in {1, cursor, cursor + 1}
    BY DEF Turn, SelectReady, SelectIdle, Skip, CheckDone, Iterate, ConsoleEnd, Interrupt,
           server
  <2>2. readset' = readset \/ readset' = Readable
    BY DEF Turn, SelectReady, SelectIdle, Skip, CheckDone, Iterate, ConsoleEnd, Interrupt,
           server
  <2>3. Readable \subseteq Client
    BY DEF IInv, TypeOK, Readable, Range
  <2> QED BY <2>1, <2>2, <2>3 DEF IInv, TypeOK
<1>5. TypeOK'
  BY <1>1, <1>2, <1>3, <1>4 DEF IInv, TypeOK
<1> QED BY <1>1, <1>5, NoneMoved DEF Finished

LEMMA DoAcceptIInv ==
  ASSUME IInv, [Next]_vars, DoAccept
  PROVE  IInv'
<1>1. pending # <<>> /\ pending \in Seq(Client) /\ connections \in Seq(Client)
  BY DEF IInv, TypeOK, DoAccept
<1>2. /\ connections' = Append(connections, Head(pending))
      /\ held' = held \cup {Head(pending)} /\ pending' = Tail(pending) /\ pc' = "check"
      /\ UNCHANGED <<keep_running, console, readset, cursor>>
      /\ UNCHANGED <<client, sock, midline, begun, stdio, executed>>
  BY DEF DoAccept, ends
<1>3. Head(pending) \in Client /\ Tail(pending) \in Seq(Client)
  BY <1>1, HeadTailProperties
<1>4. /\ connections' \in Seq(Client) /\ Len(connections') = Len(connections) + 1
      /\ \A i \in 1..Len(connections) : connections'[i] = connections[i]
      /\ connections'[Len(connections) + 1] = Head(pending)
  BY <1>1, <1>2, <1>3, AppendProperties
<1>5. held' \ Range(connections') \subseteq held \ Range(connections)
  <2>1. Len(connections) \in Nat
    BY <1>1
  <2>2. Range(connections) \subseteq Range(connections')
    BY <1>1, <1>4, <2>1 DEF Range
  <2>3. Head(pending) \in Range(connections')
    BY <1>4, <2>1 DEF Range
  <2> QED BY <1>2, <2>2, <2>3
<1>6. TypeOK'
  BY <1>2, <1>3, <1>4 DEF IInv, TypeOK
<1> QED BY <1>2, <1>5, <1>6, NoneMoved DEF Finished

LEMMA FillBufferIInv ==
  ASSUME IInv, [Next]_vars, NEW c \in Client, FillBuffer(c)
  PROVE  IInv'
<1>1. /\ stdio' = [stdio EXCEPT ![c] = @ \o sock[c]]
      /\ sock' = [sock EXCEPT ![c] = <<>>]
      /\ UNCHANGED <<keep_running, pc, console>>
      /\ UNCHANGED <<pending, connections, held, readset, cursor>>
      /\ UNCHANGED <<client, midline, begun, executed>>
  BY DEF FillBuffer, loop, server
<1>2. /\ Reading(c) /\ TypeOK
      /\ stdio \in [Client -> Seq(Symbol)] /\ sock \in [Client -> Seq(Symbol)]
  BY DEF IInv, TypeOK, FillBuffer
<1>3. /\ Counted(stdio[c], sock[c], executed[c], begun[c])
      /\ ~Finished(c) => (c \in midline <=> (Len(stdio[c]) + Len(sock[c])) % 2 = 1)
  BY <1>2, ReadingCounted
<1>4. /\ stdio[c] \o sock[c] \in Seq(Symbol)
      /\ Len(stdio[c] \o sock[c]) + Len(<<>>) = Len(stdio[c]) + Len(sock[c])
      /\ Counted(stdio[c] \o sock[c], <<>>, executed[c], begun[c])
  BY <1>2, <1>3, CountedFill, ConcatProperties
<1>5. /\ stdio' \in [Client -> Seq(Symbol)] /\ sock' \in [Client -> Seq(Symbol)]
      /\ stdio'[c] = stdio[c] \o sock[c] /\ sock'[c] = <<>>
      /\ \A d \in Client \ {c} : stdio'[d] = stdio[d] /\ sock'[d] = sock[d]
  <2>1. <<>> \in Seq(Symbol)
    OBVIOUS
  <2>2. /\ stdio' = [stdio EXCEPT ![c] = stdio[c] \o sock[c]]
        /\ sock' = [sock EXCEPT ![c] = <<>>]
    BY <1>1
  <2> QED BY <1>2, <1>4, <2>1, <2>2
<1>6. TypeOK'
  BY <1>1, <1>5 DEF IInv, TypeOK
<1>7. Lines(c)'
  <2>1. Finished(c)' <=> Finished(c)
    BY <1>1 DEF Finished
  <2> QED BY <1>1, <1>3, <1>4, <1>5, <2>1 DEF Lines
<1>8. c \in Range(connections)
  BY <1>2, ReadingStays
<1> QED BY <1>1, <1>5, <1>6, <1>7, <1>8, OneMoved

\* One command less in the buffer, one more executed.
LEMMA RunIInv ==
  ASSUME IInv, [Next]_vars, NEW c \in Client, NEW rest \in Seq(Symbol), Reading(c),
         Run(c, rest), UNCHANGED console, keep_running' \in BOOLEAN,
         MayBeRead(c)' => Lines(c)'
  PROVE  IInv'
<1>1. /\ executed' = [executed EXCEPT ![c] = @ + 1]
      /\ stdio' = [stdio EXCEPT ![c] = rest]
      /\ UNCHANGED <<pending, connections, held, readset>>
      /\ UNCHANGED <<client, sock, midline, begun>>
      /\ cursor' \in {cursor, cursor + 1}
      /\ pc' = "killed" \/ pc' = pc
  BY DEF Run, ends
<1>2. /\ executed' \in [Client -> Nat]
      /\ \A d \in Client \ {c} : executed'[d] = executed[d]
  BY <1>1 DEF IInv, TypeOK
<1>3. /\ stdio' \in [Client -> Seq(Symbol)]
      /\ \A d \in Client \ {c} : stdio'[d] = stdio[d]
  BY <1>1 DEF IInv, TypeOK
<1>4. cursor' \in Nat \ {0}
  BY <1>1 DEF IInv, TypeOK
<1>5. TypeOK'
  BY <1>1, <1>2, <1>3, <1>4 DEF IInv, TypeOK
<1>6. c \in Range(connections)
  BY ReadingStays DEF IInv
<1> QED BY <1>1, <1>2, <1>3, <1>5, <1>6, OneMoved

\* What Run makes of the counters of its client.
LEMMA RunCounts ==
  ASSUME IInv, NEW c \in Client, NEW rest, Run(c, rest)
  PROVE  /\ executed'[c] = executed[c] + 1 /\ stdio'[c] = rest
         /\ UNCHANGED <<client, sock, midline, begun>>
<1>1. executed \in [Client -> Nat] /\ stdio \in [Client -> Seq(Symbol)]
  BY DEF IInv, TypeOK
<1> QED BY <1>1 DEF Run, ends

LEMMA ExecuteIInv ==
  ASSUME IInv, [Next]_vars, NEW c \in Client, Execute(c)
  PROVE  IInv'
<1>1. UNCHANGED <<keep_running, console>> /\ Reading(c) /\ stdio[c] # <<>>
  BY DEF Execute
<1>2. /\ stdio[c] \in Seq(Symbol) /\ sock[c] \in Seq(Symbol)
      /\ executed[c] \in Nat /\ begun[c] \in Nat
      /\ Counted(stdio[c], sock[c], executed[c], begun[c])
      /\ ~Finished(c) => (c \in midline <=> (Len(stdio[c]) + Len(sock[c])) % 2 = 1)
  BY <1>1, ReadingCounted
<1>3. keep_running' \in BOOLEAN
  BY <1>1 DEF IInv, TypeOK
<1>4. CASE HasLine(c)
  <2> DEFINE rest == Tail(Tail(stdio[c]))
  <2>1. Run(c, rest)
    BY <1>4 DEF Execute
  <2>2. /\ rest \in Seq(Symbol) /\ Len(stdio[c]) = Len(rest) + 2
        /\ Counted(rest, sock[c], executed[c] + 1, begun[c])
    BY <1>2, <1>4, CountedTake DEF HasLine
  <2> HIDE DEF rest
  <2>3. (Len(stdio[c]) + Len(sock[c])) % 2 = (Len(rest) + Len(sock[c])) % 2
    <3>1. Len(rest) \in Nat /\ Len(sock[c]) \in Nat
      BY <1>2, <2>2
    <3>2. ASSUME NEW m \in Nat, NEW n \in Nat PROVE ((m + 2) + n) % 2 = (m + n) % 2
      BY <3>2
    <3> QED BY <2>2, <3>1, <3>2
  <2>4. /\ executed'[c] = executed[c] + 1 /\ stdio'[c] = rest
        /\ UNCHANGED <<client, sock, midline, begun>>
    BY <2>1, RunCounts
  <2>5. Finished(c)' <=> Finished(c)
    BY <2>4 DEF Finished
  <2>6. Lines(c)'
    BY <1>2, <2>2, <2>3, <2>4, <2>5 DEF Lines
  <2> QED BY <1>1, <1>3, <2>1, <2>2, <2>6, RunIInv
<1>5. CASE ~HasLine(c)
  <2>1. Run(c, <<>>) /\ sock[c] = <<>> /\ Finished(c)
    BY <1>5 DEF Execute, AtEnd
  <2>2. <<>> \in Seq(Symbol) /\ Counted(<<>>, sock[c], executed[c] + 1, begun[c])
    BY <1>1, <1>2, <1>5, <2>1, CountedRest DEF HasLine
  <2>3. /\ executed'[c] = executed[c] + 1 /\ stdio'[c] = <<>>
        /\ UNCHANGED <<client, sock, midline, begun>>
    BY <2>1, RunCounts
  <2>4. Finished(c)'
    BY <2>1, <2>3 DEF Finished
  <2>5. Lines(c)'
    BY <2>2, <2>3, <2>4 DEF Lines
  <2> QED BY <1>1, <1>3, <2>1, <2>2, <2>5, RunIInv
<1> QED BY <1>4, <1>5

\* After a part of a line main does not come back to the connection.
LEMMA InterruptGetlineIInv ==
  ASSUME IInv, [Next]_vars, NEW c \in Client, InterruptGetline(c)
  PROVE  IInv'
<1>1. /\ Reading(c) /\ Run(c, <<>>) /\ UNCHANGED console /\ keep_running' = FALSE
  BY DEF InterruptGetline
<1>2. /\ connections \in Seq(Client) /\ cursor \in 1..Len(connections)
      /\ connections[cursor] = c /\ pc = "check" /\ Distinct(connections)
  BY <1>1, ReadingStays DEF IInv, TypeOK, Reading, OnePlace
<1>3. UNCHANGED connections /\ (pc' = "killed" \/ (pc' = "check" /\ cursor' = cursor + 1))
  BY <1>1, <1>2 DEF Run
<1>4. ASSUME NEW i \in (cursor + 1)..Len(connections) PROVE connections[i] # c
  <2>1. i \in 1..Len(connections) /\ i # cursor
    BY <1>2
  <2> QED BY <1>2, <2>1 DEF Distinct
<1>5. ~MayBeRead(c)'
  <2>1. CASE pc' = "killed"
    BY <1>1, <2>1 DEF MayBeRead
  <2>2. CASE pc' = "check" /\ cursor' = cursor + 1
    <3>1. ~(\E i \in cursor'..Len(connections') : connections'[i] = c)
      BY <1>3, <1>4, <2>2
    <3> QED BY <1>1, <2>2, <3>1 DEF MayBeRead
  <2> QED BY <1>3, <2>1, <2>2
<1>6. <<>> \in Seq(Symbol) /\ keep_running' \in BOOLEAN
  <2>1. keep_running' \in BOOLEAN
    BY <1>1
  <2> QED BY <2>1
<1>7. MayBeRead(c)' => Lines(c)'
  BY <1>5
<1>8. Reading(c) /\ Run(c, <<>>) /\ UNCHANGED console
  BY <1>1
<1> QED BY <1>6, <1>7, <1>8, RunIInv

LEMMA EraseIInv ==
  ASSUME IInv, [Next]_vars, NEW c \in Client, Erase(c)
  PROVE  IInv'
<1>1. /\ connections' = RemoveAt(connections, cursor) /\ pc' = "iterate"
      /\ UNCHANGED <<keep_running, console, pending, held, readset, cursor>>
      /\ UNCHANGED <<client, sock, midline, begun, stdio, executed>>
      /\ c \notin console /\ stdio[c] = <<>> /\ sock[c] = <<>> /\ Finished(c)
  BY DEF Erase, ends, AtEnd
<1>2. /\ connections \in Seq(Client) /\ cursor \in 1..Len(connections)
      /\ c = connections[cursor]
  BY DEF IInv, TypeOK, Erase, Reading
<1>3. /\ connections' \in Seq(Client)
      /\ Range(connections) \subseteq Range(connections') \cup {c}
  BY <1>1, <1>2, RemoveAtElements, RemoveAtRange
<1>4. TypeOK'
  BY <1>1, <1>3 DEF IInv, TypeOK
<1>5. ASSUME NEW d \in Client, MayBeRead(d)' PROVE Lines(d)'
  <2>1. Lines(d)
    BY <1>5, MayBeReadBefore DEF IInv
  <2>2. Finished(d)' <=> Finished(d)
    BY <1>1 DEF Finished
  <2> QED BY <1>1, <2>1, <2>2 DEF Lines
<1>6. executed[c] = begun[c]
  <2>1. executed[c] + ((0 + 0 + 1) \div 2) = begun[c] /\ executed[c] \in Nat
    BY <1>1, ReadingCounted DEF Erase, Counted
  <2>2. (0 + 0 + 1) \div 2 = 0
    OBVIOUS
  <2> QED BY <2>1, <2>2
<1>7. ASSUME NEW d \in held' \ Range(connections')
      PROVE  Finished(d)' /\ Served(d)'
  <2>1. CASE d = c
    BY <1>1, <1>6, <1>7, <2>1 DEF Finished, Served
  <2>2. CASE d # c
    <3>1. d \in held \ Range(connections) /\ d \in Client
      BY <1>1, <1>3, <2>2 DEF IInv, TypeOK
    <3>2. Finished(d) /\ Served(d)
      BY <3>1 DEF IInv, ErasedAreServed
    <3> QED BY <1>1, <1>7, <3>2 DEF Finished, Served
  <2> QED BY <2>1, <2>2
<1>8. OnePlace'
  BY NextPlaces DEF IInv
<1> QED BY <1>4, <1>5, <1>7, <1>8 DEF IInv, ErasedAreServed
-----------------------------------------------------------------------------
LEMMA NextIInv == IInv /\ [Next]_vars => IInv'
<1> SUFFICES ASSUME IInv, [Next]_vars PROVE IInv'
  OBVIOUS
<1>1. CASE MainStep
  BY <1>1, ControlIInv, DoAcceptIInv, FillBufferIInv, ExecuteIInv, EraseIInv DEF MainStep
<1>2. CASE ClientStep
  BY <1>2, ConnectIInv, BeginLineIInv, EndLineIInv, FinishIInv DEF ClientStep
<1>3. CASE Interrupt
  BY <1>3, ControlIInv
<1>4. CASE \E c \in Client : InterruptGetline(c)
  BY <1>4, InterruptGetlineIInv
<1>5. CASE UNCHANGED vars
  <2>1. UNCHANGED <<keep_running, pc, console>>
    BY <1>5 DEF vars, loop
  <2>2. /\ UNCHANGED <<pending, connections, held, readset, cursor>>
        /\ UNCHANGED <<client, sock, midline, begun, stdio, executed>>
    BY <1>5 DEF vars, server, ends
  <2>3. TypeOK'
    BY <2>1, <2>2 DEF IInv, TypeOK
  <2> QED BY <2>1, <2>2, <2>3, NoneMoved DEF Finished
<1>6. CASE Ended
  BY <1>5, <1>6 DEF Ended
<1> QED BY <1>1, <1>2, <1>3, <1>4, <1>5, <1>6 DEF Next

LEMMA Inductive == Spec => []IInv
BY InitIInv, NextIInv, PTL DEF Spec

\* The variables of main's loop, the list and the connections keep their types.
THEOREM TypeCorrect == Spec => []TypeOK
<1>1. IInv => TypeOK
  BY DEF IInv
<1> QED BY <1>1, Inductive, PTL

\* A connection leaves the list with every command executed exactly once.
THEOREM CommandsServed == Spec => []ErasedAreServed
<1>1. IInv => ErasedAreServed
  BY DEF IInv
<1> QED BY <1>1, Inductive, PTL

\* While a client is in the middle of a line and the node is not told to end,
\* no part of that line has run.
THEOREM WholeLines == Spec => []OnlyWholeLines
<1>1. ASSUME IInv PROVE OnlyWholeLines
  <2> SUFFICES ASSUME NEW c \in Client, keep_running, client[c] = "open", c \in midline
               PROVE  executed[c] < begun[c]
    BY DEF OnlyWholeLines
  <2>1. Lines(c) /\ ~Finished(c)
    BY <1>1 DEF IInv, MayBeRead, Finished
  <2>2. /\ stdio[c] \in Seq(Symbol) /\ sock[c] \in Seq(Symbol)
        /\ executed[c] \in Nat /\ begun[c] \in Nat
    BY <1>1 DEF IInv, TypeOK
  <2> QED BY <2>1, <2>2, CountedMidLine DEF Lines
<1> QED BY <1>1, Inductive, PTL
=============================================================================
