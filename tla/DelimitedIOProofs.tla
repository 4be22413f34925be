-------------------------- MODULE DelimitedIOProofs --------------------------
(***************************************************************************)
(* Theorems about DelimitedIO for every byte size, set of messages, buffer *)
(* capacity, number of messages and set of faults: the reader gets the     *)
(* messages written, whole and in order, and the end of file after the     *)
(* last one or after a reset, for as long as nothing tears the stream; and *)
(* the writer, the kernel and the reader together implement MessageChannel.*)
(***************************************************************************)
EXTENDS DelimitedIO, WellFoundedInduction, TLAPS

Facts == INSTANCE SequenceTheorems

\* Induction over the naturals, for a property given as a set.
LEMMA NatSetInduction ==
  ASSUME NEW S, 0 \in S, \A n \in Nat : n \in S => n + 1 \in S
  PROVE  Nat \subseteq S
<1>. SUFFICES ASSUME NEW m \in Nat, m \notin S PROVE FALSE
  OBVIOUS
<1>. DEFINE T == {n \in Nat : n \notin S}
<1>1. T \subseteq Nat /\ T # {}
  OBVIOUS
<1>2. \E x \in T : \A y \in T : ~ (<<y, x>> \in OpToRel(<, Nat))
  BY <1>1, NatLessThanWellFounded, WFMin, Zenon
<1>3. PICK x \in T : \A y \in T : ~ (y < x)
  BY <1>1, <1>2 DEF OpToRel
<1>4. x # 0 /\ x - 1 \in Nat /\ (x - 1) + 1 = x
  OBVIOUS
<1>5. x - 1 \in S
  BY <1>3, <1>4
<1>. QED
  BY <1>4, <1>5

-----------------------------------------------------------------------------
Word == Seq(Bytes)

\* The partial results of FlattenSeq().
PartialStep(f, seqs, i) == IF i = 1 THEN seqs[i] ELSE f[i - 1] \o seqs[i]
Flattens(f, seqs, k) == f = [i \in 1..k |-> PartialStep(f, seqs, i)]
Partial(seqs) == CHOOSE f : Flattens(f, seqs, Len(seqs))

\* Every partial result is its predecessor and the next word: a function with
\* this recursive definition exists, by induction over the sequence.
LEMMA PartialDef ==
  ASSUME NEW T, NEW seqs \in Seq(T)
  PROVE  \A i \in 1..Len(seqs) : Partial(seqs)[i] = PartialStep(Partial(seqs), seqs, i)
<1>. DEFINE Defined == {k \in Nat : \E f : Flattens(f, seqs, k)}
<1>1. 0 \in Defined
  <2>1. Flattens([i \in 1..0 |-> <<>>], seqs, 0)
    BY DEF Flattens
  <2>. QED
    BY <2>1
<1>2. ASSUME NEW k \in Nat, k \in Defined PROVE k + 1 \in Defined
  <2>1. PICK f : Flattens(f, seqs, k)
    BY <1>2
  <2>. DEFINE g == [i \in 1..(k + 1) |-> PartialStep(f, seqs, i)]
  <2>2. \A i \in 1..k : f[i] = g[i]
    BY <2>1 DEF Flattens
  <2>3. \A i \in 1..(k + 1) : PartialStep(f, seqs, i) = PartialStep(g, seqs, i)
    <3>1. \A i \in 1..(k + 1) : i # 1 => i - 1 \in 1..k
      OBVIOUS
    <3>. HIDE DEF g
    <3>. QED
      BY <2>2, <3>1 DEF PartialStep
  <2>4. Flattens(g, seqs, k + 1)
    <3>1. g = [i \in 1..(k + 1) |-> PartialStep(g, seqs, i)]
      BY <2>3, Zenon
    <3>. QED
      BY <3>1 DEF Flattens
  <2>. HIDE DEF g
  <2>. QED
    BY <2>4
<1>3. Len(seqs) \in Defined
  <2>1. Nat \subseteq Defined
    <3>. HIDE DEF Defined
    <3>. QED
      BY <1>1, <1>2, NatSetInduction
  <2>. QED
    BY <2>1
<1>4. Flattens(Partial(seqs), seqs, Len(seqs))
  BY <1>3, Zenon DEF Partial
<1>. QED
  BY <1>4 DEF Flattens

\* Words can be put together, and put together in any grouping.
LEMMA WordConcat ==
  ASSUME NEW a \in Word, NEW b \in Word
  PROVE  a \o b \in Word /\ Len(a \o b) = Len(a) + Len(b)
BY DEF Word

\* Concatenation of words is associative.
LEMMA WordAssociative ==
  ASSUME NEW a \in Word, NEW b \in Word, NEW c \in Word
  PROVE  (a \o b) \o c = a \o (b \o c)
BY DEF Word

\* Five words in two groupings: a piece moves from the fourth place to the third.
LEMMA Regroup ==
  ASSUME NEW a \in Word, NEW b \in Word, NEW c \in Word, NEW d \in Word, NEW e \in Word
  PROVE  (a \o (b \o c)) \o (d \o e) = (a \o b) \o ((c \o d) \o e)
<1>1. a \o b \in Word /\ d \o e \in Word
  BY WordConcat
<1>2. /\ a \o (b \o c) = (a \o b) \o c
      /\ ((a \o b) \o c) \o (d \o e) = (a \o b) \o (c \o (d \o e))
      /\ c \o (d \o e) = (c \o d) \o e
  <2>1. a \o (b \o c) = (a \o b) \o c
    BY WordAssociative
  <2>2. \A p \in Word, q \in Word : (p \o c) \o q = p \o (c \o q)
    BY WordAssociative
  <2>3. c \o (d \o e) = (c \o d) \o e
    BY WordAssociative
  <2>. QED
    BY <1>1, <2>1, <2>2, <2>3, Zenon
<1>. QED
  BY ONLY <1>2, Zenon

\* The empty word changes nothing.
LEMMA WordEmpty ==
  /\ <<>> \in Word
  /\ \A a \in Word : a \o <<>> = a /\ <<>> \o a = a
BY DEF Word

\* Two ways to split a word after the same number of bytes are the same.
LEMMA SameFront ==
  ASSUME NEW a \in Word, NEW b \in Word, NEW c \in Word, NEW d \in Word,
         Len(a) = Len(c), a \o b = c \o d
  PROVE  a = c /\ b = d
<1>1. \A i \in 1..Len(a) : (a \o b)[i] = a[i] /\ (c \o d)[i] = c[i]
  BY DEF Word
<1>2. a = c
  BY <1>1, Facts!SeqEqual DEF Word
<1>. QED
  BY <1>2 DEF Word

\* Partial results of words are words.
LEMMA PartialType ==
  ASSUME NEW seqs \in Seq(Word)
  PROVE  \A i \in 1..Len(seqs) : Partial(seqs)[i] \in Word
<1>. DEFINE Typed == {k \in Nat : k \in 1..Len(seqs) => Partial(seqs)[k] \in Word}
<1>1. 0 \in Typed
  OBVIOUS
<1>2. ASSUME NEW k \in Nat, k \in Typed PROVE k + 1 \in Typed
  <2>. SUFFICES ASSUME k + 1 \in 1..Len(seqs) PROVE Partial(seqs)[k + 1] \in Word
    OBVIOUS
  <2>1. seqs[k + 1] \in Word
    OBVIOUS
  <2>2. Partial(seqs)[k + 1] = PartialStep(Partial(seqs), seqs, k + 1)
    BY PartialDef
  <2>3. CASE k = 0
    BY <2>1, <2>2, <2>3 DEF PartialStep
  <2>4. CASE k # 0
    <3>0. k + 1 # 1 /\ (k + 1) - 1 = k
      BY <2>4
    <3>1. Partial(seqs)[k + 1] = Partial(seqs)[k] \o seqs[k + 1]
      BY <2>2, <3>0, Zenon DEF PartialStep
    <3>2. Partial(seqs)[k] \in Word
      BY <1>2, <2>4
    <3>. QED
      BY <2>1, <3>1, <3>2, WordConcat
  <2>. QED
    BY <2>3, <2>4
<1>3. Nat \subseteq Typed
  <2>. HIDE DEF Typed
  <2>. QED
    BY <1>1, <1>2, NatSetInduction
<1>. QED
  BY <1>3

\* Nothing flattens to nothing.
LEMMA FlattenEmpty == FlattenSeq(<<>>) = <<>>
BY DEF FlattenSeq

\* The last partial result is the result.
LEMMA FlattenPartial ==
  ASSUME NEW T, NEW seqs \in Seq(T), seqs # <<>>
  PROVE  FlattenSeq(seqs) = Partial(seqs)[Len(seqs)]
BY DEF FlattenSeq, Partial, Flattens, PartialStep

\* Words flatten to a word.
LEMMA FlattenType ==
  ASSUME NEW seqs \in Seq(Word)
  PROVE  FlattenSeq(seqs) \in Word
<1>1. CASE seqs = <<>>
  BY <1>1, FlattenEmpty, WordEmpty
<1>2. CASE seqs # <<>>
  BY <1>2, FlattenPartial, PartialType
<1>. QED
  BY <1>1, <1>2

\* A word at the end of a sequence of words ends up at the end.
LEMMA FlattenAppend ==
  ASSUME NEW seqs \in Seq(Word), NEW e \in Word
  PROVE  FlattenSeq(Append(seqs, e)) = FlattenSeq(seqs) \o e
<1>. DEFINE more == Append(seqs, e)
            n == Len(seqs)
            Same == {k \in Nat : k \in 1..n => Partial(more)[k] = Partial(seqs)[k]}
<1>0. /\ more \in Seq(Word) /\ more # <<>> /\ Len(more) = n + 1
      /\ more[n + 1] = e /\ n \in Nat
      /\ \A i \in 1..n : more[i] = seqs[i]
  OBVIOUS
<1>1. /\ \A i \in 1..(n + 1) : Partial(more)[i] = PartialStep(Partial(more), more, i)
      /\ \A i \in 1..n : Partial(seqs)[i] = PartialStep(Partial(seqs), seqs, i)
  <2>. HIDE DEF more
  <2>. QED
    BY <1>0, PartialDef
<1>. HIDE DEF more, n
<1>2. 0 \in Same
  BY <1>0
<1>3. ASSUME NEW k \in Nat, k \in Same PROVE k + 1 \in Same
  <2>. SUFFICES ASSUME k + 1 \in 1..n
                PROVE  Partial(more)[k + 1] = Partial(seqs)[k + 1]
    OBVIOUS
  <2>1. k # 0 => Partial(more)[k] = Partial(seqs)[k]
    BY <1>0, <1>3
  <2>2. PartialStep(Partial(more), more, k + 1) = PartialStep(Partial(seqs), seqs, k + 1)
    BY <1>0, <2>1 DEF PartialStep
  <2>. QED
    BY <1>0, <1>1, <2>2
<1>4. Nat \subseteq Same
  <2>. HIDE DEF Same
  <2>. QED
    BY <1>2, <1>3, NatSetInduction
<1>5. FlattenSeq(more) = Partial(more)[n + 1]
  BY <1>0, FlattenPartial
<1>6. CASE n = 0
  <2>1. seqs = <<>>
    BY <1>6 DEF n
  <2>2. FlattenSeq(more) = e
    BY <1>0, <1>1, <1>5, <1>6 DEF PartialStep
  <2>. QED
    BY <2>1, <2>2, FlattenEmpty, WordEmpty DEF more
<1>7. CASE n # 0
  <2>1. FlattenSeq(seqs) = Partial(seqs)[n]
    BY <1>7, FlattenPartial DEF n
  <2>2. Partial(more)[n] = Partial(seqs)[n]
    BY <1>0, <1>4, <1>7
  <2>3. Partial(more)[n + 1] = Partial(more)[n] \o more[n + 1]
    <3>1. n + 1 # 1 /\ (n + 1) - 1 = n /\ n + 1 \in 1..(n + 1)
      BY <1>0, <1>7
    <3>2. Partial(more)[n + 1] = PartialStep(Partial(more), more, n + 1)
      BY <1>1, <3>1
    <3>. QED
      BY <3>1, <3>2, Zenon DEF PartialStep
  <2>. QED
    BY <1>0, <1>5, <2>1, <2>2, <2>3 DEF more
<1>. QED
  BY <1>6, <1>7

\* A sequence of two elements or more has a first, a last, and what is between.
LEMMA FrontAndLast ==
  ASSUME NEW T, NEW s \in Seq(T), NEW k \in Nat, Len(s) = k + 2
  PROVE  \E front \in Seq(T), e \in T :
           /\ s = Append(front, e) /\ Len(front) = k + 1
           /\ Head(front) = Head(s) /\ Tail(front) \in Seq(T)
           /\ Tail(s) = Append(Tail(front), e)
<1>. DEFINE front == SubSeq(s, 1, k + 1)
            e == s[k + 2]
<1>1. /\ front \in Seq(T) /\ Len(front) = k + 1 /\ e \in T
      /\ \A i \in 1..(k + 1) : front[i] = s[i]
  OBVIOUS
<1>. HIDE DEF front
<1>2. /\ Head(front) = Head(s) /\ Tail(front) \in Seq(T) /\ Len(Tail(front)) = k
      /\ \A i \in 1..k : Tail(front)[i] = front[i + 1]
      /\ Tail(s) \in Seq(T) /\ Len(Tail(s)) = k + 1
      /\ \A i \in 1..(k + 1) : Tail(s)[i] = s[i + 1]
  BY <1>1
<1>3. s = Append(front, e)
  BY <1>1, Facts!SeqEqual
<1>4. Tail(s) = Append(Tail(front), e)
  BY <1>1, <1>2, Facts!SeqEqual
<1>. QED
  BY <1>1, <1>2, <1>3, <1>4

\* A sequence of one element.
LEMMA Singleton ==
  ASSUME NEW T, NEW s \in Seq(T), Len(s) = 1
  PROVE  /\ <<>> \in Seq(T) /\ Head(s) \in T /\ Tail(s) = <<>>
         /\ s = Append(<<>>, Head(s))
<1>1. Head(s) \in T /\ Tail(s) \in Seq(T) /\ Len(Tail(s)) = 0
  OBVIOUS
<1>2. Tail(s) = <<>>
  BY <1>1
<1>3. s = Append(<<>>, Head(s))
  <2>1. Append(<<>>, Head(s)) \in Seq(T)
    BY <1>1
  <2>2. /\ Len(Append(<<>>, Head(s))) = 1
        /\ Append(<<>>, Head(s))[1] = s[1]
    OBVIOUS
  <2>. QED
    BY <2>1, <2>2, Facts!SeqEqual
<1>. QED
  BY <1>1, <1>2, <1>3

\* A word at the start of a sequence of words ends up at the start: by induction
\* over the length, as FlattenSeq() builds its result from the other end.
LEMMA FlattenFirst ==
  ASSUME NEW seqs \in Seq(Word), seqs # <<>>
  PROVE  FlattenSeq(seqs) = Head(seqs) \o FlattenSeq(Tail(seqs))
<1>. DEFINE P(s) == FlattenSeq(s) = Head(s) \o FlattenSeq(Tail(s))
            Good == {k \in Nat : \A s \in Seq(Word) : Len(s) = k + 1 => P(s)}
<1>. HIDE DEF P
<1>1. 0 \in Good
  <2>. SUFFICES ASSUME NEW s \in Seq(Word), Len(s) = 1 PROVE P(s)
    OBVIOUS
  <2>1. /\ Head(s) \in Word /\ Tail(s) = <<>> /\ <<>> \in Seq(Word)
        /\ s = Append(<<>>, Head(s))
    BY Singleton
  <2>2. FlattenSeq(Append(<<>>, Head(s))) = FlattenSeq(<<>>) \o Head(s)
    BY <2>1, FlattenAppend
  <2>3. FlattenSeq(s) = FlattenSeq(<<>>) \o Head(s)
    BY <2>1, <2>2, Zenon
  <2>. QED
    BY <2>1, <2>3, FlattenEmpty, WordEmpty DEF P
<1>2. ASSUME NEW k \in Nat, k \in Good PROVE k + 1 \in Good
  <2>. SUFFICES ASSUME NEW s \in Seq(Word), Len(s) = k + 2 PROVE P(s)
    OBVIOUS
  <2>1. PICK front \in Seq(Word), e \in Word :
          /\ s = Append(front, e) /\ Len(front) = k + 1
          /\ Head(front) = Head(s) /\ Tail(front) \in Seq(Word)
          /\ Tail(s) = Append(Tail(front), e)
    BY FrontAndLast
  <2>2. FlattenSeq(front) = Head(front) \o FlattenSeq(Tail(front))
    BY <1>2, <2>1 DEF P
  <2>3. FlattenSeq(s) = FlattenSeq(front) \o e
    BY <2>1, FlattenAppend, Zenon
  <2>4. FlattenSeq(Tail(s)) = FlattenSeq(Tail(front)) \o e
    BY <2>1, FlattenAppend, Zenon
  <2>5. FlattenSeq(Tail(front)) \in Word /\ Head(s) \in Word
    <3>1. FlattenSeq(Tail(front)) \in Word
      BY <2>1, FlattenType
    <3>. QED
      BY <3>1
  <2>6. FlattenSeq(s) = (Head(s) \o FlattenSeq(Tail(front))) \o e
    BY <2>1, <2>2, <2>3, Zenon
  <2>7. FlattenSeq(s) = Head(s) \o (FlattenSeq(Tail(front)) \o e)
    BY <2>1, <2>5, <2>6, WordAssociative, Zenon
  <2>. QED
    BY <2>4, <2>7, Zenon DEF P
<1>3. Nat \subseteq Good
  <2>. HIDE DEF Good
  <2>. QED
    BY <1>1, <1>2, NatSetInduction
<1>4. Len(seqs) - 1 \in Nat /\ Len(seqs) = (Len(seqs) - 1) + 1
  OBVIOUS
<1>. QED
  BY <1>3, <1>4 DEF P

-----------------------------------------------------------------------------
\* Digits of a number of two digits, in any base.
LEMMA DivMod ==
  ASSUME NEW B \in Nat, B > 1, NEW n \in 0..(B * B - 1)
  PROVE  /\ n \div B \in 0..(B - 1) /\ n % B \in 0..(B - 1)
         /\ (n \div B) * B + (n % B) = n
OBVIOUS

\* The number of two digits has these digits.
LEMMA MulAdd ==
  ASSUME NEW B \in Nat, B > 1, NEW a \in 0..(B - 1), NEW b \in 0..(B - 1)
  PROVE  /\ a * B + b \in 0..(B * B - 1)
         /\ (a * B + b) \div B = a /\ (a * B + b) % B = b
<1>1. a * B + b \in 0..(B * B - 1)
  OBVIOUS
<1>2. (a * B + b) \div B = a
  OBVIOUS
<1>3. (a * B + b) % B = b
  OBVIOUS
<1>. QED
  BY <1>1, <1>2, <1>3

\* The smaller of two numbers.
LEMMA MinPair ==
  ASSUME NEW a \in Int, NEW b \in Int
  PROVE  Min({a, b}) \in {a, b} /\ Min({a, b}) <= a /\ Min({a, b}) <= b
BY DEF Min

Lengths == 0..(Base * Base - 1)

\* htons() of a length is two bytes, and ntohs() takes it back.
LEMMA HeaderOfLength ==
  ASSUME NEW n \in Lengths
  PROVE  Header(n) \in Word /\ Len(Header(n)) = 2 /\ Value(Header(n)) = n
<1>0. Base \in Nat /\ Base > 1 /\ n \in 0..(Base * Base - 1)
  BY ConstantsAssumption DEF ConstantsAssumption, Lengths
<1>1. n \div Base \in Bytes /\ n % Base \in Bytes /\ (n \div Base) * Base + (n % Base) = n
  BY ONLY <1>0, DivMod, Zenon DEF Bytes
<1>. QED
  BY <1>1 DEF Header, Value, Word

\* Any two bytes are the header of the length they stand for.
LEMMA LengthOfHeader ==
  ASSUME NEW h \in Word, Len(h) = 2
  PROVE  Value(h) \in Lengths /\ Header(Value(h)) = h
<1>0. Base \in Nat /\ Base > 1
  BY ConstantsAssumption DEF ConstantsAssumption
<1>1. h[1] \in 0..(Base - 1) /\ h[2] \in 0..(Base - 1)
  <2>1. h[1] \in Bytes /\ h[2] \in Bytes
    BY DEF Word
  <2>. QED
    BY <2>1 DEF Bytes
<1>2. /\ h[1] * Base + h[2] \in Lengths
      /\ (h[1] * Base + h[2]) \div Base = h[1] /\ (h[1] * Base + h[2]) % Base = h[2]
  BY <1>0, <1>1, MulAdd, Zenon DEF Lengths
<1>3. h = <<h[1], h[2]>>
  BY DEF Word
<1>. QED
  BY <1>2, <1>3 DEF Header, Value

\* A message on the wire is two bytes longer.
LEMMA WireType ==
  ASSUME NEW m \in Messages
  PROVE  /\ m \in Word /\ Len(m) \in Lengths /\ Wire(m) \in Word
         /\ Header(Len(m)) \in Word /\ Len(Wire(m)) = Len(m) + 2
<1>1. m \in Word /\ Len(m) \in Lengths
  BY ConstantsAssumption DEF ConstantsAssumption, Word, Lengths
<1>2. Header(Len(m)) \in Word /\ Len(Header(Len(m))) = 2
  BY <1>1, HeaderOfLength
<1>3. Header(Len(m)) \o m \in Word /\ Len(Header(Len(m)) \o m) = Len(m) + 2
  <2>. DEFINE h == Header(Len(m))
  <2>. HIDE DEF h
  <2>1. h \in Word /\ Len(h) = 2
    BY <1>2 DEF h
  <2>2. h \o m \in Word /\ Len(h \o m) = 2 + Len(m)
    BY <1>1, <2>1, WordConcat, Zenon
  <2>3. Len(m) \in Nat
    BY <1>1 DEF Word
  <2>. QED
    BY <2>2, <2>3 DEF h
<1>. QED
  BY <1>1, <1>2, <1>3 DEF Wire

\* A header and part of a body.
LEMMA HeaderBody ==
  ASSUME NEW n \in Lengths, NEW b \in Word
  PROVE  Header(n) \o b \in Word /\ Len(Header(n) \o b) = 2 + Len(b)
<1>1. Header(n) \in Word /\ Len(Header(n)) = 2
  BY HeaderOfLength
<1>2. Header(n) \o b \in Word /\ Len(Header(n) \o b) = Len(Header(n)) + Len(b)
  BY <1>1, WordConcat, Zenon
<1>. QED
  BY <1>1, <1>2, Zenon

\* A message on the wire and what follows it.
LEMMA WireBody ==
  ASSUME NEW m \in Messages, NEW y \in Word
  PROVE  Len(Wire(m) \o y) = (Len(m) + 2) + Len(y)
<1>1. Wire(m) \in Word /\ Len(Wire(m)) = Len(m) + 2
  BY WireType
<1>2. Len(Wire(m) \o y) = Len(Wire(m)) + Len(y)
  BY <1>1, WordConcat, Zenon
<1>. QED
  BY <1>1, <1>2, Zenon

\* If what has been read starts with a header, the body read up to the
\* length it announces is the message.
LEMMA FirstWire ==
  ASSUME NEW m \in Messages, NEW n \in Lengths, NEW b \in Word, NEW x \in Word, NEW y \in Word,
         (Header(n) \o b) \o x = Wire(m) \o y
  PROVE  n = Len(m) /\ (Len(b) = n => b = m /\ x = y)
<1>1. /\ Header(n) \in Word /\ Len(Header(n)) = 2 /\ Value(Header(n)) = n
      /\ Header(Len(m)) \in Word /\ Len(Header(Len(m))) = 2
      /\ Value(Header(Len(m))) = Len(m) /\ m \in Word
  BY HeaderOfLength, WireType
<1>2. Header(n) \o (b \o x) = Header(Len(m)) \o (m \o y)
  BY <1>1, WordAssociative DEF Wire
<1>. DEFINE h == Header(n)
            g == Header(Len(m))
<1>. HIDE DEF h, g
<1>3. h = g /\ b \o x = m \o y
  <2>1. h \in Word /\ g \in Word /\ Len(h) = 2 /\ Len(g) = 2 /\ b \o x \in Word
        /\ m \o y \in Word /\ h \o (b \o x) = g \o (m \o y)
    BY <1>1, <1>2, WordConcat DEF h, g
  <2>. DEFINE bx == b \o x
              my == m \o y
  <2>. HIDE DEF bx, my
  <2>2. /\ h \in Word /\ g \in Word /\ bx \in Word /\ my \in Word
        /\ Len(h) = Len(g) /\ h \o bx = g \o my
    BY <2>1 DEF bx, my
  <2>3. h = g /\ bx = my
    BY ONLY <2>2, SameFront, Zenon
  <2>. QED
    BY <2>3 DEF bx, my
<1>4. n = Len(m)
  BY <1>1, <1>3 DEF h, g
<1>5. ASSUME Len(b) = n PROVE b = m /\ x = y
  BY <1>1, <1>3, <1>4, <1>5, SameFront
<1>. QED
  BY <1>4, <1>5

-----------------------------------------------------------------------------
\* The type invariant, with the sets of words and lengths named.
Typed ==
  /\ stream \in Word /\ Len(stream) <= Capacity
  /\ wpc \in {"idle", "length", "body", "closed"}
  /\ msg \in Word /\ out \in Word
  /\ rpc \in {"idle", "length", "body", "stopped"}
  /\ in \in Word /\ count \in Lengths /\ Len(in) <= count
  /\ sent \in Seq(Messages) /\ received \in Seq(Word)
  /\ result \in {"none", "eof", "interrupted", "no_memory", "error"}
  /\ reset \in BOOLEAN /\ lost \in Word /\ torn \in BOOLEAN

\* Typed is the type invariant.
LEMMA TypedIsTypeOK == TypeOK <=> Typed
BY DEF TypeOK, Typed, Word, Lengths

\* Where the reader is, torn or not.
Place == (rpc = "length" => count = 2) /\ (result = "eof" => rpc = "stopped")

\* The bytes under way: what the kernel still holds and what a reset took.
UnderWay == stream \o lost
LostByReset == lost # <<>> => reset

\* A word split after k bytes.
LEMMA SplitWord ==
  ASSUME NEW w \in Word, NEW k \in 0..Len(w)
  PROVE  /\ SubSeq(w, 1, k) \in Word /\ SubSeq(w, k + 1, Len(w)) \in Word
         /\ Len(SubSeq(w, 1, k)) = k
         /\ w = SubSeq(w, 1, k) \o SubSeq(w, k + 1, Len(w))
<1>1. /\ SubSeq(w, 1, k) \in Word /\ SubSeq(w, k + 1, Len(w)) \in Word
      /\ Len(SubSeq(w, 1, k)) = k
  BY DEF Word
<1>2. w = SubSeq(w, 1, k) \o SubSeq(w, k + 1, Len(w))
  <2>. DEFINE a == SubSeq(w, 1, k)
              b == SubSeq(w, k + 1, Len(w))
  <2>1. /\ a \in Seq(Bytes) /\ b \in Seq(Bytes) /\ w \in Seq(Bytes)
        /\ Len(a) = k /\ Len(b) = Len(w) - k
        /\ \A i \in 1..k : a[i] = w[i]
        /\ \A i \in 1..(Len(w) - k) : b[i] = w[k + i]
    BY DEF Word
  <2>. HIDE DEF a, b
  <2>2. a \o b \in Seq(Bytes) /\ Len(a \o b) = Len(w)
    BY <2>1
  <2>3. ASSUME NEW i \in 1..Len(w) PROVE (a \o b)[i] = w[i]
    <3>1. CASE i <= k
      BY <2>1, <3>1
    <3>2. CASE i > k
      <4>1. i - k \in 1..(Len(w) - k) /\ k + (i - k) = i
        BY <2>1, <3>2
      <4>2. (a \o b)[i] = b[i - k]
        BY <2>1, <3>2, <4>1
      <4>3. b[i - k] = w[k + (i - k)]
        BY <2>1, <4>1
      <4>. QED
        BY <4>1, <4>2, <4>3
    <3>3. i <= k \/ i > k
      OBVIOUS
    <3>. QED
      BY ONLY <3>1, <3>2, <3>3, Zenon
  <2>4. w = a \o b
    BY <2>1, <2>2, <2>3, Facts!SeqEqual
  <2>. QED
    BY <2>4 DEF a, b
<1>. QED
  BY <1>1, <1>2

\* A transfer moves the first bytes of the writer to the end of those under way.
LEMMA TransferPiece ==
  ASSUME Typed, LostByReset, NEW k \in 1..Capacity, Transfer(k)
  PROVE  \E piece \in Word, rest \in Word :
           /\ out = piece \o rest /\ out' = rest /\ out # <<>>
           /\ UnderWay' = UnderWay \o piece
<1>1. /\ out \in Word /\ stream \in Word /\ lost \in Word
      /\ k \in 0..Len(out) /\ out # <<>>
  BY ConstantsAssumption DEF Typed, Transfer, ConstantsAssumption, Word
<1>. DEFINE piece == SubSeq(out, 1, k)
            rest == SubSeq(out, k + 1, Len(out))
<1>2. piece \in Word /\ rest \in Word /\ out = piece \o rest
  BY <1>1, SplitWord
<1>3. /\ out' = rest
      /\ \/ ~reset /\ stream' = stream \o piece /\ lost' = lost
         \/ lost' = lost \o piece /\ stream' = stream
  BY DEF Transfer
<1>. HIDE DEF piece, rest
<1>4. UnderWay' = UnderWay \o piece
  <2>1. CASE ~reset /\ stream' = stream \o piece /\ lost' = lost
    <3>1. lost = <<>>
      BY <2>1 DEF LostByReset
    <3>. QED
      BY <1>1, <1>2, <2>1, <3>1, WordConcat, WordEmpty DEF UnderWay
  <2>2. CASE lost' = lost \o piece /\ stream' = stream
    BY <1>1, <1>2, <2>2, WordAssociative DEF UnderWay
  <2>. QED
    BY <1>3, <2>1, <2>2
<1>. QED
  BY <1>1, <1>2, <1>3, <1>4

\* A transfer keeps the types.
LEMMA TransferType ==
  ASSUME Typed, NEW k \in 1..Capacity, Transfer(k)
  PROVE  out' \in Word /\ stream' \in Word /\ Len(stream') <= Capacity /\ lost' \in Word
<1>1. /\ out \in Word /\ stream \in Word /\ lost \in Word /\ k \in 0..Len(out)
  BY ConstantsAssumption DEF Typed, Transfer, ConstantsAssumption, Word
<1>. DEFINE piece == SubSeq(out, 1, k)
<1>2. piece \in Word /\ Len(piece) = k /\ out' \in Word
  BY <1>1, SplitWord DEF Transfer
<1>3. \/ /\ stream' = stream \o piece /\ lost' = lost
         /\ Len(stream) + k <= Capacity
      \/ lost' = lost \o piece /\ stream' = stream
  BY DEF Transfer
<1>. HIDE DEF piece
<1>4. /\ stream \o piece \in Word /\ lost \o piece \in Word
      /\ Len(stream \o piece) = Len(stream) + k
  BY <1>1, <1>2, WordConcat, Zenon
<1>. QED
  BY <1>1, <1>2, <1>3, <1>4 DEF Typed

\* A reset moves bytes from the stream to those that are lost.
LEMMA ResetPiece ==
  ASSUME Typed, PeerResets
  PROVE  /\ stream' \in Word /\ lost' \in Word /\ Len(stream') <= Len(stream)
         /\ UnderWay' = stream
<1>1. PICK k \in 0..Len(stream) :
        stream' = SubSeq(stream, 1, k) /\ lost' = SubSeq(stream, k + 1, Len(stream))
  BY DEF PeerResets
<1>2. /\ SubSeq(stream, 1, k) \in Word /\ SubSeq(stream, k + 1, Len(stream)) \in Word
      /\ Len(SubSeq(stream, 1, k)) = k
      /\ stream = SubSeq(stream, 1, k) \o SubSeq(stream, k + 1, Len(stream))
  BY SplitWord DEF Typed
<1>3. k <= Len(stream)
  BY DEF Typed, Word
<1>4. UnderWay' = stream
  BY <1>1, <1>2 DEF UnderWay
<1>. QED
  BY <1>1, <1>2, <1>3, <1>4

\* A round of read_wait() takes the first bytes of the stream.
LEMMA ReadPiece ==
  ASSUME Typed, Read
  PROVE  \E piece \in Word, rest \in Word :
           /\ UnderWay = piece \o rest /\ UnderWay' = rest /\ in \o piece \in Word
           /\ stream' \in Word /\ Len(stream') <= Len(stream)
           /\ InRead /\ UNCHANGED <<writer, reset, lost>>
           /\ \/ /\ Len(in) = count /\ Fail("eof")
                 /\ UNCHANGED <<in, count, received, torn>>
              \/ /\ Len(in \o piece) = count
                 /\ GotLength(in \o piece) \/ GotBody(in \o piece)
              \/ /\ Len(in \o piece) < count /\ in' = in \o piece
                 /\ UNCHANGED <<rpc, count, received, result, torn>>
<1>. DEFINE k == Min({Missing, Len(stream)})
            piece == SubSeq(stream, 1, k)
            left == SubSeq(stream, k + 1, Len(stream))
<1>1. /\ in \in Word /\ stream \in Word /\ Len(in) \in Nat /\ count \in Nat
      /\ Len(in) <= count /\ Len(stream) \in Nat /\ Len(stream) # 0
      /\ Missing = count - Len(in)
  <2>1. Base \in Nat /\ Base * Base \in Nat
    BY ConstantsAssumption DEF ConstantsAssumption
  <2>. QED
    BY <2>1 DEF Typed, Read, Missing, Word, Lengths
<1>2. k \in {Missing, Len(stream)} /\ k <= Missing /\ k <= Len(stream)
  <2>1. Missing \in Int /\ Len(stream) \in Int
    BY <1>1
  <2>. QED
    BY ONLY <2>1, MinPair, Zenon
<1>3. /\ stream' = left /\ UNCHANGED <<writer, reset, lost>> /\ InRead
      /\ IF k = 0
           THEN Fail("eof") /\ UNCHANGED <<in, count, received, torn>>
           ELSE IF Len(in \o piece) = count
             THEN GotLength(in \o piece) \/ GotBody(in \o piece)
             ELSE in' = in \o piece /\ UNCHANGED <<rpc, count, received, result, torn>>
  BY DEF Read, AllBytes
<1>. HIDE DEF k
<1>4. k \in 0..Len(stream)
  BY <1>1, <1>2
<1>5. /\ piece \in Word /\ left \in Word /\ Len(piece) = k /\ stream = piece \o left
  BY <1>1, <1>4, SplitWord
<1>. HIDE DEF piece, left
<1>6. /\ in \o piece \in Word /\ Len(in \o piece) = Len(in) + k
      /\ Len(left) <= Len(stream)
  <2>1. /\ in \o piece \in Word /\ Len(in \o piece) = Len(in) + k
        /\ Len(piece \o left) = k + Len(left)
    BY <1>1, <1>5, WordConcat, Zenon
  <2>2. Len(left) \in Nat
    BY <1>5 DEF Word
  <2>. QED
    BY <1>4, <1>5, <2>1, <2>2
<1>7. \/ /\ Len(in) = count /\ Fail("eof")
         /\ UNCHANGED <<in, count, received, torn>>
      \/ /\ Len(in \o piece) = count
         /\ GotLength(in \o piece) \/ GotBody(in \o piece)
      \/ /\ Len(in \o piece) < count /\ in' = in \o piece
         /\ UNCHANGED <<rpc, count, received, result, torn>>
  <2>1. k = 0 => Len(in) = count
    BY <1>1, <1>2
  <2>2. Len(in \o piece) = count \/ Len(in \o piece) < count
    BY <1>1, <1>2, <1>6
  <2>. QED
    BY ONLY <1>3, <2>1, <2>2, Zenon
<1>8. UnderWay = piece \o (left \o lost) /\ UnderWay' = left \o lost /\ left \o lost \in Word
  <2>1. lost \in Word /\ lost' = lost
    BY <1>3 DEF Typed
  <2>. QED
    BY <1>3, <1>5, <2>1, WordAssociative, WordConcat DEF UnderWay
<1>. QED
  BY ONLY <1>3, <1>5, <1>6, <1>7, <1>8, Zenon

\* The lengths the reader starts from.
LEMMA SmallLengths ==
  /\ 0 \in Lengths /\ 2 \in Lengths /\ Lengths \subseteq Nat
<1>1. Base \in Nat /\ Base >= 2 /\ Base * Base >= 4
  BY ConstantsAssumption DEF ConstantsAssumption
<1>. QED
  BY <1>1 DEF Lengths

\* Every step keeps the types and the place of the reader.
LEMMA TypeStep ==
  ASSUME Typed, Place, [Next]_vars
  PROVE  Typed' /\ Place'
<1>. USE DEF Typed, Place, vars, writer, reader
<1>0. <<>> \in Word /\ Len(<<>>) = 0 /\ 0 \in Lengths /\ 2 \in Lengths /\ 0 <= 2
  BY WordEmpty, SmallLengths
<1>1. ASSUME NEW m \in Messages, WriteDelimited(m) PROVE Typed' /\ Place'
  <2>1. m \in Word /\ Header(Len(m)) \in Word
    BY WireType
  <2>. QED
    BY <1>1, <2>1 DEF WriteDelimited
<1>2. ASSUME NEW k \in 1..Capacity, Transfer(k) PROVE Typed' /\ Place'
  BY <1>2, TransferType DEF Transfer
<1>3. CASE WriteReturns
  <2>1. lost' \in Word /\ torn' \in BOOLEAN
    BY <1>3, WordConcat DEF WriteReturns, Abandon
  <2>. QED
    BY <1>0, <1>3, <2>1 DEF WriteReturns, BodyAfterLength
<1>4. CASE WriteFails
  <2>1. lost' \in Word /\ torn' \in BOOLEAN
    <3>1. Pending \in Word
      BY WordConcat DEF Pending
    <3>. QED
      BY <1>4, <3>1, WordConcat DEF WriteFails, Abandon
  <2>. QED
    BY <1>0, <1>4, <2>1 DEF WriteFails
<1>5. CASE WriterCloses
  BY <1>5 DEF WriterCloses
<1>6. CASE ReadDelimited
  BY <1>0, <1>6 DEF ReadDelimited
<1>7. CASE Read
  <2>1. PICK piece \in Word, rest \in Word :
           /\ UnderWay = piece \o rest /\ UnderWay' = rest /\ in \o piece \in Word
           /\ stream' \in Word /\ Len(stream') <= Len(stream)
           /\ InRead /\ UNCHANGED <<writer, reset, lost>>
           /\ \/ /\ Len(in) = count /\ Fail("eof")
                 /\ UNCHANGED <<in, count, received, torn>>
              \/ /\ Len(in \o piece) = count
                 /\ GotLength(in \o piece) \/ GotBody(in \o piece)
              \/ /\ Len(in \o piece) < count /\ in' = in \o piece
                 /\ UNCHANGED <<rpc, count, received, result, torn>>
    BY <1>7, ReadPiece
  <2>2. Len(stream') <= Capacity
    BY <2>1, ConstantsAssumption DEF ConstantsAssumption, Word
  <2>3. CASE Fail("eof") /\ UNCHANGED <<in, count, received, torn>>
    BY <2>1, <2>2, <2>3 DEF Fail
  <2>4. CASE Len(in \o piece) = count /\ GotLength(in \o piece)
    <3>1. rpc = "length" /\ count = 2
      BY <2>4 DEF GotLength
    <3>2. Value(in \o piece) \in Lengths
      BY <2>1, <2>4, <3>1, LengthOfHeader
    <3>3. CASE rpc' = "body" /\ in' = <<>> /\ count' = Value(in \o piece) /\ UNCHANGED <<result, torn>>
      <4>1. 0 <= Value(in \o piece)
        <5>1. Value(in \o piece) \in Nat
          BY <3>2, SmallLengths
        <5>. QED
          BY <5>1
      <4>. QED
        BY <1>0, <2>1, <2>2, <2>4, <3>1, <3>2, <3>3, <4>1 DEF GotLength
    <3>4. CASE Fail("no_memory") /\ UNCHANGED <<in, count>>
      BY <2>1, <2>2, <2>4, <3>1, <3>4 DEF GotLength, Fail
    <3>. QED
      BY <2>4, <3>3, <3>4 DEF GotLength
  <2>5. CASE GotBody(in \o piece)
    <3>1. received' \in Seq(Word)
      BY <2>1, <2>5 DEF GotBody
    <3>. QED
      BY <1>0, <2>1, <2>2, <2>5, <3>1 DEF GotBody
  <2>6. CASE /\ Len(in \o piece) < count /\ in' = in \o piece
             /\ UNCHANGED <<rpc, count, received, result, torn>>
    <3>1. Len(in \o piece) \in Nat /\ count \in Nat
      BY <2>1, SmallLengths DEF Word
    <3>2. Len(in \o piece) <= count
      BY <2>6, <3>1
    <3>. QED
      BY <2>1, <2>2, <2>6, <3>2
  <2>. QED
    BY ONLY <2>1, <2>3, <2>4, <2>5, <2>6
<1>8. CASE ReadEof
  <2>1. InHand \in Word
    <3>1. Header(count) \in Word
      BY HeaderOfLength
    <3>. QED
      BY <1>0, <3>1, WordConcat DEF InHand
  <2>2. InHand \o lost \in Word
    BY <2>1, WordConcat
  <2>. QED
    BY <1>8, <2>2 DEF ReadEof, Fail
<1>9. CASE ReadInterrupted
  BY <1>9 DEF ReadInterrupted, Fail
<1>10. CASE ReadFails
  BY <1>10 DEF ReadFails, Fail
<1>11. CASE PeerResets
  <2>1. Len(stream') <= Capacity
    BY <1>11, ResetPiece, ConstantsAssumption DEF ConstantsAssumption, Word
  <2>. QED
    BY <1>11, <2>1, ResetPiece DEF PeerResets
<1>12. CASE UNCHANGED vars
  BY <1>12
<1>. QED
  BY ONLY <1>1, <1>2, <1>3, <1>4, <1>5, <1>6, <1>7, <1>8, <1>9, <1>10, <1>11, <1>12, [Next]_vars
     DEF Next, WriterStep, ReaderStep, Finished

-----------------------------------------------------------------------------
\* The encoded messages that have not been received yet.
Rest == [i \in 1..(Len(sent) - Len(received)) |-> Wire(sent[Len(received) + i])]

\* What holds until the stream is torn.
OutIsWritten  == wpc \in {"idle", "closed"} => out = <<>>
StillMissing  == InRead => Len(in) < count
NoEmptySent   == \A i \in 1..Len(sent) : sent[i] # <<>>
Conserved     == (InHand \o UnderWay) \o Pending = FlattenSeq(Rest)
EndIsEnd      ==
  result = "eof" => stream = <<>> /\ (reset \/ (wpc = "closed" /\ received = sent))

Clean ==
  /\ OutIsWritten /\ StillMissing /\ NoEmptySent
  /\ SafelyDelimited /\ Conserved /\ EndIsEnd /\ LostByReset
Whole == ~torn => Clean

IInv == Typed /\ Place /\ Whole

\* A prefix agrees element by element.
LEMMA PrefixElements ==
  ASSUME NEW r \in Seq(Word), NEW s \in Seq(Word)
  PROVE  IsPrefix(r, s) <=> Len(r) <= Len(s) /\ \A i \in 1..Len(r) : r[i] = s[i]
<1>1. ASSUME Len(r) <= Len(s)
      PROVE  SubSeq(r, 1, Len(r)) = SubSeq(s, 1, Len(r)) <=> \A i \in 1..Len(r) : r[i] = s[i]
  <2>. DEFINE a == SubSeq(r, 1, Len(r))
              b == SubSeq(s, 1, Len(r))
  <2>1. /\ a \in Seq(Word) /\ b \in Seq(Word) /\ Len(a) = Len(r) /\ Len(b) = Len(r)
        /\ \A i \in 1..Len(r) : a[i] = r[i] /\ b[i] = s[i]
    BY <1>1
  <2>. HIDE DEF a, b
  <2>2. a = b <=> \A i \in 1..Len(r) : a[i] = b[i]
    BY <2>1, Facts!SeqEqual
  <2>3. a = b <=> \A i \in 1..Len(r) : r[i] = s[i]
    BY <2>1, <2>2
  <2>. QED
    BY <2>3 DEF a, b
<1>. QED
  BY <1>1 DEF IsPrefix

\* Messages sent are words, and those to receive make a sequence of words.
LEMMA SentAreWords ==
  ASSUME Typed
  PROVE  /\ sent \in Seq(Word)
         /\ Len(sent) \in Nat /\ Len(received) \in Nat
         /\ Messages \subseteq Word
         /\ Len(received) <= Len(sent) => Rest \in Seq(Word) /\ Len(Rest) = Len(sent) - Len(received)
<1>1. Messages \subseteq Word
  BY WireType
<1>2. /\ sent \in Seq(Word) /\ sent \in Seq(Messages)
      /\ Len(sent) \in Nat /\ Len(received) \in Nat
  BY <1>1 DEF Typed
<1>3. ASSUME Len(received) <= Len(sent)
      PROVE  Rest \in Seq(Word) /\ Len(Rest) = Len(sent) - Len(received)
  <2>1. \A i \in 1..(Len(sent) - Len(received)) : sent[Len(received) + i] \in Messages
    BY <1>2
  <2>2. \A i \in 1..(Len(sent) - Len(received)) : Wire(sent[Len(received) + i]) \in Word
    BY <2>1, WireType
  <2>. QED
    BY <1>2, <1>3, <2>2 DEF Rest
<1>. QED
  BY <1>1, <1>2, <1>3

\* An element more.
LEMMA AppendIsSeq ==
  ASSUME NEW T, NEW s \in Seq(T), NEW e \in T
  PROVE  Append(s, e) \in Seq(T) /\ Len(Append(s, e)) = Len(s) + 1
OBVIOUS

\* A sequence is the function of its elements.
LEMMA SeqAsFunction ==
  ASSUME NEW T, NEW s \in Seq(T)
  PROVE  s = [i \in 1..Len(s) |-> s[i]]
OBVIOUS

\* A message more is one more to receive.
LEMMA RestSend ==
  ASSUME Typed, Len(received) <= Len(sent), NEW m \in Messages,
         sent' = Append(sent, m), received' = received
  PROVE  Rest' = Append(Rest, Wire(m))
<1>. DEFINE n == Len(sent) - Len(received)
            more == Append(Rest, Wire(m))
<1>1. /\ sent \in Seq(Messages) /\ Rest \in Seq(Word) /\ Len(Rest) = n
      /\ Wire(m) \in Word /\ n \in Nat /\ Len(sent) \in Nat /\ Len(received) \in Nat
  BY SentAreWords, WireType DEF Typed
<1>2. Rest' = [i \in 1..(n + 1) |-> Wire(Append(sent, m)[Len(received) + i])]
  <2>1. Len(Append(sent, m)) - Len(received) = n + 1
    BY <1>1
  <2>. QED
    BY <2>1 DEF Rest
<1>3. more \in Seq(Word) /\ Len(more) = n + 1
  BY <1>1, AppendIsSeq
<1>4. ASSUME NEW i \in 1..(n + 1)
      PROVE  more[i] = Wire(Append(sent, m)[Len(received) + i])
  <2>1. CASE i <= n
    <3>1. i \in 1..n
      BY <1>1, <2>1
    <3>2. more[i] = Rest[i]
      BY <1>1, <3>1
    <3>3. Rest[i] = Wire(sent[Len(received) + i])
      BY <3>1 DEF Rest
    <3>4. Append(sent, m)[Len(received) + i] = sent[Len(received) + i]
      BY <1>1, <3>1
    <3>. QED
      BY <3>2, <3>3, <3>4
  <2>2. CASE i = n + 1
    <3>1. Len(received) + i = Len(sent) + 1
      BY <1>1, <2>2
    <3>2. Append(sent, m)[Len(sent) + 1] = m
      BY <1>1
    <3>3. more[i] = Wire(m)
      BY <1>1, <2>2
    <3>. QED
      BY <3>1, <3>2, <3>3
  <2>. QED
    BY <1>1, <2>1, <2>2
<1>. HIDE DEF n, more
<1>5. more = Rest'
  <2>1. more = [i \in 1..(n + 1) |-> more[i]]
    BY <1>3
  <2>. QED
    BY <1>2, <1>4, <2>1
<1>. QED
  BY <1>5 DEF more

\* The first of the messages to receive.
LEMMA RestFirst ==
  ASSUME Typed, Len(received) < Len(sent)
  PROVE  /\ sent[Len(received) + 1] \in Messages
         /\ FlattenSeq(Tail(Rest)) \in Word
         /\ FlattenSeq(Rest) = Wire(sent[Len(received) + 1]) \o FlattenSeq(Tail(Rest))
         /\ Tail(Rest) = [i \in 1..(Len(sent) - (Len(received) + 1)) |->
                            Wire(sent[(Len(received) + 1) + i])]
<1>1. /\ sent \in Seq(Messages) /\ Rest \in Seq(Word)
      /\ Len(Rest) = Len(sent) - Len(received)
      /\ Len(sent) \in Nat /\ Len(received) \in Nat
  BY SentAreWords DEF Typed
<1>2. sent[Len(received) + 1] \in Messages
  BY <1>1
<1>3. Rest # <<>> /\ Tail(Rest) \in Seq(Word) /\ Head(Rest) = Rest[1]
  BY <1>1
<1>4. Rest[1] = Wire(sent[Len(received) + 1])
  BY <1>1 DEF Rest
<1>5. FlattenSeq(Rest) = Head(Rest) \o FlattenSeq(Tail(Rest))
  BY <1>1, <1>3, FlattenFirst
<1>6. FlattenSeq(Tail(Rest)) \in Word
  BY <1>3, FlattenType
<1>7. Tail(Rest) = [i \in 1..(Len(sent) - (Len(received) + 1)) |->
                      Wire(sent[(Len(received) + 1) + i])]
  <2>1. \A i \in 1..(Len(Rest) - 1) : Tail(Rest)[i] = Rest[i + 1]
    BY <1>1, <1>3
  <2>2. \A i \in 1..(Len(Rest) - 1) : Rest[i + 1] = Wire(sent[Len(received) + (i + 1)])
    BY <1>1 DEF Rest
  <2>3. \A i \in 1..(Len(Rest) - 1) : Len(received) + (i + 1) = (Len(received) + 1) + i
    BY <1>1
  <2>4. Tail(Rest) = [i \in 1..(Len(Rest) - 1) |-> Tail(Rest)[i]]
    <3>1. Len(Tail(Rest)) = Len(Rest) - 1
      BY <1>1, <1>3
    <3>. QED
      BY <1>3, <3>1, SeqAsFunction
  <2>5. Tail(Rest) = [i \in 1..(Len(Rest) - 1) |-> Wire(sent[(Len(received) + 1) + i])]
    BY <2>1, <2>2, <2>3, <2>4
  <2>6. Len(Rest) - 1 = Len(sent) - (Len(received) + 1)
    BY <1>1
  <2>. QED
    BY <2>5, <2>6
<1>. QED
  BY <1>2, <1>3, <1>4, <1>5, <1>6, <1>7

\* If there is nothing left to receive, nothing is left anywhere.
LEMMA RestNone ==
  ASSUME Typed, Len(received) = Len(sent)
  PROVE  FlattenSeq(Rest) = <<>>
<1>1. Rest \in Seq(Word) /\ Len(Rest) = 0
  BY SentAreWords
<1>2. Rest = <<>>
  BY <1>1
<1>. QED
  BY <1>2, FlattenEmpty

\* What the reader, the kernel and the writer hold are words.
LEMMA PartsAreWords ==
  ASSUME Typed
  PROVE  InHand \in Word /\ Pending \in Word /\ UnderWay \in Word
<1>1. Header(count) \in Word
  BY HeaderOfLength DEF Typed
<1>. QED
  BY <1>1, WordConcat, WordEmpty DEF Typed, InHand, Pending, UnderWay

-----------------------------------------------------------------------------
\* What the reader has in hand is part of the message it is to receive next.
LEMMA NextMessage ==
  ASSUME Typed, Clean, NEW n \in Lengths, NEW b \in Word, NEW x \in Word,
         (Header(n) \o b) \o x = FlattenSeq(Rest)
  PROVE  /\ Len(received) < Len(sent)
         /\ n = Len(sent[Len(received) + 1]) /\ n > 0
         /\ Len(b) = n => b = sent[Len(received) + 1] /\ x = FlattenSeq(Tail(Rest))
<1>. DEFINE m == sent[Len(received) + 1]
<1>1. /\ Header(n) \in Word /\ Len(Header(n)) = 2
  BY HeaderOfLength
<1>2. (Header(n) \o b) \o x # <<>>
  <2>. DEFINE hb == Header(n) \o b
  <2>1. hb \in Word /\ Len(hb) = 2 + Len(b)
    BY HeaderBody
  <2>. HIDE DEF hb
  <2>2. Len(hb \o x) = Len(hb) + Len(x)
    BY <2>1, WordConcat
  <2>3. Len(b) \in Nat /\ Len(x) \in Nat
    BY DEF Word
  <2>4. Len(hb \o x) # 0
    BY <2>1, <2>2, <2>3
  <2>5. hb \o x # <<>>
    BY <2>4
  <2>. QED
    BY <2>5 DEF hb
<1>3. Len(received) < Len(sent)
  <2>1. Len(received) <= Len(sent)
    BY DEF Clean, SafelyDelimited, IsPrefix
  <2>2. Len(received) # Len(sent)
    BY <1>2, RestNone
  <2>. QED
    BY <2>1, <2>2, SentAreWords
<1>4. /\ m \in Messages /\ FlattenSeq(Tail(Rest)) \in Word
      /\ FlattenSeq(Rest) = Wire(m) \o FlattenSeq(Tail(Rest))
  BY <1>3, RestFirst
<1>5. m # <<>>
  <2>1. Len(received) + 1 \in 1..Len(sent)
    BY <1>3, SentAreWords
  <2>. QED
    BY <2>1 DEF Clean, NoEmptySent
<1>. HIDE DEF m
<1>6. n = Len(m) /\ (Len(b) = n => b = m /\ x = FlattenSeq(Tail(Rest)))
  <2>. DEFINE y == FlattenSeq(Tail(Rest))
  <2>1. /\ m \in Messages /\ n \in Lengths /\ b \in Word /\ x \in Word /\ y \in Word
        /\ (Header(n) \o b) \o x = Wire(m) \o y
    BY <1>4
  <2>. HIDE DEF y
  <2>0. \A f \in Messages, k \in Lengths, p \in Word, q \in Word, r \in Word :
          (Header(k) \o p) \o q = Wire(f) \o r
            => k = Len(f) /\ (Len(p) = k => p = f /\ q = r)
    BY FirstWire
  <2>a. \A k \in Lengths, p \in Word, q \in Word, r \in Word :
          (Header(k) \o p) \o q = Wire(m) \o r
            => k = Len(m) /\ (Len(p) = k => p = m /\ q = r)
    BY ONLY <2>0, <2>1, Zenon
  <2>b. \A p \in Word, q \in Word, r \in Word :
          (Header(n) \o p) \o q = Wire(m) \o r
            => n = Len(m) /\ (Len(p) = n => p = m /\ q = r)
    BY ONLY <2>a, <2>1, Zenon
  <2>c. \A q \in Word, r \in Word :
          (Header(n) \o b) \o q = Wire(m) \o r
            => n = Len(m) /\ (Len(b) = n => b = m /\ q = r)
    BY ONLY <2>b, <2>1, Zenon
  <2>2. n = Len(m) /\ (Len(b) = n => b = m /\ x = y)
    BY ONLY <2>c, <2>1, Zenon
  <2>. QED
    BY <2>2 DEF y
<1>7. n > 0
  <2>1. m \in Word
    BY <1>4, WireType
  <2>. QED
    BY <1>5, <1>6, <2>1 DEF Word
<1>. QED
  BY <1>3, <1>6, <1>7 DEF m

\* Every action keeps what holds while the stream is whole, unless it tears it.
LEMMA WriteDelimitedStep ==
  ASSUME Typed, Clean, NEW m \in Messages, WriteDelimited(m), m # <<>>
  PROVE  Clean'
<1>. USE DEF WriteDelimited, reader
<1>1. /\ sent \in Seq(Word) /\ sent \in Seq(Messages) /\ received \in Seq(Word) /\ m \in Word
      /\ Len(sent) \in Nat /\ Len(received) \in Nat /\ Len(received) <= Len(sent)
      /\ Rest \in Seq(Word) /\ Wire(m) \in Word
  BY SentAreWords, WireType DEF Typed, Clean, SafelyDelimited, IsPrefix
<1>2. OutIsWritten' /\ StillMissing' /\ EndIsEnd' /\ LostByReset'
  BY DEF Clean, OutIsWritten, StillMissing, EndIsEnd, LostByReset, InRead
<1>3. NoEmptySent'
  BY <1>1 DEF Clean, NoEmptySent
<1>4. SafelyDelimited'
  <2>1. Append(sent, m) \in Seq(Word) /\ Len(Append(sent, m)) = Len(sent) + 1
    BY <1>1, AppendIsSeq
  <2>2. Len(received) <= Len(sent) /\ \A i \in 1..Len(received) : received[i] = sent[i]
    BY <1>1, PrefixElements DEF Clean, SafelyDelimited
  <2>3. \A i \in 1..Len(received) : received[i] = Append(sent, m)[i]
    BY <1>1, <2>2
  <2>. DEFINE more == Append(sent, m)
  <2>. HIDE DEF more
  <2>4. more \in Seq(Word) /\ Len(received) <= Len(more) /\ \A i \in 1..Len(received) : received[i] = more[i]
    BY <1>1, <2>1, <2>2, <2>3 DEF more
  <2>5. IsPrefix(received, more)
    BY <1>1, <2>4, PrefixElements
  <2>. QED
    BY <2>5 DEF SafelyDelimited, more
<1>5. Conserved'
  <2>1. Pending = <<>> /\ Pending' = Wire(m) /\ InHand' = InHand /\ UnderWay' = UnderWay
    BY DEF Clean, OutIsWritten, Pending, Wire, InHand, UnderWay
  <2>2. InHand \o UnderWay = FlattenSeq(Rest)
    BY <2>1, PartsAreWords, WordConcat, WordEmpty DEF Clean, Conserved
  <2>3. Rest' = Append(Rest, Wire(m))
    BY <1>1, RestSend
  <2>4. FlattenSeq(Rest') = FlattenSeq(Rest) \o Wire(m)
    BY <1>1, <2>3, FlattenAppend
  <2>. QED
    BY <2>1, <2>2, <2>4 DEF Conserved
<1>. QED
  BY <1>2, <1>3, <1>4, <1>5 DEF Clean

\* The message and the reader's side of a step that moves bytes only.
LEMMA NothingSentOrReceived ==
  ASSUME Typed, Clean, UNCHANGED <<sent, received>>
  PROVE  NoEmptySent' /\ SafelyDelimited' /\ Rest' = Rest
BY DEF Clean, NoEmptySent, SafelyDelimited, Rest

\* The kernel takes a piece of what the writer holds.
LEMMA TransferStep ==
  ASSUME Typed, Clean, NEW k \in 1..Capacity, Transfer(k)
  PROVE  Clean'
<1>1. PICK piece \in Word, rest \in Word :
        /\ out = piece \o rest /\ out' = rest /\ out # <<>>
        /\ UnderWay' = UnderWay \o piece
  BY TransferPiece DEF Clean
<1>2. OutIsWritten' /\ EndIsEnd' /\ LostByReset'
  <2>1. wpc \notin {"idle", "closed"}
    BY <1>1 DEF Clean, OutIsWritten
  <2>. QED
    BY <2>1
       DEF Clean, OutIsWritten, EndIsEnd, LostByReset, Transfer, reader
<1>3. StillMissing' /\ NoEmptySent' /\ SafelyDelimited' /\ Rest' = Rest
  BY NothingSentOrReceived DEF Clean, StillMissing, InRead, Transfer, reader
<1>4. Conserved'
  <2>. DEFINE more == IF wpc = "length" THEN msg ELSE <<>>
  <2>1. more \in Word /\ msg \in Word
    BY WordEmpty DEF Typed
  <2>2. /\ Pending = (piece \o rest) \o more /\ Pending' = rest \o more
        /\ InHand' = InHand
    BY <1>1, <2>1, WordConcat, WordEmpty DEF Pending, Transfer, reader, InHand
  <2>. HIDE DEF more
  <2>3. InHand \in Word /\ UnderWay \in Word
    BY PartsAreWords
  <2>4. (InHand \o (UnderWay \o piece)) \o (rest \o more)
          = (InHand \o UnderWay) \o ((piece \o rest) \o more)
    <3>1. \A a \in Word, b \in Word, c \in Word, d \in Word, e \in Word :
            (a \o (b \o c)) \o (d \o e) = (a \o b) \o ((c \o d) \o e)
      BY Regroup
    <3>2. \A c \in Word, d \in Word, e \in Word :
            (InHand \o (UnderWay \o c)) \o (d \o e) = (InHand \o UnderWay) \o ((c \o d) \o e)
      BY ONLY <2>3, <3>1, Zenon
    <3>. QED
      BY <2>1, <3>2, Zenon
  <2>. QED
    BY <1>1, <1>3, <2>2, <2>4 DEF Conserved, Clean
<1>. QED
  BY <1>2, <1>3, <1>4 DEF Clean

\* A write that is abandoned without tearing the stream has handed over everything,
\* or the connection is reset.
LEMMA AbandonStep ==
  ASSUME Typed, Clean, NEW bytes \in Word, Abandon(bytes), ~torn', UNCHANGED <<stream, reset>>
  PROVE  UnderWay' = UnderWay \o bytes /\ LostByReset' /\ (bytes # <<>> => reset)
<1>1. stream \in Word /\ lost \in Word /\ stream' = stream /\ reset' = reset
  BY DEF Typed
<1>2. CASE reset /\ lost' = lost \o bytes
  <2>1. UnderWay' = UnderWay \o bytes
    BY <1>1, <1>2, WordAssociative DEF UnderWay
  <2>. QED
    BY <1>1, <1>2, <2>1 DEF LostByReset
<1>3. CASE bytes = <<>> /\ lost' = lost
  <2>1. UnderWay \in Word /\ UnderWay' = UnderWay /\ UnderWay \o <<>> = UnderWay
    BY <1>1, <1>3, PartsAreWords, WordEmpty DEF UnderWay
  <2>2. LostByReset'
    BY <1>1, <1>3 DEF LostByReset, Clean
  <2>. QED
    BY <1>3, <2>1, <2>2
<1>. QED
  BY <1>2, <1>3 DEF Abandon

\* The writer goes on from the length to the message, or is done.
LEMMA WriteReturnsStep ==
  ASSUME Typed, Clean, WriteReturns, ~torn'
  PROVE  Clean'
<1>0. /\ out \in Word /\ msg \in Word /\ InHand \in Word /\ UnderWay \in Word
  BY PartsAreWords DEF Typed
<1>1. UnderWay' = UnderWay \o out /\ LostByReset'
  BY <1>0, AbandonStep DEF WriteReturns
<1>2. OutIsWritten' /\ StillMissing' /\ EndIsEnd' /\ NoEmptySent' /\ SafelyDelimited' /\ Rest' = Rest
  BY NothingSentOrReceived
     DEF Clean, OutIsWritten, StillMissing, EndIsEnd, InRead, InWrite, WriteReturns,
         BodyAfterLength, reader
<1>3. PICK more \in Word : Pending = out \o more /\ Pending' = more
  <2>1. CASE wpc = "length"
    BY <1>0, <2>1 DEF Pending, WriteReturns, BodyAfterLength
  <2>2. CASE wpc = "body"
    BY <1>0, <2>2, WordEmpty DEF Pending, WriteReturns, BodyAfterLength
  <2>. QED
    BY <2>1, <2>2 DEF WriteReturns
<1>4. InHand' = InHand
  BY DEF InHand, WriteReturns, reader
<1>5. (InHand \o (UnderWay \o out)) \o more = (InHand \o UnderWay) \o (out \o more)
  <2>1. /\ InHand \o (UnderWay \o out) = (InHand \o UnderWay) \o out
        /\ InHand \o UnderWay \in Word
    BY <1>0, WordAssociative, WordConcat
  <2>2. \A p \in Word : (p \o out) \o more = p \o (out \o more)
    BY <1>0, WordAssociative
  <2>. QED
    BY <2>1, <2>2, Zenon
<1>. QED
  BY <1>1, <1>2, <1>3, <1>4, <1>5 DEF Clean, Conserved

\* The writer gives up a message, which is lost already if the connection is reset.
LEMMA WriteFailsStep ==
  ASSUME Typed, Clean, WriteFails, ~torn'
  PROVE  Clean'
<1>0. Pending \in Word /\ InHand \in Word /\ UnderWay \in Word
  BY PartsAreWords
<1>1. UnderWay' = UnderWay \o Pending /\ LostByReset'
  BY <1>0, AbandonStep DEF WriteFails
<1>2. OutIsWritten' /\ StillMissing' /\ EndIsEnd' /\ NoEmptySent' /\ SafelyDelimited' /\ Rest' = Rest
  BY NothingSentOrReceived
     DEF Clean, OutIsWritten, StillMissing, EndIsEnd, InRead, InWrite, WriteFails, reader
<1>3. Pending' = <<>> /\ InHand' = InHand
  BY DEF Pending, InHand, WriteFails, reader
<1>4. (InHand \o (UnderWay \o Pending)) \o <<>> = (InHand \o UnderWay) \o Pending
  <2>1. /\ InHand \o (UnderWay \o Pending) = (InHand \o UnderWay) \o Pending
        /\ (InHand \o UnderWay) \o Pending \in Word
    BY <1>0, WordAssociative, WordConcat
  <2>. QED
    BY <2>1, WordEmpty
<1>. QED
  BY <1>1, <1>2, <1>3, <1>4 DEF Clean, Conserved

\* A reset takes bytes from the end of the stream, and only once.
LEMMA PeerResetsStep ==
  ASSUME Typed, Clean, PeerResets
  PROVE  Clean'
<1>1. lost = <<>> /\ stream \in Word
  BY DEF Clean, LostByReset, PeerResets, Typed
<1>2. UnderWay' = UnderWay
  BY <1>1, ResetPiece, WordEmpty DEF UnderWay
<1>3. stream = <<>> => stream' = <<>>
  <2>. SUFFICES ASSUME stream = <<>> PROVE stream' = <<>>
    OBVIOUS
  <2>1. stream' \in Word /\ Len(stream') <= 0
    BY ResetPiece
  <2>. QED
    BY <2>1 DEF Word
<1>4. /\ OutIsWritten' /\ StillMissing' /\ EndIsEnd' /\ LostByReset'
      /\ NoEmptySent' /\ SafelyDelimited' /\ Rest' = Rest
  BY <1>3, NothingSentOrReceived
     DEF Clean, OutIsWritten, StillMissing, EndIsEnd, LostByReset, InRead, PeerResets,
         reader, writer
<1>5. InHand' = InHand /\ Pending' = Pending
  BY DEF InHand, Pending, PeerResets, reader, writer
<1>. QED
  BY <1>2, <1>4, <1>5 DEF Clean, Conserved

\* The reader asks for a message.
LEMMA ReadDelimitedStep ==
  ASSUME Typed, Clean, ReadDelimited
  PROVE  Clean'
<1>1. /\ OutIsWritten' /\ StillMissing' /\ EndIsEnd' /\ LostByReset'
      /\ NoEmptySent' /\ SafelyDelimited' /\ Rest' = Rest
  BY NothingSentOrReceived
     DEF Clean, OutIsWritten, StillMissing, EndIsEnd, LostByReset, InRead, ReadDelimited, writer
<1>2. Pending' = Pending /\ InHand' = InHand /\ UnderWay' = UnderWay
  BY DEF Pending, InHand, UnderWay, ReadDelimited, writer
<1>. QED
  BY <1>1, <1>2 DEF Clean, Conserved

\* Unless the connection is reset the reader is told of the end of file with nothing
\* in hand and nothing left to receive: what it has is shorter than any message on
\* the wire.
LEMMA ReadEofAtEnd ==
  ASSUME Typed, Place, Clean, ReadEof, ~reset
  PROVE  received = sent /\ InHand = <<>>
<1>1. /\ stream = <<>> /\ wpc = "closed" /\ out = <<>> /\ Pending = <<>>
      /\ InHand = FlattenSeq(Rest)
  <2>1. stream = <<>> /\ lost = <<>> /\ wpc = "closed" /\ out = <<>> /\ Pending = <<>>
    BY DEF ReadEof, HangUp, Clean, OutIsWritten, Pending, LostByReset
  <2>2. UnderWay = <<>> /\ InHand \in Word
    BY <2>1, PartsAreWords, WordEmpty DEF UnderWay
  <2>. QED
    BY <2>1, <2>2, WordEmpty DEF Clean, Conserved
<1>2. rpc = "length"
  <2>. SUFFICES ASSUME rpc = "body" PROVE FALSE
    BY DEF ReadEof, InRead
  <2>1. InHand = Header(count) \o in /\ count \in Lengths /\ in \in Word
    BY DEF InHand, Typed
  <2>2. (Header(count) \o in) \o <<>> = FlattenSeq(Rest)
    BY <1>1, <2>1, PartsAreWords, WordEmpty
  <2>3. /\ Len(received) < Len(sent) /\ count = Len(sent[Len(received) + 1])
    BY <2>1, <2>2, NextMessage, WordEmpty
  <2>. DEFINE m == sent[Len(received) + 1]
              y == FlattenSeq(Tail(Rest))
  <2>4. m \in Messages /\ y \in Word /\ Header(count) \o in = Wire(m) \o y
    BY <1>1, <2>1, <2>3, RestFirst
  <2>5. /\ Len(Header(count) \o in) = 2 + Len(in)
        /\ Len(Wire(m) \o y) = (Len(m) + 2) + Len(y)
    BY <2>1, <2>4, HeaderBody, WireBody, Zenon
  <2>6. Len(in) < count /\ count = Len(m)
    BY <2>3 DEF Clean, StillMissing, ReadEof
  <2>7. Len(in) \in Nat /\ Len(m) \in Nat /\ Len(y) \in Nat
    BY <2>1, <2>4, WireType DEF Word
  <2>. QED
    BY <2>4, <2>5, <2>6, <2>7
<1>3. Len(received) = Len(sent)
  <2>1. Len(received) <= Len(sent)
    BY DEF Clean, SafelyDelimited, IsPrefix
  <2>. SUFFICES ASSUME Len(received) < Len(sent) PROVE FALSE
    BY <2>1, SentAreWords
  <2>. DEFINE m == sent[Len(received) + 1]
              y == FlattenSeq(Tail(Rest))
  <2>2. m \in Messages /\ y \in Word /\ in = Wire(m) \o y /\ in \in Word
    BY <1>1, <1>2, RestFirst DEF InHand, Typed
  <2>3. Len(Wire(m) \o y) = (Len(m) + 2) + Len(y)
    BY <2>2, WireBody, Zenon
  <2>4. Len(in) < 2
    BY <1>2 DEF Clean, StillMissing, ReadEof, Place
  <2>5. Len(in) \in Nat /\ Len(m) \in Nat /\ Len(y) \in Nat
    BY <2>2, WireType DEF Word
  <2>. QED
    BY <2>2, <2>3, <2>4, <2>5
<1>4. received = sent
  <2>1. \A i \in 1..Len(received) : received[i] = sent[i]
    BY SentAreWords, PrefixElements DEF Clean, SafelyDelimited, Typed
  <2>. QED
    BY <1>3, <2>1, SentAreWords, Facts!SeqEqual DEF Typed
<1>5. FlattenSeq(Rest) = <<>>
  BY <1>3, RestNone
<1>. QED
  BY <1>1, <1>4, <1>5

\* What the reader had in hand when it is told of the end of file joins what the reset
\* took.
LEMMA ReadEofStep ==
  ASSUME Typed, Place, Clean, ReadEof
  PROVE  Clean'
<1>1. /\ stream = <<>> /\ (wpc = "closed" \/ reset)
      /\ lost' = InHand \o lost /\ stream' = stream /\ lost \in Word /\ InHand \in Word
  BY PartsAreWords DEF ReadEof, HangUp, Typed
<1>2. NoEmptySent' /\ SafelyDelimited' /\ Rest' = Rest
  BY NothingSentOrReceived DEF ReadEof, writer
<1>3. OutIsWritten' /\ StillMissing' /\ EndIsEnd'
  <2>1. OutIsWritten' /\ StillMissing'
    BY DEF Clean, OutIsWritten, StillMissing, InRead, ReadEof, Fail, writer
  <2>2. reset \/ (wpc = "closed" /\ received = sent)
    BY <1>1, ReadEofAtEnd
  <2>. QED
    BY <1>1, <2>1, <2>2 DEF EndIsEnd, ReadEof, writer
<1>4. LostByReset'
  <2>1. CASE reset
    BY <2>1 DEF ReadEof, LostByReset
  <2>2. CASE ~reset
    <3>1. lost = <<>> /\ InHand = <<>>
      BY <2>2, ReadEofAtEnd DEF Clean, LostByReset
    <3>2. lost' = <<>>
      BY <1>1, <3>1, WordEmpty
    <3>. QED
      BY <3>2 DEF LostByReset
  <2>. QED
    BY <2>1, <2>2
<1>5. InHand' = <<>> /\ Pending' = Pending
  BY DEF InHand, Pending, ReadEof, Fail, writer
<1>6. UnderWay' = InHand \o UnderWay
  <2>1. InHand \o lost \in Word
    BY <1>1, WordConcat
  <2>2. UnderWay = <<>> \o lost /\ UnderWay' = <<>> \o (InHand \o lost)
    BY <1>1 DEF UnderWay
  <2>. QED
    BY <1>1, <2>1, <2>2, WordEmpty
<1>7. <<>> \o (InHand \o UnderWay) = InHand \o UnderWay
  <2>1. InHand \o UnderWay \in Word
    BY PartsAreWords, WordConcat
  <2>. QED
    BY <2>1, WordEmpty
<1>. QED
  BY <1>2, <1>3, <1>4, <1>5, <1>6, <1>7 DEF Conserved, Clean

\* A signal between two messages costs nothing.
LEMMA ReadInterruptedStep ==
  ASSUME Typed, Clean, ReadInterrupted, ~torn'
  PROVE  Clean'
<1>1. rpc = "length" /\ in = <<>>
  BY DEF ReadInterrupted, InRead
<1>2. OutIsWritten' /\ StillMissing' /\ EndIsEnd' /\ NoEmptySent' /\ SafelyDelimited' /\ Rest' = Rest
  BY NothingSentOrReceived
     DEF Clean, OutIsWritten, StillMissing, EndIsEnd, InRead, ReadInterrupted, Fail, writer
<1>3. /\ Pending' = Pending /\ InHand' = InHand /\ UnderWay' = UnderWay /\ LostByReset'
  BY <1>1
     DEF Pending, InHand, UnderWay, LostByReset, Clean, ReadInterrupted, Fail, writer
<1>. QED
  BY <1>2, <1>3 DEF Clean, Conserved

\* The reader has the length of the next message.
LEMMA GotLengthStep ==
  ASSUME Typed, Place, Clean, NEW bytes \in Word, NEW rest \in Word,
         GotLength(bytes), Len(bytes) = count, (bytes \o rest) \o Pending = FlattenSeq(Rest),
         UnderWay' = rest, UNCHANGED <<writer, reset, lost>>, ~torn'
  PROVE  Clean'
<1>1. /\ rpc = "length" /\ Len(bytes) = 2
      /\ rpc' = "body" /\ in' = <<>> /\ count' = Value(bytes) /\ UNCHANGED <<received, result, torn>>
  BY DEF GotLength, Place
<1>2. Value(bytes) \in Lengths /\ Header(Value(bytes)) = bytes
  BY <1>1, LengthOfHeader
<1>3. bytes \o <<>> = bytes
  BY WordEmpty
<1>4. Value(bytes) > 0
  <2>0. Pending \in Word
    BY PartsAreWords
  <2>1. rest \o Pending \in Word /\ (bytes \o rest) \o Pending = bytes \o (rest \o Pending)
    BY <2>0, WordAssociative, WordConcat, Zenon
  <2>2. (Header(Value(bytes)) \o <<>>) \o (rest \o Pending) = FlattenSeq(Rest)
    BY <1>2, <1>3, <2>1
  <2>. QED
    BY <1>2, <2>1, <2>2, NextMessage, WordEmpty
<1>5. /\ OutIsWritten' /\ EndIsEnd' /\ LostByReset'
      /\ NoEmptySent' /\ SafelyDelimited' /\ Rest' = Rest
  BY <1>1, NothingSentOrReceived
     DEF Clean, OutIsWritten, EndIsEnd, LostByReset, Place, writer
<1>6. StillMissing'
  BY <1>1, <1>4 DEF StillMissing
<1>7. InHand' = bytes /\ Pending' = Pending
  BY <1>1, <1>2, <1>3 DEF InHand, Pending, writer
<1>. QED
  BY <1>5, <1>6, <1>7 DEF Clean, Conserved

\* The reader has the body of the next message.
LEMMA GotBodyStep ==
  ASSUME Typed, Place, Clean, NEW bytes \in Word, NEW rest \in Word,
         GotBody(bytes), Len(bytes) = count,
         ((Header(count) \o bytes) \o rest) \o Pending = FlattenSeq(Rest),
         UnderWay' = rest, UNCHANGED <<writer, reset, lost>>
  PROVE  Clean'
<1>. DEFINE m == sent[Len(received) + 1]
<1>1. /\ rpc' = "idle" /\ received' = Append(received, bytes)
      /\ UNCHANGED <<result, torn>> /\ count \in Lengths /\ rpc = "body"
  BY DEF GotBody, Typed
<1>2. /\ Len(received) < Len(sent) /\ bytes = m
      /\ rest \o Pending = FlattenSeq(Tail(Rest))
  <2>1. /\ Pending \in Word /\ rest \o Pending \in Word
        /\ Header(count) \o bytes \in Word
    BY <1>1, HeaderBody, PartsAreWords, WordConcat
  <2>2. ((Header(count) \o bytes) \o rest) \o Pending
          = (Header(count) \o bytes) \o (rest \o Pending)
    BY <2>1, WordAssociative, Zenon
  <2>. QED
    BY <1>1, <2>1, <2>2, NextMessage
<1>3. /\ received \in Seq(Word) /\ sent \in Seq(Word) /\ Len(received) \in Nat /\ Len(sent) \in Nat
      /\ Append(received, m) \in Seq(Word) /\ Len(Append(received, m)) = Len(received) + 1
  BY <1>2, SentAreWords, AppendIsSeq DEF Typed
<1>4. NoEmptySent' /\ OutIsWritten' /\ LostByReset'
  BY DEF Clean, NoEmptySent, OutIsWritten, LostByReset, writer
<1>5. StillMissing' /\ EndIsEnd'
  BY <1>1 DEF StillMissing, EndIsEnd, InRead, Place
<1>6. SafelyDelimited'
  <2>1. \A i \in 1..Len(received) : received[i] = sent[i]
    BY <1>3, PrefixElements DEF Clean, SafelyDelimited
  <2>2. \A i \in 1..(Len(received) + 1) : Append(received, m)[i] = sent[i]
    BY <1>3, <2>1
  <2>. DEFINE more == Append(received, m)
  <2>3. more \in Seq(Word) /\ Len(more) <= Len(sent) /\ \A i \in 1..Len(more) : more[i] = sent[i]
    BY <1>2, <1>3, <2>2
  <2>. HIDE DEF more
  <2>4. IsPrefix(more, sent)
    BY <1>3, <2>3, PrefixElements
  <2>. QED
    BY <1>1, <1>2, <2>4 DEF more, SafelyDelimited, writer
<1>7. Rest' = Tail(Rest)
  <2>1. Tail(Rest) = [i \in 1..(Len(sent) - (Len(received) + 1)) |->
                        Wire(sent[(Len(received) + 1) + i])]
    BY <1>2, RestFirst
  <2>2. Len(received') = Len(received) + 1 /\ sent' = sent
    BY <1>1, <1>2, <1>3 DEF writer
  <2>. QED
    BY <2>1, <2>2 DEF Rest
<1>8. Conserved'
  <2>1. InHand' = <<>> /\ Pending' = Pending
    BY <1>1 DEF InHand, Pending, writer
  <2>2. <<>> \o rest = rest
    BY WordEmpty
  <2>. QED
    BY <1>2, <1>7, <2>1, <2>2 DEF Conserved
<1>. QED
  BY <1>4, <1>5, <1>6, <1>8 DEF Clean

\* A round of read_wait().
LEMMA ReadStep ==
  ASSUME Typed, Place, Clean, Read, ~torn'
  PROVE  Clean'
<1>1. PICK piece \in Word, rest \in Word :
         /\ UnderWay = piece \o rest /\ UnderWay' = rest /\ in \o piece \in Word
         /\ stream' \in Word /\ Len(stream') <= Len(stream)
         /\ InRead /\ UNCHANGED <<writer, reset, lost>>
         /\ \/ /\ Len(in) = count /\ Fail("eof")
               /\ UNCHANGED <<in, count, received, torn>>
            \/ /\ Len(in \o piece) = count
               /\ GotLength(in \o piece) \/ GotBody(in \o piece)
            \/ /\ Len(in \o piece) < count /\ in' = in \o piece
               /\ UNCHANGED <<rpc, count, received, result, torn>>
  BY ReadPiece
<1>2. Len(in) # count
  <2>1. Len(in) < count /\ count \in Nat
    BY <1>1, SmallLengths DEF Clean, StillMissing, Typed
  <2>2. Len(in) \in Nat
    BY DEF Typed, Word
  <2>. QED
    BY <2>1, <2>2
<1>3. /\ in \in Word /\ Header(count) \in Word /\ Pending \in Word /\ piece \o rest \in Word
      /\ count \in Lengths /\ InHand \in Word
  BY HeaderOfLength, PartsAreWords, WordConcat DEF Typed
<1>4. (InHand \o (piece \o rest)) \o Pending = FlattenSeq(Rest)
  BY <1>1 DEF Clean, Conserved
<1>5. InHand \o (piece \o rest) = (InHand \o piece) \o rest
  BY <1>3, WordAssociative
<1>a. (Header(count) \o in) \o piece = Header(count) \o (in \o piece)
  <2>1. \A p \in Word, q \in Word : (Header(count) \o p) \o q = Header(count) \o (p \o q)
    BY <1>3, WordAssociative
  <2>. QED
    BY <1>3, <2>1, Zenon
<1>6. CASE Len(in \o piece) = count /\ GotLength(in \o piece)
  <2>1. InHand = in
    BY <1>6 DEF GotLength, InHand
  <2>2. ((in \o piece) \o rest) \o Pending = FlattenSeq(Rest)
    BY <1>4, <1>5, <2>1
  <2>. DEFINE bytes == in \o piece
  <2>3. bytes \in Word /\ (bytes \o rest) \o Pending = FlattenSeq(Rest)
        /\ GotLength(bytes) /\ Len(bytes) = count /\ UnderWay' = rest
        /\ UNCHANGED <<writer, reset, lost>>
    BY <1>1, <1>6, <2>2
  <2>. HIDE DEF bytes
  <2>. QED
    BY <2>3, GotLengthStep
<1>7. CASE Len(in \o piece) = count /\ GotBody(in \o piece)
  <2>1. InHand = Header(count) \o in
    BY <1>7 DEF GotBody, InHand
  <2>2. InHand \o piece = Header(count) \o (in \o piece)
    BY <1>a, <2>1
  <2>3. ((Header(count) \o (in \o piece)) \o rest) \o Pending = FlattenSeq(Rest)
    BY <1>4, <1>5, <2>2
  <2>. DEFINE bytes == in \o piece
  <2>4. bytes \in Word /\ ((Header(count) \o bytes) \o rest) \o Pending = FlattenSeq(Rest)
        /\ GotBody(bytes) /\ Len(bytes) = count /\ UnderWay' = rest
        /\ UNCHANGED <<writer, reset, lost>>
    BY <1>1, <1>7, <2>3
  <2>. HIDE DEF bytes
  <2>. QED
    BY <2>4, GotBodyStep
<1>8. CASE /\ Len(in \o piece) < count /\ in' = in \o piece
           /\ UNCHANGED <<rpc, count, received, result, torn>>
  <2>1. NoEmptySent' /\ SafelyDelimited' /\ Rest' = Rest
    BY <1>1, <1>8, NothingSentOrReceived DEF writer
  <2>2. OutIsWritten' /\ EndIsEnd' /\ StillMissing' /\ LostByReset'
    BY <1>1, <1>8
       DEF Clean, OutIsWritten, EndIsEnd, StillMissing, LostByReset, InRead, Place, writer
  <2>3. InHand' = InHand \o piece /\ Pending' = Pending
    <3>1. CASE rpc = "length"
      BY <1>1, <1>8, <3>1 DEF InHand, Pending, writer
    <3>2. CASE rpc = "body"
      BY <1>1, <1>8, <1>a, <3>2 DEF InHand, Pending, writer
    <3>. QED
      BY <1>1, <3>1, <3>2 DEF InRead
  <2>4. Conserved'
    BY <1>1, <1>4, <1>5, <2>1, <2>3 DEF Conserved
  <2>. QED
    BY <2>1, <2>2, <2>4 DEF Clean
<1>. QED
  BY ONLY <1>1, <1>2, <1>6, <1>7, <1>8

\* The invariant holds at the start.
LEMMA InvInit == Init => IInv
<1>. SUFFICES ASSUME Init PROVE IInv
  OBVIOUS
<1>1. Typed /\ Place
  <2>1. <<>> \in Seq(Messages) /\ <<>> \in Seq(Word)
    OBVIOUS
  <2>2. 0 <= Capacity /\ Len(<<>>) = 0 /\ 0 <= 0
    BY ConstantsAssumption DEF ConstantsAssumption
  <2>. QED
    BY <2>1, <2>2, WordEmpty, SmallLengths DEF Init, Typed, Place
<1>2. InHand = <<>> /\ Pending = <<>> /\ UnderWay = <<>> /\ FlattenSeq(Rest) = <<>>
  BY <1>1, RestNone, WordEmpty DEF Init, InHand, Pending, UnderWay
<1>3. Conserved
  BY <1>2, WordEmpty DEF Init, Conserved
<1>4. OutIsWritten /\ StillMissing /\ NoEmptySent /\ EndIsEnd /\ LostByReset
  BY DEF Init, OutIsWritten, StillMissing, NoEmptySent, EndIsEnd, LostByReset, InRead
<1>5. SafelyDelimited
  BY DEF Init, SafelyDelimited, IsPrefix
<1>. QED
  BY <1>1, <1>3, <1>4, <1>5 DEF IInv, Whole, Clean

\* A torn stream stays torn.
LEMMA StaysTorn ==
  ASSUME [Next]_vars, torn
  PROVE  torn'
BY DEF Next, WriteDelimited, WriterStep, Transfer, WriteReturns, WriteFails, Abandon,
   WriterCloses, ReaderStep, ReadDelimited, Read, GotLength, GotBody, ReadEof,
   ReadInterrupted, ReadFails, PeerResets, Finished,
   reader, writer, vars

\* Every step keeps the invariant.
LEMMA InvStep == IInv /\ [Next]_vars => IInv'
<1>. SUFFICES ASSUME IInv, [Next]_vars PROVE IInv'
  OBVIOUS
<1>1. Typed /\ Place /\ Typed' /\ Place'
  BY TypeStep DEF IInv
<1>. SUFFICES ASSUME ~torn' PROVE Clean'
  BY <1>1 DEF IInv, Whole, Clean
<1>2. ~torn
  BY StaysTorn
<1>3. Clean
  BY <1>2 DEF IInv, Whole, Clean
<1>4. ASSUME NEW m \in Messages, WriteDelimited(m) PROVE Clean'
  BY <1>1, <1>3, <1>4, WriteDelimitedStep DEF WriteDelimited
<1>5. ASSUME NEW k \in 1..Capacity, Transfer(k) PROVE Clean'
  BY <1>1, <1>3, <1>5, TransferStep
<1>6. CASE WriteReturns
  BY <1>1, <1>3, <1>6, WriteReturnsStep
<1>7. CASE WriteFails
  BY <1>1, <1>3, <1>7, WriteFailsStep
<1>8. CASE WriterCloses
  <2>1. NoEmptySent' /\ SafelyDelimited' /\ Rest' = Rest
    BY <1>1, <1>3, <1>8, NothingSentOrReceived DEF WriterCloses, reader
  <2>2. OutIsWritten' /\ EndIsEnd' /\ StillMissing' /\ LostByReset'
    BY <1>3, <1>8
       DEF Clean, OutIsWritten, EndIsEnd, StillMissing, LostByReset, InRead, WriterCloses, reader
  <2>3. InHand' = InHand /\ Pending' = Pending /\ UnderWay' = UnderWay
    BY <1>8 DEF InHand, Pending, UnderWay, WriterCloses, reader
  <2>. QED
    BY <1>3, <2>1, <2>2, <2>3 DEF Clean, Conserved
<1>9. CASE ReadDelimited
  BY <1>1, <1>3, <1>9, ReadDelimitedStep
<1>10. CASE Read
  BY <1>1, <1>3, <1>10, ReadStep
<1>11. CASE ReadEof
  BY <1>1, <1>3, <1>11, ReadEofStep
<1>12. CASE ReadInterrupted
  BY <1>1, <1>3, <1>12, ReadInterruptedStep
<1>13. CASE ReadFails
  BY <1>13 DEF ReadFails
<1>14. CASE PeerResets
  BY <1>1, <1>3, <1>14, PeerResetsStep
<1>15. CASE UNCHANGED vars
  BY <1>3, <1>15
     DEF vars, writer, reader, Clean, OutIsWritten, StillMissing, NoEmptySent, SafelyDelimited,
         Conserved, EndIsEnd, LostByReset, InRead, InHand, UnderWay, Pending, Rest
<1>. QED
  BY ONLY <1>4, <1>5, <1>6, <1>7, <1>8, <1>9, <1>10, <1>11, <1>12, <1>13, <1>14, <1>15,
          [Next]_vars
     DEF Next, WriterStep, ReaderStep, Finished

\* The inductive invariant: types, the place of the reader, and the conservation of
\* bytes with what it needs while the stream is whole.
THEOREM Invariance == Spec => []IInv
BY InvInit, InvStep, PTL DEF Spec

\* Buffers hold bytes within the capacity and the lengths asked for.
THEOREM TypeCorrect == Spec => []TypeOK
<1>1. IInv => TypeOK
  BY TypedIsTypeOK DEF IInv
<1>. QED
  BY <1>1, Invariance, PTL

\* What read_delimited() returned are the messages written, whole and in order,
\* until the stream is torn.
THEOREM InOrderHolds == Spec => []InOrder
<1>1. IInv => InOrder
  BY DEF IInv, Whole, Clean, InOrder
<1>. QED
  BY <1>1, Invariance, PTL

\* The reader is told of the end of file at the end of the stream, with every message
\* received, or behind what a reset left of it.
THEOREM EofMeansEndHolds == Spec => []EofMeansEnd
<1>1. IInv => EofMeansEnd
  BY DEF IInv, Whole, Clean, EofMeansEnd, EndIsEnd
<1>. QED
  BY <1>1, Invariance, PTL

\* No byte is lost or invented between the writer and the reader, but for what a reset
\* takes from the end of the stream.
THEOREM BytesConservedHolds == Spec => []BytesConserved
<1>1. IInv => BytesConserved
  <2>. SUFFICES ASSUME IInv PROVE BytesConserved
    OBVIOUS
  <2>1. InHand \in Word /\ stream \in Word /\ lost \in Word
    BY PartsAreWords DEF IInv, Typed
  <2>2. (InHand \o stream) \o lost = InHand \o UnderWay
    BY <2>1, WordAssociative DEF UnderWay
  <2>. QED
    BY <2>2, TypedIsTypeOK
       DEF IInv, Whole, Clean, Conserved, BytesConserved, LostByReset, Rest
<1>. QED
  BY <1>1, Invariance, PTL

\* Every step is a step of the channel of whole messages, or a stutter.
LEMMA ChannelStep ==
  ASSUME IInv, IInv', [Next]_vars
  PROVE  [Channel!Next]_(Channel!vars)
<1>. USE DEF Channel!Next, Channel!vars, vars, writer, reader
<1>1. CASE torn'
  BY <1>1 DEF Channel!Torn
<1>. SUFFICES ASSUME ~torn' PROVE [Channel!Next]_(Channel!vars)
  BY <1>1
<1>0. torn = FALSE /\ torn' = FALSE
  <2>1. torn \in BOOLEAN /\ torn' \in BOOLEAN
    BY DEF IInv, Typed
  <2>2. ~torn
    BY StaysTorn
  <2>. QED
    BY <2>1, <2>2
<1>2. /\ SafelyDelimited' /\ EndIsEnd'
  BY DEF IInv, Whole, Clean
<1>3. ASSUME NEW m \in Messages, WriteDelimited(m) PROVE Channel!Send(m)
  <2>1. /\ wpc # "closed" /\ wpc' # "closed" /\ sent' = Append(sent, m)
        /\ UNCHANGED <<received, result, reset>> /\ torn' = torn
    BY <1>3, <1>0 DEF WriteDelimited
  <2>2. (wpc' = "closed") = (wpc = "closed")
    BY <2>1
  <2>. QED
    BY <2>1, <2>2, Zenon DEF Channel!Send
<1>4. ASSUME NEW k \in 1..Capacity, Transfer(k) PROVE UNCHANGED Channel!vars
  BY <1>4 DEF Transfer
<1>5. CASE WriteReturns
  <2>1. wpc # "closed" /\ wpc' # "closed" /\ UNCHANGED <<sent, received, result, torn>>
    BY <1>0, <1>5 DEF WriteReturns, BodyAfterLength, InWrite
  <2>2. (wpc' = "closed") = (wpc = "closed") /\ reset' = reset
    BY <1>5, <2>1 DEF WriteReturns
  <2>. QED
    BY <2>1, <2>2
<1>6. CASE WriteFails
  <2>1. wpc # "closed" /\ wpc' # "closed" /\ UNCHANGED <<sent, received, result, reset, torn>>
    BY <1>0, <1>6 DEF WriteFails, InWrite
  <2>2. (wpc' = "closed") = (wpc = "closed")
    BY <2>1
  <2>. QED
    BY <2>1, <2>2
<1>7. CASE WriterCloses
  BY <1>7 DEF WriterCloses, Channel!Close
<1>8. CASE ReadDelimited
  BY <1>8 DEF ReadDelimited
<1>9. ASSUME result' = "eof", result # "eof", UNCHANGED <<sent, received, wpc, reset, torn>>
      PROVE  Channel!End
  BY <1>2, <1>9 DEF EndIsEnd, Channel!End
<1>10. CASE Read
  <2>1. PICK piece \in Word, rest \in Word :
           /\ UnderWay = piece \o rest /\ UnderWay' = rest /\ in \o piece \in Word
           /\ stream' \in Word /\ Len(stream') <= Len(stream)
           /\ InRead /\ UNCHANGED <<writer, reset, lost>>
           /\ \/ /\ Len(in) = count /\ Fail("eof")
                 /\ UNCHANGED <<in, count, received, torn>>
              \/ /\ Len(in \o piece) = count
                 /\ GotLength(in \o piece) \/ GotBody(in \o piece)
              \/ /\ Len(in \o piece) < count /\ in' = in \o piece
                 /\ UNCHANGED <<rpc, count, received, result, torn>>
    BY <1>10, ReadPiece DEF IInv
  <2>2. result # "eof"
    BY <2>1 DEF IInv, Place, InRead
  <2>3. CASE Fail("eof") /\ UNCHANGED <<in, count, received, torn>>
    BY <1>9, <2>1, <2>2, <2>3 DEF Fail
  <2>4. CASE GotLength(in \o piece)
    BY <2>1, <2>4 DEF GotLength
  <2>5. CASE GotBody(in \o piece)
    <3>1. /\ received' = Append(received, in \o piece) /\ sent' = sent
          /\ UNCHANGED <<sent, wpc, result, reset, torn>>
      BY <2>1, <2>5 DEF GotBody
    <3>2. /\ received \in Seq(Word) /\ sent \in Seq(Word) /\ Len(received) \in Nat
      BY SentAreWords DEF IInv, Typed
    <3>. DEFINE more == Append(received, in \o piece)
    <3>3. /\ more \in Seq(Word) /\ Len(more) = Len(received) + 1
          /\ more[Len(received) + 1] = in \o piece
      BY <2>1, <3>2
    <3>4. IsPrefix(more, sent)
      BY <1>2, <3>1 DEF SafelyDelimited
    <3>. HIDE DEF more
    <3>5. Len(more) <= Len(sent) /\ \A i \in 1..Len(more) : more[i] = sent[i]
      BY <3>2, <3>3, <3>4, PrefixElements
    <3>6. Len(received) < Len(sent) /\ in \o piece = sent[Len(received) + 1]
      BY <3>2, <3>3, <3>5
    <3>. QED
      BY <2>2, <3>1, <3>6 DEF Channel!Receive
  <2>6. CASE UNCHANGED <<rpc, count, received, result, torn>>
    BY <2>1, <2>6
  <2>. QED
    BY ONLY <2>1, <2>3, <2>4, <2>5, <2>6
<1>11. CASE ReadEof
  <2>1. result # "eof"
    BY <1>11 DEF IInv, Place, InRead, ReadEof
  <2>. QED
    BY <1>9, <1>11, <2>1 DEF ReadEof, Fail
<1>12. CASE ReadInterrupted
  <2>1. result # "eof" /\ torn' = torn
    BY <1>0, <1>12 DEF IInv, Place, InRead, ReadInterrupted
  <2>. QED
    BY <1>12, <2>1 DEF ReadInterrupted, Fail
<1>13. CASE ReadFails
  BY <1>13 DEF ReadFails
<1>14. CASE PeerResets
  <2>1. reset = FALSE /\ reset' = TRUE
    BY <1>14 DEF PeerResets, IInv, Typed
  <2>. QED
    BY <1>14, <2>1 DEF PeerResets, Channel!Cut
<1>15. CASE UNCHANGED vars
  BY <1>15
<1>. QED
  BY <1>3, <1>4, <1>5, <1>6, <1>7, <1>8, <1>10, <1>11, <1>12, <1>13, <1>14, <1>15
     DEF Next, WriterStep, ReaderStep, Finished

\* Writer, kernel and reader implement the channel of whole messages.
THEOREM ImplementsChannel == Spec => ChannelOfMessages
<1>1. Init => Channel!Init
  BY DEF Init, Channel!Init
<1>2. IInv /\ IInv' /\ [Next]_vars => [Channel!Next]_(Channel!vars)
  BY ChannelStep
<1>. QED
  BY <1>1, <1>2, Invariance, PTL DEF Spec, ChannelOfMessages, Channel!Spec
==============================================================================
