------------------------ MODULE ForwardIOProofs ------------------------
(***************************************************************************)
(* Theorems about ForwardIO for every chunk, every number of bytes and of  *)
(* calls, and every set of faults: what is forwarded is neither lost without *)
(* notice, repeated nor reordered, and the count returned is the count moved. *)
(***************************************************************************)
EXTENDS ForwardIO, TLAPS

Facts == INSTANCE SequenceTheorems

-----------------------------------------------------------------------------
Ascending(s) == \A i, j \in 1..Len(s) : i < j => s[i] < s[j]
Below(s, t) == \A i \in 1..Len(s), j \in 1..Len(t) : s[i] < t[j]
AtMost(s, n) == \A i \in 1..Len(s) : s[i] <= n

InLine(d, b, s, n) ==
  /\ Ascending(d) /\ Ascending(b) /\ Ascending(s)
  /\ Below(d, b) /\ Below(d, s) /\ Below(b, s)
  /\ AtMost(d, n) /\ AtMost(b, n) /\ AtMost(s, n)

\* The parts of a sequence that is split after k elements.
LEMMA Split ==
  ASSUME NEW T, NEW s \in Seq(T), NEW k \in 0..Len(s)
  PROVE  /\ SubSeq(s, 1, k) \in Seq(T) /\ SubSeq(s, k + 1, Len(s)) \in Seq(T)
         /\ Len(SubSeq(s, 1, k)) = k /\ Len(SubSeq(s, k + 1, Len(s))) = Len(s) - k
         /\ \A i \in 1..k : SubSeq(s, 1, k)[i] = s[i]
         /\ \A i \in 1..(Len(s) - k) : SubSeq(s, k + 1, Len(s))[i] = s[i + k]
OBVIOUS

\* The parts put together again.
LEMMA SplitJoins ==
  ASSUME NEW T, NEW s \in Seq(T), NEW k \in 0..Len(s)
  PROVE  SubSeq(s, 1, k) \o SubSeq(s, k + 1, Len(s)) = s
<1>. DEFINE a == SubSeq(s, 1, k)
            b == SubSeq(s, k + 1, Len(s))
<1>1. /\ a \in Seq(T) /\ b \in Seq(T) /\ Len(a) = k /\ Len(b) = Len(s) - k
      /\ \A i \in 1..k : a[i] = s[i]
      /\ \A i \in 1..(Len(s) - k) : b[i] = s[i + k]
  BY Split
<1>. HIDE DEF a, b
<1>2. a \o b \in Seq(T) /\ Len(a \o b) = Len(s)
  BY <1>1
<1>3. ASSUME NEW i \in 1..Len(s) PROVE (a \o b)[i] = s[i]
  <2>1. CASE i <= k
    BY <1>1, <2>1
  <2>2. CASE i > k
    <3>1. i - k \in 1..(Len(s) - k) /\ (i - k) + k = i
      BY <2>2
    <3>2. (a \o b)[i] = b[i - k]
      BY <1>1, <2>2, <3>1
    <3>3. b[i - k] = s[(i - k) + k]
      BY <1>1, <3>1
    <3>. QED
      BY <3>1, <3>2, <3>3
  <2>3. i <= k \/ i > k
    OBVIOUS
  <2>. QED
    BY ONLY <2>1, <2>2, <2>3, Zenon
<1>4. a \o b = s
  BY <1>1, <1>2, <1>3, Facts!SeqEqual
<1>. QED
  BY <1>4 DEF a, b

\* The parts of an ascending sequence ascend, one below the other, and are above
\* and below whatever the whole was above and below.
LEMMA Parts ==
  ASSUME NEW s \in Seq(Int), NEW k \in 0..Len(s), Ascending(s), NEW n
  PROVE  LET a == SubSeq(s, 1, k)
             b == SubSeq(s, k + 1, Len(s))
         IN  /\ Ascending(a) /\ Ascending(b) /\ Below(a, b)
             /\ \A t : Below(t, s) => Below(t, a) /\ Below(t, b)
             /\ \A t : Below(s, t) => Below(a, t) /\ Below(b, t)
             /\ AtMost(s, n) => AtMost(a, n) /\ AtMost(b, n)
<1>. DEFINE a == SubSeq(s, 1, k)
            b == SubSeq(s, k + 1, Len(s))
<1>1. /\ a \in Seq(Int) /\ b \in Seq(Int) /\ Len(a) = k /\ Len(b) = Len(s) - k
      /\ \A i \in 1..k : a[i] = s[i]
      /\ \A i \in 1..(Len(s) - k) : b[i] = s[i + k]
  BY Split
<1>2. /\ \A i \in 1..k : i \in 1..Len(s)
      /\ \A i \in 1..(Len(s) - k) : i + k \in 1..Len(s)
      /\ \A i \in 1..k, j \in 1..(Len(s) - k) : i < j + k
      /\ \A i, j \in 1..(Len(s) - k) : i < j => i + k < j + k
  OBVIOUS
<1>. HIDE DEF a, b
<1>3. Ascending(a) /\ Ascending(b) /\ Below(a, b)
  BY <1>1, <1>2 DEF Ascending, Below
<1>4. ASSUME NEW t, Below(t, s) PROVE Below(t, a) /\ Below(t, b)
  BY <1>1, <1>2, <1>4 DEF Below
<1>5. ASSUME NEW t, Below(s, t) PROVE Below(a, t) /\ Below(b, t)
  BY <1>1, <1>2, <1>5 DEF Below
<1>6. AtMost(s, n) => AtMost(a, n) /\ AtMost(b, n)
  BY <1>1, <1>2 DEF AtMost
<1>. QED
  BY <1>3, <1>4, <1>5, <1>6 DEF a, b

\* Two ascending sequences, one below the other, ascend together.
LEMMA Joined ==
  ASSUME NEW a \in Seq(Int), NEW b \in Seq(Int), Ascending(a), Ascending(b), Below(a, b),
         NEW n, NEW t
  PROVE  /\ Ascending(a \o b)
         /\ Below(a, t) /\ Below(b, t) => Below(a \o b, t)
         /\ AtMost(a, n) /\ AtMost(b, n) => AtMost(a \o b, n)
<1>. DEFINE c == a \o b
<1>1. /\ c \in Seq(Int) /\ Len(c) = Len(a) + Len(b)
      /\ \A i \in 1..Len(c) : \/ i \in 1..Len(a) /\ c[i] = a[i]
                              \/ i - Len(a) \in 1..Len(b) /\ c[i] = b[i - Len(a)]
  <2>1. ASSUME NEW i \in 1..Len(c)
        PROVE  \/ i \in 1..Len(a) /\ c[i] = a[i]
               \/ i - Len(a) \in 1..Len(b) /\ c[i] = b[i - Len(a)]
    OBVIOUS
  <2>. QED
    BY <2>1
<1>. HIDE DEF c
<1>2. Ascending(c)
  <2>. SUFFICES ASSUME NEW i \in 1..Len(c), NEW j \in 1..Len(c), i < j PROVE c[i] < c[j]
    BY DEF Ascending
  <2>1. CASE j \in 1..Len(a)
    <3>1. i \in 1..Len(a) /\ i - Len(a) \notin 1..Len(b) /\ j - Len(a) \notin 1..Len(b)
      BY <1>1, <2>1
    <3>. QED
      BY <1>1, <2>1, <3>1 DEF Ascending
  <2>2. CASE i \in 1..Len(a) /\ j - Len(a) \in 1..Len(b)
    <3>1. i - Len(a) \notin 1..Len(b) /\ j \notin 1..Len(a)
      BY <2>2
    <3>. QED
      BY <1>1, <2>2, <3>1 DEF Below
  <2>3. CASE i - Len(a) \in 1..Len(b) /\ j - Len(a) \in 1..Len(b)
    <3>1. i \notin 1..Len(a) /\ j \notin 1..Len(a) /\ i - Len(a) < j - Len(a)
      BY <2>3
    <3>. QED
      BY <1>1, <2>3, <3>1 DEF Ascending
  <2>. QED
    BY <1>1, <2>1, <2>2, <2>3
<1>3. Below(a, t) /\ Below(b, t) => Below(c, t)
  BY <1>1 DEF Below
<1>4. AtMost(a, n) /\ AtMost(b, n) => AtMost(c, n)
  BY <1>1 DEF AtMost
<1>. QED
  BY <1>2, <1>3, <1>4 DEF c

\* Nothing is in line with anything.
LEMMA EmptyInLine ==
  ASSUME NEW t, NEW n
  PROVE  Ascending(<<>>) /\ Below(<<>>, t) /\ Below(t, <<>>) /\ AtMost(<<>>, n)
BY DEF Ascending, Below, AtMost

\* Bytes read, bytes written, bytes that go missing, and a byte more.
LEMMA GotInLine ==
  ASSUME NEW d \in Seq(Int), NEW b, NEW s \in Seq(Int), NEW n, NEW k \in 0..Len(s),
         InLine(d, b, s, n)
  PROVE  InLine(d, SubSeq(s, 1, k), SubSeq(s, k + 1, Len(s)), n)
BY Parts DEF InLine

\* The first k bytes of the buffer are written, the rest is lost or was none.
LEMMA WroteInLine ==
  ASSUME NEW d \in Seq(Int), NEW b \in Seq(Int), NEW s \in Seq(Int), NEW n, NEW k \in 0..Len(b),
         InLine(d, b, s, n)
  PROVE  InLine(d \o SubSeq(b, 1, k), <<>>, s, n)
<1>. DEFINE a == SubSeq(b, 1, k)
<1>1. a \in Seq(Int) /\ Ascending(a) /\ Below(d, a) /\ Below(a, s) /\ AtMost(a, n)
  BY Parts, Split DEF InLine
<1>. HIDE DEF a
<1>2. Ascending(d \o a) /\ Below(d \o a, s) /\ AtMost(d \o a, n)
  BY <1>1, Joined DEF InLine
<1>3. InLine(d \o a, <<>>, s, n)
  BY <1>2, EmptyInLine DEF InLine
<1>. QED
  BY <1>3 DEF a

\* The bytes of the buffer, or the first ones of the source, are lost.
LEMMA LostInLine ==
  ASSUME NEW d \in Seq(Int), NEW b \in Seq(Int), NEW s \in Seq(Int), NEW n,
         InLine(d, b, s, n)
  PROVE  /\ InLine(d, <<>>, s, n) /\ InLine(d, <<>>, <<>>, n)
         /\ \A k \in 0..Len(s) : InLine(d, <<>>, SubSeq(s, k + 1, Len(s)), n)
BY EmptyInLine, Parts DEF InLine

\* The source delivers one byte more.
LEMMA ProducedInLine ==
  ASSUME NEW d \in Seq(Int), NEW b \in Seq(Int), NEW s \in Seq(Int), NEW n \in Int,
         InLine(d, b, s, n)
  PROVE  InLine(d, b, Append(s, n + 1), n + 1)
<1>. DEFINE c == Append(s, n + 1)
<1>1. /\ c \in Seq(Int) /\ Len(c) = Len(s) + 1
      /\ \A i \in 1..Len(s) : c[i] = s[i]
      /\ c[Len(s) + 1] = n + 1
      /\ \A i \in 1..(Len(s) + 1) : i \in 1..Len(s) \/ i = Len(s) + 1
      /\ \A i \in 1..Len(s) : i < Len(s) + 1
      /\ \A i \in 1..Len(s) : ~(Len(s) + 1 < i)
  OBVIOUS
<1>. HIDE DEF c
<1>2. AtMost(c, n + 1) /\ AtMost(d, n + 1) /\ AtMost(b, n + 1)
  <2>1. \A i \in 1..Len(c) : c[i] <= n + 1
    <3>1. \A i \in 1..Len(s) : s[i] \in Int /\ s[i] <= n
      BY DEF InLine, AtMost
    <3>2. \A i \in 1..Len(s) : s[i] <= n + 1
      BY <3>1
    <3>3. n + 1 <= n + 1
      OBVIOUS
    <3>. QED
      BY <1>1, <3>2, <3>3
  <2>2. (\A i \in 1..Len(d) : d[i] \in Int) /\ (\A i \in 1..Len(b) : b[i] \in Int)
    OBVIOUS
  <2>. QED
    BY <2>1, <2>2 DEF InLine, AtMost
<1>3. Ascending(c)
  <2>1. \A i \in 1..Len(s) : s[i] \in Int
    OBVIOUS
  <2>2. \A i \in 1..Len(s) : s[i] < n + 1
    BY <2>1 DEF InLine, AtMost
  <2>. SUFFICES ASSUME NEW i \in 1..Len(c), NEW j \in 1..Len(c), i < j PROVE c[i] < c[j]
    BY DEF Ascending
  <2>3. CASE j \in 1..Len(s)
    <3>1. i \in 1..Len(s)
      BY <1>1, <2>3
    <3>. QED
      BY <1>1, <2>3, <3>1 DEF InLine, Ascending
  <2>4. CASE j = Len(s) + 1
    <3>1. i \in 1..Len(s)
      BY <1>1, <2>4
    <3>. QED
      BY <1>1, <2>2, <2>4, <3>1
  <2>. QED
    BY <1>1, <2>3, <2>4
<1>4. Below(d, c) /\ Below(b, c)
  <2>1. (\A i \in 1..Len(d) : d[i] \in Int) /\ (\A i \in 1..Len(b) : b[i] \in Int)
    OBVIOUS
  <2>2. (\A i \in 1..Len(d) : d[i] < n + 1) /\ (\A i \in 1..Len(b) : b[i] < n + 1)
    BY <2>1 DEF InLine, AtMost
  <2>. QED
    BY <1>1, <2>2 DEF InLine, Below
<1>5. InLine(d, b, c, n + 1)
  BY <1>2, <1>3, <1>4 DEF InLine
<1>. QED
  BY <1>5 DEF c

-----------------------------------------------------------------------------
\* The inductive invariant: what has been delivered is in line; where a call
\* is; how much of what it was asked for it has moved; where the bytes are.
Ordered == InLine(dst.bytes, call.buf, src.bytes, produced)
Stages ==
  /\ call.at = "idle" => call.buf = <<>>
  /\ call.at = "read" => call.buf = <<>> /\ call.left > 0
  /\ call.at = "write" => call.buf # <<>>
  /\ lost.now => lost.ever
Moved == Len(dst.bytes) - call.before
Counted ==
  /\ call.at # "idle" =>
       /\ Moved >= 0 /\ Moved + Len(call.buf) + call.left <= call.count
       /\ ~lost.now => Moved + Len(call.buf) + call.left = call.count
  /\ call.at = "idle" /\ calls > 0 =>
       /\ Moved <= call.count
       /\ ~lost.now => (ret = call.count <=> Moved = call.count)
AllThere == ~lost.ever => dst.bytes \o call.buf \o src.bytes = [i \in 1..produced |-> i]

IInv == TypeOK /\ Ordered /\ Stages /\ Counted /\ AllThere

\* A sequence over a set is one over every larger set.
LEMMA Wider ==
  ASSUME NEW T, NEW U, T \subseteq U, NEW s \in Seq(T)
  PROVE  s \in Seq(U)
<1>1. \A i \in 1..Len(s) : s[i] \in U
  OBVIOUS
<1>2. s = [i \in 1..Len(s) |-> s[i]] /\ Len(s) \in Nat
  OBVIOUS
<1>. QED
  BY ONLY <1>1, <1>2

\* The parts of the state and their types.
LEMMA TypeFacts ==
  ASSUME TypeOK
  PROVE  /\ src.bytes \in Seq(Bytes) /\ dst.bytes \in Seq(Bytes) /\ call.buf \in Seq(Bytes)
         /\ src.bytes \in Seq(Int) /\ dst.bytes \in Seq(Int) /\ call.buf \in Seq(Int)
         /\ Len(src.bytes) \in Nat /\ Len(dst.bytes) \in Nat /\ Len(call.buf) \in Nat
         /\ produced \in Nat /\ call.count \in Nat /\ call.left \in Nat /\ call.before \in Nat
         /\ calls \in Nat
<1>1. Bytes \subseteq Int
  BY ConstantsAssumption DEF ConstantsAssumption, Bytes
<1>2. /\ src.bytes \in Seq(Bytes) /\ dst.bytes \in Seq(Bytes) /\ call.buf \in Seq(Bytes)
      /\ call.count \in Nat /\ call.left \in Nat /\ call.before \in Nat
  BY DEF TypeOK
<1>3. produced \in Nat /\ calls \in Nat
  BY ConstantsAssumption DEF ConstantsAssumption, TypeOK
<1>4. ASSUME NEW s \in Seq(Bytes) PROVE s \in Seq(Int) /\ Len(s) \in Nat
  <2>1. s \in Seq(Int)
    BY <1>1, Wider, Zenon
  <2>. QED
    BY <2>1
<1>. QED
  BY <1>2, <1>3, <1>4

\* What a step of reading comes to.
ReadsNothing == src'.bytes = src.bytes /\ lost' = lost
ReadsInVain ==
  /\ Lose
  /\ \/ src'.bytes = <<>>
     \/ \E n \in 0..Len(src.bytes) : src'.bytes = SubSeq(src.bytes, n + 1, Len(src.bytes))

\* A step of reading gets bytes, or returns with or without a loss.
LEMMA ReadOutcome ==
  ASSUME TypeOK, Stages, Read
  PROVE  /\ call.at = "read" /\ UNCHANGED <<dst, peer, produced, calls>>
         /\ src' \in [backend : Backends, bytes : Seq(Bytes)]
         /\ \/ \E n \in 1..Len(src.bytes) : n <= call.left /\ Got(n)
            \/ \E r \in {Eof, Error, 0} : Return(r) /\ (ReadsNothing \/ ReadsInVain)
<1>1. /\ call.at = "read" /\ UNCHANGED <<dst, peer, produced, calls>>
      /\ call.left > 0 /\ src \in [backend : Backends, bytes : Seq(Bytes)]
  BY DEF Read, Stages, TypeOK
<1>2. /\ Chunk \in Nat /\ Chunk > 0 /\ call.left \in Nat /\ Len(src.bytes) \in Nat
      /\ src.bytes \in Seq(Bytes)
  BY ConstantsAssumption, TypeFacts DEF ConstantsAssumption
<1>3. Asked \in Nat /\ Asked > 0 /\ Asked <= call.left
  BY <1>1, <1>2 DEF Asked, Lesser
<1>. DEFINE Outcome ==
              /\ src' \in [backend : Backends, bytes : Seq(Bytes)]
              /\ \/ \E n \in 1..Len(src.bytes) : n <= call.left /\ Got(n)
                 \/ \E r \in {Eof, Error, 0} : Return(r) /\ (ReadsNothing \/ ReadsInVain)
<1>4. ASSUME NEW n \in 1..Len(src.bytes), n <= call.left, Got(n) PROVE Outcome
  <2>1. SubSeq(src.bytes, n + 1, Len(src.bytes)) \in Seq(Bytes)
    BY <1>2
  <2>2. src' = [src EXCEPT !.bytes = SubSeq(src.bytes, n + 1, Len(src.bytes))]
    BY <1>4 DEF Got
  <2>3. src' \in [backend : Backends, bytes : Seq(Bytes)]
    BY ONLY <1>1, <2>1, <2>2
  <2>. QED
    BY <1>4, <2>3
<1>5. ASSUME NEW r \in {Eof, Error, 0}, Return(r), UNCHANGED <<src, lost>> PROVE Outcome
  BY <1>1, <1>5 DEF ReadsNothing
<1>6. ASSUME SysRead PROVE Outcome
  <2>1. CASE src.bytes # <<>>
    <3>1. Len(src.bytes) > 0
      BY <1>2, <2>1
    <3>2. PICK n \in 1..Lesser(Asked, Len(src.bytes)) : Got(n)
      BY <1>6, <2>1 DEF SysRead
    <3>3. n \in 1..Len(src.bytes) /\ n <= call.left
      BY <1>2, <1>3, <3>1 DEF Lesser
    <3>. HIDE DEF Outcome
    <3>. QED
      BY <1>4, <3>2, <3>3
  <2>2. CASE src.bytes = <<>>
    BY <1>5, <1>6, <2>2 DEF SysRead
  <2>. QED
    BY <2>1, <2>2
<1>7. ASSUME BufferRead PROVE Outcome
  <2>1. CASE src.bytes # <<>>
    <3>. DEFINE n == Lesser(Asked, Len(src.bytes))
    <3>1. Len(src.bytes) > 0
      BY <1>2, <2>1
    <3>2. Got(n)
      BY <1>7, <2>1 DEF BufferRead
    <3>3. n \in 1..Len(src.bytes) /\ n <= call.left
      BY <1>2, <1>3, <3>1 DEF Lesser
    <3>. HIDE DEF Outcome, n
    <3>. QED
      BY <1>4, <3>2, <3>3
  <2>2. CASE src.bytes = <<>>
    BY <1>5, <1>7, <2>2 DEF BufferRead
  <2>. QED
    BY <2>1, <2>2
<1>8. ASSUME FileRead PROVE Outcome
  <2>1. CASE Len(src.bytes) >= Asked
    <3>1. Asked \in 1..Len(src.bytes)
      BY <1>2, <1>3, <2>1
    <3>2. Got(Asked)
      BY <1>8, <2>1 DEF FileRead
    <3>. HIDE DEF Outcome
    <3>. QED
      BY <1>3, <1>4, <3>1, <3>2
  <2>2. CASE ~(Len(src.bytes) >= Asked)
    <3>1. /\ Return(Eof) /\ src' = [src EXCEPT !.bytes = <<>>]
          /\ IF src.bytes = <<>> THEN UNCHANGED lost ELSE Lose
      BY <1>8, <2>2 DEF FileRead
    <3>0. <<>> \in Seq(Bytes)
      OBVIOUS
    <3>2. src' \in [backend : Backends, bytes : Seq(Bytes)] /\ src'.bytes = <<>>
      BY <1>1, <3>0, <3>1
    <3>3. ReadsNothing \/ ReadsInVain
      BY <3>1, <3>2 DEF ReadsNothing, ReadsInVain
    <3>. QED
      BY <3>1, <3>2, <3>3
  <2>. QED
    BY <2>1, <2>2
<1>9. ASSUME ReadFails PROVE Outcome
  <2>1. CASE UNCHANGED <<src, lost>>
    BY <1>5, <1>9, <2>1 DEF ReadFails
  <2>2. CASE \E n \in 0 .. Lesser(Asked - 1, Len(src.bytes)) :
               /\ src' = [src EXCEPT !.bytes = SubSeq(@, n + 1, Len(@))]
               /\ IF n = 0 THEN UNCHANGED lost ELSE Lose
    <3>1. PICK n \in 0 .. Lesser(Asked - 1, Len(src.bytes)) :
               /\ src' = [src EXCEPT !.bytes = SubSeq(@, n + 1, Len(@))]
               /\ IF n = 0 THEN UNCHANGED lost ELSE Lose
      BY <2>2
    <3>2. n \in 0..Len(src.bytes)
      BY <1>2, <1>3 DEF Lesser
    <3>. DEFINE rest == SubSeq(src.bytes, n + 1, Len(src.bytes))
    <3>3. rest \in Seq(Bytes) /\ (n = 0 => rest = src.bytes)
      <4>1. rest \in Seq(Bytes) /\ Len(rest) = Len(src.bytes) - n
            /\ \A i \in 1..(Len(src.bytes) - n) : rest[i] = src.bytes[i + n]
        BY <1>2, <3>2, Split
      <4>. HIDE DEF rest
      <4>2. ASSUME n = 0 PROVE rest = src.bytes
        <5>1. Len(rest) = Len(src.bytes) /\ \A i \in 1..Len(src.bytes) : rest[i] = src.bytes[i]
          BY <1>2, <4>1, <4>2
        <5>. QED
          BY <1>2, <4>1, <5>1, Facts!SeqEqual
      <4>. QED
        BY <4>1, <4>2
    <3>4. src' \in [backend : Backends, bytes : Seq(Bytes)] /\ src'.bytes = rest
      BY <1>1, <3>1, <3>3
    <3>5. ReadsNothing \/ ReadsInVain
      BY <3>1, <3>2, <3>3, <3>4 DEF ReadsNothing, ReadsInVain
    <3>. QED
      BY <1>9, <3>4, <3>5 DEF ReadFails
  <2>. QED
    BY <1>9, <2>1, <2>2 DEF ReadFails
<1>. HIDE DEF Outcome
<1>10. Outcome
  BY <1>6, <1>7, <1>8, <1>9 DEF Read
<1>. QED
  BY <1>1, <1>10 DEF Outcome

\* A call that returns keeps its count.
LEMMA Returned ==
  ASSUME TypeOK, NEW r, Return(r)
  PROVE  /\ call'.at = "idle" /\ call'.buf = <<>> /\ ret' = r
         /\ call'.count = call.count /\ call'.left = call.left /\ call'.before = call.before
         /\ call' \in [at : {"idle", "read", "write"}, count : Nat, left : Nat,
                       buf : Seq(Bytes), before : Nat]
<1>1. <<>> \in Seq(Bytes)
  OBVIOUS
<1>. QED
  BY <1>1 DEF TypeOK, Return

\* What has been read is in the buffer, and no longer in the source.
LEMMA GotBytes ==
  ASSUME TypeOK, NEW n \in 1..Len(src.bytes), n <= call.left, Got(n)
  PROVE  /\ call'.at = "write" /\ call'.buf = SubSeq(src.bytes, 1, n)
         /\ call'.count = call.count /\ call'.left = call.left - n
         /\ call'.before = call.before
         /\ src'.bytes = SubSeq(src.bytes, n + 1, Len(src.bytes))
         /\ call' \in [at : {"idle", "read", "write"}, count : Nat, left : Nat,
                       buf : Seq(Bytes), before : Nat]
         /\ UNCHANGED <<ret, lost>>
<1>1. SubSeq(src.bytes, 1, n) \in Seq(Bytes) /\ call.left - n \in Nat
  BY TypeFacts
<1>. QED
  BY <1>1 DEF TypeOK, Got

\* What is lost now is lost for ever.
LEMMA Losing ==
  ASSUME Lose
  PROVE  lost'.now /\ lost'.ever /\ lost' \in [now : BOOLEAN, ever : BOOLEAN]
BY DEF Lose

\* Where the bytes are after a read, and that they are all there.
LEMMA GotAllThere ==
  ASSUME TypeOK, Stages, AllThere, NEW n \in 1..Len(src.bytes), n <= call.left, Got(n),
         call.at = "read", UNCHANGED <<dst, produced>>
  PROVE  AllThere'
<1>. DEFINE d == dst.bytes
            s == src.bytes
            a == SubSeq(src.bytes, 1, n)
            b == SubSeq(src.bytes, n + 1, Len(src.bytes))
<1>0. d \in Seq(Int) /\ s \in Seq(Int) /\ n \in 0..Len(s)
  BY TypeFacts
<1>a. a \in Seq(Int) /\ b \in Seq(Int)
  <2>. HIDE DEF d, s
  <2>. QED
    BY <1>0, Split DEF s
<1>b. a \o b = s
  BY <1>0, SplitJoins
<1>1. /\ d \in Seq(Int) /\ s \in Seq(Int) /\ a \in Seq(Int) /\ b \in Seq(Int) /\ a \o b = s
  BY ONLY <1>0, <1>a, <1>b
<1>2. /\ dst'.bytes = d /\ call'.buf = a /\ src'.bytes = b /\ call.buf = <<>> /\ lost' = lost
  BY GotBytes DEF Stages
<1>. HIDE DEF d, s, a, b
<1>3. (d \o a) \o b = (d \o <<>>) \o s
  <2>1. (d \o a) \o b = d \o (a \o b)
    <3>1. \A p, q, r \in Seq(Int) : (p \o q) \o r = p \o (q \o r)
      BY Facts!ConcatAssociative
    <3>. QED
      BY ONLY <1>1, <3>1, Zenon
  <2>2. d \o <<>> = d
    BY <1>1
  <2>. QED
    BY <1>1, <2>1, <2>2
<1>4. AllThere => (~lost.ever => (d \o <<>>) \o s = [i \in 1..produced |-> i])
  BY <1>2 DEF AllThere, d, s
<1>. QED
  BY <1>2, <1>3, <1>4 DEF AllThere

\* A step of reading keeps the invariant.
LEMMA ReadStep ==
  ASSUME IInv, Read
  PROVE  IInv'
<1>. USE DEF IInv
<1>1. /\ call.at = "read" /\ UNCHANGED <<dst, peer, produced, calls>>
      /\ src' \in [backend : Backends, bytes : Seq(Bytes)]
      /\ \/ \E n \in 1..Len(src.bytes) : n <= call.left /\ Got(n)
         \/ \E r \in {Eof, Error, 0} : Return(r) /\ (ReadsNothing \/ ReadsInVain)
  BY ReadOutcome
<1>2. /\ call.buf = <<>> /\ Len(call.buf) = 0 /\ call.left > 0 /\ Moved >= 0
      /\ Moved + Len(call.buf) + call.left <= call.count
      /\ ~lost.now => Moved + Len(call.buf) + call.left = call.count
      /\ Moved \in Int /\ call.left \in Nat /\ call.count \in Nat
  BY <1>1, TypeFacts DEF Stages, Counted, Moved
<1>3. ASSUME NEW n \in 1..Len(src.bytes), n <= call.left, Got(n) PROVE IInv'
  <2>1. /\ call'.at = "write" /\ call'.buf = SubSeq(src.bytes, 1, n)
        /\ call'.count = call.count /\ call'.left = call.left - n
        /\ call'.before = call.before
        /\ src'.bytes = SubSeq(src.bytes, n + 1, Len(src.bytes))
        /\ call' \in [at : {"idle", "read", "write"}, count : Nat, left : Nat,
                      buf : Seq(Bytes), before : Nat]
        /\ UNCHANGED <<ret, lost>>
    BY <1>3, GotBytes
  <2>2. n \in 0..Len(src.bytes) /\ n > 0
    BY TypeFacts
  <2>3. Len(call'.buf) = n
    BY <2>1, <2>2, TypeFacts, Split
  <2>4. TypeOK'
    BY <1>1, <2>1 DEF TypeOK
  <2>5. Ordered'
    BY <1>1, <2>1, <2>2, TypeFacts, GotInLine DEF Ordered
  <2>6. Stages'
    <3>1. call'.buf # <<>>
      BY <2>2, <2>3
    <3>. QED
      BY <2>1, <3>1 DEF Stages
  <2>7. Counted'
    <3>1. Moved' = Moved
      BY <1>1, <2>1 DEF Moved
    <3>2. Moved' + Len(call'.buf) + call'.left = Moved + Len(call.buf) + call.left
      BY <1>2, <2>1, <2>3, <3>1
    <3>. QED
      BY <1>2, <2>1, <3>1, <3>2 DEF Counted
  <2>8. AllThere'
    BY <1>1, <1>3, GotAllThere
  <2>. QED
    BY <2>4, <2>5, <2>6, <2>7, <2>8
<1>4. ASSUME NEW r \in {Eof, Error, 0}, Return(r), ReadsNothing \/ ReadsInVain PROVE IInv'
  <2>1. /\ call'.at = "idle" /\ call'.buf = <<>> /\ ret' = r
        /\ call'.count = call.count /\ call'.left = call.left /\ call'.before = call.before
        /\ call' \in [at : {"idle", "read", "write"}, count : Nat, left : Nat,
                      buf : Seq(Bytes), before : Nat]
    BY <1>4, Returned
  <2>2. /\ lost' \in [now : BOOLEAN, ever : BOOLEAN] /\ (lost'.now => lost'.ever)
        /\ (~lost'.now => ~lost.now)
        /\ (~lost'.ever => ~lost.ever /\ src'.bytes = src.bytes)
    BY <1>4, Losing DEF ReadsNothing, ReadsInVain, TypeOK, Stages
  <2>3. TypeOK'
    BY <1>1, <2>1, <2>2 DEF TypeOK
  <2>4. Ordered'
    <3>1. /\ InLine(dst.bytes, <<>>, src.bytes, produced)
          /\ InLine(dst.bytes, <<>>, <<>>, produced)
          /\ \A k \in 0..Len(src.bytes) :
                InLine(dst.bytes, <<>>, SubSeq(src.bytes, k + 1, Len(src.bytes)), produced)
      BY TypeFacts, LostInLine DEF Ordered
    <3>2. InLine(dst.bytes, <<>>, src'.bytes, produced)
      BY <1>4, <3>1 DEF ReadsNothing, ReadsInVain
    <3>. QED
      BY <1>1, <2>1, <3>2 DEF Ordered
  <2>5. Stages'
    BY <2>1, <2>2 DEF Stages
  <2>6. Counted'
    <3>1. Moved' = Moved
      BY <1>1, <2>1 DEF Moved
    <3>2. r # call.count
      BY <1>2 DEF Eof, Error
    <3>3. Moved <= call.count /\ (~lost.now => Moved # call.count)
      BY <1>2
    <3>. QED
      BY <2>1, <2>2, <3>1, <3>2, <3>3 DEF Counted
  <2>7. AllThere'
    BY <1>1, <1>2, <2>1, <2>2 DEF AllThere
  <2>. QED
    BY <2>3, <2>4, <2>5, <2>6, <2>7
<1>. QED
  BY ONLY <1>1, <1>3, <1>4

\* What a step of writing comes to.
LEMMA WriteOutcome ==
  ASSUME TypeOK, Stages, Write
  PROVE  /\ call.at = "write" /\ UNCHANGED <<src, peer, produced, calls>>
         /\ (\E n \in 0..Len(call.buf) : Wrote(n)) \/ WriteFails
<1>1. Len(call.buf) \in Nat
  BY TypeFacts
<1>2. \/ Wrote(Len(call.buf)) \/ WriteFails
      \/ \E n \in 1..Len(call.buf) : Wrote(n)
      \/ \E n \in 0..Len(call.buf) : Wrote(n)
  BY Zenon DEF Write, BufferWrite, SysWrite, FileWrite
<1>3. 1..Len(call.buf) \subseteq 0..Len(call.buf) /\ Len(call.buf) \in 0..Len(call.buf)
  BY <1>1
<1>4. (\E n \in 0..Len(call.buf) : Wrote(n)) \/ WriteFails
  BY <1>2, <1>3, Zenon
<1>. QED
  BY <1>4 DEF Write

\* What has been written is at the end of the destination.
LEMMA WroteBytes ==
  ASSUME TypeOK, NEW n \in 0..Len(call.buf), Wrote(n)
  PROVE  /\ dst'.bytes = dst.bytes \o SubSeq(call.buf, 1, n)
         /\ dst' \in [backend : Backends, bytes : Seq(Bytes)]
         /\ Len(dst'.bytes) = Len(dst.bytes) + n
         /\ call'.buf = <<>>
         /\ call'.count = call.count /\ call'.left = call.left /\ call'.before = call.before
         /\ IF call.left = 0 THEN call'.at = "idle" /\ ret' = call.count
                             ELSE call'.at = "read" /\ ret' = ret
         /\ call' \in [at : {"idle", "read", "write"}, count : Nat, left : Nat,
                       buf : Seq(Bytes), before : Nat]
<1>. DEFINE a == SubSeq(call.buf, 1, n)
<1>1. a \in Seq(Bytes) /\ Len(a) = n /\ dst.bytes \in Seq(Bytes)
  BY TypeFacts, Split
<1>. HIDE DEF a
<1>2. dst.bytes \o a \in Seq(Bytes) /\ Len(dst.bytes \o a) = Len(dst.bytes) + n
  BY <1>1
<1>3. dst' = [dst EXCEPT !.bytes = dst.bytes \o a]
  BY DEF Wrote, a
<1>4. /\ dst'.bytes = dst.bytes \o a
      /\ dst' \in [backend : Backends, bytes : Seq(Bytes)]
  BY <1>2, <1>3 DEF TypeOK
<1>5. CASE call.left = 0
  <2>1. Return(call.count)
    BY <1>5 DEF Wrote
  <2>. QED
    BY <1>2, <1>4, <1>5, <2>1, Returned DEF a
<1>6. CASE call.left # 0
  <2>1. call' = [call EXCEPT !.at = "read", !.buf = <<>>] /\ UNCHANGED ret
    BY <1>6 DEF Wrote
  <2>2. <<>> \in Seq(Bytes)
    OBVIOUS
  <2>3. /\ call'.at = "read" /\ call'.buf = <<>>
        /\ call'.count = call.count /\ call'.left = call.left /\ call'.before = call.before
        /\ call' \in [at : {"idle", "read", "write"}, count : Nat, left : Nat,
                      buf : Seq(Bytes), before : Nat]
    BY <2>1, <2>2 DEF TypeOK
  <2>. QED
    BY <1>2, <1>4, <1>6, <2>1, <2>3 DEF a
<1>. QED
  BY <1>5, <1>6

\* Nothing is missing after a write that was not cut short.
LEMMA WroteAllThere ==
  ASSUME TypeOK, AllThere, NEW n \in 0..Len(call.buf), Wrote(n), UNCHANGED <<src, produced>>,
         ~lost'.ever, lost.ever => lost'.ever
  PROVE  AllThere'
<1>. DEFINE d == dst.bytes
            b == call.buf
            s == src.bytes
<1>1. d \in Seq(Int) /\ b \in Seq(Int) /\ s \in Seq(Int) /\ Len(b) \in Nat
  BY TypeFacts
<1>2. n = Len(b)
  BY <1>1, Losing DEF Wrote
<1>3. dst'.bytes = d \o SubSeq(b, 1, n) /\ call'.buf = <<>> /\ src'.bytes = s
  BY WroteBytes
<1>4. ~lost.ever /\ (d \o b) \o s = [i \in 1..produced |-> i]
  BY DEF AllThere
<1>. HIDE DEF d, b, s
<1>5. SubSeq(b, 1, n) = b
  <2>1. /\ SubSeq(b, 1, n) \in Seq(Int) /\ Len(SubSeq(b, 1, n)) = Len(b)
        /\ \A i \in 1..Len(b) : SubSeq(b, 1, n)[i] = b[i]
    BY <1>1, <1>2
  <2>. QED
    BY <1>1, <2>1, Facts!SeqEqual
<1>6. (d \o b) \o <<>> = d \o b
  BY <1>1
<1>. QED
  BY <1>3, <1>4, <1>5, <1>6 DEF AllThere

\* A step of writing keeps the invariant.
LEMMA WriteStep ==
  ASSUME IInv, Write
  PROVE  IInv'
<1>. USE DEF IInv
<1>1. /\ call.at = "write" /\ UNCHANGED <<src, peer, produced, calls>>
      /\ (\E n \in 0..Len(call.buf) : Wrote(n)) \/ WriteFails
  BY WriteOutcome
<1>2. /\ call.buf # <<>> /\ Moved >= 0
      /\ Moved + Len(call.buf) + call.left <= call.count
      /\ ~lost.now => Moved + Len(call.buf) + call.left = call.count
      /\ Moved \in Int /\ call.left \in Nat /\ call.count \in Nat /\ Len(call.buf) \in Nat
      /\ Len(dst.bytes) \in Nat /\ call.before \in Nat
  BY <1>1, TypeFacts DEF Stages, Counted, Moved
<1>3. ASSUME NEW n \in 0..Len(call.buf), Wrote(n) PROVE IInv'
  <2>1. /\ dst'.bytes = dst.bytes \o SubSeq(call.buf, 1, n)
        /\ dst' \in [backend : Backends, bytes : Seq(Bytes)]
        /\ Len(dst'.bytes) = Len(dst.bytes) + n
        /\ call'.buf = <<>>
        /\ call'.count = call.count /\ call'.left = call.left /\ call'.before = call.before
        /\ IF call.left = 0 THEN call'.at = "idle" /\ ret' = call.count
                            ELSE call'.at = "read" /\ ret' = ret
        /\ call' \in [at : {"idle", "read", "write"}, count : Nat, left : Nat,
                      buf : Seq(Bytes), before : Nat]
    BY <1>3, WroteBytes
  <2>2. /\ IF n < Len(call.buf) THEN Lose ELSE UNCHANGED lost
        /\ lost' \in [now : BOOLEAN, ever : BOOLEAN] /\ (lost'.now => lost'.ever)
        /\ (lost.ever => lost'.ever)
        /\ (~lost'.now => n = Len(call.buf) /\ ~lost.now)
    <3>1. IF n < Len(call.buf) THEN Lose ELSE UNCHANGED lost
      BY <1>3 DEF Wrote
    <3>. QED
      BY <1>2, <3>1, Losing DEF TypeOK, Stages
  <2>3. TypeOK'
    BY <1>1, <1>2, <2>1, <2>2 DEF TypeOK
  <2>4. Ordered'
    BY <1>1, <2>1, TypeFacts, WroteInLine DEF Ordered
  <2>5. Stages'
    BY <1>2, <2>1, <2>2 DEF Stages
  <2>6. Counted'
    <3>1. Moved' = Moved + n /\ Len(call'.buf) = 0
      BY <1>2, <2>1 DEF Moved
    <3>0. n \in Nat /\ n <= Len(call.buf) /\ call'.left = call.left /\ call'.count = call.count
      BY <1>2, <2>1
    <3>a. Moved' >= 0 /\ Moved' \in Int /\ Moved' + Len(call'.buf) + call'.left <= call'.count
      BY ONLY <1>2, <3>0, <3>1
    <3>b. ASSUME ~lost'.now PROVE Moved' + Len(call'.buf) + call'.left = call'.count
      <4>1. n = Len(call.buf) /\ Moved + Len(call.buf) + call.left = call.count
        BY <1>2, <2>2, <3>b
      <4>. QED
        BY ONLY <1>2, <3>0, <3>1, <4>1
    <3>2. /\ Moved' >= 0 /\ Moved' + Len(call'.buf) + call'.left <= call'.count
          /\ ~lost'.now => Moved' + Len(call'.buf) + call'.left = call'.count
          /\ Moved' \in Int
      BY ONLY <3>a, <3>b
    <3>3. CASE call.left = 0
      <4>1. Moved' <= call'.count /\ (~lost'.now => Moved' = call'.count)
        BY <1>2, <2>1, <3>1, <3>2, <3>3
      <4>. QED
        BY <2>1, <3>3, <4>1 DEF Counted
    <3>4. CASE call.left # 0
      BY <2>1, <3>2, <3>4 DEF Counted
    <3>. QED
      BY <3>3, <3>4
  <2>7. AllThere'
    <3>1. CASE lost'.ever
      BY <3>1 DEF AllThere
    <3>2. CASE ~lost'.ever
      BY <1>1, <1>3, <2>2, <3>2, WroteAllThere
    <3>. QED
      BY <3>1, <3>2
  <2>. QED
    BY <2>3, <2>4, <2>5, <2>6, <2>7
<1>4. CASE WriteFails
  <2>1. /\ call'.at = "idle" /\ call'.buf = <<>> /\ ret' = Error
        /\ call'.count = call.count /\ call'.left = call.left /\ call'.before = call.before
        /\ call' \in [at : {"idle", "read", "write"}, count : Nat, left : Nat,
                      buf : Seq(Bytes), before : Nat]
        /\ dst' = dst
    BY <1>4, Returned DEF WriteFails
  <2>2. lost'.now /\ lost'.ever /\ lost' \in [now : BOOLEAN, ever : BOOLEAN]
    BY <1>4, Losing DEF WriteFails
  <2>3. TypeOK'
    BY <1>1, <2>1, <2>2 DEF TypeOK
  <2>4. Ordered'
    BY <1>1, <2>1, TypeFacts, LostInLine DEF Ordered
  <2>5. Stages'
    BY <2>1, <2>2 DEF Stages
  <2>6. Counted'
    <3>1. Moved' = Moved /\ Moved <= call.count
      BY <1>2, <2>1 DEF Moved
    <3>. QED
      BY <2>1, <2>2, <3>1 DEF Counted
  <2>7. AllThere'
    BY <2>2 DEF AllThere
  <2>. QED
    BY <2>3, <2>4, <2>5, <2>6, <2>7
<1>. QED
  BY <1>1, <1>3, <1>4

-----------------------------------------------------------------------------
\* The first n + 1 bytes are the first n and one more.
LEMMA CountUp ==
  ASSUME NEW n \in Nat
  PROVE  Append([i \in 1..n |-> i], n + 1) = [i \in 1..(n + 1) |-> i]
<1>. DEFINE a == [i \in 1..n |-> i]
            b == [i \in 1..(n + 1) |-> i]
<1>1. a \in Seq(Int) /\ b \in Seq(Int) /\ Len(a) = n /\ Len(b) = n + 1
  OBVIOUS
<1>2. \A i \in 1..n : a[i] = i
  OBVIOUS
<1>3. \A i \in 1..(n + 1) : b[i] = i
  OBVIOUS
<1>. HIDE DEF a, b
<1>4. Append(a, n + 1) \in Seq(Int) /\ Len(Append(a, n + 1)) = n + 1
  BY <1>1
<1>5. ASSUME NEW i \in 1..(n + 1) PROVE Append(a, n + 1)[i] = b[i]
  BY <1>1, <1>2, <1>3
<1>6. Append(a, n + 1) = b
  BY <1>1, <1>4, <1>5, Facts!SeqEqual
<1>. QED
  BY <1>6 DEF a, b

\* A byte more in the source keeps the invariant.
LEMMA ProduceStep ==
  ASSUME IInv, Produce
  PROVE  IInv'
<1>. USE DEF IInv
<1>. DEFINE more == Append(src.bytes, produced + 1)
<1>1. /\ src' = [src EXCEPT !.bytes = more] /\ produced' = produced + 1
      /\ produced \in Nat /\ produced < MaxBytes /\ MaxBytes \in Nat
      /\ UNCHANGED <<dst, peer, call, ret, calls, lost>>
  BY TypeFacts, ConstantsAssumption DEF Produce, ConstantsAssumption
<1>2. more \in Seq(Bytes)
  <2>1. produced + 1 \in Bytes
    BY <1>1 DEF Bytes
  <2>. QED
    BY <2>1, TypeFacts
<1>3. src'.bytes = more /\ src' \in [backend : Backends, bytes : Seq(Bytes)]
  BY <1>1, <1>2 DEF TypeOK
<1>4. TypeOK'
  BY <1>1, <1>3 DEF TypeOK
<1>5. Ordered'
  <2>1. InLine(dst.bytes, call.buf, more, produced + 1)
    BY <1>1, TypeFacts, ProducedInLine DEF Ordered
  <2>. HIDE DEF more
  <2>. QED
    BY <1>1, <1>3, <2>1 DEF Ordered
<1>6. Stages' /\ Counted'
  BY <1>1 DEF Stages, Counted, Moved
<1>7. AllThere'
  <2>. SUFFICES ASSUME ~lost'.ever PROVE (dst.bytes \o call.buf) \o more = [i \in 1..(produced + 1) |-> i]
    BY <1>1, <1>3 DEF AllThere
  <2>. DEFINE db == dst.bytes \o call.buf
              s == src.bytes
  <2>1. db \in Seq(Int) /\ s \in Seq(Int)
    BY TypeFacts
  <2>2. db \o s = [i \in 1..produced |-> i]
    BY <1>1 DEF AllThere
  <2>. HIDE DEF db
  <2>3. db \o Append(s, produced + 1) = Append(db \o s, produced + 1)
    <3>. HIDE DEF s
    <3>. QED
      BY <1>1, <2>1
  <2>4. Append(db \o s, produced + 1) = [i \in 1..(produced + 1) |-> i]
    BY <1>1, <2>2, CountUp
  <2>. QED
    BY <2>3, <2>4 DEF db
<1>. QED
  BY <1>4, <1>5, <1>6, <1>7

\* A reset takes bytes from the end of the source, and what is left stays in line.
LEMMA PeerResetsStep ==
  ASSUME IInv, PeerResets
  PROVE  IInv'
<1>. USE DEF IInv
<1>1. PICK n \in 0..Len(src.bytes) :
        /\ src' = [src EXCEPT !.bytes = SubSeq(src.bytes, 1, n)]
        /\ lost' = [lost EXCEPT !.ever = lost.ever \/ n < Len(src.bytes)]
  BY DEF PeerResets
<1>2. peer' = "closed" /\ UNCHANGED <<dst, produced, call, ret, calls>>
  BY DEF PeerResets
<1>3. lost'.now = lost.now /\ lost'.ever = (lost.ever \/ n < Len(src.bytes))
  BY <1>1 DEF TypeOK
<1>. DEFINE left == SubSeq(src.bytes, 1, n)
<1>4. left \in Seq(Bytes) /\ (n = Len(src.bytes) => left = src.bytes)
  BY TypeFacts
<1>5. InLine(dst.bytes, call.buf, left, produced)
  BY TypeFacts, Parts DEF InLine, Ordered
<1>. HIDE DEF left
<1>6. src'.bytes = left /\ src' \in [backend : Backends, bytes : Seq(Bytes)]
  BY <1>1, <1>4 DEF TypeOK, left
<1>7. lost' \in [now : BOOLEAN, ever : BOOLEAN]
  BY <1>1 DEF TypeOK
<1>8. TypeOK'
  BY <1>2, <1>6, <1>7 DEF TypeOK
<1>9. Ordered' /\ Stages' /\ Counted'
  BY <1>2, <1>3, <1>5, <1>6 DEF Ordered, Stages, Counted, Moved
<1>10. AllThere'
  <2>1. ~lost'.ever => ~lost.ever /\ n = Len(src.bytes)
    <3>1. n < Len(src.bytes) \/ n = Len(src.bytes)
      BY TypeFacts
    <3>. QED
      BY <1>3, <3>1, Zenon
  <2>. QED
    BY <1>2, <1>4, <1>6, <2>1 DEF AllThere
<1>. QED
  BY <1>8, <1>9, <1>10

\* A new call keeps the invariant.
LEMMA ForwardStep ==
  ASSUME IInv, NEW count \in 0..MaxBytes, Forward(count)
  PROVE  IInv'
<1>. USE DEF IInv
<1>1. /\ call.at = "idle" /\ call.buf = <<>> /\ count \in Nat
      /\ calls < MaxCalls /\ calls' = calls + 1 /\ calls \in Nat /\ MaxCalls \in Nat
      /\ UNCHANGED <<src, dst, peer, produced>>
      /\ ret' = IF count = 0 THEN 0 ELSE ret
      /\ lost' = [lost EXCEPT !.now = FALSE]
  BY TypeFacts, ConstantsAssumption DEF Forward, ConstantsAssumption, Stages
<1>2. /\ call'.at = IF count = 0 THEN "idle" ELSE "read"
      /\ call'.count = count /\ call'.left = count /\ call'.buf = <<>>
      /\ call'.before = Len(dst.bytes)
      /\ call' \in [at : {"idle", "read", "write"}, count : Nat, left : Nat,
                    buf : Seq(Bytes), before : Nat]
  <2>1. <<>> \in Seq(Bytes) /\ Len(dst.bytes) \in Nat
    BY TypeFacts
  <2>. QED
    BY <1>1, <2>1 DEF Forward
<1>3. lost' \in [now : BOOLEAN, ever : BOOLEAN] /\ lost'.now = FALSE /\ lost'.ever = lost.ever
  BY <1>1 DEF TypeOK
<1>4. TypeOK'
  BY <1>1, <1>2, <1>3 DEF TypeOK
<1>5. Ordered' /\ AllThere'
  BY <1>1, <1>2, <1>3 DEF Ordered, AllThere
<1>6. Stages'
  BY <1>1, <1>2, <1>3 DEF Stages
<1>7. Counted'
  <2>1. Moved' = 0 /\ Len(call'.buf) = 0
    BY <1>1, <1>2, TypeFacts DEF Moved
  <2>. QED
    BY <1>1, <1>2, <2>1 DEF Counted
<1>. QED
  BY <1>4, <1>5, <1>6, <1>7

\* The invariant holds at the start.
LEMMA InvInit == Init => IInv
<1>. SUFFICES ASSUME Init PROVE IInv
  OBVIOUS
<1>1. /\ dst \in [backend : Backends, bytes : {<<>>}] /\ call = Idle /\ ret = 0 /\ calls = 0
      /\ lost = [now |-> FALSE, ever |-> FALSE]
  BY DEF Init
<1>2. PICK b \in Backends, n \in 0..MaxBytes :
        /\ src = [backend |-> b, bytes |-> [i \in 1..n |-> i]]
        /\ produced = n
        /\ peer = IF b = "file" THEN "closed" ELSE "open"
  BY DEF Init
<1>. DEFINE s == [i \in 1..n |-> i]
<1>3. n \in Nat /\ s \in Seq(Bytes) /\ s \in Seq(Int) /\ Len(s) = n /\ \A i \in 1..n : s[i] = i
  BY ConstantsAssumption DEF ConstantsAssumption, Bytes
<1>. HIDE DEF s
<1>4. src \in [backend : Backends, bytes : Seq(Bytes)] /\ src.bytes = s
  BY <1>2, <1>3 DEF s
<1>5. <<>> \in Seq(Bytes) /\ Len(<<>>) = 0
  OBVIOUS
<1>6. dst \in [backend : Backends, bytes : Seq(Bytes)] /\ dst.bytes = <<>>
  BY <1>1, <1>5
<1>7. TypeOK
  BY <1>1, <1>2, <1>4, <1>5, <1>6, ConstantsAssumption DEF TypeOK, Idle, ConstantsAssumption
<1>8. Ordered
  <2>1. Ascending(s) /\ AtMost(s, n)
    BY <1>3 DEF Ascending, AtMost
  <2>. QED
    BY <1>1, <1>2, <1>4, <1>6, <2>1, EmptyInLine DEF Ordered, InLine, Idle
<1>9. Stages /\ Counted
  BY <1>1 DEF Stages, Counted, Idle
<1>10. AllThere
  <2>1. (<<>> \o <<>>) \o s = s
    BY <1>3
  <2>. QED
    BY <1>1, <1>2, <1>4, <1>6, <2>1 DEF AllThere, Idle, s
<1>. QED
  BY <1>7, <1>8, <1>9, <1>10 DEF IInv

\* Every step keeps the invariant.
LEMMA InvStep == IInv /\ [Next]_vars => IInv'
<1>. SUFFICES ASSUME IInv, [Next]_vars PROVE IInv'
  OBVIOUS
<1>1. CASE Produce
  BY <1>1, ProduceStep
<1>2. CASE ClosePeer
  BY <1>2 DEF ClosePeer, IInv, TypeOK, Ordered, Stages, Counted, Moved, AllThere
<1>3. ASSUME NEW count \in 0..MaxBytes, Forward(count) PROVE IInv'
  BY <1>3, ForwardStep
<1>4. CASE Read
  BY <1>4, ReadStep
<1>5. CASE Write
  BY <1>5, WriteStep
<1>6. CASE PeerResets
  BY <1>6, PeerResetsStep
<1>7. CASE UNCHANGED vars
  BY <1>7 DEF vars, IInv, TypeOK, Ordered, Stages, Counted, Moved, AllThere
<1>. QED
  BY <1>1, <1>2, <1>3, <1>4, <1>5, <1>6, <1>7 DEF Next, Calls

\* The inductive invariant of every program.
THEOREM Invariance == Spec => []IInv
BY InvInit, InvStep, PTL DEF Spec

\* What a forward moves is neither repeated nor reordered, and every byte is at its
\* place until something was cut short, whatever the backends and however often
\* calls fail and are made again.
THEOREM ConservedHolds == Spec => []Conserved
<1>1. IInv => Conserved
  <2>. SUFFICES ASSUME IInv PROVE Conserved
    OBVIOUS
  <2>1. \A i \in 1..(Len(dst.bytes) - 1) : i \in 1..Len(dst.bytes) /\ i + 1 \in 1..Len(dst.bytes) /\ i < i + 1
    BY TypeFacts DEF IInv
  <2>2. \A i \in 1..(Len(dst.bytes) - 1) : dst.bytes[i] < dst.bytes[i + 1]
    BY <2>1 DEF IInv, Ordered, InLine, Ascending
  <2>. QED
    BY <2>2 DEF IInv, Conserved, AllThere
<1>. QED
  BY <1>1, Invariance, PTL

\* A call returns the count it was given exactly if it has moved that many bytes,
\* unless a write was cut short while it ran.
THEOREM CountIsForwardedHolds == Spec => []CountIsForwarded
<1>1. IInv => CountIsForwarded
  BY DEF IInv, Counted, Moved, CountIsForwarded
<1>. QED
  BY <1>1, Invariance, PTL
=============================================================================
