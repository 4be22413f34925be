------------------------ MODULE StringBufProofs ------------------------
(***************************************************************************)
(* Theorems about StringBuf for every number of strings, every width of a  *)
(* size_t and every amount of memory up to two fifths of it: a disciplined *)
(* program stays within its buffers, a string reports the length of its text, *)
(* and appending fails for want of memory only.                            *)
(***************************************************************************)
EXTENDS StringBuf, TLAPS

\* What holds of every string: nothing was touched outside of its buffer, the
\* size is what there is of the buffer, the text and its terminator are within,
\* and the terminator is where the text ends, unless a print was cut off.
Sound(t) ==
  /\ t \in String /\ ~t.wild /\ t.size <= MaxAlloc
  /\ t.buf = "own" => t.own /\ t.size = t.alloc
  /\ t.buf = "lent" => ~t.own
  /\ t.buf # "none" => t.index < t.size
  /\ t.buf = "none" => t.size = 0 /\ t.index = 0 /\ t.nul = 0
  /\ t.nul # t.index => t.cut

IInv ==
  /\ strings \in [Strings -> String] /\ result \in {"ok", "nomem"}
  /\ \A s \in Strings : Sound(strings[s])

\* The constants, as the assumption relates them.
LEMMA Sizing ==
  /\ Width \in Nat /\ MaxAlloc \in Nat /\ Chunk \in Nat /\ MaxLen \in Nat
  /\ 5 * MaxAlloc < 2 * Width /\ Chunk > 0 /\ MaxLen + Chunk < MaxAlloc
  /\ MaxAlloc < Width /\ Nobody \notin Strings
BY ConstantsAssumption DEF ConstantsAssumption

\* A subtraction that does not go below zero does not wrap.
LEMMA MinusSmall ==
  ASSUME NEW a \in Nat, NEW b \in Nat, b <= a, a < Width
  PROVE  Minus(a, b) = a - b
<1>1. a - b \in Nat /\ a - b < Width /\ Width \in Nat
  BY Sizing
<1>. QED
  BY <1>1 DEF Minus

\* The fields of a sound string, and what is free behind its text.
LEMMA Fields ==
  ASSUME NEW t, Sound(t)
  PROVE  /\ t.size \in Nat /\ t.index \in Nat /\ t.alloc \in Nat /\ t.nul \in Nat
         /\ t.size <= MaxAlloc /\ t.size < Width /\ t.index <= t.size
         /\ t.own \in BOOLEAN /\ t.buf \in {"none", "own", "lent"}
         /\ Room(t) = t.size - t.index
<1>1. /\ t.size \in Nat /\ t.index \in Nat /\ t.alloc \in Nat /\ t.nul \in Nat
      /\ t.size <= MaxAlloc /\ t.size < Width
      /\ t.own \in BOOLEAN /\ t.buf \in {"none", "own", "lent"}
  BY Sizing DEF Sound, String, Sizes
<1>2. t.index <= t.size
  BY <1>1 DEF Sound
<1>. QED
  BY <1>1, <1>2, MinusSmall DEF Room

\* A new string is sound.
LEMMA EmptySound == Sound(Empty)
BY Sizing DEF Sound, Empty, String, Sizes

\* A buffer that has grown is the string's, and has room for what was asked.
LEMMA GrowSound ==
  ASSUME NEW t, Sound(t), NEW needed \in 0..(MaxLen + 1),
         needed = 0 => Room(t) >= 0, needed # 0 => Room(t) <= needed,
         NEW g \in Grow(t, needed)
  PROVE  \/ g.result = "nomem" /\ g.string = t
         \/ /\ g.result = "ok" /\ Sound(g.string) /\ g.string.buf = "own"
            /\ g.string.index = t.index
            /\ t.index < g.string.size
            /\ t.index + needed <= g.string.size
<1>. DEFINE len == GrowBy(t, needed)
            total == t.size + len
<1>1. /\ t.size \in Nat /\ t.index \in Nat /\ t.size <= MaxAlloc /\ t.index <= t.size
      /\ Room(t) = t.size - t.index /\ t.own \in BOOLEAN /\ needed \in Nat
      /\ needed <= MaxLen + 1
  BY Fields, Sizing
<1>3. /\ len \in Nat /\ total < Width
      /\ total >= t.index + needed /\ total > t.index
  <2>1. CASE needed = 0
    BY <1>1, <2>1, Sizing DEF GrowBy
  <2>2. CASE needed # 0
    <3>1. Minus(needed, Room(t)) = needed - Room(t)
      BY <1>1, <2>2, Sizing, MinusSmall
    <3>2. needed - Room(t) \in Nat /\ needed - Room(t) <= MaxAlloc
      BY <1>1, <2>2, Sizing
    <3>3. (t.size * 3) \div 2 \in Nat /\ 2 * ((t.size * 3) \div 2) <= 3 * MaxAlloc
      BY <1>1, Sizing
    <3>4. len = Greater(needed - Room(t), (t.size * 3) \div 2)
      BY <2>2, <3>1 DEF GrowBy
    <3>5. len >= needed - Room(t) /\ len \in Nat /\ 2 * len <= 3 * MaxAlloc
      BY <3>2, <3>3, <3>4, Sizing DEF Greater
    <3>6. 2 * total <= 5 * MaxAlloc
      BY <1>1, <3>5, Sizing
    <3>. QED
      BY <1>1, <2>2, <3>5, <3>6, Sizing
  <2>. QED
    BY <2>1, <2>2
<1>. HIDE DEF len
<1>4. ~Wraps(t, len)
  <2>1. total \in Nat /\ total % Width = total
    BY <1>1, <1>3, Sizing
  <2>. QED
    BY <1>1, <1>3, <2>1 DEF Wraps
<1>5. \/ g = [result |-> "nomem", string |-> t]
      \/ total <= MaxAlloc /\ g = [result |-> "ok", string |-> Grown(t, total)]
  BY <1>4 DEF Grow, len
<1>6. ASSUME total <= MaxAlloc
      PROVE  /\ Sound(Grown(t, total)) /\ Grown(t, total).buf = "own"
             /\ Grown(t, total).index = t.index /\ Grown(t, total).size = total
  <2>1. total \in Sizes /\ total \in 0..MaxAlloc
    BY <1>1, <1>3, <1>6, Sizing DEF Sizes
  <2>. HIDE DEF total
  <2>2. CASE t.own
    BY <1>1, <1>3, <1>6, <2>1, <2>2 DEF Grown, Sound, String
  <2>3. CASE ~t.own
    <3>. DEFINE u == MakeOwn(t, total)
    <3>1. /\ u.buf = "own" /\ u.own = TRUE /\ u.size = total /\ u.alloc = total
          /\ u.index = t.index /\ u.nul = t.nul /\ u.cut = t.cut /\ u \in String
      BY <2>1 DEF MakeOwn, Sound, String
    <3>2. ~u.wild
      <4>1. t.index + 1 <= total
        BY <1>1, <1>3, <2>1
      <4>2. ~(t.index + 1 > total)
        BY <1>1, <2>1, <4>1
      <4>. QED
        BY <4>2 DEF MakeOwn, Sound, String
    <3>3. Grown(t, total) = u
      BY <2>3 DEF Grown
    <3>. HIDE DEF u
    <3>4. Sound(u)
      BY <1>1, <1>3, <1>6, <3>1, <3>2 DEF Sound
    <3>. QED
      BY <3>1, <3>3, <3>4
  <2>. QED
    BY <2>2, <2>3
<1>. QED
  BY <1>3, <1>5, <1>6

\* Writing where there is room keeps a string sound.
LEMMA WriteSound ==
  ASSUME NEW t, Sound(t), NEW n \in Lengths, t.buf = "own", t.index + n < t.size
  PROVE  Sound(Write(t, n))
<1>1. t.index + n \in Sizes /\ t.alloc = t.size /\ t.index \in Nat /\ t.size \in Nat /\ n \in Nat
  BY Fields, Sizing DEF Sound, Sizes, Lengths
<1>. DEFINE u == Write(t, n)
<1>2. /\ u.buf = "own" /\ u.own = t.own /\ u.size = t.size /\ u.alloc = t.alloc
      /\ u.index = t.index + n /\ u.nul = t.index + n /\ u.cut = FALSE /\ u \in String
  BY <1>1 DEF Write, Sound, String
<1>3. u.wild = FALSE
  BY <1>1 DEF Write, Sound, String
<1>. HIDE DEF u
<1>4. Sound(u)
  BY <1>1, <1>2, <1>3 DEF Sound
<1>. QED
  BY <1>4 DEF u

\* A call comes back with a sound string, and fails for want of memory only.
Fine(outcome) == outcome.result \in {"ok", "nomem"} /\ Sound(outcome.string)

\* Appending: a string that owns no buffer is lent one with no more room than is
\* needed, or what is needed less what is free wraps.
LEMMA NCatFine ==
  ASSUME NEW t, Sound(t), NEW n \in Lengths, t.own \/ Room(t) <= n + 1,
         NEW outcome \in NCat(t, n)
  PROVE  Fine(outcome)
<1>1. /\ t.size \in Nat /\ t.index \in Nat /\ Room(t) = t.size - t.index
      /\ n \in Nat /\ n + 1 \in 0..(MaxLen + 1) /\ n + 1 # 0
  BY Fields, Sizing DEF Lengths
<1>2. CASE Fits(t, n)
  <2>1. t.buf = "own" /\ t.index + n < t.size
    BY <1>1, <1>2 DEF Fits, Sound, String
  <2>2. outcome = [result |-> "ok", string |-> Write(t, n)]
    BY <1>2 DEF NCat, Done
  <2>. QED
    BY <2>1, <2>2, WriteSound DEF Fine
<1>3. CASE ~Fits(t, n)
  <2>1. Room(t) <= n + 1
    BY <1>1, <1>3 DEF Fits
  <2>2. PICK g \in Grow(t, n + 1) :
          outcome \in IF g.result = "ok" THEN Done(Write(g.string, n)) ELSE {g}
    BY <1>3 DEF NCat, Then
  <2>3. \/ g.result = "nomem" /\ g.string = t
        \/ /\ g.result = "ok" /\ Sound(g.string) /\ g.string.buf = "own"
           /\ g.string.index = t.index
           /\ t.index + (n + 1) <= g.string.size
    BY <1>1, <2>1, GrowSound
  <2>4. CASE g.result = "nomem" /\ g.string = t
    BY <2>2, <2>4 DEF Fine
  <2>5. CASE /\ g.result = "ok" /\ Sound(g.string) /\ g.string.buf = "own"
             /\ g.string.index = t.index
             /\ t.index + (n + 1) <= g.string.size
    <3>1. g.string.index + n < g.string.size
      BY <1>1, <2>5, Fields
    <3>2. outcome = [result |-> "ok", string |-> Write(g.string, n)]
      BY <2>2, <2>5 DEF Done
    <3>. QED
      BY <2>5, <3>1, <3>2, WriteSound DEF Fine
  <2>. QED
    BY <2>3, <2>4, <2>5
<1>. QED
  BY <1>2, <1>3

\* A print that is cut off stays within the buffer.
LEMMA TruncatedSound ==
  ASSUME NEW t, Sound(t), t.own
  PROVE  Sound(Truncated(t)) /\ Truncated(t).index = t.index /\ Room(Truncated(t)) = Room(t)
<1>1. /\ t.size \in Nat /\ t.index \in Nat /\ t.size < Width /\ Room(t) = t.size - t.index
      /\ t.index <= t.size
  BY Fields
<1>2. CASE Room(t) = 0
  BY <1>2 DEF Truncated, Sound, String, Room
<1>3. CASE Room(t) # 0
  <2>1. t.size - 1 \in Sizes
    BY <1>1, <1>3, Sizing DEF Sizes
  <2>2. t.buf = "own" /\ t.size = t.alloc
    BY <1>1, <1>3 DEF Sound, String
  <2>. DEFINE u == Truncated(t)
  <2>3. u = [t EXCEPT !.nul = t.size - 1, !.cut = TRUE, !.wild = @ \/ t.buf # "own" \/ t.size > t.alloc]
    BY <1>3 DEF Truncated
  <2>4. /\ u.buf = t.buf /\ u.own = t.own /\ u.size = t.size /\ u.alloc = t.alloc
        /\ u.index = t.index /\ u.cut = TRUE /\ u \in String
    BY <2>1, <2>3 DEF Sound, String
  <2>5. u.wild = FALSE
    BY <1>1, <2>2, <2>3 DEF Sound, String
  <2>. HIDE DEF u
  <2>6. Sound(u)
    BY <2>2, <2>4, <2>5 DEF Sound
  <2>. QED
    BY <2>4, <2>6 DEF u, Room
<1>. QED
  BY <1>2, <1>3

\* A buffer that grows by whole chunks, as long as there is memory.
LEMMA ExtendedSound ==
  ASSUME NEW t, Sound(t), t.own, NEW k \in Nat, t.size + k * Chunk <= MaxAlloc
  PROVE  /\ Sound(Extended(t, k)) /\ Extended(t, k).own /\ Extended(t, k).index = t.index
         /\ Extended(t, k).size = t.size + k * Chunk
         /\ k # 0 => Extended(t, k).buf = "own"
<1>. DEFINE total == t.size + k * Chunk
<1>1. /\ t.size \in Nat /\ t.index \in Nat /\ t.index <= t.size /\ t.size <= MaxAlloc
  BY Fields
<1>2. CASE k = 0
  <2>1. total = t.size
    BY <1>1, <1>2, Sizing
  <2>. QED
    BY <1>2, <2>1 DEF Extended
<1>3. CASE k # 0
  <2>1. k * Chunk \in Nat /\ k * Chunk > 0
    BY <1>3, Sizing
  <2>2. total \in Sizes /\ total \in 0..MaxAlloc /\ t.index < total
    BY <1>1, <2>1, Sizing DEF Sizes
  <2>3. Extended(t, k) = Grown(t, total)
    BY <1>3 DEF Extended
  <2>. HIDE DEF total
  <2>4. /\ Sound(Grown(t, total)) /\ Grown(t, total).buf = "own"
        /\ Grown(t, total).own /\ Grown(t, total).index = t.index /\ Grown(t, total).size = total
    <3>. DEFINE u == Grown(t, total)
    <3>1. u = [t EXCEPT !.buf = "own", !.size = total, !.alloc = total]
      BY DEF Grown
    <3>2. /\ u.buf = "own" /\ u.own = t.own /\ u.size = total /\ u.alloc = total
          /\ u.index = t.index /\ u.nul = t.nul /\ u.cut = t.cut /\ u.wild = t.wild
          /\ u \in String
      BY <2>2, <3>1 DEF Sound, String
    <3>. HIDE DEF u
    <3>3. u.size <= MaxAlloc
      BY <2>2, <3>2, Sizing
    <3>4. Sound(u)
      BY <2>2, <3>2, <3>3 DEF Sound
    <3>. QED
      BY <3>2, <3>4 DEF u
  <2>. QED
    BY <2>3, <2>4 DEF total
<1>. QED
  BY <1>2, <1>3

\* A print that is tried again and again, with one more chunk each time.
LEMMA RetriedFine ==
  ASSUME NEW t, Sound(t), t.own, NEW n \in Lengths, NEW outcome \in Retried(t, n)
  PROVE  Fine(outcome)
<1>1. PICK k \in 0..MaxAlloc :
        /\ t.size + k * Chunk <= MaxAlloc
        /\ \/ outcome = [result |-> "nomem", string |-> Truncated(Extended(t, k))]
           \/ /\ outcome = [result |-> "ok", string |-> Write(Extended(t, k), n)]
              /\ k # 0 /\ Room(t) + k * Chunk \in (n + 1) .. (n + Chunk)
  BY DEF Retried
<1>2. k \in Nat /\ n \in Nat /\ k * Chunk \in Nat /\ Chunk \in Nat
  BY Sizing DEF Lengths
<1>3. /\ Sound(Extended(t, k)) /\ Extended(t, k).own /\ Extended(t, k).index = t.index
      /\ Extended(t, k).size = t.size + k * Chunk
      /\ k # 0 => Extended(t, k).buf = "own"
  BY <1>1, <1>2, ExtendedSound
<1>4. CASE outcome = [result |-> "nomem", string |-> Truncated(Extended(t, k))]
  BY <1>3, <1>4, TruncatedSound DEF Fine
<1>5. CASE /\ outcome = [result |-> "ok", string |-> Write(Extended(t, k), n)]
           /\ k # 0 /\ Room(t) + k * Chunk \in (n + 1) .. (n + Chunk)
  <2>1. t.size \in Nat /\ t.index \in Nat /\ Room(t) = t.size - t.index
    BY Fields
  <2>2. Extended(t, k).index + n < Extended(t, k).size
    <3>. DEFINE more == k * Chunk
    <3>1. more \in Nat /\ Room(t) + more >= n + 1
      BY <1>2, <1>5, <2>1
    <3>2. Extended(t, k).index = t.index /\ Extended(t, k).size = t.size + more
      BY <1>3
    <3>. HIDE DEF more
    <3>. QED
      BY <1>2, <2>1, <3>1, <3>2
  <2>3. Sound(Write(Extended(t, k), n))
    <3>. DEFINE e == Extended(t, k)
    <3>1. Sound(e) /\ e.buf = "own" /\ e.index + n < e.size
      BY <1>3, <1>5, <2>2
    <3>. HIDE DEF e
    <3>2. Sound(Write(e, n))
      BY <3>1, WriteSound
    <3>. QED
      BY <3>2 DEF e
  <2>. QED
    BY <1>5, <2>3 DEF Fine
<1>. QED
  BY <1>1, <1>4, <1>5

\* A print whose length the C library tells.
LEMMA PrintedFine ==
  ASSUME NEW u, Sound(u), u.own, NEW n \in Lengths, NEW o \in Printed(u, n)
  PROVE  Fine(o)
<1>0. n \in Nat /\ n + 1 \in 0..(MaxLen + 1) /\ n + 1 # 0
  BY Sizing DEF Lengths
<1>1. u.size \in Nat /\ u.index \in Nat /\ Room(u) = u.size - u.index
  BY Fields
<1>2. CASE n < Room(u)
  <2>1. u.buf = "own" /\ u.index + n < u.size
    BY <1>0, <1>1, <1>2 DEF Sound, String
  <2>2. o = [result |-> "ok", string |-> Write(u, n)]
    BY <1>2 DEF Printed, Done
  <2>. QED
    BY <2>1, <2>2, WriteSound DEF Fine
<1>3. CASE ~(n < Room(u))
  <2>. DEFINE v == Truncated(u)
  <2>1. Sound(v) /\ v.index = u.index /\ Room(v) <= n + 1
    BY <1>0, <1>1, <1>3, TruncatedSound
  <2>2. PICK h \in Grow(v, n + 1) :
          o \in IF h.result = "ok" THEN Done(Write(h.string, n)) ELSE {h}
    BY <1>3 DEF Printed, Then
  <2>. HIDE DEF v
  <2>3. \/ h.result = "nomem" /\ h.string = v
        \/ /\ h.result = "ok" /\ Sound(h.string) /\ h.string.buf = "own"
           /\ h.string.index = v.index
           /\ v.index + (n + 1) <= h.string.size
    BY <1>0, <2>1, GrowSound
  <2>4. CASE h.result = "nomem" /\ h.string = v
    BY <2>1, <2>2, <2>4 DEF Fine
  <2>5. CASE /\ h.result = "ok" /\ Sound(h.string) /\ h.string.buf = "own"
             /\ h.string.index = v.index
             /\ v.index + (n + 1) <= h.string.size
    <3>1. h.string.index + n < h.string.size
      BY <1>0, <1>1, <2>1, <2>5, Fields
    <3>2. o = [result |-> "ok", string |-> Write(h.string, n)]
      BY <2>2, <2>5 DEF Done
    <3>. QED
      BY <2>5, <3>1, <3>2, WriteSound DEF Fine
  <2>. QED
    BY <2>3, <2>4, <2>5
<1>. QED
  BY <1>2, <1>3

\* A formatted print.
LEMMA VPrintfFine ==
  ASSUME NEW t, Sound(t), NEW n \in Lengths, NEW outcome \in VPrintf(t, n)
  PROVE  Fine(outcome)
<1>1. PICK g \in (IF t.own THEN Done(t) ELSE Grow(t, 0)) :
        outcome \in IF g.result = "ok" THEN Printed(g.string, n) \cup Retried(g.string, n) ELSE {g}
  BY DEF VPrintf, Then
<1>2. ASSUME g.result = "ok", Sound(g.string), g.string.own PROVE Fine(outcome)
  <2>1. outcome \in Printed(g.string, n) \/ outcome \in Retried(g.string, n)
    BY <1>1, <1>2
  <2>. QED
    BY <1>2, <2>1, PrintedFine, RetriedFine
<1>3. CASE t.own
  <2>1. g = [result |-> "ok", string |-> t]
    BY <1>1, <1>3 DEF Done
  <2>. QED
    BY <1>2, <1>3, <2>1
<1>4. CASE ~t.own
  <2>1. Room(t) >= 0 /\ 0 \in 0..(MaxLen + 1)
    BY Fields, Sizing
  <2>2. \/ g.result = "nomem" /\ g.string = t
        \/ g.result = "ok" /\ Sound(g.string) /\ g.string.buf = "own"
    BY <1>1, <1>4, <2>1, GrowSound
  <2>3. CASE g.result = "nomem" /\ g.string = t
    BY <1>1, <2>3 DEF Fine
  <2>4. CASE g.result = "ok" /\ Sound(g.string) /\ g.string.buf = "own"
    <3>1. g.string.own
      BY <2>4 DEF Sound
    <3>. QED
      BY <1>2, <2>4, <3>1
  <2>. QED
    BY <2>2, <2>3, <2>4
<1>. QED
  BY <1>3, <1>4

\* A string that is set or destroyed.
LEMMA TextSound ==
  ASSUME NEW t, Sound(t), NEW n \in Lengths
  PROVE  /\ Sound(Destroyed(t))
         /\ Sound(WithText(t, n, "own", TRUE)) /\ Sound(WithText(t, n, "lent", FALSE))
<1>1. n \in Nat /\ n \in Sizes /\ n + 1 \in Sizes /\ n + 1 \in 0..MaxAlloc /\ 0 \in 0..MaxAlloc /\ 0 \in Sizes
  BY Sizing DEF Lengths, Sizes
<1>2. t.own \in BOOLEAN
  BY Fields
<1>3. Sound(Destroyed(t))
  <2>1. Destroyed(t) \in String
    BY <1>1, <1>2 DEF Destroyed, Empty, String
  <2>. QED
    BY <1>1, <2>1, Sizing DEF Destroyed, Empty, Sound
<1>4. Sound(WithText(t, n, "own", TRUE))
  <2>. DEFINE u == WithText(t, n, "own", TRUE)
  <2>1. /\ u.buf = "own" /\ u.own = TRUE /\ u.size = n + 1 /\ u.alloc = n + 1 /\ u.index = n
        /\ u.nul = n /\ u.wild = FALSE /\ u \in String
    BY <1>1, <1>2 DEF WithText, Destroyed, Empty, String
  <2>. HIDE DEF u
  <2>2. Sound(u)
    BY <1>1, <2>1 DEF Sound
  <2>. QED
    BY <2>2 DEF u
<1>5. Sound(WithText(t, n, "lent", FALSE))
  <2>. DEFINE u == WithText(t, n, "lent", FALSE)
  <2>1. /\ u.buf = "lent" /\ u.own = FALSE /\ u.size = n + 1 /\ u.alloc = 0 /\ u.index = n
        /\ u.nul = n /\ u.wild = FALSE /\ u \in String
    BY <1>1, <1>2 DEF WithText, Destroyed, Empty, String
  <2>. HIDE DEF u
  <2>2. Sound(u)
    BY <1>1, <2>1 DEF Sound
  <2>. QED
    BY <2>2 DEF u
<1>. QED
  BY <1>3, <1>4, <1>5

\* A call on one string leaves the others alone.
LEMMA ReturnFine ==
  ASSUME IInv, NEW s \in Strings, NEW outcome, Fine(outcome), Returns(s, outcome)
  PROVE  IInv'
<1>1. outcome.string \in String /\ Sound(outcome.string)
  BY DEF Fine, Sound
<1>. QED
  BY <1>1 DEF IInv, Fine, Returns

\* Every step of a disciplined program keeps its strings sound.
LEMMA InvStep ==
  ASSUME Disciplined, IInv, [Next]_vars
  PROVE  IInv'
<1>0. \A s \in Strings : Sound(strings[s])
  BY DEF IInv
<1>1. ASSUME NEW s \in Strings, NEW n \in Lengths, Cat(s, n) PROVE IInv'
  <2>1. PICK outcome \in NCat(strings[s], n) : Returns(s, outcome)
    BY <1>1 DEF Cat, Appends
  <2>2. strings[s].own \/ Room(strings[s]) <= n + 1
    BY <1>1 DEF Cat
  <2>3. Fine(outcome)
    BY <1>0, <2>2, NCatFine
  <2>. QED
    BY <2>1, <2>3, ReturnFine
<1>2. ASSUME NEW s \in Strings, NEW n \in Lengths, Sprintf(s, n) PROVE IInv'
  <2>1. PICK outcome \in VPrintf(strings[s], n) : Returns(s, outcome)
    BY <1>2 DEF Sprintf, Appends
  <2>2. Fine(outcome)
    BY <1>0, VPrintfFine
  <2>. QED
    BY <2>1, <2>2, ReturnFine
<1>3. ASSUME NEW s \in Strings, NEW n \in Lengths, SetDup(s, n) \/ SetNodup(s, n) \/ SetRef(s, n)
      PROVE  IInv'
  <2>1. /\ Fine([result |-> "ok", string |-> WithText(strings[s], n, "own", TRUE)])
        /\ Fine([result |-> "ok", string |-> WithText(strings[s], n, "lent", FALSE)])
        /\ Fine([result |-> "nomem", string |-> Destroyed(strings[s])])
    BY <1>0, TextSound DEF Fine
  <2>. QED
    BY <1>3, <2>1, ReturnFine DEF SetDup, SetNodup, SetRef
<1>4. ASSUME NEW s \in Strings, NEW n \in Sizes, Truncate(s, n) PROVE IInv'
  <2>. DEFINE t == strings[s]
  <2>1. /\ Sound(t) /\ n <= t.index /\ (t.own \/ t.buf = "none") /\ n \in Nat
        /\ t.index \in Nat /\ t.size \in Nat
    BY <1>0, <1>4, Fields, Sizing DEF Truncate, Sizes
  <2>2. ~(n > 0 /\ ~t.own)
    BY <2>1 DEF Sound
  <2>3. \/ /\ t.buf = "none" /\ Returns(s, [result |-> "ok", string |-> [t EXCEPT !.index = n]])
        \/ /\ t.buf # "none"
           /\ Returns(s, [result |-> "ok",
                          string |-> [t EXCEPT !.index = n, !.nul = n, !.cut = FALSE,
                                               !.wild = @ \/ t.buf = "lent" \/ n >= t.alloc]])
    BY <1>4, <2>2 DEF Truncate
  <2>. HIDE DEF t
  <2>4. t.buf = "none" => Sound([t EXCEPT !.index = n])
    BY <1>4, <2>1 DEF Sound, String
  <2>5. t.buf # "none" =>
          Sound([t EXCEPT !.index = n, !.nul = n, !.cut = FALSE,
                          !.wild = @ \/ t.buf = "lent" \/ n >= t.alloc])
    <3>. SUFFICES ASSUME t.buf # "none"
                  PROVE  Sound([t EXCEPT !.index = n, !.nul = n, !.cut = FALSE,
                                         !.wild = @ \/ t.buf = "lent" \/ n >= t.alloc])
      OBVIOUS
    <3>1. t.buf = "own" /\ t.alloc = t.size /\ n < t.size
      BY <2>1 DEF Sound, String
    <3>. DEFINE u == [t EXCEPT !.index = n, !.nul = n, !.cut = FALSE,
                              !.wild = @ \/ t.buf = "lent" \/ n >= t.alloc]
    <3>2. /\ u.buf = "own" /\ u.own = t.own /\ u.size = t.size /\ u.alloc = t.alloc
          /\ u.index = n /\ u.nul = n /\ u.cut = FALSE /\ u \in String
      BY <1>4, <2>1, <3>1 DEF Sound, String
    <3>3. u.wild = FALSE
      BY <2>1, <3>1 DEF Sound, String
    <3>. HIDE DEF u
    <3>4. Sound(u)
      BY <2>1, <3>1, <3>2, <3>3 DEF Sound
    <3>. QED
      BY <3>4 DEF u
  <2>. QED
    BY <2>3, <2>4, <2>5, ReturnFine DEF Fine
<1>5. ASSUME NEW s \in Strings, GetReleased(s) PROVE IInv'
  <2>1. Sound([Empty EXCEPT !.own = TRUE, !.wild = strings[s].wild])
    <3>1. strings[s].wild = FALSE
      BY <1>0 DEF Sound, String
    <3>2. 0 \in Sizes /\ 0 \in 0..MaxAlloc /\ 0 <= MaxAlloc
      BY Sizing DEF Sizes
    <3>3. [Empty EXCEPT !.own = TRUE, !.wild = FALSE] \in String
      BY <3>2 DEF Empty, String
    <3>4. Sound([Empty EXCEPT !.own = TRUE, !.wild = FALSE])
      BY <3>2, <3>3 DEF Sound, Empty
    <3>. QED
      BY <3>1, <3>4
  <2>. QED
    BY <1>0, <1>5, <2>1, ReturnFine DEF Fine, GetReleased
<1>6. ASSUME NEW s \in Strings, Renew(s) PROVE IInv'
  BY <1>6, EmptySound, ReturnFine DEF Fine, Renew
<1>7. ASSUME NEW s \in Strings, NEW d \in Strings, CopyRef(s, d) PROVE IInv'
  <2>. DEFINE t == strings[s]
              copy == [Destroyed(strings[d]) EXCEPT
                         !.buf = IF t.buf = "none" THEN "none" ELSE "lent", !.own = FALSE,
                         !.size = t.size, !.index = t.index, !.nul = t.nul, !.cut = t.cut,
                         !.from = IF t.buf = "own" THEN s ELSE t.from]
  <2>1. Returns(d, [result |-> "ok", string |-> copy])
    BY <1>7 DEF CopyRef
  <2>2. Sound(copy)
    <3>1. Sound(t) /\ t \in String /\ 0 \in 0..MaxAlloc
      BY <1>0, Sizing DEF Sound
    <3>2. copy \in String
      BY <3>1 DEF Destroyed, Empty, String
    <3>3. /\ copy.buf = (IF t.buf = "none" THEN "none" ELSE "lent") /\ copy.own = FALSE
          /\ copy.size = t.size /\ copy.index = t.index /\ copy.nul = t.nul
          /\ copy.cut = t.cut /\ copy.wild = FALSE
      BY DEF Destroyed, Empty
    <3>. HIDE DEF copy, t
    <3>. QED
      BY <3>1, <3>2, <3>3 DEF Sound
  <2>. HIDE DEF copy
  <2>. QED
    BY <2>1, <2>2, ReturnFine DEF Fine
<1>8. ASSUME NEW s \in Strings, NEW d \in Strings, CopyDup(s, d) PROVE IInv'
  <2>. DEFINE t == strings[s]
  <2>1. Sound(t) /\ t.size \in Nat /\ t.index \in Nat /\ t.size \in Sizes /\ t.index \in Sizes
        /\ t.size \in 0..MaxAlloc /\ 0 \in 0..MaxAlloc
    BY <1>0, Fields, Sizing DEF Sizes
  <2>a. ASSUME NEW buf \in {"none", "own"}
        PROVE  LET u == Copied(s, d, buf)
               IN  /\ u \in String /\ u.buf = buf /\ u.own = TRUE /\ u.size = t.size
                   /\ u.index = t.index /\ u.nul = t.index /\ u.cut = FALSE
                   /\ u.alloc = IF buf = "own" THEN t.size ELSE 0
                   /\ u.wild = (buf = "own" /\ (t.buf = "none" \/ t.index >= t.size))
    BY <2>1 DEF Copied, Destroyed, Empty, String
  <2>2. ASSUME t.size = 0 PROVE Sound(Copied(s, d, "none"))
    <3>. DEFINE u == Copied(s, d, "none")
    <3>1. t.index = 0 /\ t.buf = "none"
      BY <2>1, <2>2, Fields DEF Sound
    <3>2. /\ u \in String /\ u.buf = "none" /\ u.own = TRUE /\ u.size = 0
          /\ u.index = 0 /\ u.nul = 0 /\ u.wild = FALSE
      BY <2>2, <2>a, <3>1
    <3>. HIDE DEF u
    <3>3. Sound(u)
      BY <2>1, <2>2, <3>2 DEF Sound
    <3>. QED
      BY <3>3 DEF u
  <2>3. ASSUME t.size # 0 PROVE Sound(Copied(s, d, "own"))
    <3>. DEFINE u == Copied(s, d, "own")
    <3>1. t.buf # "none" /\ ~(t.index >= t.size)
      BY <2>1, <2>3 DEF Sound
    <3>2. /\ u \in String /\ u.buf = "own" /\ u.own = TRUE /\ u.size = t.size /\ u.alloc = t.size
          /\ u.index = t.index /\ u.nul = t.index /\ u.wild = FALSE
      BY <2>a, <3>1
    <3>. HIDE DEF u
    <3>3. Sound(u)
      BY <2>1, <3>1, <3>2 DEF Sound
    <3>. QED
      BY <3>3 DEF u
  <2>. QED
    BY <1>8, <2>2, <2>3, ReturnFine DEF Fine, CopyDup
<1>9. ASSUME NEW s \in Strings, NEW d \in Strings, CloneFails(s, d) PROVE IInv'
  BY <1>9, EmptySound, ReturnFine DEF Fine, CloneFails
<1>10. CASE UNCHANGED vars
  BY <1>10 DEF vars, IInv
<1>. QED
  BY <1>1, <1>2, <1>3, <1>4, <1>5, <1>6, <1>7, <1>8, <1>9, <1>10 DEF Next

\* New strings are sound.
LEMMA InvInit == Init => IInv
BY EmptySound DEF Init, IInv, Sound

\* The inductive invariant: every string is sound, and no call was refused.
THEOREM Invariance == ASSUME Disciplined PROVE Spec => []IInv
<1>1. IInv /\ [Next]_vars => IInv'
  BY InvStep
<1>. QED
  BY <1>1, InvInit, PTL DEF Spec

\* Nothing is touched outside of a buffer, and nothing is written to a buffer that
\* was only lent, over every sequence of calls and failures.
THEOREM InBoundsHolds == ASSUME Disciplined PROVE Spec => []InBounds
<1>1. IInv => InBounds
  BY DEF IInv, Sound, InBounds, TypeOK
<1>. QED
  BY <1>1, Invariance, PTL

\* The length a string reports is the length of what it contains.
THEOREM LengthIsLengthHolds == ASSUME Disciplined PROVE Spec => []LengthIsLength
<1>1. IInv => LengthIsLength
  BY DEF IInv, Sound, LengthIsLength
<1>. QED
  BY <1>1, Invariance, PTL

\* The test for a sum that wraps never refuses a string that would fit.
THEOREM OnlyMemoryFailsHolds == ASSUME Disciplined PROVE Spec => []OnlyMemoryFails
<1>1. IInv => OnlyMemoryFails
  BY DEF IInv, OnlyMemoryFails
<1>. QED
  BY <1>1, Invariance, PTL
=============================================================================
