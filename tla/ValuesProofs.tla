---------------------------- MODULE ValuesProofs ----------------------------
(***************************************************************************)
(* Theorems about Values for every set of values, every width of the types *)
(* and every size of a list: references are counted exactly, conversions   *)
(* change no number and refuse what does not fit, and a criterion and its  *)
(* negation never agree.                                                   *)
(***************************************************************************)
EXTENDS Values, FiniteSetTheorems, SequenceTheorems, TLAPS

\* Quotient and remainder of an integer.
LEMMA Divided ==
  ASSUME NEW M \in Nat \ {0}, NEW a \in Int
  PROVE  /\ a % M \in 0 .. M - 1 /\ a \div M \in Int
         /\ a = M * (a \div M) + (a % M)
OBVIOUS

\* What leaves no remainder is a multiple.
LEMMA Quotient ==
  ASSUME NEW M \in Nat \ {0}, NEW a \in Int, a % M = 0
  PROVE  \E k \in Int : a = M * k
<1> DEFINE k == a \div M
<1>1. k \in Int /\ a = M * k + (a % M)
  BY Divided
<1>2. a = M * k
  BY <1>1
<1>. QED
  BY <1>1, <1>2

\* A multiple leaves no remainder.
LEMMA MultipleOf ==
  ASSUME NEW M \in Nat \ {0}, NEW k \in Int
  PROVE  (M * k) % M = 0
<1> DEFINE a == M * k  q == a \div M  r == a % M
<1>1. a \in Int
  OBVIOUS
<1>2. r \in 0 .. M - 1 /\ q \in Int /\ a = M * q + r
  BY <1>1, Divided
<1>3. M * (k - q) = r
  BY <1>2
<1> HIDE DEF a, q, r
<1>4. k - q \in Int
  BY <1>2
<1>5. ~(k - q >= 1)
  BY <1>2, <1>3, <1>4
<1>6. ~(k - q <= -1)
  BY <1>2, <1>3, <1>4
<1>7. k - q = 0
  BY <1>4, <1>5, <1>6
<1>8. r = 0
  BY <1>7, <1>3
<1>. QED
  BY <1>8 DEF a, r

\* The one multiple of M that is less than M away from zero is zero.
LEMMA SmallMultiple ==
  ASSUME NEW M \in Nat \ {0}, NEW a \in Int, a % M = 0, -M < a, a < M
  PROVE  a = 0
<1> DEFINE q == a \div M
<1>1. q \in Int /\ a = M * q
  BY Divided
<1> HIDE DEF q
<1>2. ~(q >= 1)
  BY <1>1
<1>3. ~(q <= -1)
  BY <1>1
<1>. QED
  BY <1>1, <1>2, <1>3

\* Multiples differ by a multiple.
LEMMA Differences ==
  ASSUME NEW M \in Nat \ {0}, NEW a \in Int, NEW b \in Int, a % M = 0, b % M = 0
  PROVE  (a - b) % M = 0
<1> DEFINE p == a \div M  q == b \div M
<1>1. p \in Int /\ q \in Int /\ a = M * p /\ b = M * q
  BY Divided
<1> HIDE DEF p, q
<1>2. a - b = M * (p - q)
  BY <1>1
<1>. QED
  BY <1>1, <1>2, MultipleOf

\* Every integer type holds some numbers.
LEMMA HalfNat == ASSUME NEW t \in Integral PROVE Half[t] \in Nat \ {0}
BY ConstantsAssumption

\* A number stored in an integer type becomes a number of that type, congruent
\* to it.
LEMMA WrapIn ==
  ASSUME NEW t \in Integral, NEW n \in Int
  PROVE  /\ Wrap(t, n) \in RangeOf(t) /\ Wrap(t, n) \in Int
         /\ (Wrap(t, n) - n) % (2 * Half[t]) = 0
<1> DEFINE M == 2 * Half[t]  lo == IF t \in Signed THEN -Half[t] ELSE 0
           r == (n - lo) % M  q == (n - lo) \div M
<1>1. Half[t] \in Nat \ {0}
  BY HalfNat
<1>2. M \in Nat \ {0} /\ lo \in Int
  BY <1>1
<1>3. RangeOf(t) = lo .. lo + M - 1
  BY <1>1 DEF RangeOf
<1> HIDE DEF M, lo
<1>0. n - lo \in Int
  BY <1>2
<1>4. r \in 0 .. M - 1 /\ q \in Int /\ n - lo = M * q + r
  BY <1>0, <1>2, Divided
<1> HIDE DEF M, r, q, lo
<1>5. lo + r \in RangeOf(t) /\ (lo + r) - n = M * (-q)
  BY <1>2, <1>3, <1>4
<1>6. ((lo + r) - n) % M = 0
  BY <1>2, <1>4, <1>5, MultipleOf
<1>7. Wrap(t, n) = lo + r
  BY DEF Wrap, lo, r, M
<1>. QED
  BY <1>2, <1>4, <1>5, <1>6, <1>7 DEF M

\* There is only one such number.
LEMMA WrapOnly ==
  ASSUME NEW t \in Integral, NEW n \in Int, NEW m \in RangeOf(t), (m - n) % (2 * Half[t]) = 0
  PROVE  Wrap(t, n) = m
<1> DEFINE w == Wrap(t, n)  M == 2 * Half[t]
<1>2. w \in RangeOf(t) /\ (w - n) % M = 0 /\ w \in Int
  BY WrapIn
<1>0. Half[t] \in Nat \ {0}
  BY HalfNat
<1>1. m \in Int /\ M \in Nat \ {0}
  BY <1>0 DEF RangeOf
<1>3. -M < w - m /\ w - m < M
  BY <1>0, <1>1, <1>2 DEF RangeOf
<1> HIDE DEF w, M
<1>4. (w - n) \in Int /\ (m - n) \in Int /\ (w - n) - (m - n) = w - m /\ (m - n) % M = 0
  BY <1>1, <1>2 DEF M
<1>5. (w - m) % M = 0
  <2>1. ((w - n) - (m - n)) % M = 0
    BY <1>1, <1>2, <1>4, Differences
  <2>. QED
    BY <1>4, <2>1
<1>6. w - m = 0
  BY <1>1, <1>2, <1>3, <1>5, SmallMultiple
<1>. QED
  BY <1>1, <1>2, <1>6 DEF w

\* A number of the type is stored as it is.
LEMMA WrapSame ==
  ASSUME NEW t \in Integral, NEW n \in RangeOf(t)
  PROVE  Wrap(t, n) = n
<1>1. n \in Int /\ Half[t] \in Nat \ {0}
  BY HalfNat DEF RangeOf
<1>2. (n - n) % (2 * Half[t]) = 0
  BY <1>1
<1>. QED
  BY <1>1, <1>2, WrapOnly

\* The widths of the types, as the assumption orders them.
LEMMA WidthsOrdered ==
  /\ Half["int8"] = Half["uint8"] /\ Half["int16"] = Half["uint16"]
  /\ Half["int32"] = Half["uint32"] /\ Half["int64"] = Half["uint64"]
  /\ Half["int8"] <= Half["int16"] /\ 2 * Half["int16"] <= Half["int32"]
  /\ Half["int32"] <= Half["int64"]
  /\ \E k \in Nat \ {0} : Half["int64"] = k * Half["int32"]
<1>1. Half["int32"] \in Nat \ {0} /\ Half["int64"] \in Nat \ {0}
  BY HalfNat DEF Integral, Signed
<1>0. Half["int64"] \in Int /\ Half["int64"] % Half["int32"] = 0
  BY <1>1, WidthAssumption
<1>2. PICK k \in Int : Half["int64"] = Half["int32"] * k
  BY <1>0, <1>1, Quotient
<1>3. k >= 1
  BY <1>1, <1>2
<1>4. Half["int64"] >= Half["int32"]
  BY <1>1, <1>2, <1>3
<1>5. /\ Half["int8"] = Half["uint8"] /\ Half["int16"] = Half["uint16"]
      /\ Half["int32"] = Half["uint32"] /\ Half["int64"] = Half["uint64"]
      /\ Half["int8"] <= Half["int16"] /\ 2 * Half["int16"] <= Half["int32"]
  BY WidthAssumption
<1>6. k \in Nat \ {0} /\ Half["int64"] = k * Half["int32"]
  BY <1>1, <1>2, <1>3
<1>. QED
  BY <1>1, <1>4, <1>5, <1>6

\* The type in which C compares two integers is as wide as either.
LEMMA CommonWidest ==
  ASSUME NEW s \in Integral, NEW t \in Integral
  PROVE  /\ Common(s, t) \in Integral
         /\ Half[s] <= Half[Common(s, t)] /\ Half[t] <= Half[Common(s, t)]
<1>1. \A u \in Integral : Half[u] \in Nat \ {0}
  BY HalfNat
<1>2. \A u \in Integral : Half[u] <= Half["int64"]
  BY <1>1, WidthsOrdered DEF Integral, Signed
<1>3. \A u \in Integral \ {"uint64", "int64"} : Half[u] <= Half["int32"]
  BY <1>1, WidthsOrdered DEF Integral, Signed
<1>4. Half["int32"] = Half["uint32"] /\ Half["int64"] = Half["uint64"]
  BY WidthsOrdered
<1>. QED
  BY <1>2, <1>3, <1>4 DEF Common, Integral, Signed

\* CASTCHK accepts a number exactly when it is one of the target type: both
\* numbers are within the width of the type they are compared in and on the
\* same side of one, so that congruent means equal.
LEMMA CastCheckExact ==
  ASSUME NEW s \in Integral, NEW t \in Integral, NEW n \in RangeOf(s)
  PROVE  CastCheck(s, t, n) = (n \in RangeOf(t))
<1> DEFINE c == Common(s, t)  m == Wrap(t, n)  M == 2 * Half[c]
<1>1. /\ c \in Integral /\ Half[c] \in Nat \ {0} /\ Half[s] <= Half[c] /\ Half[t] <= Half[c]
      /\ Half[s] \in Nat \ {0} /\ Half[t] \in Nat \ {0}
  BY CommonWidest, HalfNat
<1>0. n \in Int /\ M \in Nat \ {0}
  BY <1>1 DEF RangeOf
<1>2. n \in Int /\ m \in Int /\ m \in RangeOf(t) /\ M \in Nat \ {0}
  BY <1>0, WrapIn
<1>3. ASSUME n \in RangeOf(t) PROVE CastCheck(s, t, n)
  BY <1>3, WrapSame DEF CastCheck
<1>4. ASSUME CastCheck(s, t, n) PROVE n \in RangeOf(t)
  <2> DEFINE w == Wrap(c, n)
  <2>1. w = Wrap(c, m) /\ (n < 1) = (m < 1)
    BY <1>4 DEF CastCheck
  <2>2. w \in Int /\ (w - n) % M = 0
    BY <1>1, <1>2, WrapIn
  <2>3. (w - m) % M = 0
    BY <1>1, <1>2, <2>1, WrapIn
  <2> HIDE DEF w, c, m
  <2>4. (w - n) - (w - m) = m - n
    BY <1>2, <2>2
  <2>5. (m - n) % M = 0
    <3>1. w - n \in Int /\ w - m \in Int
      BY <1>2, <2>2
    <3>. QED
      BY <1>2, <2>2, <2>3, <2>4, <3>1, Differences
  <2>6. -M < m - n /\ m - n < M
    BY <1>1, <1>2, <2>1 DEF RangeOf
  <2>7. m - n = 0
    BY <1>2, <2>5, <2>6, SmallMultiple
  <2>. QED
    BY <1>2, <2>7
<1>5. CastCheck(s, t, n) \in BOOLEAN
  BY DEF CastCheck
<1>. QED
  BY <1>3, <1>4, <1>5

\* What strtoul() makes of a negative number, and of that an unsigned int.
LEMMA NegativeAsUnsigned ==
  ASSUME NEW n \in RangeOf("int32"), n < 0
  PROVE  /\ Wrap("uint32", n) = n + 2 * Half["uint32"]
         /\ Wrap("uint64", n) = n + 2 * Half["uint64"]
         /\ Wrap("uint32", Wrap("uint64", n)) = n + 2 * Half["uint32"]
<1> DEFINE h == Half["uint32"]  H == Half["uint64"]
<1>1. "uint32" \in Integral /\ "uint64" \in Integral /\ "int32" \in Signed
      /\ "int32" \in Integral /\ "uint32" \notin Signed /\ "uint64" \notin Signed
  BY DEF Integral, Signed
<1>2. h \in Nat \ {0} /\ H \in Nat \ {0} /\ h <= H /\ Half["int32"] = h
  BY <1>1, HalfNat, WidthsOrdered
<1>3. n \in Int /\ -h <= n
  BY <1>1, <1>2 DEF RangeOf
<1>4. PICK k \in Nat \ {0} : H = k * h
  BY WidthsOrdered
<1>5. RangeOf("uint32") = 0 .. 2 * h - 1 /\ RangeOf("uint64") = 0 .. 2 * H - 1
  BY <1>1 DEF RangeOf
<1> HIDE DEF h, H
<1>6. n + 2 * h \in RangeOf("uint32") /\ n + 2 * H \in RangeOf("uint64")
  BY <1>2, <1>3, <1>5
<1>7. (n + 2 * h) - n = (2 * h) * 1 /\ (n + 2 * H) - n = (2 * H) * 1
  BY <1>2, <1>3
<1>8. ((2 * h) * 1) % (2 * h) = 0 /\ ((2 * H) * 1) % (2 * H) = 0
  BY <1>2, MultipleOf
<1>9. ((n + 2 * h) - n) % (2 * h) = 0 /\ ((n + 2 * H) - n) % (2 * H) = 0
  BY <1>7, <1>8
<1>10. Wrap("uint32", n) = n + 2 * h /\ Wrap("uint64", n) = n + 2 * H
  BY <1>1, <1>3, <1>6, <1>9, WrapOnly DEF h, H
<1>11. (n + 2 * h) - (n + 2 * H) = (2 * h) * (1 - k)
  BY <1>2, <1>3, <1>4
<1>12. ((n + 2 * h) - (n + 2 * H)) % (2 * h) = 0
  <2>0. 2 * h \in Nat \ {0} /\ 1 - k \in Int
    BY <1>2
  <2>1. ((2 * h) * (1 - k)) % (2 * h) = 0
    BY <2>0, MultipleOf
  <2>. QED
    BY <1>11, <2>1
<1>13. Wrap("uint32", n + 2 * H) = n + 2 * h
  <2>1. n + 2 * H \in Int
    BY <1>2, <1>3
  <2>. QED
    BY <1>1, <1>6, <1>12, <2>1, WrapOnly DEF h
<1>. QED
  BY <1>10, <1>13 DEF h, H

\* The limits of the types.
LEMMA Ranges ==
  /\ \A t \in Integral : Half[t] \in Nat \ {0}
  /\ \A t \in Signed : RangeOf(t) = -Half[t] .. Half[t] - 1
  /\ \A t \in Integral \ Signed : RangeOf(t) = 0 .. 2 * Half[t] - 1
BY HalfNat DEF RangeOf

\* Which types hold the numbers of which.
LEMMA Inclusions ==
  /\ RangeOf("int32") \subseteq RangeOf("int64") /\ RangeOf("uint32") \subseteq RangeOf("uint64")
  /\ \A n \in RangeOf("int32") :
       /\ n \in Int /\ -Half["uint32"] <= n
       /\ n >= 0 => n \in RangeOf("uint32")
       /\ n < 0 => -n \in RangeOf("uint64")
  /\ \A n \in RangeOf("uint8") \cup RangeOf("uint16") : n \in Nat /\ n < Half["uint32"]
  /\ Half["uint32"] \in Nat
<1> DEFINE h == Half["int32"]  H == Half["int64"]  h8 == Half["uint8"]  h16 == Half["uint16"]
<1>1. h \in Nat \ {0} /\ H \in Nat \ {0} /\ h16 \in Nat \ {0} /\ h8 \in Nat \ {0}
  BY HalfNat DEF Integral, Signed
<1>2. /\ RangeOf("int32") = -h .. h - 1 /\ RangeOf("int64") = -H .. H - 1
      /\ RangeOf("uint8") = 0 .. 2 * h8 - 1 /\ RangeOf("uint16") = 0 .. 2 * h16 - 1
      /\ RangeOf("uint32") = 0 .. 2 * h - 1 /\ RangeOf("uint64") = 0 .. 2 * H - 1
  BY WidthsOrdered DEF RangeOf, Signed
<1>3. h8 <= h16 /\ 2 * h16 <= h /\ h <= H /\ Half["uint32"] = h
  BY WidthsOrdered
<1> HIDE DEF h, H, h8, h16
<1>4. RangeOf("int32") \subseteq RangeOf("int64") /\ RangeOf("uint32") \subseteq RangeOf("uint64")
  BY <1>1, <1>2, <1>3
<1>5. \A n \in RangeOf("int32") :
       /\ n \in Int /\ -h <= n
       /\ n >= 0 => n \in RangeOf("uint32")
       /\ n < 0 => -n \in RangeOf("uint64")
  BY <1>1, <1>2, <1>3
<1>6. \A n \in RangeOf("uint8") \cup RangeOf("uint16") : n \in Nat /\ n < h
  BY <1>1, <1>2, <1>3
<1>. QED
  BY <1>1, <1>3, <1>4, <1>5, <1>6

\* Every type but string is an integer type.
LEMMA TypesIntegral == \A t \in Types : t # "string" => t \in Integral
BY ConstantsAssumption DEF Types

\* Of the texts a disciplined program reads, exactly those are accepted that
\* spell a number of the type, and they give that number.
LEMMA ReadExact ==
  ASSUME Disciplined, NEW t \in Types, NEW n \in Int, Readable(t, n)
  PROVE  /\ Read(t, n).ok = Fits(t, n)
         /\ Read(t, n).ok => Read(t, n).n = n
<1>1. CASE t = "string"
  BY <1>1 DEF Read, Fits
<1>2. CASE t \in {"int8", "int16"}
  <2>1. n \in RangeOf("int32") /\ errno = "clear"
    BY <1>2 DEF Readable
  <2>2. n \in RangeOf("int64")
    BY <2>1, Inclusions
  <2>3. Wrap("int32", n) = n
    BY <2>1, WrapSame DEF Integral, Signed
  <2>. QED
    BY <1>2, <2>1, <2>2, <2>3 DEF Read, Parsed, Temporary, Fits
<1>3. CASE t \in {"int32", "int64"}
  <2>1. errno = "clear"
    BY DEF Readable
  <2>2. RangeOf(t) \subseteq RangeOf("int64")
    BY <1>3, Inclusions
  <2>3. CASE n \in RangeOf("int64")
    <3>1. Wrap("int64", n) = n
      BY <2>3, WrapSame DEF Integral, Signed
    <3>. QED
      BY <1>3, <2>1, <2>3, <3>1 DEF Read, Parsed, Temporary, Fits
  <2>4. CASE n \notin RangeOf("int64")
    BY <1>3, <2>1, <2>2, <2>4 DEF Read, Parsed, Temporary, Fits
  <2>. QED
    BY <2>3, <2>4
<1>4. CASE t \in {"uint32", "uint64"}
  <2>1. errno = "clear" /\ n >= 0
    BY <1>4 DEF Readable
  <2>2. RangeOf(t) \subseteq RangeOf("uint64")
    BY <1>4, Inclusions
  <2>3. CASE n \in RangeOf("uint64")
    <3>1. Wrap("uint64", n) = n
      BY <2>3, WrapSame DEF Integral, Signed
    <3>. QED
      BY <1>4, <2>1, <2>3, <3>1 DEF Read, Parsed, Temporary, Fits
  <2>4. CASE n \notin RangeOf("uint64")
    <3>1. -n \notin RangeOf("uint64")
      BY <2>1, <2>4, Ranges DEF Integral, Signed
    <3>. QED
      BY <1>4, <2>1, <2>2, <2>4, <3>1 DEF Read, Parsed, Temporary, Fits
  <2>. QED
    BY <2>3, <2>4
<1>5. CASE t \in {"uint8", "uint16"}
  <2>1. n \in RangeOf("int32") /\ errno = "clear"
    BY <1>5 DEF Readable
  <2>2. /\ n \in RangeOf("int64") /\ (-n \in RangeOf("uint64") \/ n \in RangeOf("uint64"))
        /\ n >= 0 => n \in RangeOf("uint64") /\ n \in RangeOf("uint32")
    BY <2>1, Inclusions
  <2> DEFINE tmp == Wrap("uint32", Parsed(t, n).n)
  <2>3. ~Parsed(t, n).range
    BY <1>5, <2>2 DEF Parsed
  <2>4. Parsed(t, n).n = IF t = "uint16" THEN Wrap("uint64", n) ELSE n
    BY <1>5, <2>2 DEF Parsed
  <2>5. n >= 0 => tmp = n
    BY <2>2, <2>4, WrapSame DEF Integral, Signed
  <2>6. n < 0 => tmp = n + 2 * Half["uint32"]
    BY <2>1, <2>4, NegativeAsUnsigned
  <2> HIDE DEF tmp
  <2>7. n < 0 => tmp \notin RangeOf(t) /\ n \notin RangeOf(t)
    BY <1>5, <2>1, <2>6, Inclusions
  <2>8. /\ Read(t, n).ok = (tmp \in RangeOf(t) /\ errno # "range") /\ Read(t, n).n = tmp
    BY <1>5, <2>3 DEF Read, Temporary, tmp
  <2>9. n >= 0 \/ n < 0
    OBVIOUS
  <2>. QED
    BY <1>5, <2>1, <2>5, <2>7, <2>8, <2>9 DEF Fits
<1>. QED
  BY <1>1, <1>2, <1>3, <1>4, <1>5, TypesIntegral DEF Integral, Signed

\* The variable a text is read into is of an integer type.
LEMMA TemporaryIntegral == \A t \in Integral : Temporary(t) \in Integral
BY DEF Temporary, Integral, Signed

\* What reading a text returns.
LEMMA ReadTyped ==
  ASSUME NEW t \in Types, NEW n \in Int, errno \in {"clear", "range"}
  PROVE  /\ Read(t, n).ok \in BOOLEAN /\ Read(t, n).n \in Int
         /\ Read(t, n).errno \in {"clear", "range"}
<1>1. CASE t = "string"
  BY <1>1 DEF Read
<1>2. CASE t # "string"
  <2>1. t \in Integral /\ Temporary(t) \in Integral
    BY <1>2, TypesIntegral, TemporaryIntegral
  <2>2. Parsed(t, n).n \in Int /\ Parsed(t, n).range \in BOOLEAN
    <3>1. "int64" \in Integral /\ "uint64" \in Integral
      BY DEF Integral, Signed
    <3>2. Wrap("uint64", n) \in Int /\ Half["uint64"] \in Int /\ Half["int64"] \in Int
      BY <3>1, WrapIn, HalfNat
    <3>. QED
      BY <3>2 DEF Parsed
  <2>3. Wrap(Temporary(t), Parsed(t, n).n) \in Int
    BY <2>1, <2>2, WrapIn
  <2>. QED
    BY <1>2, <2>2, <2>3 DEF Read
<1>. QED
  BY <1>1, <1>2

\* What a conversion returns.
LEMMA ConvertedTyped ==
  ASSUME NEW s \in Types, NEW t \in Types, NEW n \in Int, errno \in {"clear", "range"}
  PROVE  /\ Converted(s, t, n).ok \in BOOLEAN /\ Converted(s, t, n).n \in Int
         /\ Converted(s, t, n).errno \in {"clear", "range"}
<1>1. CASE t = "string"
  BY <1>1 DEF Converted
<1>2. CASE t # "string" /\ s = "string"
  BY <1>2, ReadTyped DEF Converted
<1>3. CASE t # "string" /\ s # "string"
  <2>1. t \in Integral
    BY <1>3, TypesIntegral
  <2>2. Wrap(t, n) \in Int
    BY <2>1, WrapIn
  <2>. QED
    BY <1>3, <2>2 DEF Converted, CastCheck
<1>. QED
  BY <1>1, <1>2, <1>3

\* A conversion is accepted exactly when the target type holds the number, and
\* then gives the number.
LEMMA ConvertedExact ==
  ASSUME Disciplined, NEW s \in Types, NEW t \in Types, NEW n \in Int, Fits(s, n),
         s = "string" => Readable(t, n)
  PROVE  /\ Converted(s, t, n).ok = Fits(t, n)
         /\ Converted(s, t, n).ok => Converted(s, t, n).n = n
<1>1. CASE t = "string"
  BY <1>1 DEF Converted, Fits
<1>2. CASE t # "string" /\ s = "string"
  BY <1>2, ReadExact DEF Converted
<1>3. CASE t # "string" /\ s # "string"
  <2>1. t \in Integral /\ s \in Integral /\ n \in RangeOf(s)
    BY <1>3, TypesIntegral DEF Fits
  <2>2. CastCheck(s, t, n) = (n \in RangeOf(t))
    BY <2>1, CastCheckExact
  <2>3. n \in RangeOf(t) => Wrap(t, n) = n
    BY <2>1, WrapSame
  <2>4. Converted(s, t, n) = [ok |-> CastCheck(s, t, n), n |-> Wrap(t, n), errno |-> errno]
    BY <1>3 DEF Converted
  <2>5. Fits(t, n) = (n \in RangeOf(t))
    BY <1>3 DEF Fits
  <2>6. Converted(s, t, n).ok = CastCheck(s, t, n) /\ Converted(s, t, n).n = Wrap(t, n)
    BY <2>4
  <2>. QED
    BY <2>2, <2>3, <2>5, <2>6
<1>. QED
  BY <1>1, <1>2, <1>3

-----------------------------------------------------------------------------

\* What holds of every value, whatever the program does: one that exists and is
\* no list has a type, and the elements of a list are within its limit.
Formed(x) ==
  /\ x \in Value
  /\ x.refcount > 0 /\ ~x.list => x.type \in Types
  /\ ~x.list => x.elems = <<>>
  /\ Len(x.elems) <= MaxElems /\ (x.list => Len(x.elems) <= x.max)

\* What a disciplined program keeps: the elements of a list are within what has
\* been allocated, and the content is the number put in.
Kept(x) ==
  /\ Len(x.elems) <= x.room
  /\ x.refcount > 0 /\ ~x.list => x.n = x.meant /\ Fits(x.type, x.n)

\* Both.
Sound(x) == Formed(x) /\ (Disciplined => Kept(x))

\* The types of the variables, but for the number of strings to release, which
\* only a disciplined program keeps from going below zero.
Typed ==
  /\ values \in [Values -> Value]
  /\ held \in [Values -> 0 .. MaxHeld]
  /\ errno \in {"clear", "range"} /\ exact \in BOOLEAN

\* References are counted exactly, whatever the program does.
Counted == \A v \in Values : values[v].refcount = References(v)

\* The inductive invariant.
IInv ==
  /\ Typed /\ Counted
  /\ \A v \in Values : Sound(values[v])
  /\ Disciplined => owned = ObjectsOf(values, Values) /\ exact

\* Finitely many pointers lead to a value.
LEMMA PointersFinite ==
  ASSUME NEW S \in SUBSET Values, NEW w
  PROVE  /\ IsFiniteSet(Pointers(S, w)) /\ Cardinality(Pointers(S, w)) \in Nat
         /\ IsFiniteSet(Pointers(S, w)') /\ Cardinality(Pointers(S, w)') \in Nat
<1>1. IsFiniteSet(S) /\ IsFiniteSet(1 .. MaxElems)
  BY ConstantsAssumption, FS_Subset, FS_Interval
<1>2. IsFiniteSet(S \X (1 .. MaxElems))
  BY <1>1, FS_Product
<1>3. Pointers(S, w) \in SUBSET (S \X (1 .. MaxElems))
  BY DEF Pointers
<1>4. Pointers(S, w)' \in SUBSET (S \X (1 .. MaxElems))
  BY DEF Pointers
<1>. QED
  BY <1>2, <1>3, <1>4, FS_Subset, FS_CardinalityType

\* A number of objects is a number.
LEMMA ObjectsFinite ==
  ASSUME NEW f, NEW D \in SUBSET Values
  PROVE  IsFiniteSet({w \in D : Objects(f[w]) = 1}) /\ ObjectsOf(f, D) \in Nat
<1>1. {w \in D : Objects(f[w]) = 1} \in SUBSET Values
  OBVIOUS
<1>2. IsFiniteSet({w \in D : Objects(f[w]) = 1})
  BY <1>1, ConstantsAssumption, FS_Subset
<1>. QED
  BY <1>2, FS_CardinalityType DEF ObjectsOf

\* When only the values of D change, the number of objects changes by theirs.
LEMMA ObjectsMove ==
  ASSUME NEW f, NEW g, NEW D \in SUBSET Values,
         \A w \in Values \ D : Objects(f[w]) = Objects(g[w])
  PROVE  ObjectsOf(g, Values) = ObjectsOf(f, Values) - ObjectsOf(f, D) + ObjectsOf(g, D)
<1> DEFINE In(h, S) == {w \in S : Objects(h[w]) = 1}
<1>1. In(f, Values) = In(f, Values \ D) \cup In(f, D) /\ In(f, Values \ D) \cap In(f, D) = {}
  OBVIOUS
<1>2. In(g, Values) = In(f, Values \ D) \cup In(g, D) /\ In(f, Values \ D) \cap In(g, D) = {}
  OBVIOUS
<1>4. /\ IsFiniteSet(In(f, Values \ D)) /\ IsFiniteSet(In(f, D)) /\ IsFiniteSet(In(g, D))
      /\ ObjectsOf(f, Values \ D) \in Nat /\ ObjectsOf(f, D) \in Nat /\ ObjectsOf(g, D) \in Nat
  BY ObjectsFinite
<1>5. /\ ObjectsOf(f, Values) = Cardinality(In(f, Values))
      /\ ObjectsOf(g, Values) = Cardinality(In(g, Values))
      /\ ObjectsOf(f, D) = Cardinality(In(f, D)) /\ ObjectsOf(g, D) = Cardinality(In(g, D))
      /\ ObjectsOf(f, Values \ D) = Cardinality(In(f, Values \ D))
  BY DEF ObjectsOf
<1> HIDE DEF In
<1>6. Cardinality(In(f, Values))
        = Cardinality(In(f, Values \ D)) + Cardinality(In(f, D)) - Cardinality({})
  BY <1>1, <1>4, FS_Union
<1>7. Cardinality(In(g, Values))
        = Cardinality(In(f, Values \ D)) + Cardinality(In(g, D)) - Cardinality({})
  BY <1>2, <1>4, FS_Union
<1>. QED
  BY <1>4, <1>5, <1>6, <1>7, FS_EmptySet

\* The objects of one value.
LEMMA ObjectsOne ==
  ASSUME NEW f, NEW v \in Values
  PROVE  ObjectsOf(f, {v}) = Objects(f[v])
<1>1. CASE Objects(f[v]) = 1
  <2>1. {w \in {v} : Objects(f[w]) = 1} = {v}
    BY <1>1
  <2>. QED
    BY <1>1, <2>1, FS_Singleton DEF ObjectsOf
<1>2. CASE Objects(f[v]) # 1
  <2>1. {w \in {v} : Objects(f[w]) = 1} = {}
    BY <1>2
  <2>. QED
    BY <1>2, <2>1, FS_EmptySet DEF ObjectsOf, Objects
<1>. QED
  BY <1>1, <1>2

\* When one value is replaced, the number of objects changes by its own.
LEMMA ObjectsReplaced ==
  ASSUME DOMAIN values = Values, NEW v \in Values, NEW x, values' = [values EXCEPT ![v] = x]
  PROVE  ObjectsOf(values', Values) = ObjectsOf(values, Values) - Objects(values[v]) + Objects(x)
<1>1. values'[v] = x /\ \A w \in Values \ {v} : values'[w] = values[w]
  BY DEF Objects
<1>2. \A w \in Values \ {v} : Objects(values[w]) = Objects(values'[w])
  BY <1>1
<1>3. ObjectsOf(values', Values)
        = ObjectsOf(values, Values) - ObjectsOf(values, {v}) + ObjectsOf(values', {v})
  <2> DEFINE f == values  g == values'
  <2>1. {v} \in SUBSET Values /\ \A w \in Values \ {v} : Objects(f[w]) = Objects(g[w])
    BY <1>2
  <2> HIDE DEF f, g
  <2>2. ObjectsOf(g, Values) = ObjectsOf(f, Values) - ObjectsOf(f, {v}) + ObjectsOf(g, {v})
    BY <2>1, ObjectsMove
  <2>. QED
    BY <2>2 DEF f, g
<1>. QED
  BY <1>1, <1>3, ObjectsOne

\* Where existence and elements stay, pointers stay.
LEMMA SamePointers ==
  ASSUME NEW w,
         \A l \in Values : Exists(l)' = Exists(l),
         \A l \in Values : values'[l].elems = values[l].elems
  PROVE  Pointers(Values, w)' = Pointers(Values, w)
BY DEF Pointers

\* Where the program's references and the pointers stay, references stay.
LEMMA SameReferences ==
  ASSUME NEW v \in Values, held'[v] = held[v], Pointers(Values, v)' = Pointers(Values, v)
  PROVE  References(v)' = References(v)
BY DEF References

\* A value the program has a reference to exists.
LEMMA HeldExists ==
  ASSUME IInv, NEW v \in Values
  PROVE  /\ values[v].refcount \in Nat /\ held[v] \in Nat
         /\ values[v].refcount = held[v] + Cardinality(Pointers(Values, v))
         /\ Cardinality(Pointers(Values, v)) \in Nat
         /\ held[v] > 0 => Exists(v)
<1>1. values[v].refcount \in Nat
  BY DEF IInv, Sound, Formed, Value
<1>2. held[v] \in Nat
  BY ConstantsAssumption DEF IInv, Typed
<1>3. Cardinality(Pointers(Values, v)) \in Nat
  BY PointersFinite
<1>. QED
  BY <1>1, <1>2, <1>3 DEF IInv, Counted, References, Exists

\* A sound value without elements that is made keeps the invariant.
LEMMA Making ==
  ASSUME IInv, NEW v \in Values, NEW x, Sound(x), x.refcount = 1, Nothing(x),
         Make(v, x), errno' \in {"clear", "range"}, exact' \in BOOLEAN,
         Disciplined => exact'
  PROVE  IInv'
<1>1. /\ ~Exists(v) /\ values' = [values EXCEPT ![v] = x] /\ held' = [held EXCEPT ![v] = 1]
      /\ owned' = owned + Objects(x)
  BY DEF Make
<1>2. DOMAIN values = Values /\ held \in [Values -> 0 .. MaxHeld]
  BY DEF IInv, Typed
<1>3. values'[v] = x /\ \A w \in Values : w # v => values'[w] = values[w]
  BY <1>1, <1>2
<1>4. Typed'
  <2>1. held' \in [Values -> 0 .. MaxHeld]
    BY <1>1, <1>2, ConstantsAssumption
  <2>2. values' \in [Values -> Value]
    BY <1>1 DEF IInv, Typed, Sound, Formed
  <2>. QED
    BY <2>1, <2>2 DEF Typed
<1>5. \A w \in Values : Sound(values'[w])
  BY <1>3 DEF IInv
<1>6. \A w \in Values : Pointers(Values, w)' = Pointers(Values, w)
  <2> TAKE w \in Values
  <2>1. \A p \in Values \X (1 .. MaxElems) :
          (Exists(p[1]) /\ p[2] \in DOMAIN values[p[1]].elems /\ values[p[1]].elems[p[2]] = w)
          = (Exists(p[1])' /\ p[2] \in DOMAIN values'[p[1]].elems /\ values'[p[1]].elems[p[2]] = w)
    <3> TAKE p \in Values \X (1 .. MaxElems)
    <3>1. CASE p[1] = v
      BY <3>1, <1>1, <1>3, ConstantsAssumption DEF Nothing
    <3>2. CASE p[1] # v
      BY <3>2, <1>3 DEF Exists
    <3>. QED
      BY <3>1, <3>2
  <2>. QED
    BY <2>1 DEF Pointers
<1>7. Counted'
  <2>1. \A w \in Values \ {v} : values'[w].refcount = References(w)'
    <3> TAKE w \in Values \ {v}
    <3>1. held'[w] = held[w] /\ References(w)' = References(w)
      BY <1>1, <1>2, <1>6, SameReferences
    <3>. QED
      BY <3>1, <1>3 DEF IInv, Counted
  <2>2. values'[v].refcount = References(v)'
    <3>1. values[v].refcount = 0
      BY <1>1, HeldExists DEF Exists
    <3>2. Cardinality(Pointers(Values, v)) = 0
      BY <3>1, HeldExists
    <3>3. References(v)' = 1 + Cardinality(Pointers(Values, v))
      BY <1>1, <1>2, <1>6 DEF References
    <3>. QED
      BY <1>3, <3>2, <3>3
  <2>. QED
    BY <2>1, <2>2 DEF Counted
<1>8. Disciplined => owned' = ObjectsOf(values', Values) /\ exact'
  <2>1. Objects(values[v]) = 0
    BY <1>1 DEF Objects, Exists
  <2>2. ObjectsOf(values', Values) = ObjectsOf(values, Values) - Objects(values[v]) + Objects(x)
    BY <1>1, <1>2, ObjectsReplaced
  <2>3. ObjectsOf(values, Values) \in Nat
    BY ObjectsFinite
  <2>4. Objects(x) \in Nat
    BY DEF Objects
  <2>. QED
    BY <1>1, <2>1, <2>2, <2>3, <2>4 DEF IInv
<1>. QED
  BY <1>4, <1>5, <1>7, <1>8 DEF IInv

\* A leaf given another sound content keeps the invariant.
LEMMA Replacing ==
  ASSUME IInv, NEW v \in Values, NEW x, Sound(x), x.refcount = values[v].refcount,
         x.elems = values[v].elems, Replace(v, x), held' = held,
         errno' \in {"clear", "range"}, exact' \in BOOLEAN, Disciplined => exact'
  PROVE  IInv'
<1>1. values' = [values EXCEPT ![v] = x] /\ owned' = owned - Objects(values[v]) + Objects(x)
  BY DEF Replace
<1>2. DOMAIN values = Values /\ held \in [Values -> 0 .. MaxHeld]
  BY DEF IInv, Typed
<1>3. values'[v] = x /\ \A w \in Values : w # v => values'[w] = values[w]
  BY <1>1, <1>2
<1>4. Typed'
  BY <1>1, <1>2 DEF IInv, Typed, Sound, Formed
<1>5. \A w \in Values : Sound(values'[w])
  BY <1>3 DEF IInv
<1>6. \A w \in Values :
        values'[w].refcount = values[w].refcount /\ values'[w].elems = values[w].elems
  BY <1>3
<1>7. \A w \in Values : Pointers(Values, w)' = Pointers(Values, w)
  BY <1>6, SamePointers DEF Exists
<1>8. Counted'
  BY <1>6, <1>7, SameReferences DEF IInv, Counted
<1>9. Disciplined => owned' = ObjectsOf(values', Values) /\ exact'
  <2>1. ObjectsOf(values', Values) = ObjectsOf(values, Values) - Objects(values[v]) + Objects(x)
    BY <1>1, <1>2, ObjectsReplaced
  <2>. QED
    BY <1>1, <2>1 DEF IInv
<1>. QED
  BY <1>4, <1>5, <1>8, <1>9 DEF IInv

-----------------------------------------------------------------------------

\* A step that leaves values and references alone keeps the invariant.
LEMMA Unchanging ==
  ASSUME IInv, UNCHANGED <<values, held>>, errno' \in {"clear", "range"}, exact' \in BOOLEAN,
         Disciplined => exact' /\ owned' = owned
  PROVE  IInv'
<1>1. \A w \in Values : Pointers(Values, w)' = Pointers(Values, w) /\ held'[w] = held[w]
  BY SamePointers DEF Exists
<1>2. Counted'
  BY <1>1, SameReferences DEF IInv, Counted
<1>. QED
  BY <1>2 DEF IInv, Typed

\* The fields of a new leaf.
LEMMA LeafFields ==
  ASSUME NEW t \in Types \cup {"list"}, NEW n \in Int
  PROVE  /\ Leaf(t, n) \in Value /\ Leaf(t, n).refcount = 1 /\ Leaf(t, n).list = FALSE
         /\ Leaf(t, n).elems = <<>> /\ Leaf(t, n).max = 0 /\ Leaf(t, n).room = 0
         /\ Leaf(t, n).type = t /\ Leaf(t, n).n = n /\ Leaf(t, n).meant = n
<1>1. <<>> \in Seq(Values \cup {Null})
  BY EmptySeq
<1>. QED
  BY <1>1 DEF Leaf, Value

\* The fields of a list.
LEMMA ListFields ==
  ASSUME NEW elems \in Seq(Values \cup {Null}), NEW max \in Nat, NEW room \in Nat
  PROVE  /\ List(elems, max, room) \in Value /\ List(elems, max, room).refcount = 1
         /\ List(elems, max, room).list /\ List(elems, max, room).elems = elems
         /\ List(elems, max, room).max = max /\ List(elems, max, room).room = room
<1>0. Leaf("list", 0) \in Value /\ Leaf("list", 0).refcount = 1
  <2>1. "list" \in Types \cup {"list"} /\ 0 \in Int
    OBVIOUS
  <2>. QED
    BY <2>1, LeafFields
<1> DEFINE y == Leaf("list", 0)
<1>1. y \in Value /\ y.refcount = 1
  BY <1>0
<1> HIDE DEF y
<1>2. List(elems, max, room) = [y EXCEPT !.list = TRUE, !.elems = elems, !.max = max, !.room = room]
  BY DEF List, y
<1>. QED
  BY <1>1, <1>2 DEF Value

\* A new list is sound and empty.
LEMMA EmptyListSound ==
  /\ Sound(List(<<>>, Chunk - 1, Chunk))
  /\ List(<<>>, Chunk - 1, Chunk).refcount = 1 /\ Nothing(List(<<>>, Chunk - 1, Chunk))
<1>1. PICK max \in Nat, room \in Nat : max = Chunk - 1 /\ room = Chunk
  BY ConstantsAssumption
<1>2. PICK e \in Seq(Values \cup {Null}) : e = <<>>
  BY EmptySeq
<1> DEFINE x == List(e, max, room)
<1>3. /\ x \in Value /\ x.list /\ x.elems = e /\ x.max = max /\ x.room = room
      /\ x.refcount = 1
  BY ListFields
<1> HIDE DEF x
<1>4. Len(e) = 0 /\ MaxElems \in Nat
  BY <1>2, ConstantsAssumption
<1>5. Formed(x)
  BY <1>3, <1>4 DEF Formed
<1>6. Kept(x) /\ Nothing(x)
  BY <1>2, <1>3, <1>4 DEF Kept, Nothing
<1>7. x = List(<<>>, Chunk - 1, Chunk)
  BY <1>1, <1>2 DEF x
<1>. QED
  BY <1>3, <1>5, <1>6, <1>7 DEF Sound

\* A sound leaf with another content that fits its type is sound.
LEMMA ContentSound ==
  ASSUME NEW y, Sound(y), ~y.list, NEW x \in Value, x.list = y.list, x.elems = y.elems,
         x.max = y.max, x.room = y.room, x.type \in Types,
         Disciplined => x.n = x.meant /\ Fits(x.type, x.n)
  PROVE  Sound(x)
<1>1. Formed(x)
  BY DEF Sound, Formed
<1>2. Disciplined => Kept(x)
  BY DEF Sound, Kept
<1>. QED
  BY <1>1, <1>2 DEF Sound

\* Converting a sound leaf is exact, for the number the program has put in.
LEMMA LeafConverted ==
  ASSUME NEW v \in Values, Sound(values[v]), IsLeaf(v),
         errno \in {"clear", "range"}, NEW t \in Types,
         values[v].type = "string" => Readable(t, values[v].n)
  PROVE  LET c == Converted(values[v].type, t, values[v].n)  m == values[v].meant
         IN  /\ c.ok \in BOOLEAN /\ c.n \in Int /\ c.errno \in {"clear", "range"} /\ m \in Int
             /\ Disciplined => c.ok = Fits(t, m) /\ (c.ok => c.n = m)
<1>1. values[v].type \in Types /\ values[v].n \in Int /\ values[v].meant \in Int
  BY DEF Sound, Formed, Value, IsLeaf, Exists
<1>2. Disciplined => values[v].n = values[v].meant /\ Fits(values[v].type, values[v].n)
  BY DEF Sound, Kept, IsLeaf, Exists
<1> DEFINE c == Converted(values[v].type, t, values[v].n)
<1>3. c.ok \in BOOLEAN /\ c.n \in Int /\ c.errno \in {"clear", "range"}
  BY <1>1, ConvertedTyped
<1>4. Disciplined => c.ok = Fits(t, values[v].n) /\ (c.ok => c.n = values[v].n)
  BY <1>1, <1>2, ConvertedExact
<1>. QED
  BY <1>1, <1>2, <1>3, <1>4

\* A new leaf whose number fits is sound.
LEMMA LeafSound ==
  ASSUME NEW t \in Types, NEW n \in Int, NEW m \in Int, Disciplined => n = m /\ Fits(t, n)
  PROVE  /\ Sound([Leaf(t, n) EXCEPT !.meant = m])
         /\ [Leaf(t, n) EXCEPT !.meant = m].refcount = 1
         /\ Nothing([Leaf(t, n) EXCEPT !.meant = m])
<1> DEFINE y == Leaf(t, n)
<1>0. t \in Types \cup {"list"}
  OBVIOUS
<1>1. /\ y \in Value /\ y.refcount = 1 /\ y.list = FALSE /\ y.elems = <<>> /\ y.max = 0
      /\ y.room = 0 /\ y.type = t /\ y.n = n
  BY ONLY <1>0, n \in Int, LeafFields
<1>2. MaxElems \in Nat /\ Len(<<>>) = 0
  BY ConstantsAssumption
<1> HIDE DEF y
<1> DEFINE x == [y EXCEPT !.meant = m]
<1>3. x \in Value
  BY <1>1 DEF Value
<1>5. x.list = FALSE /\ x.elems = <<>> /\ x.max = 0 /\ x.room = 0 /\ x.type = t /\ x.n = n
      /\ x.meant = m /\ x.refcount = 1
  BY <1>1 DEF Value
<1> HIDE DEF x
<1>4. Nothing(x)
  BY <1>5 DEF Nothing
<1>6. Formed(x)
  BY <1>2, <1>3, <1>5 DEF Formed
<1>7. Disciplined => Kept(x)
  BY <1>2, <1>5 DEF Kept
<1>. QED
  BY <1>4, <1>5, <1>6, <1>7 DEF Sound, x, y

\* iodefv2_value_new_int8() and the others keep the invariant.
LEMMA NewStep ==
  ASSUME IInv, NEW v \in Values, NEW t \in Types, NEW n \in Numbers, New(v, t, n)
  PROVE  IInv'
<1>1. n \in Int /\ Fits(t, n)
  BY ConstantsAssumption DEF New
<1>2. [Leaf(t, n) EXCEPT !.meant = n] = Leaf(t, n)
  <2>1. Leaf(t, n) \in Value /\ Leaf(t, n).meant = n
    BY <1>1, LeafFields
  <2>. QED
    BY <2>1 DEF Value
<1>3. Sound(Leaf(t, n)) /\ Leaf(t, n).refcount = 1 /\ Nothing(Leaf(t, n))
  BY <1>1, <1>2, LeafSound
<1>4. /\ Make(v, Leaf(t, n)) /\ errno' \in {"clear", "range"} /\ exact' \in BOOLEAN
      /\ Disciplined => exact'
  BY DEF New, IInv, Typed
<1>. QED
  BY <1>3, <1>4, Making

\* iodefv2_value_new_from_string() keeps the invariant.
LEMMA NewFromStringStep ==
  ASSUME IInv, NEW v \in Values, NEW t \in Types, NEW n \in Numbers, NewFromString(v, t, n)
  PROVE  IInv'
<1> DEFINE c == Read(t, n)
<1>1. n \in Int /\ Readable(t, n) /\ errno \in {"clear", "range"}
  BY ConstantsAssumption DEF NewFromString, IInv, Typed
<1>2. c.ok \in BOOLEAN /\ c.n \in Int /\ c.errno \in {"clear", "range"}
  BY <1>1, ReadTyped
<1>3. Disciplined => c.ok = Fits(t, n) /\ (c.ok => c.n = n)
  BY <1>1, ReadExact
<1>4. /\ errno' = c.errno /\ exact' = (c.ok = Fits(t, n) /\ (c.ok => c.n = n))
      /\ IF c.ok THEN Make(v, [Leaf(t, c.n) EXCEPT !.meant = n])
         ELSE ~Exists(v) /\ UNCHANGED <<values, held, owned>>
  BY DEF NewFromString, Judge
<1> HIDE DEF c
<1>5. /\ errno' \in {"clear", "range"} /\ exact' \in BOOLEAN /\ (Disciplined => exact')
  BY <1>2, <1>3, <1>4
<1>6. CASE c.ok
  <2>1. Disciplined => c.n = n /\ Fits(t, c.n)
    BY <1>3, <1>6
  <2>2. /\ Sound([Leaf(t, c.n) EXCEPT !.meant = n])
        /\ [Leaf(t, c.n) EXCEPT !.meant = n].refcount = 1
        /\ Nothing([Leaf(t, c.n) EXCEPT !.meant = n])
    BY <1>1, <1>2, <2>1, LeafSound
  <2>. QED
    BY <1>4, <1>5, <1>6, <2>2, Making
<1>7. CASE ~c.ok
  BY <1>4, <1>5, <1>7, Unchanging
<1>. QED
  BY <1>6, <1>7

\* iodefv2_value_new_list() keeps the invariant.
LEMMA NewListStep ==
  ASSUME IInv, NEW v \in Values, NewList(v)
  PROVE  IInv'
<1> DEFINE x == List(<<>>, Chunk - 1, Chunk)
<1>1. Sound(x) /\ x.refcount = 1 /\ Nothing(x)
  BY EmptyListSound
<1>2. /\ Make(v, x) /\ errno' \in {"clear", "range"} /\ exact' \in BOOLEAN
      /\ (Disciplined => exact')
  BY DEF NewList, IInv, Typed
<1> HIDE DEF x
<1>. QED
  BY <1>1, <1>2, Making

\* iodefv2_value_set_int8() and the others keep the invariant.
LEMMA SetStep ==
  ASSUME IInv, NEW v \in Values, NEW t \in Types, NEW n \in Numbers, Set(v, t, n)
  PROVE  IInv'
<1> DEFINE x == [WithContent(values[v], t, n) EXCEPT !.meant = n]
<1>1. /\ n \in Int /\ Fits(t, n) /\ Sound(values[v]) /\ IsLeaf(v)
      /\ Replace(v, x) /\ held' = held /\ errno' \in {"clear", "range"} /\ exact' \in BOOLEAN
      /\ Disciplined => exact'
  BY ConstantsAssumption DEF Set, IInv, Typed
<1>2. x = [values[v] EXCEPT !.type = t, !.n = n, !.own = TRUE, !.meant = n]
  BY DEF WithContent
<1>3. Sound(x) /\ x.refcount = values[v].refcount /\ x.elems = values[v].elems
  <2>1. ~values[v].list /\ values[v] \in Value
    BY <1>1 DEF IsLeaf, Sound, Formed
  <2>2. /\ x \in Value /\ x.list = values[v].list /\ x.elems = values[v].elems
        /\ x.max = values[v].max /\ x.room = values[v].room /\ x.type = t /\ x.n = n
        /\ x.meant = n /\ x.refcount = values[v].refcount
    BY <1>1, <1>2, <2>1 DEF Value
  <2> HIDE DEF x
  <2>3. Sound(x)
    BY <1>1, <2>1, <2>2, ContentSound
  <2>. QED
    BY <2>2, <2>3
<1> HIDE DEF x
<1>. QED
  BY <1>1, <1>3, Replacing

\* _iodefv2_value_cast() keeps the invariant, also when it refuses.
LEMMA CastStep ==
  ASSUME IInv, NEW v \in Values, NEW t \in Types, Cast(v, t)
  PROVE  IInv'
<1> DEFINE c == Converted(values[v].type, t, values[v].n)  x == CastTo(values[v], t, c.n)
           m == values[v].meant
<1>1. /\ Sound(values[v]) /\ IsLeaf(v) /\ errno \in {"clear", "range"} /\ held' = held
      /\ values[v].type = "string" => Readable(t, values[v].n)
      /\ errno' = c.errno /\ exact' = (c.ok = Fits(t, m) /\ (c.ok => c.n = m))
      /\ IF c.ok THEN Replace(v, x) ELSE UNCHANGED <<values, owned>>
  BY DEF Cast, Judge, IInv, Typed
<1>2. /\ c.ok \in BOOLEAN /\ c.n \in Int /\ c.errno \in {"clear", "range"} /\ m \in Int
      /\ Disciplined => c.ok = Fits(t, m) /\ (c.ok => c.n = m)
  BY <1>1, LeafConverted
<1>3. x.refcount = values[v].refcount /\ x.elems = values[v].elems
      /\ (c.ok => Sound(x))
  <2>1. \E own \in BOOLEAN : x = [values[v] EXCEPT !.type = t, !.n = c.n, !.own = own, !.meant = m]
    <3>1. values[v] \in Value
      BY <1>1 DEF Sound, Formed
    <3>2. CASE values[v].type = "string" /\ t # "string"
      <4>1. x = [values[v] EXCEPT !.type = t, !.n = c.n, !.own = values[v].own, !.meant = m]
        BY <3>1, <3>2 DEF CastTo, Value
      <4>2. values[v].own \in BOOLEAN
        BY <3>1 DEF Value
      <4>. QED
        BY <4>1, <4>2
    <3>3. CASE ~(values[v].type = "string" /\ t # "string")
      BY <3>1, <3>3 DEF CastTo, WithContent, Value
    <3>. QED
      BY <3>2, <3>3
  <2>2. PICK own \in BOOLEAN :
          x = [values[v] EXCEPT !.type = t, !.n = c.n, !.own = own, !.meant = m]
    BY <2>1
  <2> HIDE DEF x, c, m
  <2>3. (Disciplined => c.n = m /\ Fits(t, m)) => Sound(x)
    <3>1. ~values[v].list /\ values[v] \in Value
      BY <1>1 DEF IsLeaf, Sound, Formed
    <3>2. /\ x \in Value /\ x.list = values[v].list /\ x.elems = values[v].elems
          /\ x.max = values[v].max /\ x.room = values[v].room /\ x.type = t /\ x.n = c.n
          /\ x.meant = m
      BY <1>2, <2>2, <3>1 DEF Value
    <3>. QED
      BY <1>1, <3>1, <3>2, ContentSound
  <2>4. x.refcount = values[v].refcount /\ x.elems = values[v].elems
    BY <1>1, <2>2 DEF Sound, Formed, Value
  <2>. QED
    BY <1>2, <2>3, <2>4
<1> HIDE DEF x, c, m
<1>4. errno' \in {"clear", "range"} /\ exact' \in BOOLEAN /\ (Disciplined => exact')
  BY <1>1, <1>2
<1>5. CASE c.ok
  BY <1>1, <1>3, <1>4, <1>5, Replacing
<1>6. CASE ~c.ok
  BY <1>1, <1>4, <1>6, Unchanging
<1>. QED
  BY <1>5, <1>6

\* _iodefv2_value_copy_internal() keeps the invariant.
LEMMA CopyInternalStep ==
  ASSUME IInv, NEW v \in Values, NEW t \in Types, CopyInternal(v, t)
  PROVE  IInv'
<1> DEFINE c == Converted(values[v].type, t, values[v].n)  m == values[v].meant
<1>1. /\ Sound(values[v]) /\ IsLeaf(v) /\ errno \in {"clear", "range"}
      /\ UNCHANGED <<values, held>> /\ (Disciplined => values[v].own)
      /\ values[v].type = "string" => Readable(t, values[v].n)
      /\ errno' = c.errno /\ exact' = (c.ok = Fits(t, m) /\ (c.ok => c.n = m))
      /\ owned' = IF c.ok /\ ~values[v].own THEN owned + Made(t) ELSE owned
  BY DEF CopyInternal, Judge, IInv, Typed
<1>2. /\ c.ok \in BOOLEAN /\ c.n \in Int /\ c.errno \in {"clear", "range"} /\ m \in Int
      /\ Disciplined => c.ok = Fits(t, m) /\ (c.ok => c.n = m)
  BY <1>1, LeafConverted
<1> HIDE DEF c, m
<1>. QED
  BY <1>1, <1>2, Unchanging

-----------------------------------------------------------------------------

\* A value without references is sound, and has nothing to release.
LEMMA Absence ==
  /\ Sound(Absent) /\ Absent.refcount = 0 /\ Objects(Absent) = 0 /\ Absent.elems = <<>>
<1>1. Leaf("list", 0) \in Value /\ ~Leaf("list", 0).list /\ Leaf("list", 0).elems = <<>>
      /\ Leaf("list", 0).max = 0 /\ Leaf("list", 0).room = 0
  <2>1. "list" \in Types \cup {"list"} /\ 0 \in Int
    OBVIOUS
  <2>. QED
    BY <2>1, LeafFields
<1> DEFINE y == Leaf("list", 0)
<1>2. y \in Value /\ ~y.list /\ y.elems = <<>> /\ y.max = 0 /\ y.room = 0
  BY <1>1
<1> HIDE DEF y
<1>3. Absent = [y EXCEPT !.refcount = 0]
  BY DEF Absent, y
<1>4. /\ Absent \in Value /\ ~Absent.list /\ Absent.elems = <<>> /\ Absent.max = 0
      /\ Absent.room = 0 /\ Absent.refcount = 0
  BY <1>2, <1>3 DEF Value
<1>5. Len(<<>>) = 0 /\ MaxElems \in Nat
  BY ConstantsAssumption
<1>6. Formed(Absent)
  BY <1>4, <1>5 DEF Formed
<1>7. Kept(Absent) /\ Objects(Absent) = 0
  BY <1>4, <1>5 DEF Kept, Objects
<1>. QED
  BY <1>4, <1>6, <1>7 DEF Sound

\* iodefv2_value_ref() keeps the invariant.
LEMMA RefStep ==
  ASSUME IInv, NEW v \in Values, Ref(v)
  PROVE  IInv'
<1> DEFINE x == [values[v] EXCEPT !.refcount = @ + 1]
<1>1. /\ values' = [values EXCEPT ![v] = x] /\ held' = [held EXCEPT ![v] = @ + 1]
      /\ held[v] > 0 /\ held[v] < MaxHeld /\ UNCHANGED <<owned, errno, exact>>
  BY DEF Ref
<1>2. /\ values \in [Values -> Value] /\ held \in [Values -> 0 .. MaxHeld]
      /\ values[v] \in Value /\ held[v] \in Nat /\ values[v].refcount \in Nat /\ Exists(v)
  BY <1>1, HeldExists DEF IInv, Typed
<1>3. /\ x \in Value /\ x.refcount = values[v].refcount + 1 /\ x.list = values[v].list
      /\ x.elems = values[v].elems /\ x.max = values[v].max /\ x.room = values[v].room
      /\ x.type = values[v].type /\ x.n = values[v].n /\ x.meant = values[v].meant
      /\ x.own = values[v].own
  <2> DEFINE y == values[v]  r == y.refcount + 1
  <2>1. y \in Value /\ r \in Nat /\ x = [y EXCEPT !.refcount = r]
    BY <1>2
  <2> HIDE DEF x, y, r
  <2>2. /\ x \in Value /\ x.refcount = r /\ x.list = y.list
        /\ x.elems = y.elems /\ x.max = y.max /\ x.room = y.room
        /\ x.type = y.type /\ x.n = y.n /\ x.meant = y.meant /\ x.own = y.own
    BY <2>1 DEF Value
  <2>. QED
    BY <2>2 DEF y, r
<1> HIDE DEF x
<1>4. Sound(x) /\ Objects(x) = Objects(values[v])
  BY <1>2, <1>3 DEF IInv, Sound, Formed, Kept, Exists, Objects
<1>5. values'[v] = x /\ \A w \in Values : w # v => values'[w] = values[w]
  BY <1>1, <1>2
<1>6. Typed'
  <2>1. held' \in [Values -> 0 .. MaxHeld]
    BY <1>1, <1>2, ConstantsAssumption
  <2>. QED
    BY <1>1, <1>2, <1>3, <2>1 DEF IInv, Typed
<1>7. \A w \in Values : Sound(values'[w])
  BY <1>4, <1>5 DEF IInv
<1>8. \A w \in Values : Pointers(Values, w)' = Pointers(Values, w)
  <2>1. \A w \in Values : Exists(w)' = Exists(w) /\ values'[w].elems = values[w].elems
    BY <1>2, <1>3, <1>5 DEF Exists
  <2>. QED
    BY <2>1, SamePointers
<1>9. Counted'
  <2>1. \A w \in Values \ {v} : values'[w].refcount = References(w)'
    BY <1>1, <1>2, <1>5, <1>8, SameReferences DEF IInv, Counted
  <2>2. References(v)' = References(v) + 1
    <3>1. held'[v] = held[v] + 1
      BY <1>1, <1>2
    <3>2. Cardinality(Pointers(Values, v)) \in Nat
      BY PointersFinite
    <3>. QED
      BY <1>2, <1>8, <3>1, <3>2 DEF References
  <2>. QED
    BY <1>3, <1>5, <2>1, <2>2 DEF IInv, Counted
<1>10. Disciplined => owned' = ObjectsOf(values', Values) /\ exact'
  <2>1. ObjectsOf(values', Values) = ObjectsOf(values, Values) - Objects(values[v]) + Objects(x)
    BY <1>1, <1>2, ObjectsReplaced
  <2>2. ObjectsOf(values, Values) \in Nat /\ Objects(x) \in Nat
    BY ObjectsFinite DEF Objects
  <2>. QED
    BY <1>1, <1>4, <2>1, <2>2 DEF IInv
<1>. QED
  BY <1>6, <1>7, <1>9, <1>10 DEF IInv

\* iodefv2_value_list_add() keeps the invariant: the reference of the program
\* becomes the pointer of the list, and the list has grown in time.
LEMMA ListAddStep ==
  ASSUME IInv, NEW v \in Values, NEW item \in Values \cup {Null}, ListAdd(v, item)
  PROVE  IInv'
<1> DEFINE l == values[v]  x == Added(l, item)
           k == Len(l.elems) + 1
<1>1. /\ values' = [values EXCEPT ![v] = x] /\ held[v] > 0 /\ l.list /\ Len(l.elems) < MaxElems
      /\ Disciplined => l.room = l.max + 1
      /\ item # Null => held[item] > 0
      /\ held' = IF item = Null THEN held ELSE [held EXCEPT ![item] = @ - 1]
      /\ UNCHANGED <<owned, errno, exact>>
  BY DEF ListAdd
<1>2. /\ values \in [Values -> Value] /\ held \in [Values -> 0 .. MaxHeld]
      /\ l \in Value /\ Exists(v) /\ Sound(l)
  BY <1>1, HeldExists DEF IInv, Typed
<1>3. /\ l.elems \in Seq(Values \cup {Null}) /\ l.max \in Nat /\ l.room \in Nat /\ k \in Nat
      /\ Append(l.elems, item) \in Seq(Values \cup {Null}) /\ Len(Append(l.elems, item)) = k
      /\ DOMAIN Append(l.elems, item) = 1 .. k /\ DOMAIN l.elems = 1 .. k - 1
      /\ \A i \in 1 .. k - 1 : Append(l.elems, item)[i] = l.elems[i]
      /\ Append(l.elems, item)[k] = item
      /\ k <= MaxElems /\ k - 1 <= l.max /\ MaxElems \in Nat /\ Chunk \in Nat \ {0}
  <2>1. l.elems \in Seq(Values \cup {Null}) /\ l.max \in Nat /\ l.room \in Nat
    BY <1>2 DEF Value
  <2>2. k - 1 <= l.max /\ MaxElems \in Nat /\ Chunk \in Nat \ {0}
    BY <1>1, <1>2, <2>1, ConstantsAssumption DEF Sound, Formed
  <2>3. k <= MaxElems
    BY <1>1, <2>1, <2>2
  <2> HIDE DEF l
  <2>. QED
    BY <2>1, <2>2, <2>3
<1>4. /\ x \in Value /\ x.refcount = l.refcount /\ x.list /\ x.elems = Append(l.elems, item)
      /\ x.max = IF k - 1 = l.max THEN l.max + Chunk ELSE l.max
      /\ x.room = IF k - 1 = l.max THEN l.max + 1 + Chunk ELSE l.room
  <2> DEFINE g == Grown(l)
  <2>1. /\ g \in Value /\ g.refcount = l.refcount /\ g.list /\ g.elems = l.elems
        /\ g.max = IF k - 1 = l.max THEN l.max + Chunk ELSE l.max
        /\ g.room = IF k - 1 = l.max THEN l.max + 1 + Chunk ELSE l.room
    <3>1. CASE k - 1 = l.max
      <4>1. Grown(l) = [l EXCEPT !.max = @ + Chunk, !.room = l.max + 1 + Chunk]
        BY <3>1, <1>3 DEF Grown
      <4>2. l.max + Chunk \in Nat /\ l.max + 1 + Chunk \in Nat
        BY <1>3
      <4>. QED
        BY <1>1, <1>2, <3>1, <4>1, <4>2 DEF Value
    <3>2. CASE k - 1 # l.max
      <4>1. Grown(l) = l
        BY <3>2, <1>3 DEF Grown
      <4>. QED
        BY <1>1, <1>2, <3>2, <4>1
    <3>. QED
      BY <3>1, <3>2
  <2> HIDE DEF g
  <2>2. x = [g EXCEPT !.elems = Append(@, item)]
    BY DEF g, Added
  <2> DEFINE longer == Append(l.elems, item)
  <2>3. longer \in Seq(Values \cup {Null}) /\ x = [g EXCEPT !.elems = longer]
    BY <1>3, <2>1, <2>2
  <2> HIDE DEF x, l, longer
  <2>4. /\ x \in Value /\ x.refcount = g.refcount /\ x.list = g.list /\ x.elems = longer
        /\ x.max = g.max /\ x.room = g.room
    BY <2>1, <2>3 DEF Value
  <2>. QED
    BY <2>1, <2>4 DEF longer
<1>5. Sound(x)
  <2>1. Disciplined => Len(x.elems) <= x.room
    BY <1>1, <1>3, <1>4
  <2> HIDE DEF x, l
  <2>. QED
    BY <1>3, <1>4, <2>1 DEF Sound, Formed, Kept
<1>6. values'[v] = x /\ \A w \in Values : w # v => values'[w] = values[w]
  BY <1>1, <1>2
<1> HIDE DEF x
<1>7. Typed'
  <2>1. held' \in [Values -> 0 .. MaxHeld]
    <3>1. CASE item = Null
      BY <1>1, <1>2, <3>1
    <3>2. CASE item # Null
      BY <1>1, <1>2, <3>2, ConstantsAssumption
    <3>. QED
      BY <3>1, <3>2
  <2>. QED
    BY <1>1, <1>2, <1>4, <2>1 DEF IInv, Typed
<1>8. \A w \in Values : Sound(values'[w])
  BY <1>5, <1>6 DEF IInv
<1>9. \A w \in Values : Pointers(Values, w)'
        = IF w = item THEN Pointers(Values, w) \cup {<<v, k>>} ELSE Pointers(Values, w)
  <2> DEFINE At(p, w) == /\ Exists(p[1]) /\ p[2] \in DOMAIN values[p[1]].elems
                         /\ values[p[1]].elems[p[2]] = w
             Then(p, w) == /\ Exists(p[1])' /\ p[2] \in DOMAIN values'[p[1]].elems
                           /\ values'[p[1]].elems[p[2]] = w
  <2>1. \A w \in Values : \A p \in Values \X (1 .. MaxElems) :
          Then(p, w) <=> (At(p, w) \/ (w = item /\ p = <<v, k>>))
    <3> TAKE w \in Values
    <3> TAKE p \in Values \X (1 .. MaxElems)
    <3>1. CASE p[1] # v
      BY <3>1, <1>6 DEF Exists
    <3>2. CASE p[1] = v
      <4>1. Exists(v)'
        BY <1>2, <1>4, <1>6 DEF Exists
      <4>2. values'[v].elems = Append(l.elems, item)
        BY <1>4, <1>6
      <4>3. p = <<v, p[2]>> /\ p[2] \in 1 .. MaxElems
        BY <3>2
      <4>. QED
        BY <1>2, <1>3, <3>2, <4>1, <4>2, <4>3
    <3>. QED
      BY <3>1, <3>2
  <2>2. <<v, k>> \in Values \X (1 .. MaxElems)
    BY <1>3
  <2>3. \A w \in Values : Pointers(Values, w) = {p \in Values \X (1 .. MaxElems) : At(p, w)}
    BY DEF Pointers
  <2>4. \A w \in Values : Pointers(Values, w)' = {p \in Values \X (1 .. MaxElems) : Then(p, w)}
    BY DEF Pointers
  <2> HIDE DEF At, Then
  <2>. QED
    BY <2>1, <2>2, <2>3, <2>4
<1>10. Counted'
  <2>1. \A w \in Values : values'[w].refcount = values[w].refcount
    BY <1>4, <1>6
  <2>2. \A w \in Values : References(w)' = References(w)
    <3> TAKE w \in Values
    <3>1. CASE w # item
      <4>1. held'[w] = held[w]
        BY <1>1, <1>2, <3>1
      <4>. QED
        BY <1>9, <3>1, <4>1, SameReferences
    <3>2. CASE w = item
      <4>1. held'[w] = held[w] - 1
        BY <1>1, <1>2, <3>2, ConstantsAssumption
      <4>2. <<v, k>> \notin Pointers(Values, w)
        BY <1>3 DEF Pointers
      <4>3. Pointers(Values, w)' = Pointers(Values, w) \cup {<<v, k>>}
        BY <1>9, <3>2
      <4>4. Cardinality(Pointers(Values, w)') = Cardinality(Pointers(Values, w)) + 1
        BY <4>2, <4>3, PointersFinite, FS_AddElement
      <4>5. Cardinality(Pointers(Values, w)) \in Nat /\ held[w] \in Nat
        BY <1>2, PointersFinite, ConstantsAssumption
      <4>. QED
        BY <4>1, <4>4, <4>5 DEF References
    <3>. QED
      BY <3>1, <3>2
  <2>. QED
    BY <2>1, <2>2 DEF IInv, Counted
<1>11. Disciplined => owned' = ObjectsOf(values', Values) /\ exact'
  <2>1. ObjectsOf(values', Values) = ObjectsOf(values, Values) - Objects(values[v]) + Objects(x)
    BY <1>1, <1>2, ObjectsReplaced
  <2>2. Objects(x) = 0 /\ Objects(values[v]) = 0
    BY <1>1, <1>4 DEF Objects
  <2>3. ObjectsOf(values, Values) \in Nat
    BY ObjectsFinite
  <2>. QED
    BY <1>1, <2>1, <2>2, <2>3 DEF IInv
<1>. QED
  BY <1>7, <1>8, <1>10, <1>11 DEF IInv

\* iodefv2_value_have_own_data() and _dont_have_own_data() keep the invariant:
\* the strings to release change by those of the leaves inside.
LEMMA SetOwnDataStep ==
  ASSUME IInv, NEW v \in Values, NEW own \in BOOLEAN, SetOwnData(v, own)
  PROVE  IInv'
<1> DEFINE D == {w \in Inside(v) \ {Null} : IsLeaf(w)}
<1>1. /\ values' = [w \in Values |-> IF w \in D THEN [values[w] EXCEPT !.own = own] ELSE values[w]]
      /\ owned' = owned + ObjectsOf(values', D) - ObjectsOf(values, D)
      /\ UNCHANGED <<held, errno, exact>>
  BY DEF SetOwnData
<1>2. D \in SUBSET Values
  BY DEF Inside, IsList
<1> HIDE DEF D
<1>3. /\ values \in [Values -> Value] /\ held \in [Values -> 0 .. MaxHeld]
  BY DEF IInv, Typed
<1>4. \A w \in Values :
        /\ values'[w] \in Value /\ values'[w].refcount = values[w].refcount
        /\ values'[w].list = values[w].list /\ values'[w].elems = values[w].elems
        /\ values'[w].max = values[w].max /\ values'[w].room = values[w].room
        /\ values'[w].type = values[w].type /\ values'[w].n = values[w].n
        /\ values'[w].meant = values[w].meant
  <2> TAKE w \in Values
  <2>1. CASE w \in D
    <3>1. values[w] \in Value /\ values'[w] = [values[w] EXCEPT !.own = own]
      BY <1>1, <1>3, <2>1
    <3>. QED
      BY <3>1 DEF Value
  <2>2. CASE w \notin D
    BY <1>1, <1>3, <2>2
  <2>. QED
    BY <2>1, <2>2
<1>5. Typed'
  BY <1>1, <1>4 DEF IInv, Typed
<1>6. \A w \in Values : Sound(values'[w])
  BY <1>4 DEF IInv, Sound, Formed, Kept
<1>7. \A w \in Values : Pointers(Values, w)' = Pointers(Values, w)
  BY <1>4, SamePointers DEF Exists
<1>8. Counted'
  BY <1>1, <1>4, <1>7, SameReferences DEF IInv, Counted
<1>9. Disciplined => owned' = ObjectsOf(values', Values) /\ exact'
  <2>1. \A w \in Values \ D : Objects(values[w]) = Objects(values'[w])
    BY <1>1
  <2> DEFINE f == values  g == values'
  <2>2. \A w \in Values \ D : Objects(f[w]) = Objects(g[w])
    BY <2>1
  <2> HIDE DEF f, g
  <2>3. ObjectsOf(g, Values) = ObjectsOf(f, Values) - ObjectsOf(f, D) + ObjectsOf(g, D)
    BY <1>2, <2>2, ObjectsMove
  <2>4. ObjectsOf(f, Values) \in Nat /\ ObjectsOf(f, D) \in Nat /\ ObjectsOf(g, D) \in Nat
    BY <1>2, ObjectsFinite
  <2>5. Disciplined => owned = ObjectsOf(f, Values) /\ exact
    BY DEF IInv, f
  <2>6. owned' = owned + ObjectsOf(g, D) - ObjectsOf(f, D) /\ exact' = exact
    BY <1>1 DEF f, g
  <2>7. Disciplined => owned' = ObjectsOf(g, Values) /\ exact'
    BY <2>3, <2>4, <2>5, <2>6
  <2>. QED
    BY <2>7 DEF g
<1>. QED
  BY <1>5, <1>6, <1>8, <1>9 DEF IInv

-----------------------------------------------------------------------------

\* The more values go, the more references are lost.
LEMMA PointersGrow ==
  ASSUME NEW S \in SUBSET Values, NEW T \in SUBSET Values, S \subseteq T, NEW v, NEW w
  PROVE  /\ Pointers(S, w) \subseteq Pointers(T, w)
         /\ Lost(v, S, w) \in Nat /\ Lost(v, T, w) \in Nat /\ Lost(v, S, w) <= Lost(v, T, w)
<1>1. Pointers(S, w) \subseteq Pointers(T, w)
  BY DEF Pointers
<1>2. IsFiniteSet(Pointers(T, w)) /\ Cardinality(Pointers(T, w)) \in Nat
      /\ Cardinality(Pointers(S, w)) \in Nat
  BY PointersFinite
<1>3. Cardinality(Pointers(S, w)) <= Cardinality(Pointers(T, w))
  BY <1>1, <1>2, FS_Subset
<1>. QED
  BY <1>1, <1>2, <1>3 DEF Lost

\* What goes with a reference to v are exactly the values all of whose
\* references are lost with it, by the program or by a list that goes.
LEMMA GoneIsLeast ==
  ASSUME NEW v \in Values, \A w \in Values : values[w].refcount \in Nat
  PROVE  /\ Gone(v) \in SUBSET Values
         /\ \A w \in Values :
              w \in Gone(v) <=> Exists(w) /\ values[w].refcount <= Lost(v, Gone(v), w)
<1> DEFINE G == Gone(v)  Goes(S, w) == Exists(w) /\ values[w].refcount <= Lost(v, S, w)
<1>1. G \in SUBSET Values
  BY DEF Gone
<1>2. \A w \in Values : w \in G <=> \A S \in SUBSET Values : Complete(v, S) => w \in S
  BY DEF Gone
<1>3. \A S \in SUBSET Values : Complete(v, S) <=> \A w \in Values : Goes(S, w) => w \in S
  <2> TAKE S \in SUBSET Values
  <2>1. \A w \in Values : Lost(v, S, w) \in Nat
    BY PointersGrow
  <2>. QED
    BY <2>1 DEF Complete
<1>4. \A S \in SUBSET Values, T \in SUBSET Values, w \in Values :
        S \subseteq T /\ Goes(S, w) => Goes(T, w)
  <2> TAKE S \in SUBSET Values, T \in SUBSET Values, w \in Values
  <2>1. S \subseteq T => /\ Lost(v, S, w) \in Nat /\ Lost(v, T, w) \in Nat
                         /\ Lost(v, S, w) <= Lost(v, T, w)
    BY PointersGrow
  <2>. QED
    BY <2>1
<1> HIDE DEF G, Goes
<1>5. \A w \in Values : Goes(G, w) => w \in G
  <2> SUFFICES ASSUME NEW w \in Values, Goes(G, w), NEW S \in SUBSET Values, Complete(v, S)
               PROVE  w \in S
    BY <1>2
  <2>1. G \subseteq S
    BY <1>1, <1>2
  <2>2. Goes(S, w)
    BY <1>1, <1>4, <2>1
  <2>. QED
    BY <1>3, <2>2
<1>6. \A w \in G : Goes(G, w)
  <2> SUFFICES ASSUME NEW w \in G, ~Goes(G, w)
               PROVE  FALSE
    OBVIOUS
  <2> DEFINE S == G \ {w}
  <2>1. S \in SUBSET Values /\ S \subseteq G
    BY <1>1
  <2>2. \A u \in Values : Goes(S, u) => u \in S
    <3> SUFFICES ASSUME NEW u \in Values, Goes(S, u)
                 PROVE  u \in S
      OBVIOUS
    <3>1. Goes(G, u)
      BY <1>1, <1>4, <2>1
    <3>. QED
      BY <1>5, <3>1
  <2>3. Complete(v, S)
    BY <1>3, <2>1, <2>2
  <2>4. w \in S
    BY <1>1, <1>2, <2>1, <2>3
  <2>. QED
    BY <2>4
<1>7. \A w \in Values : w \in G <=> Goes(G, w)
  BY <1>5, <1>6
<1>. QED
  BY <1>1, <1>7 DEF G, Goes

\* iodefv2_value_destroy() keeps the invariant: what goes has no reference left,
\* and what stays has lost the references of what goes, and no more.
LEMMA DestroyStep ==
  ASSUME IInv, NEW v \in Values, Destroy(v)
  PROVE  IInv'
<1> DEFINE G == Gone(v)  lost(w) == Lost(v, G, w)
<1>1. /\ held[v] > 0 /\ values' = Released(v, G) /\ owned' = owned - ObjectsOf(values, G)
      /\ held' = [held EXCEPT ![v] = @ - 1] /\ UNCHANGED <<errno, exact>>
  BY DEF Destroy
<1>2. /\ values \in [Values -> Value] /\ held \in [Values -> 0 .. MaxHeld]
      /\ \A w \in Values : values[w].refcount \in Nat
  BY HeldExists DEF IInv, Typed
<1>3. /\ G \in SUBSET Values
      /\ \A w \in Values : w \in G <=> Exists(w) /\ values[w].refcount <= lost(w)
  BY <1>2, GoneIsLeast
<1> DEFINE gives(w) == IF w = v THEN 1 ELSE 0
           All(w) == Cardinality(Pointers(Values, w))  Going(w) == Cardinality(Pointers(G, w))
<1>4. \A w \in Values :
        /\ lost(w) = gives(w) + Going(w)
        /\ All(w) \in Nat /\ Going(w) \in Nat /\ Going(w) <= All(w)
        /\ Pointers(G, w) \subseteq Pointers(Values, w) /\ IsFiniteSet(Pointers(Values, w))
        /\ IsFiniteSet(Pointers(G, w))
  <2> TAKE w \in Values
  <2>1. Pointers(G, w) \subseteq Pointers(Values, w)
    BY <1>3, PointersGrow
  <2>2. /\ IsFiniteSet(Pointers(Values, w)) /\ IsFiniteSet(Pointers(G, w))
        /\ All(w) \in Nat /\ Going(w) \in Nat
    BY <1>3, PointersFinite
  <2>3. Going(w) <= All(w)
    BY <2>1, <2>2, FS_Subset
  <2>4. lost(w) = gives(w) + Going(w)
    BY DEF Lost
  <2>. QED
    BY <2>1, <2>2, <2>3, <2>4
<1>5. \A w \in Values :
        /\ held[w] \in Nat /\ values[w].refcount = held[w] + All(w)
        /\ gives(w) \in {0, 1} /\ gives(w) <= held[w] /\ held'[w] = held[w] - gives(w)
  BY <1>1, <1>2, HeldExists
<1> HIDE DEF gives, All, Going, lost, G
<1>6. \A w \in Values :
        /\ values[w].refcount - lost(w) = (held[w] - gives(w)) + (All(w) - Going(w))
        /\ values[w].refcount - lost(w) \in Nat /\ lost(w) \in Nat
        /\ w \in G => Exists(w) /\ values[w].refcount - lost(w) = 0
        /\ w \notin G /\ Exists(w) => values[w].refcount - lost(w) > 0
  <2> TAKE w \in Values
  <2>1. /\ lost(w) = gives(w) + Going(w) /\ All(w) \in Nat /\ Going(w) \in Nat /\ Going(w) <= All(w)
        /\ held[w] \in Nat /\ values[w].refcount = held[w] + All(w)
        /\ gives(w) \in {0, 1} /\ gives(w) <= held[w] /\ values[w].refcount \in Nat
    BY <1>2, <1>4, <1>5
  <2>2. /\ values[w].refcount - lost(w) = (held[w] - gives(w)) + (All(w) - Going(w))
        /\ values[w].refcount - lost(w) \in Nat /\ lost(w) \in Nat
    BY <2>1
  <2>3. w \in G => Exists(w) /\ values[w].refcount - lost(w) = 0
    BY <1>3, <2>1, <2>2
  <2>4. w \notin G /\ Exists(w) => values[w].refcount - lost(w) > 0
    BY <1>3, <2>1, <2>2
  <2>. QED
    BY <2>2, <2>3, <2>4
<1>7. \A w \in Values :
        /\ w \in G => values'[w] = Absent
        /\ w \notin G => values'[w] = [values[w] EXCEPT !.refcount = values[w].refcount - lost(w)]
  BY <1>1, <1>3 DEF Released, lost
<1>8. \A w \in Values \ G :
        /\ values'[w] \in Value /\ values'[w].refcount = values[w].refcount - lost(w)
        /\ values'[w].list = values[w].list /\ values'[w].elems = values[w].elems
        /\ values'[w].max = values[w].max /\ values'[w].room = values[w].room
        /\ values'[w].type = values[w].type /\ values'[w].n = values[w].n
        /\ values'[w].meant = values[w].meant /\ values'[w].own = values[w].own
  <2> TAKE w \in Values \ G
  <2> DEFINE r == values[w].refcount - lost(w)  y == values[w]  x == values'[w]
  <2>1. y \in Value /\ r \in Nat /\ x = [y EXCEPT !.refcount = r]
    BY <1>2, <1>6, <1>7
  <2> HIDE DEF x, y, r
  <2>2. /\ x \in Value /\ x.refcount = r /\ x.list = y.list
        /\ x.elems = y.elems /\ x.max = y.max /\ x.room = y.room
        /\ x.type = y.type /\ x.n = y.n /\ x.meant = y.meant /\ x.own = y.own
    BY <2>1 DEF Value
  <2>. QED
    BY <2>2 DEF x, y, r
<1>9. \A w \in Values : Exists(w)' <=> (Exists(w) /\ w \notin G)
  <2> TAKE w \in Values
  <2>1. CASE w \in G
    <3>1. values'[w].refcount = 0
      BY <1>7, <2>1, Absence
    <3>2. ~(values'[w].refcount > 0)
      BY <3>1
    <3>. QED
      BY <2>1, <3>2 DEF Exists
  <2>2. CASE w \notin G
    BY <1>2, <1>6, <1>8, <2>2 DEF Exists
  <2>. QED
    BY <2>1, <2>2
<1>10. \A w \in Values : Sound(values'[w])
  <2> TAKE w \in Values
  <2>1. CASE w \in G
    BY <1>7, <2>1, Absence
  <2>2. CASE w \notin G
    <3>1. Sound(values[w]) /\ (values'[w].refcount > 0 => values[w].refcount > 0)
      BY <1>9, <2>2 DEF IInv, Exists
    <3>2. Formed(values'[w])
      BY <1>8, <2>2, <3>1 DEF Sound, Formed
    <3>3. Disciplined => Kept(values'[w])
      BY <1>8, <2>2, <3>1 DEF Sound, Kept
    <3>. QED
      BY <3>2, <3>3 DEF Sound
  <2>. QED
    BY <2>1, <2>2
<1>11. Typed'
  <2>1. held' \in [Values -> 0 .. MaxHeld]
    BY <1>1, <1>2, ConstantsAssumption
  <2>2. DOMAIN values' = Values /\ values' = [w \in Values |-> values'[w]]
    BY <1>1 DEF Released
  <2>3. \A w \in Values : values'[w] \in Value
    BY <1>10 DEF Sound, Formed
  <2>. QED
    BY <1>1, <2>1, <2>2, <2>3 DEF IInv, Typed
<1>12. \A w \in Values : Pointers(Values, w)' = Pointers(Values, w) \ Pointers(G, w)
  <2> TAKE w \in Values
  <2> DEFINE At(p) == /\ Exists(p[1]) /\ p[2] \in DOMAIN values[p[1]].elems
                      /\ values[p[1]].elems[p[2]] = w
             Then(p) == /\ Exists(p[1])' /\ p[2] \in DOMAIN values'[p[1]].elems
                        /\ values'[p[1]].elems[p[2]] = w
  <2>1. \A p \in Values \X (1 .. MaxElems) : Then(p) <=> (At(p) /\ p[1] \notin G)
    <3> TAKE p \in Values \X (1 .. MaxElems)
    <3>1. CASE p[1] \in G
      BY <1>9, <3>1
    <3>2. CASE p[1] \notin G
      BY <1>8, <1>9, <3>2
    <3>. QED
      BY <3>1, <3>2
  <2>2. Pointers(Values, w) = {p \in Values \X (1 .. MaxElems) : At(p)}
    BY DEF Pointers
  <2>3. Pointers(G, w) = {p \in G \X (1 .. MaxElems) : At(p)}
    BY DEF Pointers
  <2>4. Pointers(Values, w)' = {p \in Values \X (1 .. MaxElems) : Then(p)}
    BY DEF Pointers
  <2>5. \A p \in Values \X (1 .. MaxElems) : p \in G \X (1 .. MaxElems) <=> p[1] \in G
    OBVIOUS
  <2> HIDE DEF At, Then
  <2>. QED
    BY <1>3, <2>1, <2>2, <2>3, <2>4, <2>5
<1>13. Counted'
  <2>1. \A w \in Values : References(w)' = values[w].refcount - lost(w)
    <3> TAKE w \in Values
    <3>1. Pointers(Values, w) \cap Pointers(G, w) = Pointers(G, w)
      BY <1>4
    <3>2. Cardinality(Pointers(Values, w)') = All(w) - Going(w)
      <4>1. Cardinality(Pointers(Values, w) \ Pointers(G, w))
              = Cardinality(Pointers(Values, w))
                  - Cardinality(Pointers(Values, w) \cap Pointers(G, w))
        BY <1>4, FS_Difference
      <4>. QED
        BY <1>12, <3>1, <4>1 DEF All, Going
    <3>. QED
      BY <1>5, <1>6, <3>2 DEF References
  <2>2. \A w \in G : values'[w].refcount = 0 /\ values[w].refcount - lost(w) = 0
    BY <1>3, <1>6, <1>7, Absence
  <2>. QED
    BY <1>8, <2>1, <2>2 DEF Counted
<1>14. Disciplined => owned' = ObjectsOf(values', Values) /\ exact'
  <2>1. \A w \in Values \ G : Objects(values[w]) = Objects(values'[w])
    <3> TAKE w \in Values \ G
    <3>1. values'[w].refcount > 0 <=> values[w].refcount > 0
      BY <1>9 DEF Exists
    <3>. QED
      BY <1>8, <3>1 DEF Objects
  <2>2. ObjectsOf(values', G) = 0
    <3>1. \A w \in G : Objects(values'[w]) = 0
      BY <1>3, <1>7, Absence
    <3>2. {w \in G : Objects(values'[w]) = 1} = {}
      BY <3>1
    <3>. QED
      BY <3>2, FS_EmptySet DEF ObjectsOf
  <2> DEFINE f == values  g == values'
  <2>3. (\A w \in Values \ G : Objects(f[w]) = Objects(g[w])) /\ ObjectsOf(g, G) = 0
    BY <2>1, <2>2
  <2> HIDE DEF f, g
  <2>4. ObjectsOf(g, Values) = ObjectsOf(f, Values) - ObjectsOf(f, G) + ObjectsOf(g, G)
    BY <1>3, <2>3, ObjectsMove
  <2>5. ObjectsOf(f, Values) \in Nat /\ ObjectsOf(f, G) \in Nat
    BY <1>3, ObjectsFinite
  <2>6. (Disciplined => owned = ObjectsOf(f, Values) /\ exact) /\ owned' = owned - ObjectsOf(f, G)
        /\ exact' = exact
    BY <1>1 DEF IInv, f
  <2>7. Disciplined => owned' = ObjectsOf(g, Values) /\ exact'
    BY <2>3, <2>4, <2>5, <2>6
  <2>. QED
    BY <2>7 DEF g
<1>. QED
  BY <1>10, <1>11, <1>13, <1>14 DEF IInv

-----------------------------------------------------------------------------

\* iodefv2_value_clone() keeps the invariant.
LEMMA CloneStep ==
  ASSUME IInv, NEW v \in Values, NEW d \in Values, Clone(v, d)
  PROVE  IInv'
<1> DEFINE y == values[v]  x == Cloned(y)
<1>1. /\ held[v] > 0 /\ (Disciplined => Nothing(y)) /\ UNCHANGED <<errno, exact>>
      /\ Nothing(y) => Make(d, x)
      /\ ~Nothing(y) => UNCHANGED <<values, held>>
  BY DEF Clone
<1>2. y \in Value /\ Sound(y) /\ Exists(v)
  BY <1>1, HeldExists DEF IInv, Typed
<1>3. errno' \in {"clear", "range"} /\ exact' \in BOOLEAN /\ (Disciplined => exact')
  BY <1>1 DEF IInv, Typed
<1>4. ASSUME y.list
      PROVE  Sound(x) /\ x.refcount = 1 /\ x.elems = y.elems
  <2>1. PICK elems \in Seq(Values \cup {Null}), max \in Nat, room \in Nat :
          elems = y.elems /\ max = y.max /\ room = Len(y.elems) + 1
    BY <1>2 DEF Value
  <2>2. x = List(elems, max, room)
    BY <1>4, <2>1 DEF Cloned
  <2> HIDE DEF x, y
  <2>3. x \in Value /\ x.refcount = 1 /\ x.list /\ x.elems = elems /\ x.max = max /\ x.room = room
    <3>1. /\ List(elems, max, room) \in Value /\ List(elems, max, room).refcount = 1
          /\ List(elems, max, room).list /\ List(elems, max, room).elems = elems
          /\ List(elems, max, room).max = max /\ List(elems, max, room).room = room
      BY ONLY ListFields, elems \in Seq(Values \cup {Null}), max \in Nat, room \in Nat
    <3>. QED
      BY <2>2, <3>1
  <2>4. Len(elems) \in Nat
    OBVIOUS
  <2>5. Formed(x)
    BY <1>2, <1>4, <2>1, <2>3, <2>4 DEF Sound, Formed
  <2>6. Kept(x)
    BY <2>1, <2>3, <2>4 DEF Kept
  <2>. QED
    BY <2>1, <2>3, <2>5, <2>6 DEF Sound
<1>5. ASSUME ~y.list
      PROVE  Sound(x) /\ x.refcount = 1 /\ x.elems = y.elems
  <2>1. x = [y EXCEPT !.refcount = 1, !.own = TRUE]
    BY <1>5 DEF Cloned
  <2>2. y.type \in Types /\ (Disciplined => y.n = y.meant /\ Fits(y.type, y.n))
    BY <1>2, <1>5 DEF Sound, Formed, Kept, Exists
  <2> HIDE DEF x, y
  <2>3. /\ x \in Value /\ x.refcount = 1 /\ x.list = y.list /\ x.elems = y.elems /\ x.max = y.max
        /\ x.room = y.room /\ x.type = y.type /\ x.n = y.n /\ x.meant = y.meant
    BY <1>2, <2>1 DEF Value
  <2>4. Sound(x)
    BY <1>2, <1>5, <2>2, <2>3, ContentSound
  <2>. QED
    BY <2>3, <2>4
<1>6. Sound(x) /\ x.refcount = 1 /\ x.elems = y.elems
  BY <1>4, <1>5
<1> HIDE DEF x, y
<1>7. CASE Nothing(y)
  <2>1. Nothing(x)
    BY <1>6, <1>7 DEF Nothing
  <2>. QED
    BY <1>1, <1>3, <1>6, <1>7, <2>1, Making
<1>8. CASE ~Nothing(y)
  BY <1>1, <1>3, <1>8, Unchanging
<1>. QED
  BY <1>7, <1>8

\* The invariant holds at the start.
LEMMA InvInit == Init => IInv
<1> SUFFICES ASSUME Init PROVE IInv
  OBVIOUS
<1>1. /\ values = [v \in Values |-> Absent] /\ held = [v \in Values |-> 0] /\ owned = 0
      /\ errno = "clear" /\ exact = TRUE
  BY DEF Init
<1>2. \A v \in Values : Sound(values[v]) /\ values[v].refcount = 0 /\ Objects(values[v]) = 0
  BY <1>1, Absence
<1>3. Typed
  BY <1>1, <1>2, ConstantsAssumption DEF Typed, Sound, Formed
<1>4. Counted
  <2> SUFFICES ASSUME NEW w \in Values PROVE values[w].refcount = References(w)
    BY DEF Counted
  <2>1. \A p \in Values \X (1 .. MaxElems) : ~Exists(p[1])
    BY <1>2 DEF Exists
  <2>2. Pointers(Values, w) = {}
    BY <2>1 DEF Pointers
  <2>. QED
    BY <1>1, <1>2, <2>2, FS_EmptySet DEF References
<1>5. ObjectsOf(values, Values) = 0
  <2>1. {w \in Values : Objects(values[w]) = 1} = {}
    BY <1>2
  <2>. QED
    BY <2>1, FS_EmptySet DEF ObjectsOf
<1>. QED
  BY <1>1, <1>2, <1>3, <1>4, <1>5 DEF IInv

\* Every step keeps the invariant.
LEMMA InvStep == IInv /\ [Next]_vars => IInv'
<1> SUFFICES ASSUME IInv, [Next]_vars
             PROVE  IInv'
  OBVIOUS
<1>1. ASSUME NEW v \in Values, NEW t \in Types, NEW n \in Numbers,
             New(v, t, n) \/ NewFromString(v, t, n) \/ Set(v, t, n)
      PROVE  IInv'
  BY <1>1, NewStep, NewFromStringStep, SetStep
<1>2. ASSUME NEW v \in Values, NEW t \in Types, Cast(v, t) \/ CopyInternal(v, t)
      PROVE  IInv'
  BY <1>2, CastStep, CopyInternalStep
<1>3. ASSUME NEW v \in Values, NewList(v) \/ Ref(v) \/ Destroy(v)
      PROVE  IInv'
  BY <1>3, NewListStep, RefStep, DestroyStep
<1>4. ASSUME NEW v \in Values, NEW own \in BOOLEAN, SetOwnData(v, own)
      PROVE  IInv'
  BY <1>4, SetOwnDataStep
<1>5. ASSUME NEW v \in Values, NEW item \in Values \cup {Null}, ListAdd(v, item)
      PROVE  IInv'
  BY <1>5, ListAddStep
<1>6. ASSUME NEW v \in Values, NEW d \in Values, Clone(v, d)
      PROVE  IInv'
  BY <1>6, CloneStep
<1>7. ASSUME ClearErrno \/ UNCHANGED vars
      PROVE  IInv'
  <2>1. /\ UNCHANGED <<values, held>> /\ errno' \in {"clear", "range"} /\ exact' \in BOOLEAN
        /\ owned' = owned /\ exact' = exact
    BY <1>7 DEF ClearErrno, vars, IInv, Typed
  <2>2. Disciplined => exact' /\ owned' = owned
    BY <2>1 DEF IInv
  <2>. QED
    BY <2>1, <2>2, Unchanging
<1>. QED
  BY <1>1, <1>2, <1>3, <1>4, <1>5, <1>6, <1>7 DEF Next

\* IInv is an invariant, for programs of both kinds.
THEOREM Invariance == Spec => []IInv
BY InvInit, InvStep, PTL DEF Spec

\* A disciplined program never uses a value after its release: every value has
\* as many references as there are pointers to it, no list outgrows what has
\* been allocated, and the strings to release are those of the values that will.
THEOREM SoundValuesHolds == ASSUME Disciplined PROVE Spec => []SoundValues
<1>1. IInv => SoundValues
  <2> SUFFICES ASSUME IInv PROVE SoundValues
    OBVIOUS
  <2>1. owned = ObjectsOf(values, Values) /\ owned \in Nat
    BY ObjectsFinite DEF IInv
  <2>2. TypeOK
    BY <2>1 DEF IInv, Typed, TypeOK
  <2>3. \A v \in Values :
          values[v].refcount = References(v) /\ Len(values[v].elems) <= values[v].room
    BY DEF IInv, Counted, Sound, Kept
  <2>. QED
    BY <2>1, <2>2, <2>3 DEF SoundValues
<1>. QED
  BY <1>1, Invariance, PTL

\* A disciplined program finds in every value the number it has put in, through
\* any chain of types, and a conversion refuses only what does not fit.
THEOREM ConversionsExactHolds == ASSUME Disciplined PROVE Spec => []ConversionsExact
<1>1. IInv => ConversionsExact
  BY DEF IInv, Sound, Kept, ConversionsExact, IsLeaf, Exists
<1>. QED
  BY <1>1, Invariance, PTL

\* The two operators for null never agree.
LEMMA NullDecides ==
  ASSUME IInv, NEW v \in Values \cup {Null}
  PROVE  Match(v, Null, "null") # Match(v, Null, "not_null")
<1> DEFINE T == Tested(v, "null")
<1>1. Tested(v, "not_null") = T
  BY DEF Tested
<1>2. ~IsList(v) => T = {v}
  BY DEF Tested
<1>3. \A e : /\ (Satisfies(e, Null, "null") <=> e = Null)
             /\ (Satisfies(e, Null, "not_null") <=> e # Null)
  BY DEF Satisfies
<1> HIDE DEF T
<1>4. Match(v, Null, "not_null") <=> \E e \in T : e # Null
  BY <1>1, <1>3 DEF Match
<1>5. CASE IsList(v)
  <2>1. Match(v, Null, "null") <=> ~ \E e \in T : e # Null
    BY <1>3, <1>5 DEF Match, T
  <2>. QED
    BY <1>4, <2>1
<1>6. CASE ~IsList(v)
  <2>1. Match(v, Null, "null") <=> \E e \in T : e = Null
    BY <1>3, <1>6 DEF Match, T
  <2>. QED
    BY <1>2, <1>4, <1>6, <2>1
<1>. QED
  BY <1>5, <1>6

\* Nor do those for equality, on what a criterion may be compared with.
LEMMA EqualDecides ==
  ASSUME IInv, NEW v \in Values \cup {Null}, NEW c \in Values, Comparable(v, c)
  PROVE  Match(v, c, "equal") # Match(v, c, "not_equal")
<1> DEFINE T == Tested(v, "equal")  Eq(e) == e # Null /\ values[e].n = values[c].n
<1>1. Tested(v, "not_equal") = T
  BY DEF Tested
<1>2. \A e : (Satisfies(e, c, "equal") <=> Eq(e)) /\ (Satisfies(e, c, "not_equal") <=> ~Eq(e))
  BY DEF Satisfies
<1>3. ~IsList(v) => T = {v}
  BY DEF Tested, Inside
<1>4. IsList(v) => T # {}
  BY DEF Comparable, IsList
<1>5. Match(v, c, "equal") <=> \E e \in T : Eq(e)
  BY <1>2 DEF Match
<1> HIDE DEF T, Eq
<1>6. CASE IsList(v)
  <2>1. Match(v, c, "not_equal") <=> (~ \E e \in T : Eq(e)) /\ \E e \in T : ~Eq(e)
    BY <1>1, <1>2, <1>6 DEF Match
  <2>. QED
    BY <1>4, <1>5, <1>6, <2>1
<1>7. CASE ~IsList(v)
  <2>1. Match(v, c, "not_equal") <=> \E e \in T : ~Eq(e)
    BY <1>1, <1>2, <1>7 DEF Match
  <2>. QED
    BY <1>3, <1>5, <1>7, <2>1
<1>. QED
  BY <1>6, <1>7

\* A criterion and its negation never agree, whatever the program does: on
\* nested lists, lists with gaps, and no value.
THEOREM NegationNegatesHolds == Spec => []NegationNegates
<1>1. IInv => NegationNegates
  BY NullDecides, EqualDecides DEF NegationNegates
<1>. QED
  BY <1>1, Invariance, PTL

=============================================================================
