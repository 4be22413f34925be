----------------------------- MODULE IdentProofs -----------------------------
(***************************************************************************)
(* What holds of the identifiers of Ident.tla for any resolution of the    *)
(* clock, and any number of calls and of times the clock is set back.      *)
(***************************************************************************)
EXTENDS Ident, FiniteSetTheorems, TLAPS

LEMMA Widths ==
  /\ 0 \in Word16
  /\ \A n \in Word16 : Inc16(n) \in Word16
  /\ \A n \in Word16 : Low14(n) \in Word14
  BY DEF Word16, Word14, Inc16, Low14

\* What a call leaves in last and tick, written without primes.
LastAfter == IF ClockChanged(Now) THEN Now ELSE last
TickAfter == IF ClockChanged(Now) THEN 0 ELSE tick + 1

LEMMA CallStep ==
  ASSUME TypeOK, Uuidgen
  PROVE  \E s \in Word14 :
           /\ last' = LastAfter /\ tick' = TickAfter
           /\ ClockChanged(Now) \/ tick < UUIDsPerTick
           /\ clockseq' \in Word16
           /\ issued' = Append(issued, [time |-> Now + TickAfter, seq |-> s])
           /\ pc' = "idle" /\ UNCHANGED clock
<1>1. last' = LastAfter /\ tick' = TickAfter
  BY DEF Uuidgen, Uuid, CurrentTime, Count, LastAfter, TickAfter
<1>2. ClockChanged(Now) \/ tick < UUIDsPerTick
  BY DEF Uuidgen, Uuid, CurrentTime, TicksLeft
<1>3. clockseq' \in Word16
  BY Widths DEF Uuidgen, Uuid, TypeOK
<1>4. issued' = Append(issued, [time |-> Now + TickAfter, seq |-> Low14(clockseq')])
  BY <1>1 DEF Uuidgen, Uuid
<1>5. Low14(clockseq') \in Word14
  BY <1>3, Widths
<1>6. pc' = "idle" /\ UNCHANGED clock
  BY DEF Uuidgen, Uuid
<1> QED
  BY <1>1, <1>2, <1>3, <1>4, <1>5, <1>6

LEMMA TypesAfter ==
  ASSUME TypeOK, ClockChanged(Now) \/ tick < UUIDsPerTick
  PROVE  LastAfter \in Nat /\ TickAfter \in 0..UUIDsPerTick /\ Now \in Nat
  BY ConstantsAssumption
     DEF ConstantsAssumption, TypeOK, LastAfter, TickAfter, Now

LEMMA TypeInit == Init => TypeOK
<1> SUFFICES ASSUME Init PROVE TypeOK
  OBVIOUS
<1>1. <<>> \in Seq(Identifiers)
  OBVIOUS
<1> QED
  BY <1>1, Widths, ConstantsAssumption DEF Init, TypeOK, ConstantsAssumption

\* Type correctness.  The fields of the object keep to their C widths, and the
\* count of a reading to its limit.
THEOREM TypeCorrect == Spec => []TypeOK
<1>2. ASSUME TypeOK, [Next]_vars PROVE TypeOK'
  <2> USE <1>2 DEF TypeOK
  <2>1. CASE ClockTicks
    BY <2>1 DEF ClockTicks, ident
  <2>2. CASE ClockSetBack
    BY <2>2 DEF ClockSetBack, ident
  <2>3. CASE Generate
    BY <2>3 DEF Generate, clock, ident
  <2>4. CASE Uuidgen
    <3>1. PICK s \in Word14 :
            /\ last' = LastAfter /\ tick' = TickAfter
            /\ ClockChanged(Now) \/ tick < UUIDsPerTick
            /\ clockseq' \in Word16
            /\ issued' = Append(issued, [time |-> Now + TickAfter, seq |-> s])
            /\ pc' = "idle" /\ UNCHANGED clock
      BY <2>4, CallStep
    <3>2. LastAfter \in Nat /\ TickAfter \in 0..UUIDsPerTick /\ Now \in Nat
      BY <3>1, TypesAfter
    <3>3. [time |-> Now + TickAfter, seq |-> s] \in Identifiers
      BY <3>2, ConstantsAssumption DEF Identifiers, ConstantsAssumption
    <3>4. issued' \in Seq(Identifiers) /\ Len(issued') = Len(issued) + 1
      BY <3>1, <3>3
    <3>5. reading' \in Nat /\ setbacks' \in Nat /\ since' \in 0..Len(issued')
      BY <3>1, <3>4 DEF clock
    <3> QED
      BY <3>1, <3>2, <3>4, <3>5
  <2>5. CASE UNCHANGED vars
    BY <2>5 DEF vars, clock, ident
  <2> QED
    BY <2>1, <2>2, <2>3, <2>4, <2>5 DEF Next, Finished
<1> QED
  BY <1>2, TypeInit, PTL DEF Spec

-----------------------------------------------------------------------------
\* The order of the identifiers needs the resolution of the clock to be no finer
\* than the count of one reading, which the code's 10 and 10 just satisfy.
CountFitsReading == UUIDsPerTick <= Resolution

\* The inductive invariant: identifiers generated since the clock was last set
\* back end at last + tick, all but the newest strictly before it unless a new
\* reading has just begun, and the clock is at last or a reading or more later.
Recent == (since + 1)..Len(issued)
UpToNewest   == \A i \in Recent : issued[i].time <= last + tick
OldAreBefore == \A i \in Recent : i < Len(issued) =>
                  issued[i].time < last + tick \/ (tick = 0 /\ issued[i].time <= last)
ClockAhead   == Len(issued) > since => last = Now \/ last + Resolution <= Now
Ordered == TypeOK /\ UpToNewest /\ OldAreBefore /\ ClockAhead
                  /\ NeverBackInTime /\ AtMostTwice

LEMMA NextReading ==
  ASSUME NEW r \in Nat PROVE (r + 1) * Resolution = r * Resolution + Resolution
  BY ConstantsAssumption DEF ConstantsAssumption

\* A call in one state that is ordered: every recent identifier is at most the
\* new one, and only the newest can be equal to it.
LEMMA NewIsLater ==
  ASSUME Ordered, CountFitsReading, ClockChanged(Now) \/ tick < UUIDsPerTick,
         NEW i \in Recent
  PROVE  /\ issued[i].time \in Nat
         /\ issued[i].time <= Now + TickAfter
         /\ i < Len(issued) => issued[i].time < Now + TickAfter
         /\ issued[i].time < Now + TickAfter \/ (TickAfter = 0 /\ issued[i].time <= Now)
<1> DEFINE time == issued[i].time
<1>1. time \in Nat /\ i \in 1..Len(issued) /\ Len(issued) > since
  <2>1. i \in 1..Len(issued) /\ Len(issued) > since
    BY DEF Ordered, TypeOK, Recent
  <2>2. issued[i] \in Identifiers
    BY <2>1 DEF Ordered, TypeOK
  <2> QED
    BY <2>1, <2>2 DEF Identifiers
<1>2. /\ time <= last + tick
      /\ i < Len(issued) => time < last + tick \/ (tick = 0 /\ time <= last)
      /\ last = Now \/ last + Resolution <= Now
  BY <1>1 DEF Ordered, UpToNewest, OldAreBefore, ClockAhead
<1>3. last \in Nat /\ tick \in 0..UUIDsPerTick /\ Now \in Nat /\ i \in Nat /\ Len(issued) \in Nat
  BY TypesAfter, <1>1 DEF Ordered, TypeOK
<1> HIDE DEF time
<1>4. CASE ClockChanged(Now)
  BY <1>1, <1>2, <1>3, <1>4, ConstantsAssumption
     DEF ClockChanged, TickAfter, ConstantsAssumption, CountFitsReading, time
<1>5. CASE ~ClockChanged(Now)
  BY <1>1, <1>2, <1>3, <1>5 DEF ClockChanged, TickAfter, time
<1> QED
  BY <1>4, <1>5

LEMMA OrderedStep ==
  ASSUME Ordered, TypeOK', [Next]_vars, CountFitsReading
  PROVE  Ordered'
<1> USE DEF Ordered
<1>1. CASE ClockTicks
  <2>1. /\ UNCHANGED <<since, last, tick, issued>>
        /\ Now' = Now + Resolution
    BY <1>1, NextReading DEF ClockTicks, ident, Now, TypeOK
  <2>2. ClockAhead'
    <3>1. Now \in Nat /\ last \in Nat /\ Resolution \in Nat
      BY ConstantsAssumption DEF TypeOK, Now, ConstantsAssumption
    <3>2. last = Now \/ last + Resolution <= Now
            => last + Resolution <= Now + Resolution
      BY <3>1
    <3>3. ClockAhead' = (Len(issued) > since
            => last = Now + Resolution \/ last + Resolution <= Now + Resolution)
      BY <2>1 DEF ClockAhead
    <3> QED
      BY <3>2, <3>3 DEF ClockAhead
  <2> QED
    BY <2>1, <2>2 DEF UpToNewest, OldAreBefore, NeverBackInTime, AtMostTwice, Recent
<1>2. CASE ClockSetBack
  <2>1. since' = Len(issued) /\ issued' = issued
    BY <1>2 DEF ClockSetBack
  <2>2. Recent' = {} /\ (since + 1)' > Len(issued')
    BY <2>1 DEF Recent, TypeOK
  <2> QED
    BY <2>1, <2>2 DEF UpToNewest, OldAreBefore, ClockAhead, NeverBackInTime, AtMostTwice, Recent
<1>3. CASE Generate
  BY <1>3 DEF Generate, clock, ident, UpToNewest, OldAreBefore, ClockAhead,
              NeverBackInTime, AtMostTwice, Recent, Now
<1>4. CASE Uuidgen
  <2>1. PICK s \in Word14 :
          /\ last' = LastAfter /\ tick' = TickAfter
          /\ ClockChanged(Now) \/ tick < UUIDsPerTick
          /\ clockseq' \in Word16
          /\ issued' = Append(issued, [time |-> Now + TickAfter, seq |-> s])
          /\ pc' = "idle" /\ UNCHANGED clock
    BY <1>4, CallStep
  <2>2. LastAfter = Now /\ TickAfter \in 0..UUIDsPerTick /\ Now \in Nat
    BY <2>1, TypesAfter DEF LastAfter, ClockChanged
  <2> DEFINE n == Len(issued)
             new == Now + TickAfter
  <2>3. /\ n \in Nat /\ since \in 0..n /\ since' = since /\ Now' = Now
        /\ Len(issued') = n + 1
        /\ \A i \in 1..n : issued'[i] = issued[i]
        /\ issued'[n + 1].time = new
    BY <2>1 DEF clock, TypeOK, Now
  <2>4. \A i \in Recent' : i \in Recent \/ i = n + 1
    BY <2>3 DEF Recent
  <2>5. \A i \in Recent : i \in 1..n /\ issued'[i] = issued[i]
    BY <2>3 DEF Recent
  <2>6. \A i \in Recent :
          /\ issued[i].time \in Nat
          /\ issued[i].time <= new
          /\ i < n => issued[i].time < new
          /\ issued[i].time < new \/ (TickAfter = 0 /\ issued[i].time <= Now)
    BY <2>1, NewIsLater
  <2>7. new \in Nat /\ last' = Now /\ tick' = TickAfter /\ last' + tick' = new
    BY <2>1, <2>2, ConstantsAssumption DEF ConstantsAssumption
  <2> HIDE DEF n, new
  <2>8. UpToNewest'
    BY <2>3, <2>4, <2>5, <2>6, <2>7 DEF UpToNewest
  <2>9. OldAreBefore'
    BY <2>3, <2>4, <2>5, <2>6, <2>7 DEF OldAreBefore
  <2>10. ClockAhead'
    BY <2>3, <2>7 DEF ClockAhead
  <2>11. NeverBackInTime'
    BY <2>3, <2>4, <2>5, <2>6, <2>7 DEF NeverBackInTime, Recent
  <2>12. AtMostTwice'
    BY <2>3, <2>4, <2>5, <2>6, <2>7 DEF AtMostTwice, Recent
  <2> QED
    BY <2>8, <2>9, <2>10, <2>11, <2>12
<1>5. CASE UNCHANGED vars
  BY <1>5 DEF vars, clock, ident, UpToNewest, OldAreBefore, ClockAhead,
              NeverBackInTime, AtMostTwice, Recent, Now
<1> QED
  BY <1>1, <1>2, <1>3, <1>4, <1>5 DEF Next, Finished

\* The two order properties, for any number of calls and set-backs: identifiers
\* never go back in time while the clock does not, and between two set-backs none is
\* given out thrice.
THEOREM OrderCorrect ==
  ASSUME CountFitsReading
  PROVE  Spec => [](NeverBackInTime /\ AtMostTwice)
<1>1. Init => Ordered
  BY TypeInit DEF Init, Ordered, UpToNewest, OldAreBefore, ClockAhead,
                  NeverBackInTime, AtMostTwice, Recent
<1>2. Ordered /\ TypeOK' /\ [Next]_vars => Ordered'
  BY OrderedStep
<1>3. Ordered => NeverBackInTime /\ AtMostTwice
  BY DEF Ordered
<1> QED
  BY <1>1, <1>2, <1>3, TypeCorrect, PTL DEF Spec

-----------------------------------------------------------------------------
\* What was issued before the clock was last set back, and since.
OldAt(time)    == {i \in 1..since : issued[i].time = time}
RecentAt(time) == {i \in Recent : issued[i].time = time}
OldRepeats     == \A time \in Nat : Cardinality(OldAt(time)) <= 2 * setbacks

\* Two numbers of a set that never holds two which are further apart than one.
LEMMA Neighbours ==
  ASSUME NEW S \in SUBSET Int, \A i, k \in S : ~(k >= i + 2)
  PROVE  IsFiniteSet(S) /\ Cardinality(S) <= 2
<1>1. CASE S = {}
  BY <1>1, FS_EmptySet
<1>2. ASSUME NEW i \in S PROVE IsFiniteSet(S) /\ Cardinality(S) <= 2
  <2>1. PICK a \in Int : S \subseteq {a, a + 1}
    <3>1. CASE i - 1 \in S
      <4>1. S \subseteq {i - 1, (i - 1) + 1}
        BY <3>1
      <4>. QED
        BY <4>1
    <3>2. CASE i - 1 \notin S
      <4>1. S \subseteq {i, i + 1}
        BY <3>2
      <4>. QED
        BY <4>1
    <3>. QED
      BY <3>1, <3>2
  <2>2. IsFiniteSet({a, a + 1}) /\ Cardinality({a, a + 1}) = 2
    <3>1. IsFiniteSet({a}) /\ Cardinality({a}) = 1 /\ a + 1 \notin {a}
      BY FS_Singleton
    <3>2. {a, a + 1} = {a} \cup {a + 1}
      OBVIOUS
    <3>. QED
      BY <3>1, <3>2, FS_AddElement
  <2>3. IsFiniteSet(S) /\ Cardinality(S) <= Cardinality({a, a + 1})
    BY <2>1, <2>2, FS_Subset
  <2>. QED
    BY <2>2, <2>3
<1>. QED
  BY <1>1, <1>2

\* A time is lived through once since the clock was last set back, and its
\* identifiers are neighbours then.
LEMMA RepeatsAt ==
  ASSUME Ordered, OldRepeats, NEW time \in Nat
  PROVE  IsFiniteSet(IssuedAt(time)) /\ Cardinality(IssuedAt(time)) <= 2 * (setbacks + 1)
<1>1. Len(issued) \in Nat /\ since \in 0..Len(issued) /\ DOMAIN issued = 1..Len(issued)
      /\ setbacks \in Nat
  BY DEF Ordered, TypeOK
<1>2. IsFiniteSet(RecentAt(time)) /\ Cardinality(RecentAt(time)) <= 2
  <2>1. RecentAt(time) \in SUBSET Int
    BY <1>1 DEF RecentAt, Recent
  <2>2. \A i, k \in RecentAt(time) : ~(k >= i + 2)
    BY DEF RecentAt, Recent, Ordered, AtMostTwice
  <2>. QED
    BY <2>1, <2>2, Neighbours
<1>3. IsFiniteSet(OldAt(time)) /\ Cardinality(OldAt(time)) <= 2 * setbacks
  <2>1. IsFiniteSet(1..since) /\ OldAt(time) \subseteq 1..since
    BY <1>1, FS_Interval DEF OldAt
  <2>. QED
    BY <2>1, FS_Subset DEF OldRepeats
<1>4. IssuedAt(time) = OldAt(time) \cup RecentAt(time)
  BY <1>1 DEF IssuedAt, OldAt, RecentAt, Recent
<1>5. /\ IsFiniteSet(IssuedAt(time))
      /\ Cardinality(IssuedAt(time)) <= Cardinality(OldAt(time)) + Cardinality(RecentAt(time))
  <2>1. /\ IsFiniteSet(OldAt(time) \cup RecentAt(time))
        /\ Cardinality(OldAt(time) \cup RecentAt(time))
             = Cardinality(OldAt(time)) + Cardinality(RecentAt(time))
                 - Cardinality(OldAt(time) \cap RecentAt(time))
    BY <1>2, <1>3, FS_Union
  <2>2. Cardinality(OldAt(time) \cap RecentAt(time)) \in Nat
    BY <1>2, FS_Intersection, FS_CardinalityType
  <2>3. Cardinality(OldAt(time)) \in Nat /\ Cardinality(RecentAt(time)) \in Nat
    BY <1>2, <1>3, FS_CardinalityType
  <2>. QED
    BY <1>4, <2>1, <2>2, <2>3
<1>6. Cardinality(OldAt(time)) \in Nat /\ Cardinality(RecentAt(time)) \in Nat
      /\ Cardinality(IssuedAt(time)) \in Nat
  BY <1>2, <1>3, <1>5, FS_CardinalityType
<1>. QED
  BY <1>1, <1>2, <1>3, <1>5, <1>6

\* Setting the clock back makes everything issued old, and nothing else does.
LEMMA OldRepeatsStep ==
  ASSUME Ordered, OldRepeats, [Next]_vars
  PROVE  OldRepeats'
<1>. SUFFICES ASSUME NEW time \in Nat
              PROVE  Cardinality({i \in 1..since' : issued'[i].time = time}) <= 2 * setbacks'
  BY DEF OldRepeats, OldAt
<1>1. CASE ClockSetBack
  <2>1. {i \in 1..since' : issued'[i].time = time} = IssuedAt(time)
    BY <1>1 DEF ClockSetBack, IssuedAt, Ordered, TypeOK
  <2>2. Cardinality(IssuedAt(time)) <= 2 * (setbacks + 1) /\ setbacks' = setbacks + 1
    BY <1>1, RepeatsAt DEF ClockSetBack
  <2>. QED
    BY <2>1, <2>2
<1>2. CASE Uuidgen
  <2>1. since' = since /\ setbacks' = setbacks
    BY <1>2 DEF Uuidgen, Uuid, clock
  <2>2. \A i \in 1..since : issued'[i] = issued[i]
    <3>1. \E e : issued' = Append(issued, e)
      BY <1>2 DEF Uuidgen, Uuid
    <3>2. issued \in Seq(Identifiers) /\ since \in 0..Len(issued)
      BY DEF Ordered, TypeOK
    <3>. QED
      BY <3>1, <3>2
  <2>3. {i \in 1..since' : issued'[i].time = time} = OldAt(time)
    BY <2>1, <2>2 DEF OldAt
  <2>. QED
    BY <2>1, <2>3 DEF OldRepeats
<1>3. CASE UNCHANGED <<since, setbacks, issued>>
  <2>1. {i \in 1..since' : issued'[i].time = time} = OldAt(time)
    BY <1>3 DEF OldAt
  <2>. QED
    BY <1>3, <2>1 DEF OldRepeats
<1>4. \/ ClockSetBack \/ Uuidgen \/ UNCHANGED <<since, setbacks, issued>>
  BY DEF Next, ClockTicks, Generate, Finished, vars, clock
<1>. QED
  BY <1>1, <1>2, <1>3, <1>4

\* However often the clock is set back, no time is given to more than two identifiers
\* for each time that the clock lives through it.
THEOREM RepeatsBoundedHolds ==
  ASSUME CountFitsReading
  PROVE  Spec => []RepeatsBounded
<1>1. Init => Ordered /\ OldRepeats
  <2>. SUFFICES ASSUME Init PROVE Ordered /\ OldRepeats
    OBVIOUS
  <2>1. Ordered
    BY TypeInit DEF Init, Ordered, UpToNewest, OldAreBefore, ClockAhead,
                    NeverBackInTime, AtMostTwice, Recent
  <2>2. OldRepeats
    <3>1. \A time \in Nat : OldAt(time) = {}
      BY DEF Init, OldAt
    <3>. QED
      BY <3>1, FS_EmptySet DEF Init, OldRepeats
  <2>. QED
    BY <2>1, <2>2
<1>2. Ordered /\ OldRepeats /\ TypeOK' /\ [Next]_vars => Ordered' /\ OldRepeats'
  BY OrderedStep, OldRepeatsStep
<1>3. Ordered /\ OldRepeats => RepeatsBounded
  <2>. SUFFICES ASSUME Ordered, OldRepeats, NEW i \in DOMAIN issued
                PROVE  Cardinality(IssuedAt(issued[i].time)) <= 2 * (setbacks + 1)
    BY DEF RepeatsBounded
  <2>1. issued[i] \in Identifiers
    BY DEF Ordered, TypeOK
  <2>2. issued[i].time \in Nat
    BY <2>1 DEF Identifiers
  <2>. QED
    BY <2>2, RepeatsAt
<1>. QED
  BY <1>1, <1>2, <1>3, TypeCorrect, PTL DEF Spec
=============================================================================
