-------------------------------- MODULE Ident --------------------------------
(***************************************************************************)
(* The generator of unique identifiers (src/libiodefv2-ident.c): version 1 *)
(* UUIDs made of the reading of the system clock, a count of identifiers   *)
(* generated within one reading, and a clock sequence.                     *)
(*                                                                         *)
(* The clock counts units of 100ns since the epoch of UUIDs; gettimeofday()*)
(* reads it with a resolution of Resolution units.  The clock moves while  *)
(* a call is in progress, and an administrator may set it back.            *)
(***************************************************************************)
EXTENDS Integers, Sequences, FiniteSets

CONSTANTS
  UUIDsPerTick,   \* identifiers the generator allows itself per reading
  Resolution,     \* 100ns units between two readings of the clock
  MaxReading,     \* bound: readings of the clock
  MaxIssued,      \* bound: identifiers generated
  SetBacks        \* bound: times the clock is set back

ASSUME ConstantsAssumption ==
  /\ UUIDsPerTick \in Nat /\ Resolution \in Nat \ {0}
  /\ MaxReading \in Nat /\ MaxIssued \in Nat /\ SetBacks \in Nat

VARIABLES
  reading,               \* reading of the clock; its time is reading * Resolution
  setbacks,              \* times it has been set back
  since,                 \* identifiers generated before it was last set back
  last, tick, clockseq,  \* fields of the ident object
  pc,                    \* "idle", or "reading" the clock in a call to generate()
  issued                 \* identifiers generated so far: time and clock sequence

clock == <<reading, setbacks, since>>
ident == <<last, tick, clockseq>>
vars  == <<clock, ident, pc, issued>>

Now == reading * Resolution

\* Numbers of 16 and 14 bits.
Word16   == {n \in Nat : n < 65536}
Word14   == {n \in Nat : n < 16384}
Inc16(n) == (n + 1) % 65536
Low14(n) == n % 16384

\* libiodefv2_ident_new(); the random clock sequence is taken as the origin.
Init ==
  /\ reading = 1 /\ setbacks = 0 /\ since = 0
  /\ last = 0 /\ tick = 0 /\ clockseq = 0
  /\ pc = "idle" /\ issued = <<>>

ClockTicks ==
  /\ reading < MaxReading /\ reading' = reading + 1
  /\ UNCHANGED <<setbacks, since, ident, pc, issued>>

ClockSetBack ==
  /\ setbacks < SetBacks /\ reading > 1
  /\ reading' \in 1..(reading - 1) /\ setbacks' = setbacks + 1
  /\ since' = Len(issued)
  /\ UNCHANGED <<ident, pc, issued>>

Generate ==
  /\ pc = "idle" /\ Len(issued) < MaxIssued
  /\ pc' = "reading"
  /\ UNCHANGED <<clock, ident, issued>>

-----------------------------------------------------------------------------
\* get_current_time(): a new reading starts the count again, a known one counts
\* up to the limit, beyond which the loop reads the clock until it has moved.
ClockChanged_Later(now) == last > now
ClockChanged(now) == last # now
TicksLeft_Always == TRUE
TicksLeft == tick < UUIDsPerTick
Count_Forgotten == UNCHANGED tick
Count == tick' = tick + 1
CurrentTime(now) ==
  \/ ClockChanged(now) /\ last' = now /\ tick' = 0
  \/ ~ClockChanged(now) /\ TicksLeft /\ Count /\ UNCHANGED last

\* uuidgen() and the end of the call.  A timestamp older than the last reading
\* would start another clock sequence of 14 bits.
Uuid(now) ==
  /\ pc = "reading"
  /\ CurrentTime(now)
  /\ LET timestamp == now + tick' IN
       /\ clockseq' = IF timestamp < last' THEN Inc16(clockseq) ELSE clockseq
       /\ issued' = Append(issued, [time |-> timestamp, seq |-> Low14(clockseq')])
  /\ pc' = "idle"
  /\ UNCHANGED clock
Uuidgen == Uuid(Now)

\* The bounds are reached: no identifier is left to generate, or the call waits
\* for a reading beyond the last.
Finished ==
  /\ reading = MaxReading /\ setbacks = SetBacks
  /\ \/ pc = "idle" /\ Len(issued) = MaxIssued
     \/ pc = "reading" /\ ~ClockChanged(Now) /\ ~TicksLeft
  /\ UNCHANGED vars

Next == ClockTicks \/ ClockSetBack \/ Generate \/ Uuidgen \/ Finished
Spec == Init /\ [][Next]_vars

\* A call that waits for the clock is scheduled again and again, and the clock
\* moves on.
FairSpec == Spec /\ WF_vars(Uuidgen) /\ WF_vars(ClockTicks)

-----------------------------------------------------------------------------
Identifiers == [time : Nat, seq : Word14]

\* Type invariant: the fields of the object and the identifiers are numbers of
\* their C widths.
TypeOK ==
  /\ reading \in Nat /\ setbacks \in Nat /\ since \in 0..Len(issued)
  /\ last \in Nat /\ tick \in 0..UUIDsPerTick /\ clockseq \in Word16
  /\ pc \in {"idle", "reading"}
  /\ issued \in Seq(Identifiers)

\* "Create a new object with an unique value": no identifier is generated twice.
Unique ==
  \A i, j \in DOMAIN issued : i # j => issued[i] # issued[j]

\* While the clock is not set back, the identifiers of one object never go back
\* in time: sorting by identifier keeps the order of generation, although the
\* count of one reading is added to a clock that moves on.
NeverBackInTime ==
  \A i, j \in (since + 1)..Len(issued) : i < j => issued[i].time <= issued[j].time

\* The time of an identifier repeats at most once while the clock is not set
\* back: the count of a reading reaches into the next one by a single unit.
AtMostTwice ==
  \A i, k \in (since + 1)..Len(issued) : k >= i + 2 => issued[i].time # issued[k].time

\* Identifiers repeat when the clock is set back, as the clock sequence that should
\* tell them apart never changes; but no more often than the clock has lived through
\* their time, twice for each of them.
IssuedAt(time) == {i \in DOMAIN issued : issued[i].time = time}
RepeatsBounded ==
  \A i \in DOMAIN issued : Cardinality(IssuedAt(issued[i].time)) <= 2 * (setbacks + 1)

\* Generating faster than the clock counts only waits for the clock: a call
\* returns at the latest when the clock reads a time it has not read before.
CallReturns == (pc = "reading" /\ last < MaxReading * Resolution) ~> pc = "idle"
==============================================================================
