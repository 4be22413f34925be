----------------------------- MODULE StringBuf -----------------------------
(***************************************************************************)
(* The strings of src/src/libiodefv2-string.c: a buffer the string owns,   *)
(* one it was lent, or none; how much of it is in use (index) and how much *)
(* there is (size). The arithmetic on both is unsigned and wraps at Width. *)
(*                                                                         *)
(* Abstracted: the characters, of which only the position of the           *)
(* terminator is kept; the references to a string, which are counted as    *)
(* those of a data object (DataOwnership).                                 *)
(***************************************************************************)
EXTENDS Integers

CONSTANTS
  Strings,      \* the strings of the program
  Nobody,       \* no string has lent the buffer
  Width,        \* number of values of a size_t
  MaxAlloc,     \* the largest buffer there is memory for
  Chunk,        \* BUFFER_CHUNK_SIZE
  MaxLen,       \* bound: characters handed to one call
  Disciplined   \* whether the program avoids what the functions do not support

(* No buffer takes two fifths of what a size_t can count: a growth by the
   factor of 2.5 does not wrap. *)
ASSUME ConstantsAssumption ==
  /\ Nobody \notin Strings
  /\ Width \in Nat /\ MaxAlloc \in Nat /\ Chunk \in Nat /\ MaxLen \in Nat
  /\ 5 * MaxAlloc < 2 * Width
  /\ Chunk > 0 /\ MaxLen + Chunk < MaxAlloc
  /\ Disciplined \in BOOLEAN

VARIABLES
  strings,  \* the strings
  result    \* what the last call returned: "ok", "nomem" (malloc() failed),
            \* "inval" (an invalid length)

vars == <<strings, result>>

Sizes == 0 .. Width - 1
Lengths == 0 .. MaxLen

(* own is the flag LIBIODEFV2_STRING_OWN_DATA. alloc is what has been
   allocated for an own buffer, nul the first terminator in the buffer, and
   from the string that owns a lent buffer, if it is not the program's. wild:
   something was read or written outside of the buffer, or written into a
   buffer that was only lent. cut: the last call that wrote behind the text
   has failed. *)
String == [ buf: {"none", "own", "lent"}, own: BOOLEAN, size: Sizes, index: Sizes,
            alloc: 0 .. MaxAlloc, nul: Sizes, from: Strings \cup {Nobody},
            wild: BOOLEAN, cut: BOOLEAN ]

TypeOK ==
  /\ strings \in [Strings -> String]
  /\ result \in {"ok", "nomem", "inval"}

(* libiodefv2_string_new() *)
Empty == [ buf |-> "none", own |-> FALSE, size |-> 0, index |-> 0, alloc |-> 0, nul |-> 0,
           from |-> Nobody, wild |-> FALSE, cut |-> FALSE ]

Init ==
  /\ strings = [s \in Strings |-> Empty]
  /\ result = "ok"

-----------------------------------------------------------------------------
(* Unsigned subtraction, and what is free behind the text. *)
Minus(a, b) == (a - b) % Width
Room(s) == Minus(s.size, s.index)

Greater(a, b) == IF a > b THEN a ELSE b

(* n characters and a terminator are written at the index. *)
Write(s, n) ==
  [s EXCEPT !.index = @ + n, !.nul = s.index + n, !.cut = FALSE,
            !.wild = @ \/ s.buf # "own" \/ s.index + n >= s.alloc]

(* make_string_own(): a new buffer of len bytes, to which the text and its
   terminator are copied. *)
MakeOwn(s, len) ==
  [s EXCEPT !.buf = "own", !.own = TRUE, !.size = len, !.alloc = len, !.from = Nobody,
            !.wild = @ \/ (s.buf # "none" /\ s.index + 1 > len)]

(* allocate_more_chunk_if_needed(): by how much the buffer grows, and what may
   come of it. The growth factor is 1.5. *)
GrowBy_Swapped(s, needed) ==
  IF needed = 0 THEN Chunk ELSE Greater(Minus(Room(s), needed), (s.size * 3) \div 2)
GrowBy(s, needed) ==
  IF needed = 0 THEN Chunk ELSE Greater(Minus(needed, Room(s)), (s.size * 3) \div 2)

Grown(s, total) ==
  IF s.own THEN [s EXCEPT !.buf = "own", !.size = total, !.alloc = total] ELSE MakeOwn(s, total)

Wraps(s, len) == (s.size + len) % Width < s.size

Grow(s, needed) ==
  LET len == GrowBy(s, needed)
  IN  IF Wraps(s, len) THEN {[result |-> "inval", string |-> s]}
      ELSE {[result |-> "nomem", string |-> s]} \cup
           (IF s.size + len <= MaxAlloc THEN {[result |-> "ok", string |-> Grown(s, s.size + len)]}
            ELSE {})

(* What follows a growth that may have failed. *)
Then(grown, Continue(_)) ==
  UNION {IF g.result = "ok" THEN Continue(g.string) ELSE {g} : g \in grown}

Done(s) == {[result |-> "ok", string |-> s]}

(* libiodefv2_string_ncat(), which calls itself again when the buffer has
   grown: then there is room. *)
Fits_Exactly(s, n) == s.own /\ n <= Room(s)
Fits(s, n) == s.own /\ n < Room(s)

NCat(s, n) ==
  IF Fits(s, n) THEN Done(Write(s, n))
  ELSE Then(Grow(s, n + 1), LAMBDA g : Done(Write(g, n)))

(* libiodefv2_string_vprintf(): vsnprintf() has already written what fits
   when it turns out that not everything does. *)
Truncated(s) ==
  IF Room(s) = 0 THEN [s EXCEPT !.cut = TRUE]
  ELSE [s EXCEPT !.nul = s.size - 1, !.cut = TRUE, !.wild = @ \/ s.buf # "own" \/ s.size > s.alloc]

(* A negative value is what a C library older than C99 says when not everything
   fits, and any library of what it cannot convert: the function calls itself
   with one more chunk each time, until the text fits or memory runs out. *)
Extended(s, chunks) == IF chunks = 0 THEN s ELSE Grown(s, s.size + chunks * Chunk)

Retried(s, n) ==
  LET Within == {k \in 0 .. MaxAlloc : s.size + k * Chunk <= MaxAlloc}
      Least == {k \in Within : Room(s) + k * Chunk \in (n + 1) .. (n + Chunk)}
  IN  {[result |-> "nomem", string |-> Truncated(Extended(s, k))] : k \in Within} \cup
      {[result |-> "ok", string |-> Write(Extended(s, k), n)] : k \in Least \ {0}}

Printed(s, n) ==
  IF n < Room(s) THEN Done(Write(s, n))
  ELSE Then(Grow(Truncated(s), n + 1), LAMBDA g : Done(Write(g, n)))

VPrintf(s, n) ==
  Then(IF s.own THEN Done(s) ELSE Grow(s, 0), LAMBDA g : Printed(g, n) \cup Retried(g, n))

-----------------------------------------------------------------------------
(* A buffer that has been lent on is left alone until it is given back. *)
Lends(s) == \E t \in Strings : strings[t].from = s

Returns(s, outcome) ==
  /\ strings' = [strings EXCEPT ![s] = outcome.string]
  /\ result' = outcome.result

Appends(s, outcomes) == ~Lends(s) /\ \E outcome \in outcomes : Returns(s, outcome)

(* libiodefv2_string_cat(). A disciplined program does not append to a copy by
   reference of a string that has room behind its text: what is needed less
   what is free then wraps, and MAX() makes a double of it that no size_t
   holds. *)
Cat(s, n) ==
  /\ Disciplined => strings[s].own \/ Room(strings[s]) <= n + 1
  /\ Appends(s, NCat(strings[s], n))

(* libiodefv2_string_sprintf(), _vprintf() *)
Sprintf(s, n) == Appends(s, VPrintf(strings[s], n))

(* libiodefv2_string_truncate() and, with 0, _clear(). A string that does not
   own its buffer gets one of no bytes; one that is cleared is written to
   where it is. A disciplined program truncates what the string owns. *)
Truncate(s, n) ==
  /\ ~Lends(s) /\ n <= strings[s].index
  /\ Disciplined => strings[s].own \/ strings[s].buf = "none"
  /\ LET t == IF n > 0 /\ ~strings[s].own THEN MakeOwn(strings[s], 0) ELSE strings[s]
     IN  IF t.buf = "none" THEN Returns(s, [result |-> "ok", string |-> [t EXCEPT !.index = n]])
         ELSE Returns(s, [result |-> "ok",
                          string |-> [t EXCEPT !.index = n, !.nul = n, !.cut = FALSE,
                                               !.wild = @ \/ t.buf = "lent" \/ n >= t.alloc]])

(* libiodefv2_string_get_string_released(): the buffer, cut to its text, is
   the caller's; of a lent one a copy. *)
GetReleased(s) ==
  /\ ~Lends(s)
  /\ LET t == strings[s]
     IN  \/ t.own /\ t.index > 0
            /\ Returns(s, [result |-> "ok", string |-> [Empty EXCEPT !.own = TRUE, !.wild = t.wild]])
         \/ t.index > 0 /\ Returns(s, [result |-> "nomem", string |-> t])
         \/ (t.index = 0 \/ ~t.own) /\ Returns(s, [result |-> "ok", string |-> t])

(* libiodefv2_string_destroy_internal() *)
Destroyed(s) == [Empty EXCEPT !.own = s.own]

WithText_CountsTerminator(s, n, buf, own) ==
  [Destroyed(s) EXCEPT !.buf = buf, !.own = own, !.size = n + 2, !.index = n + 1, !.nul = n,
                       !.alloc = IF own THEN n + 2 ELSE 0]
WithText(s, n, buf, own) ==
  [Destroyed(s) EXCEPT !.buf = buf, !.own = own, !.size = n + 1, !.index = n, !.nul = n,
                       !.alloc = IF own THEN n + 1 ELSE 0]

(* libiodefv2_string_set_dup_fast(), _set_nodup_fast(), _set_ref_fast() and, in
   a string that has just been made, the _new_ functions. *)
SetDup(s, n) ==
  /\ ~Lends(s)
  /\ \/ Returns(s, [result |-> "ok", string |-> WithText(strings[s], n, "own", TRUE)])
     \/ Returns(s, [result |-> "nomem", string |-> Destroyed(strings[s])])

SetNodup(s, n) ==
  ~Lends(s) /\ Returns(s, [result |-> "ok", string |-> WithText(strings[s], n, "own", TRUE)])

SetRef(s, n) ==
  ~Lends(s) /\ Returns(s, [result |-> "ok", string |-> WithText(strings[s], n, "lent", FALSE)])

(* libiodefv2_string_destroy() of the last reference, and a new string. *)
Renew(s) == ~Lends(s) /\ Returns(s, [result |-> "ok", string |-> Empty])

(* libiodefv2_string_copy_ref(): the size is the source's, too. *)
CopyRef(s, d) ==
  /\ s # d /\ ~Lends(d)
  /\ LET t == strings[s]
     IN  Returns(d, [result |-> "ok", string |->
           [Destroyed(strings[d]) EXCEPT
              !.buf = IF t.buf = "none" THEN "none" ELSE "lent", !.own = FALSE,
              !.size = t.size, !.index = t.index, !.nul = t.nul, !.cut = t.cut,
              !.from = IF t.buf = "own" THEN s ELSE t.from]])

(* libiodefv2_string_copy_dup(); _clone() is the same for a new string, and
   destroys it when it fails. The copy allocates as much as the source has,
   and has a size and a text even if there is no memory for them: a
   disciplined program does not run out of it here. *)
Copied(s, d, buf) ==
  LET t == strings[s]
  IN  [Destroyed(strings[d]) EXCEPT
         !.buf = buf, !.own = TRUE, !.size = t.size, !.index = t.index, !.nul = t.index,
         !.alloc = IF buf = "own" THEN t.size ELSE 0,
         !.wild = buf = "own" /\ (t.buf = "none" \/ t.index >= t.size)]

CopyDup(s, d) ==
  /\ s # d /\ ~Lends(d)
  /\ IF strings[s].size = 0
     THEN Returns(d, [result |-> "ok", string |-> Copied(s, d, "none")])
     ELSE \/ Returns(d, [result |-> "ok", string |-> Copied(s, d, "own")])
          \/ ~Disciplined /\ Returns(d, [result |-> "nomem", string |-> Copied(s, d, "none")])

CloneFails(s, d) ==
  /\ s # d /\ ~Lends(d) /\ strings[s].size > 0
  /\ Returns(d, [result |-> "nomem", string |-> Empty])

Next ==
  \/ \E s \in Strings, n \in Lengths :
        Cat(s, n) \/ Sprintf(s, n) \/ SetDup(s, n) \/ SetNodup(s, n) \/ SetRef(s, n)
  \/ \E s \in Strings, n \in Sizes : Truncate(s, n)
  \/ \E s \in Strings : GetReleased(s) \/ Renew(s)
  \/ \E s, d \in Strings : CopyRef(s, d) \/ CopyDup(s, d) \/ CloneFails(s, d)

Spec == Init /\ [][Next]_vars

-----------------------------------------------------------------------------
(* Nothing is touched outside of a buffer, and nothing is written to a buffer
   that was only lent: over every sequence of appends, truncations, copies and
   failures, with sizes whose sums may wrap. The size of an own buffer is what
   has been allocated for it, and holds the text with its terminator. *)
InBounds ==
  TypeOK /\ \A s \in Strings :
    LET t == strings[s]
    IN  /\ ~t.wild
        /\ t.buf = "own" => t.own /\ t.size = t.alloc /\ t.index < t.size
        /\ t.buf = "none" => t.size = 0 /\ t.index = 0

(* The length a string reports is the length of what it contains; except
   after a formatted print that ran out of memory, which leaves what did fit
   behind the text until the next write. *)
LengthIsLength ==
  \A s \in Strings :
    strings[s].buf # "none" /\ strings[s].nul # strings[s].index => strings[s].cut

(* Appending fails for want of memory only: the test for a sum that wraps
   never refuses a string that would fit. *)
OnlyMemoryFails == result # "inval"
=============================================================================
