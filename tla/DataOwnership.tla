--------------------------- MODULE DataOwnership ---------------------------
(***************************************************************************)
(* The data objects of src/src/iodefv2-data.c: a tagged union whose        *)
(* content is a number, a buffer or a time, with one flag that says        *)
(* whether the object releases that content (IODEFV2_DATA_OWN_DATA).       *)
(* Buffers and references to times are both called buffers here: what is   *)
(* handed over, released and must be released once.                        *)
(*                                                                         *)
(* Abstracted: the bytes and their length; the numeric types, which are    *)
(* one; character and byte strings, which are treated alike.               *)
(***************************************************************************)
EXTENDS Naturals, FiniteSets

CONSTANTS
  Objects,      \* the data objects the program may have
  Buffers,      \* the memory they and the program share
  NoBuffer,     \* a content that is no pointer, or NULL
  MaxRefs,      \* bound: references to one object
  Disciplined   \* whether the program avoids what the setters do not support

ASSUME ConstantsAssumption ==
  /\ NoBuffer \notin Buffers
  /\ MaxRefs \in Nat \ {0}
  /\ Disciplined \in BOOLEAN

VARIABLES
  data,     \* the objects; one without references does not exist
  memory    \* who has to release each buffer: nobody (it is free), the
            \* program, or the library

vars == <<data, memory>>

Types == {"unknown", "number", "string", "time"}
Pointers == {"string", "time"}

Object == [refcount: 0 .. MaxRefs, type: Types, own: BOOLEAN, buf: Buffers \cup {NoBuffer}]

TypeOK ==
  /\ data \in [Objects -> Object]
  /\ memory \in [Buffers -> {"free", "program", "library"}]

Absent == [refcount |-> 0, type |-> "unknown", own |-> FALSE, buf |-> NoBuffer]
Fresh == [Absent EXCEPT !.refcount = 1]

Exists(d) == data[d].refcount > 0

Init ==
  /\ data = [d \in Objects |-> Absent]
  /\ memory = [b \in Buffers |-> "free"]

-----------------------------------------------------------------------------
(* What iodefv2_data_destroy_internal() releases of an object, and what it
   leaves of it: the pointer to a string is reset, that to a time is not, the
   type and the flag stay. *)
Released_Strings(o) == IF o.own /\ o.type = "string" /\ o.buf # NoBuffer THEN {o.buf} ELSE {}
Released(o) ==
  IF o.own /\ o.type \in Pointers /\ o.buf # NoBuffer THEN {o.buf} ELSE {}

Emptied_Dangling(o) == o
Emptied(o) ==
  IF o.own /\ o.type = "string" THEN [o EXCEPT !.buf = NoBuffer] ELSE o

(* One object changes, the old content is released, and the library takes
   over a set of buffers. *)
Update(d, new, freed, taken) ==
  /\ data' = [data EXCEPT ![d] = new]
  /\ memory' = [b \in Buffers |-> IF b \in taken THEN "library"
                                  ELSE IF b \in freed THEN "free" ELSE memory[b]]

(* iodefv2_data_new() *)
New(d) ==
  /\ ~Exists(d)
  /\ Update(d, Fresh, {}, {})

(* iodefv2_data_ref() *)
Ref(d) ==
  /\ Exists(d) /\ data[d].refcount < MaxRefs
  /\ Update(d, [data[d] EXCEPT !.refcount = @ + 1], {}, {})

(* iodefv2_data_destroy(): the last reference releases the content. *)
Destroy(d) ==
  /\ Exists(d)
  /\ IF data[d].refcount > 1
     THEN Update(d, [data[d] EXCEPT !.refcount = @ - 1], {}, {})
     ELSE Update(d, Absent, Released(data[d]), {})

(* iodefv2_data_set_char(), _byte(), _uint32(), _uint64(), _int(), _float() *)
SetNumber(d) ==
  /\ Exists(d)
  /\ Update(d, [data[d] EXCEPT !.type = "number", !.buf = NoBuffer], Released(data[d]), {})

(* iodefv2_data_set_ptr_ref_fast(): a buffer the program lends. The flag of
   the previous content stays; a disciplined program lends only to objects
   that have not owned a content since they were created or made a copy by
   reference. *)
PtrRef(o, b) == [Emptied(o) EXCEPT !.type = "string", !.buf = b]

SetPtrRef(d, b) ==
  /\ Exists(d) /\ memory[b] = "program"
  /\ Disciplined => ~data[d].own
  /\ Update(d, PtrRef(data[d], b), Released(data[d]), {})

(* iodefv2_data_set_ptr_dup_fast(): the old content is gone whether or not
   malloc() finds a buffer for the copy. *)
PtrDup(o, b) == [Emptied(o) EXCEPT !.type = "string", !.buf = b, !.own = TRUE]

SetPtrDup(d, b) ==
  /\ Exists(d) /\ memory[b] = "free"
  /\ Update(d, PtrDup(data[d], b), Released(data[d]), {b})

(* A disciplined program does not run out of memory while it replaces a time,
   the pointer to which stays when it has been released. *)
SetPtrDupFails(d) ==
  /\ Exists(d)
  /\ Disciplined => data[d].type # "time"
  /\ Update(d, Emptied(data[d]), Released(data[d]), {})

(* iodefv2_data_set_ptr_nodup_fast(): the program hands a buffer over. *)
SetPtrNodup(d, b) ==
  /\ Exists(d) /\ memory[b] = "program"
  /\ Update(d, PtrDup(data[d], b), Released(data[d]), {b})

(* iodefv2_data_set_time(), which does not release the previous content, and
   iodefv2_data_new_time(), where there is none: a disciplined program gives
   a time only to an object that has nothing to release. *)
SetTime(d, b) ==
  /\ Exists(d) /\ memory[b] = "program"
  /\ Disciplined => Released(data[d]) = {}
  /\ Update(d, [data[d] EXCEPT !.type = "time", !.own = TRUE, !.buf = b], {}, {b})

-----------------------------------------------------------------------------
(* iodefv2_data_copy_ref(): both point to the content, which stays the
   source's to release. Only between two objects. *)
CopyRef(s, d) ==
  /\ s # d /\ Exists(s) /\ Exists(d)
  /\ Update(d, [Emptied(data[d]) EXCEPT !.type = data[s].type, !.buf = data[s].buf, !.own = FALSE],
            Released(data[d]), {})

(* A source that can be copied: its content is not a pointer, or points to
   something that has not been released; what was a copy by reference may
   have lost its buffer, and the program must know. *)
Readable(o) == o.type \in Pointers => o.buf # NoBuffer /\ memory[o.buf] # "free"

(* iodefv2_data_copy_dup(): type and flag are set before the content has been
   copied; a copy that fails leaves a null pointer. *)
DupOf(s, d, b) == [Emptied(data[d]) EXCEPT !.type = data[s].type, !.own = TRUE, !.buf = b]

CopyDup(s, d, b) ==
  /\ s # d /\ Exists(s) /\ Exists(d) /\ Readable(data[s])
  /\ IF data[s].type \in Pointers
     THEN /\ memory[b] = "free"
          /\ Update(d, DupOf(s, d, b), Released(data[d]), {b})
     ELSE Update(d, DupOf(s, d, NoBuffer), Released(data[d]), {})

CopyDupFails(s, d) ==
  /\ s # d /\ Exists(s) /\ Exists(d) /\ Readable(data[s])
  /\ data[s].type \in Pointers
  /\ Update(d, DupOf(s, d, NoBuffer), Released(data[d]), {})

(* iodefv2_data_clone(): a new object and a copy; when the copy fails the new
   object is destroyed, so that nothing has changed. *)
Clone(s, d, b) ==
  /\ Exists(s) /\ ~Exists(d) /\ Readable(data[s])
  /\ LET new == [Fresh EXCEPT !.type = data[s].type, !.own = TRUE]
     IN  IF data[s].type \in Pointers
         THEN /\ memory[b] = "free"
              /\ Update(d, [new EXCEPT !.buf = b], {}, {b})
         ELSE Update(d, new, {}, {})

(* The program allocates a buffer, and frees one that it has not lent. *)
Allocate(b) ==
  /\ memory[b] = "free"
  /\ memory' = [memory EXCEPT ![b] = "program"]
  /\ UNCHANGED data

Reclaim(b) ==
  /\ memory[b] = "program" /\ \A d \in Objects : data[d].buf # b
  /\ memory' = [memory EXCEPT ![b] = "free"]
  /\ UNCHANGED data

Setters(d, b) ==
  \/ SetPtrRef(d, b) \/ SetPtrDup(d, b) \/ SetPtrNodup(d, b) \/ SetTime(d, b)

Copies(s, d) ==
  \/ CopyRef(s, d)
  \/ CopyDupFails(s, d)
  \/ \E b \in Buffers : CopyDup(s, d, b) \/ Clone(s, d, b)

Next ==
  \/ \E d \in Objects : New(d) \/ Ref(d) \/ Destroy(d) \/ SetNumber(d) \/ SetPtrDupFails(d)
  \/ \E d \in Objects, b \in Buffers : Setters(d, b)
  \/ \E s, d \in Objects : Copies(s, d)
  \/ \E b \in Buffers : Allocate(b) \/ Reclaim(b)

Spec == Init /\ [][Next]_vars

-----------------------------------------------------------------------------
(* What an object would release is the library's to release: never a buffer
   the program has only lent, never one that has been released already; and
   no two objects would release the same. It takes a sequence of setters to
   get the flag and the pointer apart. *)
ReleasesItsOwn ==
  /\ TypeOK
  /\ \A d \in Objects : \A b \in Released(data[d]) : memory[b] = "library"
  /\ \A c, d \in Objects : c # d => Released(data[c]) \cap Released(data[d]) = {}

(* Every buffer the library has taken over is released in the end: there is an
   object that will, also after setters and copies that failed half way. *)
NothingLost ==
  \A b \in Buffers : memory[b] = "library" => \E d \in Objects : b \in Released(data[d])
=============================================================================
