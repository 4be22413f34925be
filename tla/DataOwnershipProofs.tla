------------------------ MODULE DataOwnershipProofs ------------------------
(***************************************************************************)
(* For every number of objects, buffers and references: a disciplined      *)
(* program and the setters and copies of src/src/iodefv2-data.c release    *)
(* every buffer once, and lose none.                                       *)
(***************************************************************************)
EXTENDS DataOwnership, TLAPS

(* The two properties together are almost inductive. What is missing is that
   an object nobody refers to has nothing to release, as a new object or a
   clone is put in its place. *)
AbsentKeepNothing == \A d \in Objects : ~Exists(d) => Released(data[d]) = {}

IInv == ReleasesItsOwn /\ NothingLost /\ AbsentKeepNothing

-----------------------------------------------------------------------------
(* What an object releases is one of the buffers. *)
LEMMA ReleasedIsBuffer ==
  ASSUME NEW o \in Object
  PROVE  Released(o) \in SUBSET Buffers
BY ConstantsAssumption DEF Released, Object

(* iodefv2_data_destroy_internal() leaves an object. *)
LEMMA EmptiedIsObject ==
  ASSUME NEW o \in Object
  PROVE  Emptied(o) \in Object
BY DEF Emptied, Object

(* What an update makes of one object does not touch another; and the memory
   is what the library has taken over, what was freed, and the rest. *)
LEMMA Updated ==
  ASSUME TypeOK, NEW d \in Objects, NEW new \in Object,
         NEW freed, NEW taken \in SUBSET Buffers,
         Update(d, new, freed, taken)
  PROVE  /\ TypeOK'
         /\ data'[d] = new
         /\ \A c \in Objects \ {d} : data'[c] = data[c]
         /\ \A b \in taken : memory'[b] = "library"
         /\ \A b \in freed \ taken : b \in Buffers => memory'[b] = "free"
         /\ \A b \in Buffers \ (freed \cup taken) : memory'[b] = memory[b]
BY DEF Update, TypeOK

(* The shape of every setter and copy: the old content is released, and what
   the new one would release the library has just taken over from the program
   or from malloc(). *)
LEMMA ReplacedContent ==
  ASSUME IInv, NEW d \in Objects, NEW new \in Object, NEW taken \in SUBSET Buffers,
         \A b \in taken : memory[b] # "library",
         Released(new) = taken,
         new.refcount = 0 => taken = {},
         Update(d, new, Released(data[d]), taken)
  PROVE  IInv'
<1> DEFINE freed == Released(data[d])
<1>1. data[d] \in Object
  BY DEF IInv, ReleasesItsOwn, TypeOK
<1>2. freed \in SUBSET Buffers
  BY <1>1, ReleasedIsBuffer
<1>3. /\ TypeOK'
      /\ data'[d] = new
      /\ \A c \in Objects \ {d} : data'[c] = data[c]
      /\ \A b \in taken : memory'[b] = "library"
      /\ \A b \in freed \ taken : memory'[b] = "free"
      /\ \A b \in Buffers \ (freed \cup taken) : memory'[b] = memory[b]
  <2>1. TypeOK BY DEF IInv, ReleasesItsOwn
  <2> QED BY <1>2, <2>1, Updated
<1>4. \A c \in Objects \ {d} : Released(data'[c]) = Released(data[c])
  BY <1>3
<1>5. Released(data'[d]) = taken
  BY <1>3
<1>6. \A c \in Objects \ {d} : /\ Released(data[c]) \cap freed = {}
                               /\ Released(data[c]) \cap taken = {}
                               /\ Released(data[c]) \in SUBSET Buffers
  BY ReleasedIsBuffer DEF IInv, ReleasesItsOwn, TypeOK
<1>7. \A c \in Objects : \A b \in Released(data'[c]) : memory'[b] = "library"
  <2> SUFFICES ASSUME NEW c \in Objects, NEW b \in Released(data'[c])
               PROVE  memory'[b] = "library"
    OBVIOUS
  <2>1. CASE c = d
    BY <2>1, <1>3, <1>5
  <2>2. CASE c # d
    <3>1. b \in Released(data[c]) BY <1>4, <2>2
    <3>2. memory[b] = "library" BY <3>1 DEF IInv, ReleasesItsOwn
    <3>3. b \in Buffers \ (freed \cup taken) BY <3>1, <1>6, <2>2
    <3> QED BY <3>2, <3>3, <1>3
  <2> QED BY <2>1, <2>2
<1>8. \A c, e \in Objects : c # e => Released(data'[c]) \cap Released(data'[e]) = {}
  <2> SUFFICES ASSUME NEW c \in Objects, NEW e \in Objects, c # e
               PROVE  Released(data'[c]) \cap Released(data'[e]) = {}
    OBVIOUS
  <2>1. CASE c = d BY <2>1, <1>4, <1>5, <1>6
  <2>2. CASE e = d BY <2>2, <1>4, <1>5, <1>6
  <2>3. CASE c # d /\ e # d BY <2>3, <1>4 DEF IInv, ReleasesItsOwn
  <2> QED BY <2>1, <2>2, <2>3
<1>9. \A b \in Buffers : memory'[b] = "library" => \E c \in Objects : b \in Released(data'[c])
  <2> SUFFICES ASSUME NEW b \in Buffers, memory'[b] = "library"
               PROVE  \E c \in Objects : b \in Released(data'[c])
    OBVIOUS
  <2>1. CASE b \in taken BY <2>1, <1>5
  <2>2. CASE b \notin taken
    <3>1. b \notin freed BY <1>3, <2>2
    <3>2. memory[b] = "library" BY <3>1, <2>2, <1>3
    <3>3. PICK c \in Objects : b \in Released(data[c]) BY <3>2 DEF IInv, NothingLost
    <3> QED BY <3>1, <3>3, <1>4
  <2> QED BY <2>1, <2>2
<1>10. AbsentKeepNothing'
  <2>1. ASSUME NEW c \in Objects, ~(data'[c].refcount > 0) PROVE Released(data'[c]) = {}
    <3>1. CASE c = d
      <4>1. ~(new.refcount > 0) BY <1>3, <2>1, <3>1
      <4>2. new.refcount = 0 BY <4>1, ConstantsAssumption DEF Object
      <4> QED BY <3>1, <4>2, <1>5
    <3>2. CASE c # d
      <4>1. ~(data[c].refcount > 0) BY <1>3, <2>1, <3>2
      <4> QED BY <1>4, <3>2, <4>1 DEF IInv, AbsentKeepNothing, Exists
    <3> QED BY <3>1, <3>2
  <2> QED BY <2>1 DEF AbsentKeepNothing, Exists, Released
<1> QED
  BY <1>3, <1>7, <1>8, <1>9, <1>10 DEF IInv, ReleasesItsOwn, NothingLost, Released

(* Counting a reference changes nothing an object would release. *)
LEMMA Recounted ==
  ASSUME IInv, NEW d \in Objects, NEW new \in Object,
         Released(new) = Released(data[d]), new.refcount > 0,
         Update(d, new, {}, {})
  PROVE  IInv'
<1>1. /\ TypeOK'
      /\ data'[d] = new
      /\ \A c \in Objects \ {d} : data'[c] = data[c]
      /\ \A b \in Buffers : memory'[b] = memory[b]
  BY Updated DEF IInv, ReleasesItsOwn
<1>2. \A c \in Objects : Released(data'[c]) = Released(data[c])
  BY <1>1
<1>3. \A c \in Objects : Released(data[c]) \in SUBSET Buffers
  BY ReleasedIsBuffer DEF IInv, ReleasesItsOwn, TypeOK
<1>4. ReleasesItsOwn'
  <2>1. \A c \in Objects : \A b \in Released(data'[c]) : memory'[b] = "library"
    BY <1>1, <1>2, <1>3 DEF IInv, ReleasesItsOwn
  <2>2. \A c, e \in Objects : c # e => Released(data'[c]) \cap Released(data'[e]) = {}
    BY <1>2 DEF IInv, ReleasesItsOwn
  <2> QED BY <1>1, <2>1, <2>2 DEF ReleasesItsOwn, Released
<1>5. NothingLost'
  <2>1. \A b \in Buffers : memory'[b] = "library" => \E c \in Objects : b \in Released(data'[c])
    BY <1>1, <1>2 DEF IInv, NothingLost
  <2> QED BY <2>1 DEF NothingLost, Released
<1>6. AbsentKeepNothing'
  <2>1. new.refcount # 0 BY DEF Object
  <2> QED BY <1>1, <1>2, <2>1 DEF IInv, AbsentKeepNothing, Exists
<1> QED
  BY <1>4, <1>5, <1>6 DEF IInv

(* An object whose content is to be replaced is emptied: it owns as before, and
   has nothing left to release but a time. *)
LEMMA EmptiedFields ==
  ASSUME NEW o \in Object
  PROVE  /\ Emptied(o).own = o.own
         /\ Emptied(o).refcount = o.refcount
         /\ o.type # "time" => Released(Emptied(o)) = {}
BY DEF Emptied, Object, Released, Pointers

-----------------------------------------------------------------------------
(* A new object, a clone: the place was empty. *)
LEMMA NothingToRelease ==
  ASSUME IInv, NEW d \in Objects, ~Exists(d)
  PROVE  Released(data[d]) = {}
BY DEF IInv, AbsentKeepNothing

LEMMA NewObjects ==
  /\ Absent \in Object /\ Absent.refcount = 0 /\ Released(Absent) = {}
  /\ Fresh \in Object /\ Fresh.refcount = 1 /\ Released(Fresh) = {}
  /\ Fresh.buf = NoBuffer
<1>1. 0 \in 0 .. MaxRefs /\ 1 \in 0 .. MaxRefs
  BY ConstantsAssumption
<1>2. Absent \in Object /\ Absent.refcount = 0 /\ Released(Absent) = {}
  BY <1>1 DEF Absent, Object, Types, Released
<1>3. Fresh \in Object /\ Fresh.refcount = 1 /\ Fresh.own = Absent.own /\ Fresh.buf = Absent.buf
  BY <1>1, <1>2 DEF Fresh, Object
<1> QED
  BY <1>2, <1>3 DEF Absent, Released

LEMMA InitInv == Init => IInv
<1> SUFFICES ASSUME Init PROVE IInv
  OBVIOUS
<1>1. Absent \in Object /\ Released(Absent) = {} /\ Absent.refcount = 0
  BY NewObjects
<1>2. \A d \in Objects : data[d] = Absent
  BY DEF Init
<1>3. TypeOK
  BY <1>1 DEF Init, TypeOK
<1> QED
  BY <1>1, <1>2, <1>3 DEF Init, IInv, ReleasesItsOwn, NothingLost, AbsentKeepNothing

LEMMA SettersKeep ==
  ASSUME IInv, Disciplined, NEW d \in Objects, NEW b \in Buffers, Setters(d, b)
  PROVE  IInv'
<1>1. data[d] \in Object /\ Emptied(data[d]) \in Object
  BY EmptiedIsObject DEF IInv, ReleasesItsOwn, TypeOK
<1>2. b # NoBuffer
  BY ConstantsAssumption
<1>3. CASE SetPtrRef(d, b)
  <2> DEFINE new == PtrRef(data[d], b)
  <2>1. new \in Object
    BY <1>1 DEF PtrRef, Object, Types
  <2>2. Released(new) = {}
    BY <1>1, <1>3, EmptiedFields DEF SetPtrRef, PtrRef, Object, Released
  <2> QED BY <1>3, <2>1, <2>2, ReplacedContent DEF SetPtrRef
<1>4. ASSUME SetPtrDup(d, b) \/ SetPtrNodup(d, b) PROVE IInv'
  <2> DEFINE new == PtrDup(data[d], b)
  <2>1. new \in Object /\ new.refcount > 0
    BY <1>1, <1>4, EmptiedFields DEF PtrDup, Object, Types, SetPtrDup, SetPtrNodup, Exists
  <2>2. Released(new) = {b}
    BY <1>1, <1>2 DEF PtrDup, Object, Released, Pointers
  <2>3. memory[b] # "library" /\ Update(d, new, Released(data[d]), {b})
    BY <1>4 DEF SetPtrDup, SetPtrNodup
  <2>4. new.refcount # 0 BY <2>1 DEF Object
  <2> HIDE DEF new
  <2> QED BY <2>1, <2>2, <2>3, <2>4, ReplacedContent
<1>5. CASE SetTime(d, b)
  <2> DEFINE new == [data[d] EXCEPT !.type = "time", !.own = TRUE, !.buf = b]
  <2>1. new \in Object /\ new.refcount = data[d].refcount
    BY <1>1 DEF Object, Types
  <2>4. data[d].refcount # 0
    BY <1>1, <1>5 DEF Object, SetTime, Exists
  <2>2. Released(new) = {b}
    BY <1>1, <1>2 DEF Object, Released, Pointers
  <2>3. memory[b] # "library" /\ Released(data[d]) = {} /\ Update(d, new, {}, {b})
    BY <1>5 DEF SetTime
  <2> HIDE DEF new
  <2> QED BY <2>1, <2>2, <2>3, <2>4, ReplacedContent
<1> QED
  BY <1>3, <1>4, <1>5 DEF Setters

LEMMA CopiesKeep ==
  ASSUME IInv, NEW s \in Objects, NEW d \in Objects, Copies(s, d)
  PROVE  IInv'
<1>1. data[s] \in Object /\ data[d] \in Object /\ Emptied(data[d]) \in Object
  BY EmptiedIsObject DEF IInv, ReleasesItsOwn, TypeOK
<1>2. CASE CopyRef(s, d)
  <2> DEFINE new == [Emptied(data[d]) EXCEPT !.type = data[s].type, !.buf = data[s].buf, !.own = FALSE]
  <2>1. new \in Object
    BY <1>1 DEF Object
  <2>2. Released(new) = {}
    BY <1>1 DEF Object, Released
  <2>3. Update(d, new, Released(data[d]), {})
    BY <1>2 DEF CopyRef
  <2> HIDE DEF new
  <2> QED BY <2>1, <2>2, <2>3, ReplacedContent
<1>3. ASSUME NEW b \in Buffers \cup {NoBuffer}
      PROVE  /\ DupOf(s, d, b) \in Object
             /\ DupOf(s, d, b).refcount = data[d].refcount
             /\ Released(DupOf(s, d, b)) =
                  IF b # NoBuffer /\ data[s].type \in Pointers THEN {b} ELSE {}
  BY <1>1, EmptiedFields DEF DupOf, Object, Released
<1>4. CASE CopyDupFails(s, d)
  BY <1>3, <1>4, ReplacedContent DEF CopyDupFails
<1>5. ASSUME NEW b \in Buffers, CopyDup(s, d, b) PROVE IInv'
  <2>1. CASE data[s].type \in Pointers
    <3>1. /\ Released(DupOf(s, d, b)) = {b}
          /\ DupOf(s, d, b) \in Object
          /\ DupOf(s, d, b).refcount # 0
      BY <1>1, <1>3, <1>5, <2>1, ConstantsAssumption DEF CopyDup, Exists, Object
    <3>2. memory[b] # "library" /\ Update(d, DupOf(s, d, b), Released(data[d]), {b})
      BY <1>5, <2>1 DEF CopyDup
    <3> QED BY <3>1, <3>2, ReplacedContent
  <2>2. CASE data[s].type \notin Pointers
    BY <1>3, <1>5, <2>2, ReplacedContent DEF CopyDup
  <2> QED BY <2>1, <2>2
<1>6. ASSUME NEW b \in Buffers, Clone(s, d, b) PROVE IInv'
  <2> DEFINE new == [Fresh EXCEPT !.type = data[s].type, !.own = TRUE]
  <2>1. /\ new \in Object /\ new.refcount = 1 /\ new.buf = NoBuffer
        /\ [new EXCEPT !.buf = b] \in Object /\ [new EXCEPT !.buf = b].refcount = 1
        /\ new.own = TRUE /\ new.type = data[s].type
    BY <1>1, NewObjects DEF Object
  <2>2. Released(data[d]) = {}
    BY <1>6, NothingToRelease DEF Clone
  <2>3. CASE data[s].type \in Pointers
    <3> DEFINE made == [new EXCEPT !.buf = b]
    <3>1. made \in Object /\ made.refcount # 0
      BY <2>1
    <3>2. Released(made) = {b}
      <4> HIDE DEF new
      <4> QED BY <2>1, <2>3, ConstantsAssumption DEF Object, Released
    <3>3. memory[b] # "library" /\ Update(d, made, Released(data[d]), {b})
      BY <1>6, <2>2, <2>3 DEF Clone
    <3> HIDE DEF made
    <3> QED BY <3>1, <3>2, <3>3, ReplacedContent
  <2>4. CASE data[s].type \notin Pointers
    <3>1. Released(new) = {}
      BY <2>1 DEF Released
    <3>2. Update(d, new, {}, {})
      BY <1>6, <2>4 DEF Clone
    <3>3. new.refcount # 0
      BY <2>1
    <3> HIDE DEF new
    <3> QED BY <2>1, <2>2, <3>1, <3>2, <3>3, ReplacedContent
  <2> QED BY <2>3, <2>4
<1> QED
  BY <1>2, <1>4, <1>5, <1>6 DEF Copies

(* The program's own steps leave what the library has. *)
LEMMA ProgramKeeps ==
  ASSUME IInv, NEW b \in Buffers, Allocate(b) \/ Reclaim(b)
  PROVE  IInv'
<1>1. data' = data /\ TypeOK'
  BY DEF Allocate, Reclaim, IInv, ReleasesItsOwn, TypeOK
<1>2. \A c \in Buffers : memory[c] = "library" <=> memory'[c] = "library"
  BY DEF Allocate, Reclaim, IInv, ReleasesItsOwn, TypeOK
<1>3. \A c \in Objects : Released(data[c]) \in SUBSET Buffers
  BY ReleasedIsBuffer DEF IInv, ReleasesItsOwn, TypeOK
<1> QED
  BY <1>1, <1>2, <1>3 DEF IInv, ReleasesItsOwn, NothingLost, AbsentKeepNothing, Exists, Released

LEMMA StepInv == Disciplined /\ IInv /\ [Next]_vars => IInv'
<1> SUFFICES ASSUME Disciplined, IInv, [Next]_vars PROVE IInv'
  OBVIOUS
<1>1. \A d \in Objects : data[d] \in Object
  BY DEF IInv, ReleasesItsOwn, TypeOK
<1>2. Absent \in Object /\ Fresh \in Object /\ Released(Absent) = {} /\ Released(Fresh) = {}
      /\ Absent.refcount = 0 /\ Fresh.refcount = 1
  BY NewObjects
<1>3. ASSUME NEW d \in Objects, New(d) PROVE IInv'
  <2>1. Released(data[d]) = {} /\ Update(d, Fresh, {}, {})
    BY <1>3, NothingToRelease DEF New
  <2> QED BY <1>2, <2>1, ReplacedContent
<1>4. ASSUME NEW d \in Objects, Ref(d) PROVE IInv'
  <2> DEFINE new == [data[d] EXCEPT !.refcount = @ + 1]
  <2>1. new \in Object /\ new.refcount > 0 /\ Released(new) = Released(data[d])
    BY <1>1, <1>4, ConstantsAssumption DEF Ref, Exists, Object, Released
  <2> HIDE DEF new
  <2> QED BY <1>4, <2>1, Recounted DEF Ref, new
<1>5. ASSUME NEW d \in Objects, Destroy(d) PROVE IInv'
  <2>1. CASE data[d].refcount > 1
    <3> DEFINE new == [data[d] EXCEPT !.refcount = @ - 1]
    <3>1. new \in Object /\ new.refcount > 0 /\ Released(new) = Released(data[d])
      BY <1>1, <2>1, ConstantsAssumption DEF Object, Released
    <3>2. Update(d, new, {}, {})
      BY <1>5, <2>1 DEF Destroy
    <3> HIDE DEF new
    <3> QED BY <3>1, <3>2, Recounted
  <2>2. CASE ~(data[d].refcount > 1)
    BY <1>2, <1>5, <2>2, ReplacedContent DEF Destroy
  <2> QED BY <2>1, <2>2
<1>6. ASSUME NEW d \in Objects, SetNumber(d) PROVE IInv'
  <2> DEFINE new == [data[d] EXCEPT !.type = "number", !.buf = NoBuffer]
  <2>1. new \in Object /\ Released(new) = {}
    BY <1>1 DEF Object, Types, Released
  <2>2. Update(d, new, Released(data[d]), {})
    BY <1>6 DEF SetNumber
  <2> HIDE DEF new
  <2> QED BY <2>1, <2>2, ReplacedContent
<1>7. ASSUME NEW d \in Objects, SetPtrDupFails(d) PROVE IInv'
  BY <1>1, <1>7, EmptiedIsObject, EmptiedFields, ReplacedContent DEF SetPtrDupFails
<1>8. CASE UNCHANGED vars
  BY <1>8 DEF vars, IInv, ReleasesItsOwn, TypeOK, NothingLost, AbsentKeepNothing, Exists, Released
<1> QED
  BY <1>3, <1>4, <1>5, <1>6, <1>7, <1>8, SettersKeep, CopiesKeep, ProgramKeeps DEF Next

-----------------------------------------------------------------------------
LEMMA Invariant ==
  ASSUME Disciplined
  PROVE  Spec => []IInv
  BY InitInv, StepInv, PTL DEF Spec

(* Whatever a disciplined program does with its data objects, and whichever
   copies run out of memory, no buffer is released twice and none that the
   program has only lent is released. *)
THEOREM ReleasesCorrect ==
  ASSUME Disciplined
  PROVE  Spec => []ReleasesItsOwn
<1>1. IInv => ReleasesItsOwn
  BY DEF IInv
<1> QED
  BY Invariant, <1>1, PTL

(* Nor is a buffer that the library has taken over ever lost: an object that
   will release it is left. *)
THEOREM NothingLostCorrect ==
  ASSUME Disciplined
  PROVE  Spec => []NothingLost
<1>1. IInv => NothingLost
  BY DEF IInv
<1> QED
  BY Invariant, <1>1, PTL
=============================================================================
