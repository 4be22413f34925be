------------------------------- MODULE Values -------------------------------
(***************************************************************************)
(* The values of src/src/iodefv2-value.c and iodefv2-value-type.c, which   *)
(* carry what a path reads and writes and what a criterion compares with:  *)
(* a number of one of eight widths, a string, or a list of values; counted *)
(* references; conversions between the types; and the comparison of a      *)
(* criterion (src/src/iodefv2-criterion-value.c) with what a path read.    *)
(*                                                                         *)
(* Abstracted: a string is the number it spells; float, double, time,      *)
(* data, enum and class contents, and the order of values.                 *)
(***************************************************************************)
EXTENDS Integers, Sequences, Functions, FiniteSets

CONSTANTS
  Values,       \* the values the program may have
  Null,         \* no value
  IntTypes,     \* the integer types in use
  Half,         \* half the number of values of each integer type
  Numbers,      \* what the program writes into values
  Chunk,        \* CHUNK_SIZE
  MaxElems,     \* bound: elements of a list
  MaxHeld,      \* bound: references of the program to one value
  Disciplined   \* whether the program avoids what the functions do not support

Signed == {"int8", "int16", "int32", "int64"}
Integral == Signed \cup {"uint8", "uint16", "uint32", "uint64"}

ASSUME ConstantsAssumption ==
  /\ Null \notin Values /\ IsFiniteSet(Values)
  /\ IntTypes \subseteq Integral
  /\ Half \in [Integral -> Nat \ {0}]
  /\ Numbers \subseteq Int
  /\ Chunk \in Nat \ {0} /\ MaxElems \in Nat /\ MaxHeld \in Nat \ {0}
  /\ Disciplined \in BOOLEAN

(* Types of one width hold equally many numbers; an int is wider than 16 bits,
   and the numbers of its width divide those of the widest. *)
ASSUME WidthAssumption ==
  /\ \A w \in {<<"int8", "uint8">>, <<"int16", "uint16">>, <<"int32", "uint32">>,
               <<"int64", "uint64">>} : Half[w[1]] = Half[w[2]]
  /\ Half["int8"] <= Half["int16"] /\ 2 * Half["int16"] <= Half["int32"]
  /\ Half["int64"] % Half["int32"] = 0

VARIABLES
  values,   \* the values; one without references does not exist
  held,     \* the references of the program to each
  owned,    \* how many string objects the library has to release
  errno,    \* "range" after a conversion that was out of range, or "clear"
  exact     \* whether the last conversion was accepted just if the number fits
            \* the type, and has not changed it

vars == <<values, held, owned, errno, exact>>

Types == IntTypes \cup {"string"}

RangeOf(t) ==
  IF t \in Signed THEN -Half[t] .. Half[t] - 1 ELSE 0 .. 2 * Half[t] - 1

(* What an integer becomes when it is stored in an integer type. *)
Wrap(t, n) ==
  LET least == IF t \in Signed THEN -Half[t] ELSE 0
  IN  least + ((n - least) % (2 * Half[t]))

(* Whether a number has a representation of the type at all. *)
Fits(t, n) == t # "string" => n \in RangeOf(t)

-----------------------------------------------------------------------------
(* A value: its references; whether it is a list, the elements, list_max, and
   how many pointers have been allocated; and, if not a list, the content with
   its type, and whether it is the value's to release. meant is the number the
   program has put in. *)
Value == [ refcount : Nat, list : BOOLEAN, elems : Seq(Values \cup {Null}), max : Nat,
           room : Nat, own : BOOLEAN, type : Types \cup {"list"}, n : Int, meant : Int ]

Leaf(t, n) == [ refcount |-> 1, list |-> FALSE, elems |-> <<>>, max |-> 0, room |-> 0,
                own |-> TRUE, type |-> t, n |-> n, meant |-> n ]

List(elems, max, room) ==
  [Leaf("list", 0) EXCEPT !.list = TRUE, !.elems = elems, !.max = max, !.room = room]

Absent == [Leaf("list", 0) EXCEPT !.refcount = 0]

Exists(v) == values[v].refcount > 0
IsList(v) == v # Null /\ values[v].list
IsLeaf(v) == Exists(v) /\ ~values[v].list

(* What is found in a list, all the way down: it is in every set that has the
   list and, with a list, the elements of the list. *)
Closed(S) == \A l \in S : IsList(l) => Range(values[l].elems) \subseteq S
Inside(v) ==
  LET holding == {S \in SUBSET (Values \cup {Null}) : v \in S /\ Closed(S)}
  IN  IF IsList(v) THEN {w \in Values \cup {Null} : \A S \in holding : w \in S} ELSE {v}

(* String objects a content makes the library release. *)
Objects(leaf) ==
  IF leaf.refcount > 0 /\ ~leaf.list /\ leaf.type = "string" /\ leaf.own THEN 1 ELSE 0

Init ==
  /\ values = [v \in Values |-> Absent]
  /\ held = [v \in Values |-> 0]
  /\ owned = 0
  /\ errno = "clear"
  /\ exact = TRUE

TypeOK ==
  /\ values \in [Values -> Value]
  /\ held \in [Values -> 0 .. MaxHeld]
  /\ owned \in Nat
  /\ errno \in {"clear", "range"}
  /\ exact \in BOOLEAN

-----------------------------------------------------------------------------
(* The readers of numbers, GENERIC_TWO_BASES_RW_FUNC: a function of the strto
   family reads a long, which is put into a variable of a type "bigger than the
   one handled" and compared with the limits of the type. The functions for
   unsigned longs negate the number when there is a minus sign. *)
Parsed(t, n) ==
  IF t \in {"uint16", "uint32", "uint64"}
  THEN IF -n \in RangeOf("uint64") \/ n \in RangeOf("uint64")
       THEN [n |-> Wrap("uint64", n), range |-> FALSE]
       ELSE [n |-> 2 * Half["uint64"] - 1, range |-> TRUE]
  ELSE IF n \in RangeOf("int64") THEN [n |-> n, range |-> FALSE]
       ELSE [n |-> IF n < 0 THEN -Half["int64"] ELSE Half["int64"] - 1, range |-> TRUE]

Temporary(t) ==
  CASE t \in {"int8", "int16"} -> "int32"
    [] t \in {"uint8", "uint16"} -> "uint32"
    [] t \in {"int32", "int64"} -> "int64"
    [] t \in {"uint32", "uint64"} -> "uint64"

(* The error number is looked at, but never cleared. *)
Read(t, n) ==
  IF t = "string" THEN [ok |-> TRUE, n |-> n, errno |-> errno]
  ELSE LET parsed == Parsed(t, n)
           tmp == Wrap(Temporary(t), parsed.n)
           after == IF parsed.range THEN "range" ELSE errno
       IN  [ok |-> tmp \in RangeOf(t) /\ after # "range", n |-> tmp, errno |-> after]

(* What a disciplined program has read: with the error number cleared, and
   texts that the bigger type holds, without a minus sign for the unsigned
   types that are as wide as the one they are read into. *)
Readable(t, n) ==
  Disciplined =>
    /\ errno = "clear"
    /\ t \in {"int8", "int16", "uint8", "uint16"} => n \in RangeOf("int32")
    /\ t \in {"uint32", "uint64"} => n >= 0

(* The type in which C compares two integers: nothing smaller than an int,
   and unsigned when that is as wide. *)
Common(s, t) ==
  CASE "uint64" \in {s, t} -> "uint64"
    [] "uint64" \notin {s, t} /\ "int64" \in {s, t} -> "int64"
    [] {"uint64", "int64"} \cap {s, t} = {} /\ "uint32" \in {s, t} -> "uint32"
    [] OTHER -> "int32"

(* CASTCHK: the number converted is equal to the number, and is as positive. *)
CastCheck_NoSign(s, t, n) == Wrap(Common(s, t), n) = Wrap(Common(s, t), Wrap(t, n))
CastCheck(s, t, n) ==
  /\ Wrap(Common(s, t), n) = Wrap(Common(s, t), Wrap(t, n))
  /\ (n < 1) = (Wrap(t, n) < 1)

(* _iodefv2_value_cast(). Making a string always succeeds. *)
Converted(s, t, n) ==
  CASE t = "string" -> [ok |-> TRUE, n |-> n, errno |-> errno]
    [] t # "string" /\ s = "string" -> Read(t, n)
    [] OTHER -> [ok |-> CastCheck(s, t, n), n |-> Wrap(t, n), errno |-> errno]

Judge(t, meant, c) ==
  /\ errno' = c.errno
  /\ exact' = (c.ok = Fits(t, meant) /\ (c.ok => c.n = meant))

-----------------------------------------------------------------------------
(* A value that is made is the program's. *)
Make(v, value) ==
  /\ ~Exists(v)
  /\ values' = [values EXCEPT ![v] = value]
  /\ held' = [held EXCEPT ![v] = 1]
  /\ owned' = owned + Objects(value)

(* iodefv2_value_new_int8() and the others; a string is handed over. *)
New(v, t, n) ==
  /\ Fits(t, n)
  /\ Make(v, Leaf(t, n))
  /\ UNCHANGED <<errno, exact>>

(* iodefv2_value_new_from_string() *)
NewFromString(v, t, n) ==
  /\ Readable(t, n)
  /\ LET c == Read(t, n)
     IN  /\ Judge(t, n, c)
         /\ IF c.ok THEN Make(v, [Leaf(t, c.n) EXCEPT !.meant = n])
            ELSE ~Exists(v) /\ UNCHANGED <<values, held, owned>>

(* iodefv2_value_new_list() *)
NewList(v) ==
  /\ Make(v, List(<<>>, Chunk - 1, Chunk))
  /\ UNCHANGED <<errno, exact>>

(* iodefv2_value_list_add(): the list takes the reference over. A disciplined
   program does not add to the clone of a list, for which less is allocated
   than its limit says, and puts no list into itself. *)
Grown_Never(l) == l
Grown(l) ==
  IF Len(l.elems) = l.max THEN [l EXCEPT !.max = @ + Chunk, !.room = l.max + 1 + Chunk] ELSE l

Added(l, item) == [Grown(l) EXCEPT !.elems = Append(@, item)]

ListAdd(l, item) ==
  /\ held[l] > 0 /\ values[l].list /\ Len(values[l].elems) < MaxElems
  /\ Disciplined => values[l].room = values[l].max + 1
  /\ item # Null => held[item] > 0 /\ l \notin Inside(item)
  /\ values' = [values EXCEPT ![l] = Added(@, item)]
  /\ held' = IF item = Null THEN held ELSE [held EXCEPT ![item] = @ - 1]
  /\ UNCHANGED <<owned, errno, exact>>

(* iodefv2_value_ref() *)
Ref(v) ==
  /\ held[v] > 0 /\ held[v] < MaxHeld
  /\ values' = [values EXCEPT ![v].refcount = @ + 1]
  /\ held' = [held EXCEPT ![v] = @ + 1]
  /\ UNCHANGED <<owned, errno, exact>>

(* iodefv2_value_destroy(): the last reference takes the elements with it.
   When the program gives a reference to v back and the values of S go, w loses
   Lost(v, S, w) references; it goes if these are all that it has. *)
Pointers(S, w) ==
  {p \in S \X (1 .. MaxElems) :
     Exists(p[1]) /\ p[2] \in DOMAIN values[p[1]].elems /\ values[p[1]].elems[p[2]] = w}
Lost(v, S, w) == (IF w = v THEN 1 ELSE 0) + Cardinality(Pointers(S, w))
Complete(v, S) ==
  \A w \in Values \ S : Exists(w) => values[w].refcount > Lost(v, S, w)
Gone(v) ==
  LET complete == {S \in SUBSET Values : Complete(v, S)}
  IN  {w \in Values : \A S \in complete : w \in S}

Released(v, gone) ==
  [w \in Values |-> IF w \in gone THEN Absent
                    ELSE [values[w] EXCEPT !.refcount = @ - Lost(v, gone, w)]]

(* The objects that the contents of some values make the library release. *)
ObjectsOf(vals, S) == Cardinality({w \in S : Objects(vals[w]) = 1})

Destroy(v) ==
  /\ held[v] > 0
  /\ LET gone == Gone(v)
     IN  /\ values' = Released(v, gone)
         /\ owned' = owned - ObjectsOf(values, gone)
  /\ held' = [held EXCEPT ![v] = @ - 1]
  /\ UNCHANGED <<errno, exact>>

(* iodefv2_value_have_own_data() and _dont_have_own_data(), which hand the
   contents of a value, and of all in a list, to the library and back. *)
SetOwnData(v, own) ==
  /\ held[v] > 0
  /\ LET leaves == {w \in Inside(v) \ {Null} : IsLeaf(w)}
         after == [w \in Values |-> IF w \in leaves THEN [values[w] EXCEPT !.own = own]
                                    ELSE values[w]]
     IN  /\ values' = after
         /\ owned' = owned + ObjectsOf(after, leaves) - ObjectsOf(values, leaves)
  /\ UNCHANGED <<held, errno, exact>>

-----------------------------------------------------------------------------
(* A leaf is given another content: the old one is released if it was the
   value's. *)
Replace(v, new) ==
  /\ values' = [values EXCEPT ![v] = new]
  /\ owned' = owned - Objects(values[v]) + Objects(new)

(* iodefv2_value_set_int8() and the others. *)
WithContent(leaf, t, n) == [leaf EXCEPT !.type = t, !.n = n, !.own = TRUE]

Set(v, t, n) ==
  /\ held[v] > 0 /\ IsLeaf(v) /\ Fits(t, n)
  /\ Replace(v, [WithContent(values[v], t, n) EXCEPT !.meant = n])
  /\ UNCHANGED <<held, errno, exact>>

(* _iodefv2_value_cast() of a value in place. A string that is read into a
   number leaves the flag as it was. *)
CastTo(leaf, t, n) ==
  IF leaf.type = "string" /\ t # "string" THEN [leaf EXCEPT !.type = t, !.n = n]
  ELSE WithContent(leaf, t, n)

Cast(v, t) ==
  /\ held[v] > 0 /\ IsLeaf(v)
  /\ values[v].type = "string" => Readable(t, values[v].n)
  /\ LET c == Converted(values[v].type, t, values[v].n)
     IN  /\ Judge(t, values[v].meant, c)
         /\ IF c.ok THEN Replace(v, CastTo(values[v], t, c.n)) ELSE UNCHANGED <<values, owned>>
  /\ UNCHANGED held

(* _iodefv2_value_copy_internal(): a value is read as another type, through a
   copy that does not own the content until it has been converted; what the
   conversion made is released if the value owns its own. A disciplined
   program reads what the value owns, and no list, of which the elements lose
   their contents. *)
Made(t) == IF t = "string" THEN 1 ELSE 0

CopyInternal(v, t) ==
  /\ held[v] > 0 /\ IsLeaf(v) /\ t # values[v].type
  /\ Disciplined => values[v].own
  /\ values[v].type = "string" => Readable(t, values[v].n)
  /\ LET c == Converted(values[v].type, t, values[v].n)
     IN  /\ Judge(t, values[v].meant, c)
         /\ owned' = IF c.ok /\ ~values[v].own THEN owned + Made(t) ELSE owned
  /\ UNCHANGED <<values, held>>

(* iodefv2_value_clone(). A list can only be cloned if there is nothing in it:
   otherwise the clone of its first element is lost, and the call fails. A
   disciplined program does not try. *)
Nothing(l) == \A i \in DOMAIN l.elems : l.elems[i] = Null

Cloned(value) ==
  IF value.list THEN List(value.elems, value.max, Len(value.elems) + 1)
  ELSE [value EXCEPT !.refcount = 1, !.own = TRUE]

Clone(v, d) ==
  /\ held[v] > 0 /\ ~Exists(d)
  /\ Disciplined => Nothing(values[v])
  /\ IF Nothing(values[v]) THEN Make(d, Cloned(values[v]))
     ELSE LET first == SelectSeq(values[v].elems, LAMBDA e : e # Null)[1]
          IN  /\ owned' = owned + Objects(Cloned(values[first]))
              /\ UNCHANGED <<values, held>>
  /\ UNCHANGED <<errno, exact>>

(* The program clears the error number. *)
ClearErrno ==
  /\ errno # "clear"
  /\ errno' = "clear"
  /\ UNCHANGED <<values, held, owned, exact>>

Next ==
  \/ \E v \in Values, t \in Types, n \in Numbers :
        New(v, t, n) \/ NewFromString(v, t, n) \/ Set(v, t, n)
  \/ \E v \in Values, t \in Types : Cast(v, t) \/ CopyInternal(v, t)
  \/ \E v \in Values : NewList(v) \/ Ref(v) \/ Destroy(v)
  \/ \E v \in Values, own \in BOOLEAN : SetOwnData(v, own)
  \/ \E v \in Values, item \in Values \cup {Null} : ListAdd(v, item)
  \/ \E v, d \in Values : Clone(v, d)
  \/ ClearErrno

Spec == Init /\ [][Next]_vars

-----------------------------------------------------------------------------
(* iodefv2_criterion_value_match(): what a path has read, which may be nothing
   or have gaps, against the value of a criterion, which is no list. *)
Operators == {"equal", "not_equal", "null", "not_null"}

(* iodefv2_value_iterate(), for the operators for null one level down. *)
Tested(v, op) ==
  IF op \in {"equal", "not_equal"} THEN {e \in Inside(v) : ~IsList(e)}
  ELSE IF IsList(v) THEN Range(values[v].elems) ELSE {v}

(* iodefv2_value_match() and iodefv2_value_type_compare() of one element; the
   operators for null, do_match_cb() without a criterion. *)
Satisfies(e, c, op) ==
  CASE op = "null" -> e = Null
    [] op = "not_null" -> e # Null
    [] op = "equal" -> e # Null /\ values[e].n = values[c].n
    [] op = "not_equal" -> ~(e # Null /\ values[e].n = values[c].n)

Match_AnyDiffers(v, c, op) ==
  IF IsList(v) /\ op = "null" THEN \A e \in Tested(v, op) : Satisfies(e, c, op)
  ELSE \E e \in Tested(v, op) : Satisfies(e, c, op)
Match(v, c, op) ==
  LET matches == \E e \in Tested(v, op) : Satisfies(e, c, op)
      fails == \E e \in Tested(v, op) : ~Satisfies(e, c, op)
  IN  IF IsList(v) /\ op = "null" THEN ~fails
      ELSE IF IsList(v) /\ op = "not_equal" /\ fails THEN FALSE
      ELSE matches

-----------------------------------------------------------------------------
(* Every value has as many references as the program and the lists have
   pointers to it, so that none is used after it has been released; a list
   never holds more than has been allocated for it; and the library has as many
   strings to release as there are values that will: after any sequence of
   lists, copies, conversions and changes of ownership. *)
References(v) == held[v] + Cardinality(Pointers(Values, v))

SoundValues ==
  /\ TypeOK
  /\ \A v \in Values :
        /\ values[v].refcount = References(v)
        /\ Len(values[v].elems) <= values[v].room
  /\ owned = ObjectsOf(values, Values)

(* A conversion never changes a number, also through a chain of types of
   different width and sign: a value is the number the program put in, and a
   number is refused only when the type cannot hold it. *)
ConversionsExact ==
  /\ exact
  /\ \A v \in Values :
        IsLeaf(v) => values[v].n = values[v].meant /\ Fits(values[v].type, values[v].n)

(* A criterion and its negation never agree: on lists with gaps, nested lists,
   and on no value; of a list with no element at all neither is true. *)
Comparable(v, c) ==
  /\ IsLeaf(c)
  /\ v # Null => Exists(v) /\ Tested(v, "equal") # {}
  /\ \A e \in Tested(v, "equal") \ {Null} : values[e].type = values[c].type

NegationNegates ==
  \A v \in Values \cup {Null} :
    /\ (v = Null \/ Exists(v)) => Match(v, Null, "null") # Match(v, Null, "not_null")
    /\ \A c \in Values : Comparable(v, c) => Match(v, c, "equal") # Match(v, c, "not_equal")
=============================================================================
