------------------------------- MODULE PathTree -------------------------------
(***************************************************************************)
(* Reading and writing a document through paths: iodefv2_path_get() and    *)
(* iodefv2_path_set() (src/iodefv2-path.c) over the child functions that   *)
(* the generator writes for every class (src/iodefv2-tree-wrap.c).         *)
(*                                                                         *)
(* An object is the sequence of its children: the value of a leaf, the at  *)
(* most one object of a child that is a class, the objects of a child that *)
(* is a list.  A path names a child at each depth, and which elements of   *)
(* it when it is a list.  No class of this document type has a keyed list, *)
(* so that indices are numbers.                                            *)
(***************************************************************************)
EXTENDS Integers, SequencesExt

CONSTANTS
  Schema,    \* for each class the sequence of its children, [kind, class]; a leaf's
             \* class stands for its name
  Root,      \* class of the document
  Paths,     \* paths the program uses: sequences of [child, index]
  Values,    \* values it writes
  MaxObjects \* bound: listed objects of the document

VARIABLE document

-----------------------------------------------------------------------------
\* Indices: a number from the head or, below zero, from the tail of the list, or one
\* of these, out of the range of the numbers.
ListAppend  == 100
ListPrepend == 99
Forbidden   == -100  \* the child is not a list
Undefined   == -102  \* all the elements

WholeList(n) == n \in {Undefined, ListAppend, ListPrepend}

\* Values: none (NULL), a string, a list of values, an object.
Nothing   == [kind |-> "nothing"]
Text(s)   == [kind |-> "text", text |-> s]
List(vs)  == [kind |-> "list", items |-> vs]
Object(o) == [kind |-> "object", object |-> o]
Empty     == Text(<<>>)

IsList(v) == v.kind = "list"
Items(v)  == IF IsList(v) THEN v.items ELSE IF v = Nothing THEN <<>> ELSE <<v>>

Kind(c, k)  == Schema[c][k].kind
Class(c, k) == Schema[c][k].class

NewObject(c) == [k \in DOMAIN Schema[c] |-> IF Kind(c, k) = "leaf" THEN Nothing ELSE <<>>]

\* Element n of a list of this length, 1 being the first, and the distance of n from
\* the end it is counted from.
Position_TailAtZero(n, len) == IF n >= 0 THEN n + 1 ELSE len + n
Position(n, len) == IF n >= 0 THEN n + 1 ELSE len + n + 1
Distance(n)      == IF n >= 0 THEN n ELSE -n - 1

Done(o)   == [ret |-> 0, object |-> o]
Failed(o) == [ret |-> -1, object |-> o]

-----------------------------------------------------------------------------
\* iodefv2_path_get_internal(): the number of values and the value.  Called for the
\* value at depth i of the path, of the object o of class c.
None == [count |-> 0, value |-> Nothing]

\* An element that has no value keeps its place in the list.
Elements_Skipped(vs) == SelectSeq(vs, LAMBDA v : v # Nothing)
Elements(vs) == vs

RECURSIVE GetFrom(_, _, _, _)
GetFrom(path, i, c, o) ==
  IF i > Len(path) THEN [count |-> 1, value |-> Object(o)]
  ELSE LET k     == path[i].child
           n     == path[i].index
           child == o[k]
           Of(j) == GetFrom(path, i + 1, Class(c, k), child[j])
       IN  CASE Kind(c, k) = "leaf" ->
                  IF child = Nothing THEN None ELSE [count |-> 1, value |-> child]
             [] Kind(c, k) = "class" -> IF child = <<>> THEN None ELSE Of(1)
             [] Kind(c, k) = "list" /\ WholeList(n) ->
                  IF child = <<>> THEN None
                  ELSE [count |-> Len(child),
                        value |-> List(Elements([j \in DOMAIN child |-> Of(j).value]))]
             [] OTHER ->
                  IF Position(n, Len(child)) \in DOMAIN child
                  THEN Of(Position(n, Len(child))) ELSE None

Get(path, o) == GetFrom(path, 1, Root, o)

-----------------------------------------------------------------------------
\* iodefv2_class_new_child(): the child to write to, created when it is missing, and
\* for objects its place.  A list grows by one element at either end.
New(o, k, list, at) == [ret |-> 0, object |-> [o EXCEPT ![k] = list], at |-> at]
Refused(o)          == [ret |-> -1, object |-> o, at |-> 0]

Insert_Back(list, new, n) == Append(list, new)
Insert(list, new, n) ==
  IF n = ListPrepend \/ n < 0 THEN <<new>> \o list ELSE Append(list, new)

NewChild(c, o, k, n) ==
  LET child == o[k]
      len   == Len(child)
      grown == Insert(child, NewObject(Class(c, k)), n)
      at    == IF n = ListPrepend \/ n < 0 THEN 1 ELSE len + 1
  IN  CASE Kind(c, k) = "leaf"  -> New(o, k, IF child = Nothing THEN Empty ELSE child, 0)
        [] Kind(c, k) = "class" ->
             New(o, k, IF child = <<>> THEN <<NewObject(Class(c, k))>> ELSE child, 1)
        [] OTHER ->
             CASE n \in {ListAppend, ListPrepend}    -> New(o, k, grown, at)
               [] Position(n, len) \in DOMAIN child  -> New(o, k, child, Position(n, len))
               [] Distance(n) = len                  -> New(o, k, grown, at)
               [] OTHER                              -> Refused(o)

\* iodefv2_class_destroy_child(): the case of a list has no break, and an index one
\* past the end of it goes on with the next child of the class.
RECURSIVE DestroyChild(_, _, _, _)
DestroyChild(c, o, k, n) ==
  IF k > Len(o) THEN Failed(o)
  ELSE CASE Kind(c, k) = "leaf"  -> Done([o EXCEPT ![k] = Nothing])
         [] Kind(c, k) = "class" -> Done([o EXCEPT ![k] = <<>>])
         [] OTHER ->
              LET len == Len(o[k]) IN
              CASE Position(n, len) \in 1..len ->
                     Done([o EXCEPT ![k] = RemoveAt(@, Position(n, len))])
                [] Distance(n) = len -> DestroyChild(c, o, k + 1, n)
                [] OTHER             -> Failed(o)

\* _iodefv2_value_copy_internal() to a leaf or an object: only strings are written
\* here, and only leaves can take one.
Copy(c, o, k, v) ==
  IF Kind(c, k) = "leaf" /\ v.kind = "text" THEN Done([o EXCEPT ![k] = v]) ELSE Failed(o)

\* The index an element of the path is written with: once an element has been
\* created for a value of a list, the path goes on below it with its own indices.
Index(override, n)      == IF override # 0 THEN override ELSE n

RECURSIVE SetFrom(_, _, _, _, _, _), SetElements(_, _, _, _, _, _), AppendAll(_, _, _, _, _)

\* _iodefv2_path_set() at depth i of the path, with the index overriden when that is
\* not 0, in the object o of class c.
SetFrom(path, i, override, c, o, v) ==
  LET k    == path[i].child
      n    == Index(override, path[i].index)
      last == i = Len(path)
      new  == NewChild(c, o, k, n)
      Below ==
        LET sub == SetFrom(path, i + 1, 0, Class(c, k), new.object[k][new.at], v) IN
        [ret |-> sub.ret, object |-> [new.object EXCEPT ![k][new.at] = sub.object]]
  IN  CASE n = Undefined /\ last     -> AppendAll(path, i, c, [o EXCEPT ![k] = <<>>], Items(v))
        [] n = Undefined /\ ~last    -> SetElements(path, i, c, o, v, 1)
        [] n # Undefined /\ last /\ v = Nothing -> DestroyChild(c, o, k, path[i].index)
        [] OTHER -> IF new.ret < 0 THEN Failed(o)
                    ELSE IF last THEN Copy(c, new.object, k, v) ELSE Below

\* _iodefv2_path_set_undefined_not_last() from element j of the list on: element j
\* takes the value j of a list, or the one value there is; when the elements run out
\* the remaining values get new ones, when the values do the rest is left alone.
Remaining(o, k, v) ==
  IF IsList(v) THEN SubSeq(v.items, Len(o[k]) + 1, Len(v.items))
  ELSE IF o[k] = <<>> THEN Items(v) ELSE <<>>

ItemFor_First(v, j) == IF IsList(v) THEN v.items[1] ELSE v
ItemFor(v, j)       == IF IsList(v) THEN v.items[j] ELSE v

SetElements(path, i, c, o, v, j) ==
  LET k   == path[i].child
      sub == SetFrom(path, i + 1, 0, Class(c, k), o[k][j], ItemFor(v, j))
      set == [o EXCEPT ![k][j] = sub.object]
  IN  IF j > Len(o[k]) THEN AppendAll(path, i, c, o, Remaining(o, k, v))
      ELSE IF IsList(v) /\ j > Len(v.items) THEN Done(o)
      ELSE IF sub.ret < 0 THEN Failed(set)
      ELSE SetElements(path, i, c, set, v, j + 1)

AppendAll(path, i, c, o, vs) ==
  IF vs = <<>> THEN Done(o)
  ELSE LET first == SetFrom(path, i, ListAppend, c, o, Head(vs)) IN
       IF first.ret < 0 THEN first ELSE AppendAll(path, i, c, first.object, Tail(vs))

\* iodefv2_path_set() of v.
Set(path, o, v) == SetFrom(path, 1, 0, Root, o, v)

-----------------------------------------------------------------------------
Init == document = NewObject(Root)

\* Listed objects of o from child k on, and of the objects in a list of them.
RECURSIVE Objects(_, _, _), ObjectsIn(_, _)
ObjectsIn(c, list) ==
  IF list = <<>> THEN 0 ELSE Objects(c, Head(list), 1) + ObjectsIn(c, Tail(list))
Objects(c, o, k) ==
  IF k > Len(o) THEN 0
  ELSE Objects(c, o, k + 1)
       + (IF Kind(c, k) = "leaf" THEN 0 ELSE ObjectsIn(Class(c, k), o[k]))
       + (IF Kind(c, k) = "list" THEN Len(o[k]) ELSE 0)

SetValue(path, v) ==
  LET call == Set(path, document, v) IN
  /\ call.object # document => Objects(Root, call.object, 1) <= MaxObjects
  /\ document' = call.object

Next == \E path \in Paths, v \in Values : SetValue(path, v)
Spec == Init /\ [][Next]_document

-----------------------------------------------------------------------------
RECURSIVE IsObject(_, _)
IsObject(c, o) ==
  /\ DOMAIN o = DOMAIN Schema[c]
  /\ \A k \in DOMAIN o :
       /\ Kind(c, k) = "leaf" => o[k].kind \in {"nothing", "text"}
       /\ Kind(c, k) = "class" => Len(o[k]) <= 1
       /\ Kind(c, k) # "leaf" => \A j \in 1..Len(o[k]) : IsObject(Class(c, k), o[k][j])

\* Type invariant: the document is an object of its class, whatever was written to it.
TypeOK == /\ IsObject(Root, document)

RECURSIVE EndsInLeaf(_, _, _)
EndsInLeaf(path, i, c) ==
  LET kind == Kind(c, path[i].child) IN
  IF i = Len(path) THEN kind = "leaf" ELSE EndsInLeaf(path, i + 1, Class(c, path[i].child))
LeafPaths == {path \in Paths : EndsInLeaf(path, 1, Root)}
Indices(path) == {path[i].index : i \in DOMAIN path}
Reads(path)   == Indices(path) \cap {ListAppend, ListPrepend} = {}

\* Where a value written through the path is found afterwards: an element that was
\* appended is the last one, one that was prepended the first.
Landed(path) == [i \in DOMAIN path |->
  [path[i] EXCEPT !.index = IF @ = ListAppend THEN -1 ELSE IF @ = ListPrepend THEN 0 ELSE @]]

RECURSIVE All(_, _)
All(v, s) == IF IsList(v) THEN v.items # <<>> /\ \A j \in DOMAIN v.items : All(v.items[j], s)
             ELSE v = s

\* A string that was written is what the path then reads: with no exception for
\* elements created on the way, wherever in the list, and everywhere when the path
\* names all the elements.
SetThenGet ==
  \A path \in LeafPaths, v \in Values : v.kind = "text" =>
    LET call == Set(path, document, v) IN
    call.ret = 0 => All(Get(Landed(path), call.object).value, v)

\* A list that was written through a path that names all the elements of one list
\* gives its values to the elements in order, the first to the first, and
\* leaves what it has no value for alone.
SetListThenGet ==
  \A path \in LeafPaths, v \in Values :
    IsList(v) /\ Reads(path) /\ (\A j \in DOMAIN v.items : ~IsList(v.items[j]))
    /\ (\E i \in DOMAIN path : path[i].index = Undefined
                               /\ \A h \in DOMAIN path \ {i} : path[h].index # Undefined) =>
      LET call   == Set(path, document, v)
          before == Get(path, document).value
          after  == Get(path, call.object).value
      IN  call.ret = 0 =>
            IF Items(v) = <<>> /\ Items(before) = <<>> THEN after = Nothing
            ELSE Items(after) = v.items \o SubSeq(Items(before), Len(v.items) + 1, Len(Items(before)))

RECURSIVE Full(_)
Full(v) == IF IsList(v) THEN \A j \in DOMAIN v.items : Full(v.items[j]) ELSE v # Nothing

\* The same lists, and the same leaves; an object of a child that is a class may have
\* been created, empty.
RECURSIVE Same(_, _, _)
Same(c, o, n) ==
  \A k \in DOMAIN o :
    CASE Kind(c, k) = "leaf" -> o[k] = n[k]
      [] Kind(c, k) = "class" /\ o[k] = <<>> -> n[k] \in {<<>>, <<NewObject(Class(c, k))>>}
      [] OTHER -> /\ DOMAIN o[k] = DOMAIN n[k]
                  /\ \A j \in DOMAIN o[k] : Same(Class(c, k), o[k][j], n[k][j])

\* What was read can be written back, and leaves the document as it was.  A missing
\* value is written back too where the path names all the elements; one of a
\* numbered element may be missing with the element, which writing creates.
RoundTrip ==
  \A path \in LeafPaths :
    LET read == Get(path, document)
        call == Set(path, document, read.value)
    IN  /\ Reads(path) /\ read.count > 0
        /\ Full(read.value) \/ Indices(path) \subseteq {Undefined, Forbidden}
        => call.ret = 0 /\ Same(Root, document, call.object)

\* Everything o has is found in n; the elements of a list in the same order, among what
\* n has besides.
RECURSIVE Kept(_, _, _), KeptIn(_, _, _)
KeptIn(c, list, grown) ==
  \/ list = <<>>
  \/ /\ Len(list) <= Len(grown)
     /\ \/ Kept(c, Head(list), Head(grown)) /\ KeptIn(c, Tail(list), Tail(grown))
        \/ KeptIn(c, list, Tail(grown))
Kept(c, o, n) ==
  \A k \in DOMAIN o :
    IF Kind(c, k) = "leaf" THEN o[k] \in {Nothing, n[k]} ELSE KeptIn(Class(c, k), o[k], n[k])

\* The object without what the path names.
RECURSIVE Erase(_, _, _, _)
Erase(path, i, c, o) ==
  LET k       == path[i].child
      n       == path[i].index
      named   == IF Kind(c, k) = "class" \/ n = Undefined THEN DOMAIN o[k]
                 ELSE {Position(n, Len(o[k]))} \cap DOMAIN o[k]
  IN  IF Kind(c, k) = "leaf" THEN [o EXCEPT ![k] = Nothing]
      ELSE IF i < Len(path)
      THEN [o EXCEPT ![k] = [j \in DOMAIN @ |->
              IF j \in named THEN Erase(path, i + 1, Class(c, k), @[j]) ELSE @[j]]]
      ELSE [o EXCEPT ![k] = IF named = DOMAIN @ THEN <<>>
                            ELSE IF named = {} THEN @ ELSE RemoveAt(@, CHOOSE j \in named : TRUE)]

\* Writing a value, also when that fails half way, loses nothing but what the path
\* names, and moves no element past another.
NothingElseLost ==
  TypeOK /\ \A path \in Paths :
    LET rest == Erase(path, 1, Root, document) IN
    \A v \in Values : Full(v) \/ path \in LeafPaths =>
      Kept(Root, rest, Set(path, document, v).object)

\* The same of deleting: NULL written to a path deletes what the path names.
DeletesOnlyNamed ==
  \A path \in Paths :
    Kept(Root, Erase(path, 1, Root, document), Set(path, document, Nothing).object)
==============================================================================
