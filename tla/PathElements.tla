----------------------------- MODULE PathElements ------------------------------
(***************************************************************************)
(* The name and the elements of a path (src/iodefv2-path.c): parsing a     *)
(* name into elements, and the calls that change both, set_index(),        *)
(* make_child() and make_parent().  new() finds a path by its name and     *)
(* get() follows its elements: the two have to say the same.  PathCache    *)
(* models what these calls do to the table of paths.                       *)
(*                                                                         *)
(* A name is a sequence of symbols: the names of children, numbers and     *)
(* punctuation.  A symbol takes one place of the buffer of the name.       *)
(***************************************************************************)
EXTENDS PathTree

CONSTANTS
  Buffers,    \* names the program writes
  Numbers,    \* indices it passes, and writes
  MaxDepth,   \* elements of a path
  NameSize    \* places of the buffer of a name, with the one of the end mark

IndexKey == -101

PathOf(elem, name) == [elem |-> elem, name |-> name]
RootPath           == PathOf(<<>>, <<>>)
Edited(path)       == [ret |-> 0, path |-> path]
Rejected(path)     == [ret |-> -1, path |-> path]

\* iodefv2_path_get_class(): the class the elements lead to; a leaf has none.
ClassOf(elem) ==
  FoldLeft(LAMBDA c, e : IF Kind(c, e.child) = "leaf" THEN "none" ELSE Class(c, e.child),
           Root, elem)

\* iodefv2_class_find_child(), of a class or of none.
Found(c, name) ==
  IF c \in DOMAIN Schema THEN {k \in DOMAIN Schema[c] : <<Class(c, k)>> = name} ELSE {}
TheOne(set) == CHOOSE x \in set : TRUE

-----------------------------------------------------------------------------
\* The part of a name before the first place of a symbol, and after it.
Place(name, s) == SelectInSeq(name, LAMBDA x : x = s)
UpTo(name, s)  == IF Contains(name, s) THEN SubSeq(name, 1, Place(name, s) - 1) ELSE name
From(name, s)  == IF Contains(name, s) THEN SubSeq(name, Place(name, s) + 1, Len(name)) ELSE <<>>

\* The index written in a token, none when it is malformed.
Written == Numbers \cup {ListAppend, ListPrepend}
IndexIn(token) ==
  LET rest == From(token, "(")
      tok  == UpTo(rest, ")")
  IN  CASE ~Contains(token, "(")             -> {Undefined}
        [] ~Contains(rest, ")")              -> {}
        [] tok = <<"<<">>                    -> {ListPrepend}
        [] tok = <<">>">>                    -> {ListAppend}
        [] tok = <<"*">>                     -> {Undefined}
        [] OTHER                             -> {n \in Written : <<ToString(n)>> = tok}

\* iodefv2_path_parse_new() after the elements elem; no elements when it fails.
RECURSIVE ParseFrom(_, _)
ParseFrom(elem, name) ==
  LET token == UpTo(name, ".")
      last  == ~Contains(name, ".")
      found == Found(ClassOf(elem), UpTo(token, "("))
      kind  == Kind(ClassOf(elem), TheOne(found))
      n     == TheOne(IndexIn(token))
      next  == Append(elem, [child |-> TheOne(found),
                             index |-> IF kind = "list" THEN n ELSE Forbidden])
      Valid == /\ IndexIn(token) # {} /\ found # {}
               /\ kind # "list" => n = Undefined
               /\ kind = "leaf" => last
               /\ Len(next) < MaxDepth
  IN  IF ~Valid THEN <<>> ELSE IF last THEN next ELSE ParseFrom(next, From(name, "."))

\* iodefv2_path_new_from_root_fast() of a name that is not in the table.
NewPath(buffer) ==
  LET elem == ParseFrom(<<>>, buffer) IN
  CASE Len(buffer) + 1 >= NameSize    -> Rejected(RootPath)
    [] buffer = <<>>                  -> Edited(RootPath)
    [] elem = <<>>                    -> Rejected(RootPath)
    [] OTHER                          -> Edited(PathOf(elem, buffer))

-----------------------------------------------------------------------------
Truncated(name, room) == SubSeq(name, 1, Min({Len(name), room}))
Dot(elem)             == IF elem = <<>> THEN <<>> ELSE <<".">>
InParentheses(n)      == <<"(", ToString(n), ")">>

\* build_name(); strncat() is told of one place more than the buffer has.
BuildName(elem) ==
  Truncated(FlattenSeq([i \in DOMAIN elem |->
    Dot(SubSeq(elem, 1, i - 1))
    \o <<Class(ClassOf(SubSeq(elem, 1, i - 1)), elem[i].child)>>
    \o (IF elem[i].index \in {Undefined, Forbidden} THEN <<>> ELSE InParentheses(elem[i].index))]),
    NameSize)

\* iodefv2_path_set_index(), iodefv2_path_undefine_index()
SetIndex(path, d, n) ==
  IF d > Len(path.elem) \/ n \in {Forbidden, IndexKey} \/ path.elem[d].index = Forbidden
  THEN Rejected(path)
  ELSE LET elem == [path.elem EXCEPT ![d].index = n] IN Edited(PathOf(elem, BuildName(elem)))

\* iodefv2_path_make_child()
MakeChild(path, name, n) ==
  LET c     == ClassOf(path.elem)
      found == Found(c, <<name>>)
      k     == TheOne(found)
      list  == Kind(c, k) = "list"
      index == CASE ~list -> Forbidden [] list /\ n < 0 -> Undefined [] OTHER -> n
  IN  IF Len(path.elem) > MaxDepth - 1 \/ found = {} THEN Rejected(path)
      ELSE Edited(PathOf(
             Append(path.elem, [child |-> k, index |-> index]),
             Truncated(path.name \o Dot(path.elem) \o <<name>>
                       \o (IF n >= 0 /\ list THEN InParentheses(n) ELSE <<>>), NameSize - 1)))

\* iodefv2_path_make_parent(): what is left of the last dot of the name.
LastDot_First(name) == Place(name, ".")
LastDot(name)       == SelectLastInSeq(name, LAMBDA x : x = ".")
MakeParent(path) ==
  IF path.elem = <<>> THEN Rejected(path)
  ELSE Edited(PathOf(Front(path.elem), SubSeq(path.name, 1, Max({LastDot(path.name), 1}) - 1)))

-----------------------------------------------------------------------------
ChildNames == UNION {{Class(c, k) : k \in DOMAIN Schema[c]} : c \in DOMAIN Schema}

\* The name is no longer than new() takes.
Fits(path) == Len(path.name) + 1 < NameSize

Children(path) == {MakeChild(path, name, n) : name \in ChildNames, n \in Written}
Edits(path) ==
  Children(path) \cup {MakeParent(path)}
  \cup {SetIndex(path, d, n) : d \in 1..MaxDepth, n \in Written \cup {Undefined, Forbidden, IndexKey}}
Results(calls) == {call.path : call \in {c \in calls : c.ret = 0 /\ Fits(c.path)}}

\* The paths that any sequence of the calls gives, as long as their names fit.
RECURSIVE Reached(_, _)
Reached(paths, new) ==
  IF new = {} THEN paths
  ELSE Reached(paths \cup new, UNION {Results(Edits(path)) : path \in new} \ (paths \cup new))
AllPaths == Reached({}, Results({NewPath(buffer) : buffer \in Buffers}))

\* The name of a path always says what its elements do: new() of the name gives the same
\* elements, except for the one more that only make_child() makes.  And make_parent()
\* undoes make_child(), in the name as well.
NameTellsElements ==
  \A path \in AllPaths :
    /\ Len(path.elem) < MaxDepth => NewPath(path.name) = Edited(path)
    /\ \A child \in Results(Children(path)) : MakeParent(child) = Edited(path)

\* An index that is set picks its element from what the path read before, when it named
\* all the elements, and none when there is no such element.
IndexSelects ==
  \A path \in AllPaths : \A d \in {d \in DOMAIN path.elem :
      \A i \in DOMAIN path.elem : WholeList(path.elem[i].index) <=> i = d} :
    LET all    == Items(Get(path.elem, document).value)
        Nth(n) == Get(SetIndex(path, d, n).path.elem, document).value
    IN  \A n \in Numbers :
          Nth(n) = IF Position(n, Len(all)) \in DOMAIN all THEN all[Position(n, Len(all))]
                   ELSE Nothing

\* After any sequence of edits, a path reads what its name and its index say.
EditsAgree == NameTellsElements /\ IndexSelects
=============================================================================
