------------------------------- MODULE JsonText --------------------------------
(***************************************************************************)
(* A document as JSON: the printers that are generated for every class     *)
(* (src/iodefv2-document-print-json.c), the readers that go with them      *)
(* (src/iodefv2-document-read-json.c) and the tokens jsmn cuts the text    *)
(* into for these.  A token of an object, an array or a name knows how     *)
(* many members, elements or values it has; what follows it is found only  *)
(* by reading on, with the one index all the readers share.                *)
(*                                                                         *)
(* The text of a string is a sequence of characters, where one stands for  *)
(* all that are treated alike; of names, punctuation and spaces only the   *)
(* tokens are kept.                                                        *)
(***************************************************************************)
EXTENDS PathTree

CONSTANT MaxTokens  \* room for tokens in the reader

ChildIds(c)  == [k \in DOMAIN Schema[c] |-> k]
Name(c, k)   == Class(c, k)
Names(c)     == {Name(c, k) : k \in DOMAIN Schema[c]}
ChildOf(c, nm) == CHOOSE k \in DOMAIN Schema[c] : Name(c, k) = nm

-----------------------------------------------------------------------------
\* conv_string(): what a character is written as.
Named   == [BS |-> "b", TAB |-> "t", LF |-> "n", FF |-> "f", CR |-> "r"]
Control == [SOH |-> <<"0", "0", "0", "1">>]

Escaped(ch) ==
  CASE ch \in {"\\", "\"", "/"} -> <<"\\", ch>>
    [] ch \in DOMAIN Named      -> <<"\\", Named[ch]>>
    [] ch \in DOMAIN Control    -> <<"\\", "u">> \o Control[ch]
    [] OTHER                    -> <<ch>>
Quoted(text) == FlattenSeq([i \in DOMAIN text |-> Escaped(text[i])])

\* jsmn_parse_string(): a string goes on up to a quote that is not escaped.
RECURSIVE Scanned(_)
Scanned(s) ==
  CASE s = <<>> \/ s[1] = "\"" -> <<>>
    [] s[1] = "\\"             -> SubSeq(s, 1, 2) \o Scanned(SubSeq(s, 3, Len(s)))
    [] OTHER                   -> <<s[1]>> \o Scanned(Tail(s))

\* unescape_string(): back to the characters.
RECURSIVE Unescaped(_)
Unescaped(s) ==
  CASE s = <<>>        -> <<>>
    [] s[1] # "\\"     -> <<s[1]>> \o Unescaped(Tail(s))
    [] s[2] = "u"      -> <<CHOOSE ch \in DOMAIN Control : Control[ch] = SubSeq(s, 3, 6)>>
                          \o Unescaped(SubSeq(s, 7, Len(s)))
    [] OTHER           ->
         <<IF s[2] \in {Named[ch] : ch \in DOMAIN Named}
           THEN CHOOSE ch \in DOMAIN Named : Named[ch] = s[2] ELSE s[2]>>
         \o Unescaped(SubSeq(s, 3, Len(s)))

-----------------------------------------------------------------------------
\* Tokens: names and classes are words, the strings of leaves are texts.
Token(type, size)   == [type |-> type, size |-> size, word |-> "", text |-> <<>>]
Word(size, w)       == [Token("string", size) EXCEPT !.word = w]
String(text)        == [Token("string", 0) EXCEPT !.text = Scanned(Quoted(text) \o <<"\"">>)]
Member(name, value) == <<Word(1, name)>> \o value

Present(c, o, k) == IF Kind(c, k) = "leaf" THEN o[k] # Nothing ELSE o[k] # <<>>

\* iodefv2_*_print_json(): the class, the children that are there, a list only when it
\* has elements.  Backwards, the same text with the children in another order, as JSON
\* allows.
RECURSIVE ToJson(_, _, _)
ToJson(c, o, backwards) ==
  LET Of(k) ==
        CASE Kind(c, k) = "leaf"  -> <<String(o[k].text)>>
          [] Kind(c, k) = "class" -> ToJson(Class(c, k), o[k][1], backwards)
          [] OTHER ->
               <<Token("array", Len(o[k]))>>
               \o FlattenSeq([j \in DOMAIN o[k] |-> ToJson(Class(c, k), o[k][j], backwards)])
      there    == SelectSeq(ChildIds(c), LAMBDA k : Present(c, o, k))
      children == [i \in DOMAIN there |-> Member(Name(c, there[i]), Of(there[i]))]
      self     == Member("_self", <<Word(0, c)>>)
  IN  <<Token("object", Len(children) + 1)>> \o self
      \o FlattenSeq(IF backwards THEN Reverse(children) ELSE children)

-----------------------------------------------------------------------------
\* Where a reader is: the object, and the index of the token after what it has read.
At(o, idx)        == [ret |-> 0, object |-> o, idx |-> idx]
Unreadable(o)     == [ret |-> -1, object |-> o, idx |-> 0]

\* The index of the next member after a nested object or an array: its reader stopped one
\* token past it, and steps back for the step of the loop it returns to.
NextMember_NotBack(idx) == idx + 1
NextMember(idx)         == idx

RECURSIVE Read(_, _, _, _), ReadMembers(_, _, _, _, _), ReadElements(_, _, _, _, _, _)

\* iodefv2_*_read_json() at token idx into o, an object of class c.
Read(c, o, t, idx) ==
  IF t[idx].type # "object" THEN Unreadable(o) ELSE ReadMembers(c, o, t, idx + 1, t[idx].size)

\* A string goes after what the leaf has from a member of the same name.
ReadLeaf(c, o, k, value) ==
  LET new == NewChild(c, o, k, 0).object IN
  IF value.type # "string" THEN Unreadable(new)
  ELSE At([new EXCEPT ![k] = Text(@.text \o Unescaped(value.text))], 0)

ReadMembers(c, o, t, idx, left) ==
  LET k     == ChildOf(c, t[idx].word)
      value == t[idx + 1]
      new   == NewChild(c, o, k, 0)
      below == Read(Class(c, k), new.object[k][1], t, idx + 1)
      To(read, next) ==
        IF read.ret < 0 THEN read ELSE ReadMembers(c, read.object, t, next, left - 1)
  IN  CASE left = 0 \/ idx > Len(t)            -> At(o, idx)
        [] OTHER ->
      CASE t[idx].word = "_self"              -> To(At(o, idx), idx + 2)
        [] t[idx].word \notin Names(c) \cup {"_self"} -> Unreadable(o)
        [] OTHER ->
      CASE Kind(c, k) = "leaf"                -> To(ReadLeaf(c, o, k, value), idx + 2)
        [] Kind(c, k) = "class"               ->
             To([below EXCEPT !.object = [new.object EXCEPT ![k][1] = below.object]],
                NextMember(below.idx))
        [] Kind(c, k) = "list" /\ value.type = "array" ->
             LET list == ReadElements(c, o, k, t, idx + 2, value.size) IN
             To(list, NextMember(list.idx))
        [] OTHER                              -> To(At(o, idx), idx + 2)

ReadElements(c, o, k, t, idx, left) ==
  LET new == NewChild(c, o, k, ListAppend)
      sub == Read(Class(c, k), new.object[k][new.at], t, idx)
      set == [new.object EXCEPT ![k][new.at] = sub.object]
  IN  IF left = 0 THEN At(o, idx)
      ELSE IF sub.ret < 0 THEN Unreadable(set) ELSE ReadElements(c, set, k, t, sub.idx, left - 1)

\* iodefv2_object_new_from_json(): the class is the value of the first "_self" among as
\* many tokens as the members of the outermost object would take.
SelfKey(t) == {i \in 1..(2 * t[1].size) : t[i].word = "_self"}
NewFromJson(t) ==
  IF Len(t) > MaxTokens \/ SelfKey(t) = {} THEN Unreadable(Nothing)
  ELSE LET key == CHOOSE i \in SelfKey(t) : \A j \in SelfKey(t) : i <= j
           c   == t[key + 1].word
       IN  IF c \in DOMAIN Schema THEN Read(c, NewObject(c), t, 1) ELSE Unreadable(Nothing)

-----------------------------------------------------------------------------
\* The objects in an object, itself included, with their classes.
RECURSIVE Inside(_, _)
Inside(c, o) ==
  {<<c, o>>} \cup UNION {UNION {Inside(Class(c, k), o[k][j]) : j \in DOMAIN o[k]} :
                         k \in {h \in DOMAIN o : Kind(c, h) # "leaf"}}

\* What was printed is read back, whatever the order of the members: every object of
\* the document as its own class, with the same lists in the same order and the same
\* texts, to the last token.  It is refused if it takes more tokens than there is room
\* for, and never read in part.
JsonReadsBack ==
  \A inside \in Inside(Root, document), backwards \in BOOLEAN :
    LET t == ToJson(inside[1], inside[2], backwards) IN
    NewFromJson(t) = IF Len(t) <= MaxTokens THEN At(inside[2], Len(t) + 1)
                     ELSE Unreadable(Nothing)
=============================================================================
