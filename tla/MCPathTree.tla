------------------------------ MODULE MCPathTree ------------------------------
EXTENDS JsonText, PathElements

CONSTANT MaxIndex  \* indices that are numbers, from either end

\* A slice of the classes of the document: the children of each in their order, and
\* after each list the child that follows it in the whole class.
Leaf(name)  == [kind |-> "leaf", class |-> name]
One(class)  == [kind |-> "class", class |-> class]
Many(class) == [kind |-> "list", class |-> class]

MCSchema == [
  document         |-> <<Many("additional_data"), Many("incident")>>,
  additional_data  |-> <<>>,
  incident         |-> <<Many("contact"), One("related_activity")>>,
  contact          |-> <<Leaf("contact_name")>>,
  related_activity |-> <<Leaf("url")>>]

AnyIndex   == (-MaxIndex..(MaxIndex - 1)) \cup {Undefined, ListAppend, ListPrepend}
Step(k, n) == [child |-> k, index |-> n]
ToLeaf(p)  == Append(p, Step(1, Forbidden))

\* The incident of a contact is not counted from the tail, nor prepended.
Contacts   == {<<Step(2, m), Step(1, n)>> :
                 m \in AnyIndex \ {-1, -2, ListPrepend}, n \in AnyIndex}
Activities == {<<Step(2, n), Step(2, Forbidden)>> : n \in AnyIndex}
MCPaths ==
  {<<Step(k, n)>> : k \in {1, 2}, n \in AnyIndex} \cup Contacts \cup Activities
  \cup {ToLeaf(p) : p \in Contacts \cup Activities}

\* A text with what is escaped next to what an escape is written with.
T == Text(<<"\\", "n", "LF", "SOH", "0", "/", "\"", "u", "\\">>)
MCValues ==
  {Nothing, T, List(<<>>),
   List(<<Nothing, T>>), List(<<T, T>>),
   List(<<List(<<T>>), List(<<>>)>>), List(<<Nothing, List(<<Nothing, T>>)>>),
   List(<<T, List(<<T, T>>)>>)}

\* Names: one or two elements, with an index or without, also malformed ones.
IndexTexts == {<<>>, <<"(", "0">>} \cup {<<"(", s, ")">> : s \in {"*", "<<", ">>", "-1", "1", "x"}}
NameTexts  == {<<name>> \o index : name \in ChildNames, index \in IndexTexts}
MCBuffers  == {<<>>} \cup NameTexts \cup {a \o <<".">> \o b : a, b \in NameTexts}
MCNumbers  == {-1, 0, 1}
===============================================================================
