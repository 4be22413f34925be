---------------------------- MODULE MessageChannel ----------------------------
(***************************************************************************)
(* What libiodefv2_io_write_delimited() and _read_delimited() promise over *)
(* a byte stream: the reader receives the messages whole, once and in the  *)
(* order they were written, and is told of the end of file after the last  *)
(* one and not before, unless the connection was cut.  Once the stream is  *)
(* torn nothing is promised.                                               *)
(***************************************************************************)
EXTENDS Integers, Sequences

CONSTANT Messages

VARIABLES
  sent,      \* messages written so far
  received,  \* messages read so far
  closed,    \* the writer has closed its end
  cut,       \* the connection was cut
  ended,     \* the reader has been told of the end of file
  torn       \* the reader has lost its place in the stream

vars == <<sent, received, closed, cut, ended, torn>>

Init ==
  /\ sent = <<>> /\ received = <<>>
  /\ closed = FALSE /\ cut = FALSE /\ ended = FALSE /\ torn = FALSE

Send(m) ==
  /\ ~closed /\ sent' = Append(sent, m)
  /\ UNCHANGED <<received, closed, cut, ended, torn>>

Receive ==
  /\ Len(received) < Len(sent) /\ ~ended
  /\ received' = Append(received, sent[Len(received) + 1])
  /\ UNCHANGED <<sent, closed, cut, ended, torn>>

Close ==
  /\ ~closed /\ closed' = TRUE
  /\ UNCHANGED <<sent, received, cut, ended, torn>>

\* The reader may never get what was sent before, or sent later.
Cut ==
  /\ ~cut /\ cut' = TRUE
  /\ UNCHANGED <<sent, received, closed, ended, torn>>

End ==
  /\ cut \/ (closed /\ received = sent)
  /\ ended' = TRUE
  /\ UNCHANGED <<sent, received, closed, cut, torn>>

\* Anything may happen from the moment the stream is torn.
Torn == torn'

Next == Torn \/ (\E m \in Messages : Send(m)) \/ Receive \/ Close \/ Cut \/ End
Spec == Init /\ [][Next]_vars
===============================================================================
