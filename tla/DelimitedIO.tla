----------------------------- MODULE DelimitedIO -----------------------------
(***************************************************************************)
(* Delimited messages over a stream socket (src/libiodefv2-io.c): a writer *)
(* calls libiodefv2_io_write_delimited(), which writes the length of the   *)
(* message and then the message, and a reader calls _read_delimited(),     *)
(* which reads the length and then that many bytes, while the kernel moves *)
(* bytes between them as its buffer allows.                                *)
(*                                                                         *)
(* A byte has Base values (256 in the code) and a length takes two bytes,  *)
(* most significant first.  The caller of the reader follows               *)
(* libiodefv2_io_is_error_fatal(): it calls again after EINTR, and gives up*)
(* after any other error.  The connection may be reset at any time: reads  *)
(* then tell of the end of file, and writes fail.                          *)
(***************************************************************************)
EXTENDS Integers, Sequences, SequencesExt, FiniteSetsExt

CONSTANTS
  Base,       \* values of a byte
  Messages,   \* messages the writer sends
  MaxSends,   \* bound: calls of the writer
  Capacity,   \* bytes the kernel's buffer holds
  Faults      \* what may go wrong

Bytes == 0..(Base - 1)

ASSUME ConstantsAssumption ==
  /\ Base \in Nat \ {0, 1} /\ MaxSends \in Nat /\ Capacity \in Nat \ {0}
  /\ Messages \subseteq Seq(Bytes)
  /\ \A m \in Messages : Len(m) < Base * Base
  /\ Faults \subseteq {"short_write", "would_block", "signal", "no_memory", "reset", "read_error"}

VARIABLES
  stream,    \* bytes in the kernel's buffer
  wpc,       \* writer: "idle", "length", "body", "closed"
  msg, out,  \* message in hand; bytes its current write() has not handed over
  rpc,       \* reader: "idle", "length", "body", "stopped"
  in, count, \* bytes read_wait() has got, and the bytes it is to return
  sent,      \* messages write_delimited() was called with
  received,  \* messages read_delimited() returned
  result,    \* last error the reader was given
  reset,     \* the connection was reset
  lost,      \* history: the bytes that the reset kept from the reader
  torn       \* history: something happened that costs the reader its place

writer == <<wpc, msg, out, sent>>
reader == <<rpc, in, count, received, result>>
vars   == <<stream, writer, reader, reset, lost, torn>>

\* htons() and ntohs() of a length.
Header(n) == <<n \div Base, n % Base>>
Value(h)  == h[1] * Base + h[2]

Init ==
  /\ stream = <<>>
  /\ wpc = "idle" /\ msg = <<>> /\ out = <<>> /\ sent = <<>>
  /\ rpc = "idle" /\ in = <<>> /\ count = 0 /\ received = <<>> /\ result = "none"
  /\ reset = FALSE /\ lost = <<>> /\ torn = FALSE

-----------------------------------------------------------------------------
WriteDelimited(m) ==
  /\ wpc = "idle" /\ Len(sent) < MaxSends
  /\ wpc' = "length" /\ msg' = m /\ out' = Header(Len(m))
  /\ sent' = Append(sent, m)
  /\ torn' = (torn \/ m = <<>>)
  /\ UNCHANGED <<stream, reader, reset, lost>>

\* The kernel accepts the next bytes of the write() in progress.  Those it accepts
\* once the connection is reset go nowhere.
Transfer(k) ==
  LET piece == SubSeq(out, 1, k)
  IN
  /\ k <= Len(out)
  /\ \/ /\ ~reset /\ Len(stream) + k <= Capacity
        /\ stream' = stream \o piece /\ UNCHANGED lost
     \/ /\ reset /\ lost' = lost \o piece /\ UNCHANGED stream
  /\ out' = SubSeq(out, k + 1, Len(out))
  /\ UNCHANGED <<wpc, msg, sent, reader, reset, torn>>

\* The peer resets the connection, closed or not: of the bytes under way the reader
\* still gets the first ones, or none.
PeerResets ==
  /\ "reset" \in Faults /\ ~reset /\ reset' = TRUE
  /\ \E k \in 0..Len(stream) :
       /\ stream' = SubSeq(stream, 1, k)
       /\ lost' = SubSeq(stream, k + 1, Len(stream))
  /\ UNCHANGED <<writer, reader, torn>>

\* write() has handed over everything, or returns early with what it has done.
\* Either way write_delimited() goes on to the message, and from there to the
\* end: it does not compare what was written with what it asked for.
InWrite   == wpc \in {"length", "body"}
Pending   == IF wpc = "length" THEN out \o msg ELSE out
Written   == IF wpc = "length" THEN 2 - Len(out) ELSE Len(msg) - Len(out)
WriteDone == out = <<>> \/ (("short_write" \in Faults \/ reset) /\ Written > 0)
\* Bytes that are never handed over tear the stream, unless it is reset anyway.
Abandon(bytes) ==
  \/ /\ reset /\ lost' = lost \o bytes /\ UNCHANGED torn
  \/ /\ ~reset /\ torn' = (torn \/ bytes # <<>>) /\ UNCHANGED lost
BodyAfterLength_Skipped == wpc' = "idle" /\ out' = <<>>
BodyAfterLength == wpc' = "body" /\ out' = msg
WriteReturns ==
  /\ InWrite /\ WriteDone
  /\ \/ wpc = "length" /\ BodyAfterLength
     \/ wpc = "body" /\ wpc' = "idle" /\ out' = <<>>
  /\ Abandon(out)
  /\ UNCHANGED <<stream, msg, sent, reader, reset>>

\* The connection is reset, or the buffer is full and the descriptor does not
\* block: write() fails, and so does the call.
WriteFails ==
  /\ InWrite /\ Written = 0 /\ out # <<>>
  /\ reset \/ ("would_block" \in Faults /\ Len(stream) = Capacity)
  /\ wpc' = "idle" /\ out' = <<>>
  /\ Abandon(Pending)
  /\ UNCHANGED <<stream, msg, sent, reader, reset>>

WriterCloses ==
  /\ wpc = "idle" /\ wpc' = "closed"
  /\ UNCHANGED <<stream, msg, out, sent, reader, reset, lost, torn>>

-----------------------------------------------------------------------------
ReadDelimited ==
  /\ rpc = "idle"
  /\ rpc' = "length" /\ in' = <<>> /\ count' = 2
  /\ UNCHANGED <<stream, writer, received, result, reset, lost, torn>>

InRead == rpc \in {"length", "body"}
Fail(error) ==
  /\ result' = error
  /\ rpc' = IF error = "interrupted" THEN "idle" ELSE "stopped"

\* What read_delimited() does once read_wait() has all the bytes.
GotLength(bytes) ==
  /\ rpc = "length"
  /\ \/ /\ rpc' = "body" /\ in' = <<>> /\ count' = Value(bytes)
        /\ UNCHANGED <<result, torn>>
     \/ /\ "no_memory" \in Faults /\ Fail("no_memory") /\ torn' = TRUE
        /\ UNCHANGED <<in, count>>
  /\ UNCHANGED received
GotBody(bytes) ==
  /\ rpc = "body"
  /\ rpc' = "idle" /\ in' = <<>> /\ count' = 0
  /\ received' = Append(received, bytes)
  /\ UNCHANGED <<result, torn>>

\* A round of read_wait(): poll() says there is data, and read() returns what is
\* there, up to the bytes that are missing.  Asked for none it returns 0, which
\* sys_read() takes for the end of file.
AllBytes_OneRead(bytes) == rpc = "body" \/ Len(bytes) = count
AllBytes(bytes) == Len(bytes) = count
Missing == count - Len(in)
Read ==
  LET k     == Min({Missing, Len(stream)})
      bytes == in \o SubSeq(stream, 1, k)
  IN
  /\ InRead /\ stream # <<>>
  /\ stream' = SubSeq(stream, k + 1, Len(stream))
  /\ IF k = 0
       THEN Fail("eof") /\ UNCHANGED <<in, count, received, torn>>
       ELSE IF AllBytes(bytes)
         THEN GotLength(bytes) \/ GotBody(bytes)
         ELSE in' = bytes /\ UNCHANGED <<rpc, count, received, result, torn>>
  /\ UNCHANGED <<writer, reset, lost>>

\* The part of a message that the reader has in hand, its header included.
InHand ==
  CASE rpc = "body"   -> Header(count) \o in
    [] rpc = "length" -> in
    [] OTHER          -> <<>>

\* read() returns 0 behind the last byte of a writer that has closed, and fails with
\* ECONNRESET behind the last byte a reset left: sys_read() makes both the end of
\* file, and the part of a message in hand is given up.
HangUp_LengthOnly == stream = <<>> /\ (wpc = "closed" \/ reset) /\ rpc = "length"
HangUp_Early == Len(stream) < 2 /\ (wpc = "closed" \/ reset)
HangUp == stream = <<>> /\ (wpc = "closed" \/ reset)
ReadEof ==
  /\ InRead /\ HangUp
  /\ Fail("eof")
  /\ lost' = InHand \o lost
  /\ UNCHANGED <<stream, writer, in, count, received, reset, torn>>

\* read() fails in any other way, or poll() reports no data but an error.
ReadFails ==
  /\ InRead /\ "read_error" \in Faults
  /\ Fail("error") /\ torn' = TRUE
  /\ UNCHANGED <<stream, writer, in, count, received, reset, lost>>

\* A signal while poll() waits: read() is called again after EINTR, poll() is not.
ReadInterrupted ==
  /\ InRead /\ "signal" \in Faults /\ stream = <<>> /\ ~HangUp
  /\ Fail("interrupted")
  /\ torn' = (torn \/ rpc = "body" \/ in # <<>>)
  /\ UNCHANGED <<stream, writer, in, count, received, reset, lost>>

\* The writer has nothing more to send, and the reader has been told so.
Finished ==
  /\ rpc = "stopped" /\ wpc = "closed"
  /\ UNCHANGED vars

WriterStep == (\E k \in 1..Capacity : Transfer(k)) \/ WriteReturns
ReaderStep == ReadDelimited \/ Read \/ ReadEof
Next ==
  \/ \E m \in Messages : WriteDelimited(m)
  \/ WriterStep \/ WriteFails \/ WriterCloses
  \/ ReaderStep \/ ReadInterrupted \/ ReadFails
  \/ PeerResets \/ Finished
Spec == Init /\ [][Next]_vars

\* The kernel moves bytes when it can, a blocked write() or read() continues when
\* it can, and the reader keeps asking.
FairSpec == Spec /\ WF_vars(WriterStep) /\ WF_vars(ReaderStep)

-----------------------------------------------------------------------------
\* Type invariant: buffers hold bytes, within the kernel's capacity and the
\* lengths the calls asked for.
TypeOK ==
  /\ stream \in Seq(Bytes) /\ Len(stream) <= Capacity
  /\ wpc \in {"idle", "length", "body", "closed"}
  /\ msg \in Seq(Bytes) /\ out \in Seq(Bytes)
  /\ rpc \in {"idle", "length", "body", "stopped"}
  /\ in \in Seq(Bytes) /\ count \in 0..(Base * Base - 1) /\ Len(in) <= count
  /\ sent \in Seq(Messages) /\ received \in Seq(Seq(Bytes))
  /\ result \in {"none", "eof", "interrupted", "no_memory", "error"}
  /\ reset \in BOOLEAN /\ lost \in Seq(Bytes) /\ torn \in BOOLEAN

\* "which allow read_delimited() to safely know if it got all the data a given
\* write contain": what the reader returned are the messages written, whole and
\* in order.
SafelyDelimited == IsPrefix(received, sent)

\* What the code makes of that promise: it holds until a write is cut short or
\* refused, a read is interrupted inside a message, an allocation fails or an
\* empty message is sent.
InOrder == ~torn => SafelyDelimited

\* The reader is told of the end of file at the end of the stream, when every
\* message written has been received and the writer has closed, or behind what a
\* reset left of the stream: it cannot tell one from the other.
EofMeansEnd ==
  ~torn /\ result = "eof" => stream = <<>> /\ (reset \/ (wpc = "closed" /\ received = sent))

\* No byte is lost or invented on the way, but for what a reset takes, and that is
\* the end of the stream: what the reader has of the current message, what the
\* kernel holds, what the reset took and what the writer still has to hand over
\* are, in this order, the encoded messages that have not been received yet.
Wire(m) == Header(Len(m)) \o m
BytesConserved ==
  TypeOK /\ (~torn =>
    /\ InHand \o stream \o lost \o Pending
         = FlattenSeq([i \in 1..(Len(sent) - Len(received)) |-> Wire(sent[Len(received) + i])])
    /\ lost # <<>> => reset)

\* A message written is received in the end, however the bytes trickle in, unless
\* the connection is reset.
Delivered == \A n \in 1..MaxSends : Len(sent) >= n ~> Len(received) >= n \/ torn \/ reset

\* Whatever was torn on the way, a reader whose peer has closed or whose connection
\* is reset is told so, and does not wait for the rest of a message that will never
\* come.
ReaderTold == wpc = "closed" \/ reset ~> rpc = "stopped"

Channel == INSTANCE MessageChannel
             WITH closed <- (wpc = "closed"), cut <- reset, ended <- (result = "eof")

\* Writer, kernel and reader together are a channel of whole messages, for as
\* long as nothing tears the stream.
ChannelOfMessages == Channel!Spec
==============================================================================
