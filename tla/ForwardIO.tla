----------------------------- MODULE ForwardIO -----------------------------
(***************************************************************************)
(* Forwarding from one IO object to another (libiodefv2_io_forward() of    *)
(* src/src/libiodefv2-io.c) over every pair of backends: a buffer in       *)
(* memory, a system descriptor whose peer goes on writing, and a stdio     *)
(* file. The program calls again after any result.                         *)
(*                                                                         *)
(* Abstracted: a byte is its position in what the source delivers.         *)
(***************************************************************************)
EXTENDS Integers, Sequences

CONSTANTS
  Chunk,      \* the buffer of copy_forward()
  MaxBytes,   \* bound: bytes the source ever delivers
  MaxCalls,   \* bound: calls of forward()
  Faults      \* what may go wrong

ASSUME ConstantsAssumption ==
  /\ Chunk \in Nat \ {0} /\ MaxBytes \in Nat /\ MaxCalls \in Nat
  /\ Faults \subseteq {"short_write", "error", "reset"}

VARIABLES
  src, dst,   \* the objects: the backend, and the bytes to be read or written
  peer,       \* whether the source may deliver more: "open" or "closed"
  produced,   \* how many bytes have been put into the source
  call,       \* the call that runs: step reached, count, what is left, bytes
              \* in the buffer, and bytes the destination had before
  ret,        \* what the last call returned: a count, or an error below zero
  calls,      \* calls made
  lost        \* whether bytes were lost: in this call, and ever

vars == <<src, dst, peer, produced, call, ret, calls, lost>>

Backends == {"buffer", "sys", "file"}
Eof == -2
Error == -1

Bytes == 1 .. MaxBytes

TypeOK ==
  /\ src \in [backend : Backends, bytes : Seq(Bytes)]
  /\ dst \in [backend : Backends, bytes : Seq(Bytes)]
  /\ peer \in {"open", "closed"}
  /\ produced \in 0 .. MaxBytes
  /\ call \in [at : {"idle", "read", "write"}, count : Nat, left : Nat,
               buf : Seq(Bytes), before : Nat]
  /\ ret \in {Eof, Error} \cup Nat
  /\ calls \in 0 .. MaxCalls
  /\ lost \in [now : BOOLEAN, ever : BOOLEAN]

Idle == [at |-> "idle", count |-> 0, left |-> 0, buf |-> <<>>, before |-> 0]

(* A file has been written before it is forwarded; a buffer is written to by
   the program between two calls, and a descriptor by a peer at any time. *)
Init ==
  /\ dst \in [backend : Backends, bytes : {<<>>}]
  /\ \E b \in Backends, n \in 0 .. MaxBytes :
        /\ b # "file" => n = 0
        /\ src = [backend |-> b, bytes |-> [i \in 1 .. n |-> i]]
        /\ produced = n
        /\ peer = IF b = "file" THEN "closed" ELSE "open"
  /\ call = Idle /\ ret = 0 /\ calls = 0
  /\ lost = [now |-> FALSE, ever |-> FALSE]

-----------------------------------------------------------------------------
Produce ==
  /\ peer = "open" /\ produced < MaxBytes
  /\ src.backend = "buffer" => call.at = "idle"
  /\ src' = [src EXCEPT !.bytes = Append(@, produced + 1)]
  /\ produced' = produced + 1
  /\ UNCHANGED <<dst, peer, call, ret, calls, lost>>

ClosePeer ==
  /\ peer = "open"
  /\ peer' = "closed"
  /\ UNCHANGED <<src, dst, produced, call, ret, calls, lost>>

(* The connection of a descriptor is reset: of the bytes that have not been read
   the first ones, or none, are still there. *)
PeerResets ==
  /\ "reset" \in Faults /\ src.backend = "sys"
  /\ peer' = "closed"
  /\ \E n \in 0 .. Len(src.bytes) :
        /\ src' = [src EXCEPT !.bytes = SubSeq(@, 1, n)]
        /\ lost' = [lost EXCEPT !.ever = @ \/ n < Len(src.bytes)]
  /\ UNCHANGED <<dst, produced, call, ret, calls>>

(* libiodefv2_io_forward() *)
Forward(count) ==
  /\ call.at = "idle" /\ calls < MaxCalls
  /\ call' = [at |-> IF count = 0 THEN "idle" ELSE "read", count |-> count, left |-> count,
              buf |-> <<>>, before |-> Len(dst.bytes)]
  /\ ret' = IF count = 0 THEN 0 ELSE ret
  /\ calls' = calls + 1
  /\ lost' = [lost EXCEPT !.now = FALSE]
  /\ UNCHANGED <<src, dst, peer, produced>>

Lesser(a, b) == IF a < b THEN a ELSE b
Asked_Whole == Chunk
Asked == Lesser(call.left, Chunk)

Return(r) ==
  /\ call' = [call EXCEPT !.at = "idle", !.buf = <<>>]
  /\ ret' = r

Lose == lost' = [now |-> TRUE, ever |-> TRUE]

(* n bytes have been read. *)
Got_NotConsumed(n) ==
  /\ call' = [call EXCEPT !.at = "write", !.left = @ - n, !.buf = SubSeq(src.bytes, 1, n)]
  /\ UNCHANGED <<src, ret, lost>>
Got(n) ==
  /\ src' = [src EXCEPT !.bytes = SubSeq(@, n + 1, Len(@))]
  /\ call' = [call EXCEPT !.at = "write", !.left = @ - n, !.buf = SubSeq(src.bytes, 1, n)]
  /\ UNCHANGED <<ret, lost>>

(* sys_read() waits until there is something, and takes what there is or what
   has arrived of it. A reset is the end of file to it. *)
SysRead ==
  /\ src.backend = "sys"
  /\ IF src.bytes # <<>> THEN \E n \in 1 .. Lesser(Asked, Len(src.bytes)) : Got(n)
     ELSE peer = "closed" /\ Return(Eof) /\ UNCHANGED <<src, lost>>

(* buffer_read(): an empty buffer is no error. *)
BufferRead_Waits ==
  src.backend = "buffer" /\ src.bytes # <<>> /\ Got(Lesser(Asked, Len(src.bytes)))
BufferRead ==
  /\ src.backend = "buffer"
  /\ IF src.bytes # <<>> THEN Got(Lesser(Asked, Len(src.bytes)))
     ELSE Return(0) /\ UNCHANGED <<src, lost>>

(* file_read() asks fread() for one item of all that is wanted: what is there
   of the last one has been taken out of the file and is not returned. *)
FileRead ==
  /\ src.backend = "file"
  /\ IF Len(src.bytes) >= Asked THEN Got(Asked)
     ELSE /\ Return(Eof)
          /\ src' = [src EXCEPT !.bytes = <<>>]
          /\ IF src.bytes = <<>> THEN UNCHANGED lost ELSE Lose

(* read() or fread() fails, the latter with any part of the item taken out. *)
ReadFails ==
  /\ "error" \in Faults /\ src.backend # "buffer"
  /\ Return(Error)
  /\ \/ src.backend = "sys" /\ UNCHANGED <<src, lost>>
     \/ /\ src.backend = "file"
        /\ \E n \in 0 .. Lesser(Asked - 1, Len(src.bytes)) :
              /\ src' = [src EXCEPT !.bytes = SubSeq(@, n + 1, Len(@))]
              /\ IF n = 0 THEN UNCHANGED lost ELSE Lose

Read ==
  /\ call.at = "read"
  /\ SysRead \/ BufferRead \/ FileRead \/ ReadFails
  /\ UNCHANGED <<dst, peer, produced, calls>>

(* The first n of the bytes in the buffer have reached the destination. What
   the write returned is only compared with zero, and what is left to forward
   has been counted before. *)
Wrote(n) ==
  /\ dst' = [dst EXCEPT !.bytes = @ \o SubSeq(call.buf, 1, n)]
  /\ IF call.left = 0 THEN Return(call.count)
     ELSE call' = [call EXCEPT !.at = "read", !.buf = <<>>] /\ UNCHANGED ret
  /\ IF n < Len(call.buf) THEN Lose ELSE UNCHANGED lost

(* A write that fails: what has been read is gone. *)
WriteFails ==
  /\ Return(Error)
  /\ Lose
  /\ UNCHANGED dst

(* buffer_write() may find no memory; sys_write() may fail, and write() may stop
   early; file_write() returns 0, which is no error, when fwrite() fails after
   any part of the item. *)
BufferWrite ==
  /\ dst.backend = "buffer"
  /\ Wrote(Len(call.buf)) \/ ("error" \in Faults /\ WriteFails)
SysWrite ==
  /\ dst.backend = "sys"
  /\ \/ \E n \in 1 .. Len(call.buf) :
          (n = Len(call.buf) \/ "short_write" \in Faults) /\ Wrote(n)
     \/ "error" \in Faults /\ WriteFails
FileWrite ==
  /\ dst.backend = "file"
  /\ \E n \in 0 .. Len(call.buf) :
        (n = Len(call.buf) \/ "error" \in Faults) /\ Wrote(n)

Write ==
  /\ call.at = "write"
  /\ BufferWrite \/ SysWrite \/ FileWrite
  /\ UNCHANGED <<src, peer, produced, calls>>

Calls == \E count \in 0 .. MaxBytes : Forward(count)

Next == Produce \/ ClosePeer \/ PeerResets \/ Calls \/ Read \/ Write

Spec == Init /\ [][Next]_vars

(* A call goes on whenever it can, as its thread is scheduled. The peer need
   not write, nor close. *)
FairSpec == Spec /\ WF_vars(Read) /\ WF_vars(Write)

-----------------------------------------------------------------------------
(* What a forward moves is neither repeated nor reordered, however reads and
   writes are cut up and however calls fail and are made again; and until a
   write was cut short or failed, a file ended inside of what was asked for or
   a reset took bytes of the source, every byte is still in the source, in the
   buffer or in the destination, at its place. *)
Conserved ==
  /\ TypeOK
  /\ \A i \in 1 .. Len(dst.bytes) - 1 : dst.bytes[i] < dst.bytes[i + 1]
  /\ ~lost.ever => dst.bytes \o call.buf \o src.bytes = [i \in 1 .. produced |-> i]

(* A call that returns the count it was given has moved that many bytes, if
   no write was cut short while it ran; and one that has moved all that it was
   asked for returns the count. *)
CountIsForwarded ==
  call.at = "idle" /\ calls > 0 =>
    LET moved == Len(dst.bytes) - call.before
    IN  /\ moved <= call.count
        /\ ~lost.now => (ret = call.count <=> moved = call.count)

(* A call comes back: from a buffer and a file whatever they hold, also if it
   is less than was asked for, and from a descriptor once its peer has closed or
   the connection is reset. *)
CallReturns ==
  call.at # "idle" /\ (src.backend # "sys" \/ peer = "closed") ~> call.at = "idle"
=============================================================================
