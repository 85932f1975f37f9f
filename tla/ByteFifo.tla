------------------------------ MODULE ByteFifo ------------------------------
(***************************************************************************)
(* What the ring between the UART read thread and the message thread       *)
(* promises its two users (bipartite_buf.hpp: "Lock-free for single        *)
(* consumer single producer scenarios"), with no memory, no index and no   *)
(* wrap-around in sight.                                                   *)
(*                                                                         *)
(* The n-th byte that ever enters the ring is the number n, so a byte that *)
(* is lost, repeated, reordered or overwritten shows in the values taken.  *)
(*                                                                         *)
(* Module BipartiteBuf implements this one; module SerialPort uses it.     *)
(***************************************************************************)
EXTENDS Integers

CONSTANTS
  Size,    (* capacity of the ring's array (SerialPort::BB_SIZE)           *)
  Expect   (* bytes the producer asks for in every WriteAcquire (64)       *)

ASSUME FifoAssumption ==
  /\ Size \in Nat
  /\ Expect \in Nat \ {0}
  /\ 2 * Expect <= Size

VARIABLES
  put,      (* bytes published by WriteRelease so far                      *)
  got,      (* bytes given back by ReadRelease so far                      *)
  writer,   (* what the producer holds: nothing, a refusal, a free area    *)
  reader,   (* what the consumer holds: nothing, "empty", an area, a copy  *)
  offered,  (* length of the area ReadAcquire returned                     *)
  chunk     (* the bytes copied out of that area                           *)

fifoVars == <<put, got, writer, reader, offered, chunk>>

Unread == put - got

(* The values the next n bytes must have. *)
NextBytes(n) == [k \in 0 .. n - 1 |-> got + k]

FifoInit ==
  /\ put = 0 /\ got = 0
  /\ writer = "idle" /\ reader = "idle"
  /\ offered = 0 /\ chunk = NextBytes(0)

-----------------------------------------------------------------------------
(* The producer's side. *)

(* WriteAcquire finds Expect contiguous bytes: one slot always stays free,  *)
(* and an area is never handed out on top of unread bytes.                  *)
Grant ==
  /\ writer = "idle"
  /\ Unread + Expect < Size
  /\ writer' = "granted"
  /\ UNCHANGED <<put, got, reader, offered, chunk>>

(* WriteAcquire returns nullptr: fragmentation may cost it less than two   *)
(* requests, never more.                                                   *)
Refuse ==
  /\ writer = "idle"
  /\ Unread > Size - 2 * Expect
  /\ writer' = "refused"
  /\ UNCHANGED <<put, got, reader, offered, chunk>>

(* The producer goes round its loop without releasing anything. *)
Retry ==
  /\ writer \in {"refused", "granted"}
  /\ writer' = "idle"
  /\ UNCHANGED <<put, got, reader, offered, chunk>>

(* WriteRelease(n). *)
Publish(n) ==
  /\ writer = "granted"
  /\ put' = put + n
  /\ writer' = "idle"
  /\ UNCHANGED <<got, reader, offered, chunk>>

-----------------------------------------------------------------------------
(* The consumer's side. *)

(* ReadAcquire returns nullptr only when every published byte was read. *)
ReportEmpty ==
  /\ reader = "idle"
  /\ Unread = 0
  /\ reader' = "empty"
  /\ UNCHANGED <<put, got, writer, offered, chunk>>

(* ReadAcquire returns an area of n unread bytes, at least one. *)
Offer(n) ==
  /\ reader = "idle"
  /\ n \in 1 .. Unread
  /\ reader' = "offered"
  /\ offered' = n
  /\ UNCHANGED <<put, got, writer, chunk>>

(* The caller copies the first k of them; they are the oldest unread ones. *)
Take(k) ==
  /\ reader = "offered"
  /\ k \in 0 .. offered
  /\ chunk' = NextBytes(k)
  /\ offered' = k
  /\ reader' = "taken"
  /\ UNCHANGED <<put, got, writer>>

(* ReadRelease of what was copied. *)
Consume ==
  /\ reader = "taken"
  /\ got' = got + offered
  /\ reader' = "idle"
  /\ UNCHANGED <<put, writer, offered, chunk>>

(* The caller has seen the empty result. *)
LeaveEmpty ==
  /\ reader = "empty"
  /\ reader' = "idle"
  /\ UNCHANGED <<put, got, writer, offered, chunk>>

FifoNext ==
  \/ Grant \/ Refuse \/ Retry
  \/ \E n \in 1 .. Expect : Publish(n)
  \/ ReportEmpty \/ LeaveEmpty
  \/ \E n \in 1 .. Unread : Offer(n)
  \/ \E k \in 0 .. offered : Take(k)
  \/ Consume

FifoSpec == FifoInit /\ [][FifoNext]_fifoVars
=============================================================================
