---------------------------- MODULE BipartiteBuf ----------------------------
(***************************************************************************)
(* The lock-free ring of bipartite_buf_impl.hpp as one producer (the UART  *)
(* read thread) and one consumer (the message thread) drive it.  Each load *)
(* or store of a shared index is a step of its own; read() filling the     *)
(* acquired area and memcpy emptying the offered one are steps too, and    *)
(* NoOverlap says those two never touch the same byte, so their inner      *)
(* interleavings do not matter.  The release store of _w comes after the   *)
(* relaxed store of _i, and the consumer loads _w with acquire before _i:  *)
(* the order of the steps below is the order the memory model guarantees.  *)
(*                                                                         *)
(* The n-th byte read from the UART has the value n.                       *)
(***************************************************************************)
EXTENDS Integers

CONSTANTS
  Size,      (* template parameter size: 4 MiB in SerialPort               *)
  Expect,    (* free_required of every WriteAcquire: expect_len = 64       *)
  MaxBytes   (* bound: bytes the device sends in a behaviour               *)

ASSUME BufAssumption ==
  /\ Size \in Nat
  /\ Expect \in Nat \ {0}
  /\ 2 * Expect <= Size
  /\ MaxBytes \in Nat

VARIABLES
  data,         (* _data                                                   *)
  w, r, i,      (* _w, _r, _i: write, read and invalidate index            *)
  writeWrapped, (* _write_wrapped, touched by the producer only            *)
  readWrapped,  (* _read_wrapped, touched by the consumer only             *)
  wpc,          (* where the producer is                                   *)
  area,         (* offset of the pointer WriteAcquire returned             *)
  written,      (* argument of WriteRelease                                *)
  newW,         (* WriteRelease's local w, computed but not yet stored     *)
  rpc,          (* where the consumer is                                   *)
  seenW,        (* ReadAcquire's local w                                   *)
  from, len,    (* the pair ReadAcquire returned: offset and length        *)
  copied,       (* bytes the caller copied out of it                       *)
  put, got      (* history: bytes published, bytes released                *)

producerVars == <<writeWrapped, wpc, area, written, newW>>
consumerVars == <<readWrapped, rpc, seenW, from, len, copied>>
vars == <<data, w, r, i, producerVars, consumerVars, put, got>>

Index == 0 .. Size - 1
Least(a, b) == IF a <= b THEN a ELSE b

Init ==
  /\ data = [k \in Index |-> 0]
  /\ w = 0 /\ r = 0 /\ i = 0
  /\ writeWrapped = FALSE /\ readWrapped = FALSE
  /\ wpc = "idle" /\ area = 0 /\ written = 0 /\ newW = 0
  /\ rpc = "idle" /\ seenW = 0 /\ from = 0 /\ len = 0
  /\ copied = [k \in 0 .. -1 |-> 0]
  /\ put = 0 /\ got = 0

-----------------------------------------------------------------------------
(* The arithmetic of the ring.  Here and below, an operator commented as a  *)
(* slip is a plausible mistake in the definition that follows it; the       *)
(* specification does not use it, see "mutants" in PROJECT.json.            *)

(* Slip: the slot that tells a full ring from an empty one is not kept.     *)
CalcFreeNoGap(at, to) == IF to > at THEN to - at ELSE Size - (at - to)

CalcFree(at, to) == IF to > at THEN (to - at) - 1 ELSE (Size - (at - to)) - 1

(* Slip: only the end of the array bounds the linear area. *)
LinearFreeToEnd(free) == Size - w
LinearFree(free) == Least(free, Size - w)

(* "Wrap to 0 if needed". *)
WrapIndex(x) == IF x = Size THEN 0 ELSE x

(* Where WriteRelease and ReadRelease count from. *)
WriteBase == IF writeWrapped THEN 0 ELSE w
ReadBase == IF readWrapped THEN 0 ELSE r

(* The invalidate index after a write that ended at end. *)
Invalidate(end) ==
  LET old == IF writeWrapped THEN w ELSE i
  IN  IF end > old THEN end ELSE old

-----------------------------------------------------------------------------
(* The producer.  WriteAcquire reads only _r from the other side, once.    *)

AcquireLinear ==
  /\ wpc = "idle"
  /\ Expect <= LinearFree(CalcFree(w, r))
  /\ wpc' = "acquired" /\ area' = w
  /\ UNCHANGED <<data, w, r, i, writeWrapped, written, newW, consumerVars, put, got>>

(* Slip: the area at slot 0 is handed out, the flag is not set. *)
AcquireWrappedNoFlag ==
  LET free == CalcFree(w, r) IN
  /\ wpc = "idle"
  /\ Expect > LinearFree(free)
  /\ Expect <= free - LinearFree(free)
  /\ wpc' = "acquired" /\ area' = 0
  /\ UNCHANGED <<data, w, r, i, writeWrapped, written, newW, consumerVars, put, got>>

AcquireWrapped ==
  LET free == CalcFree(w, r) IN
  /\ wpc = "idle"
  /\ Expect > LinearFree(free)
  /\ Expect <= free - LinearFree(free)
  /\ wpc' = "acquired" /\ area' = 0 /\ writeWrapped' = TRUE
  /\ UNCHANGED <<data, w, r, i, written, newW, consumerVars, put, got>>

AcquireRefused ==
  LET free == CalcFree(w, r) IN
  /\ wpc = "idle"
  /\ Expect > LinearFree(free)
  /\ Expect > free - LinearFree(free)
  /\ wpc' = "refused"
  /\ UNCHANGED <<data, w, r, i, writeWrapped, area, written, newW, consumerVars, put, got>>

(* The read loop's continue: after nullptr, and when poll or read gave no  *)
(* data.  Nothing is released, so writeWrapped keeps its value.            *)
NothingRead ==
  /\ wpc \in {"refused", "acquired"}
  /\ wpc' = "idle"
  /\ UNCHANGED <<data, w, r, i, writeWrapped, area, written, newW, consumerVars, put, got>>

(* read(fd, recv_buffer, expect_len) returned n > 0. *)
FillArea(n) ==
  /\ wpc = "acquired"
  /\ put + n <= MaxBytes
  /\ data' = [k \in Index |-> IF k \in area .. area + n - 1
                              THEN put + (k - area) ELSE data[k]]
  /\ written' = n
  /\ wpc' = "filled"
  /\ UNCHANGED <<w, r, i, writeWrapped, area, newW, consumerVars, put, got>>

(* WriteRelease up to the relaxed store of _i. *)
StoreInvalidate ==
  LET end == WriteBase + written IN
  /\ wpc = "filled"
  /\ i' = Invalidate(end)
  /\ newW' = WrapIndex(end)
  /\ writeWrapped' = FALSE
  /\ wpc' = "stored"
  /\ UNCHANGED <<data, w, r, area, written, consumerVars, put, got>>

(* The release store of _w publishes the bytes. *)
StoreWrite ==
  /\ wpc = "stored"
  /\ w' = newW
  /\ put' = put + written
  /\ wpc' = "idle"
  /\ UNCHANGED <<data, r, i, writeWrapped, area, written, newW, consumerVars, got>>

-----------------------------------------------------------------------------
(* The consumer.  ReadAcquire loads _w, and _i only when r > w.            *)

ReadEmpty ==
  /\ rpc = "idle"
  /\ r = w
  /\ rpc' = "empty"
  /\ UNCHANGED <<data, w, r, i, producerVars, readWrapped, seenW, from, len, copied, put, got>>

ReadLinear ==
  /\ rpc = "idle"
  /\ r < w
  /\ rpc' = "acquired" /\ from' = r /\ len' = w - r
  /\ UNCHANGED <<data, w, r, i, producerVars, readWrapped, seenW, copied, put, got>>

ReadBehindWrap ==
  /\ rpc = "idle"
  /\ r > w
  /\ rpc' = "loadI" /\ seenW' = w
  /\ UNCHANGED <<data, w, r, i, producerVars, readWrapped, from, len, copied, put, got>>

ReadToInvalidate ==
  /\ rpc = "loadI"
  /\ r # i
  /\ rpc' = "acquired" /\ from' = r /\ len' = i - r
  /\ UNCHANGED <<data, w, r, i, producerVars, readWrapped, seenW, copied, put, got>>

ReadWrap ==
  /\ rpc = "loadI"
  /\ r = i
  /\ rpc' = "acquired" /\ from' = 0 /\ len' = seenW /\ readWrapped' = TRUE
  /\ UNCHANGED <<data, w, r, i, producerVars, seenW, copied, put, got>>

(* memcpy of the first used bytes of the area: fewer than len when the     *)
(* caller's own buffer has no room for them.                               *)
CopyOut(used) ==
  /\ rpc = "acquired"
  /\ copied' = [k \in 0 .. used - 1 |-> data[from + k]]
  /\ len' = used
  /\ rpc' = "copied"
  /\ UNCHANGED <<data, w, r, i, producerVars, readWrapped, seenW, from, put, got>>

(* ReadRelease(len): the release store of _r. *)
ReadRelease ==
  /\ rpc = "copied"
  /\ r' = WrapIndex(ReadBase + len)
  /\ readWrapped' = FALSE
  /\ got' = got + len
  /\ rpc' = "idle"
  /\ UNCHANGED <<data, w, i, producerVars, seenW, from, len, copied, put>>

SeenEmpty ==
  /\ rpc = "empty"
  /\ rpc' = "idle"
  /\ UNCHANGED <<data, w, r, i, producerVars, readWrapped, seenW, from, len, copied, put, got>>

Producer ==
  \/ AcquireLinear \/ AcquireWrapped \/ AcquireRefused \/ NothingRead
  \/ \E n \in 1 .. Expect : FillArea(n)
  \/ StoreInvalidate \/ StoreWrite

Consumer ==
  \/ ReadEmpty \/ ReadLinear \/ ReadBehindWrap \/ ReadToInvalidate \/ ReadWrap
  \/ \E used \in 0 .. len : CopyOut(used)
  \/ ReadRelease \/ SeenEmpty

Next == Producer \/ Consumer
Spec == Init /\ [][Next]_vars

-----------------------------------------------------------------------------
(* Indexes, flags and lengths stay in their ranges. *)
TypeOK ==
  /\ data \in [Index -> Nat]
  /\ w \in Index /\ r \in Index /\ i \in 0 .. Size
  /\ writeWrapped \in BOOLEAN /\ readWrapped \in BOOLEAN
  /\ wpc \in {"idle", "refused", "acquired", "filled", "stored"}
  /\ area \in Index /\ written \in 0 .. Expect /\ newW \in Index
  /\ rpc \in {"idle", "empty", "loadI", "acquired", "copied"}
  /\ seenW \in Index /\ from \in Index /\ len \in 0 .. Size
  /\ put \in Nat /\ got \in Nat

(* The slots that hold published, unreleased bytes, as the indexes tell it. *)
UnreadSlots == IF r <= w THEN r .. w - 1 ELSE (r .. i - 1) \cup (0 .. w - 1)

(* The bytes the producer may be overwriting, for the whole of the request  *)
(* because read() is told expect_len, are never bytes the consumer has yet  *)
(* to release, and the area the consumer copies from lies within those: a   *)
(* producer that retries without releasing, or a consumer that releases in  *)
(* the middle of an acquired write, does not change that.                   *)
NoOverlap ==
  /\ wpc = "acquired" => (area .. area + Expect - 1) \cap UnreadSlots = {}
  /\ rpc = "acquired" => (from .. from + len - 1) \subseteq UnreadSlots

(* assert(w + written <= size) and assert(r + read <= size). *)
AssertsHold ==
  /\ wpc = "filled" => WriteBase + written <= Size
  /\ rpc = "copied" => ReadBase + len <= Size

(* Consumed bytes come out in order, each exactly once: the ring is the    *)
(* fifo of module ByteFifo, a refusal means that less than two requests'   *)
(* worth of room is left, and "empty" means that every byte was read.      *)
Fifo == INSTANCE ByteFifo WITH
  writer <- IF wpc \in {"acquired", "filled", "stored"} THEN "granted" ELSE wpc,
  reader <- CASE rpc = "loadI" -> "idle"
              [] rpc = "acquired" -> "offered"
              [] rpc = "copied" -> "taken"
              [] OTHER -> rpc,
  offered <- len,
  chunk <- copied

Implements == Fifo!FifoSpec

-----------------------------------------------------------------------------
(* The inductive invariant behind the four properties, in named parts.     *)

(* Slots lo .. hi - 1 hold consecutive bytes, the first of them byte n.    *)
Holds(lo, hi, n) == \A k \in lo .. hi - 1 : data[k] = n + (k - lo)

(* Read index not ahead of the write index: one run of unread bytes.  Else *)
(* two runs, the first ending at the invalidate index, which lies in the   *)
(* last Expect - 1 slots because only a request that did not fit wraps.    *)
RingContent ==
  /\ r <= w => /\ put - got = w - r
               /\ Holds(r, w, got)
  /\ r > w => /\ r <= i /\ Size - Expect < i
              /\ w = 0 => i = Size
              /\ put - got = (i - r) + w
              /\ Holds(r, i, got) /\ Holds(0, w, got + (i - r))

(* Once WriteAcquire decided to wrap, the decision stays right until the   *)
(* release, however often the producer retries and the consumer advances.  *)
WrapDecision ==
  writeWrapped => /\ wpc \in {"idle", "acquired", "filled"}
                  /\ Expect < r /\ r <= w /\ Size - w < Expect

(* The acquired area ends before the oldest unread byte, and a write that  *)
(* ends exactly at the array's end leaves slot 0 short of the read index.  *)
AreaFree ==
  wpc \in {"acquired", "filled"} =>
    /\ area = WriteBase
    /\ ~writeWrapped => /\ w + Expect <= Size
                        /\ r > w => w + Expect < r
                        /\ w + Expect = Size => 0 < r

AreaFilled ==
  wpc = "filled" => 1 <= written /\ Holds(area, area + written, put)

(* Between the store of _i and the store of _w: the new bytes are in place *)
(* and both the old and the new pair of indexes describe the ring.         *)
IndexesStored ==
  wpc = "stored" =>
    /\ 1 <= written /\ ~writeWrapped
    /\ Holds(area, area + written, put)
    /\ \/ /\ area = w /\ newW = w + written
          /\ r > w => newW < r
       \/ /\ area = w /\ newW = 0 /\ w + written = Size
          /\ i = Size /\ 0 < r /\ r <= w
       \/ /\ area = 0 /\ newW = written /\ i = w
          /\ newW < r /\ r <= w /\ Size - w < Expect

(* What the consumer saw stays true while the producer moves on.           *)
ReaderView ==
  /\ rpc = "loadI" => /\ seenW <= w /\ w < r
                      /\ seenW = 0 => r < i
  /\ readWrapped => rpc \in {"acquired", "copied"}
  /\ rpc \in {"acquired", "copied"} =>
       /\ readWrapped => w < r /\ r = i /\ from = 0 /\ len <= w
       /\ ~readWrapped => /\ from = r
                          /\ r <= w => r + len <= w
                          /\ r > w => r + len <= i
  /\ rpc = "acquired" => 1 <= len
  /\ rpc = "copied" => copied = [k \in 0 .. len - 1 |-> got + k]

(* The inductive invariant: both indexes describe where the unread bytes    *)
(* lie at every point between the loads and stores of the two threads.     *)
RingInv ==
  /\ TypeOK /\ RingContent /\ WrapDecision /\ AreaFree /\ AreaFilled
  /\ IndexesStored /\ ReaderView
=============================================================================
