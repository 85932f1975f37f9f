------------------------- MODULE BipartiteBuf_proofs -------------------------
(***************************************************************************)
(* Proofs about module BipartiteBuf for every array size, every size of    *)
(* request and any number of bytes.                                        *)
(*                                                                         *)
(* RingInv is inductive.  It says where in the array the unread bytes are  *)
(* (RingContent), what the producer decided from an old read index and     *)
(* what remains true of it (WrapDecision, AreaFree), what it has copied    *)
(* and stored so far (AreaFilled, IndexesStored), and what the consumer    *)
(* may believe of the indexes it has seen (ReaderView).  Each side's       *)
(* action is shown to keep the other side's view true.  The refinement of  *)
(* ByteFifo follows from it, one lemma for each side.                      *)
(***************************************************************************)
EXTENDS BipartiteBuf, TLAPS

(* The constructor: all indexes 0, nothing acquired. *)
LEMMA InitInv == Init => RingInv
  BY BufAssumption DEF Init, RingInv, TypeOK, RingContent, WrapDecision, AreaFree,
     AreaFilled, IndexesStored, ReaderView, Holds, Index, WriteBase

(* The producer's steps before WriteRelease.                               *)
LEMMA AcquireInv ==
  ASSUME RingInv, AcquireLinear \/ AcquireWrapped \/ AcquireRefused \/ NothingRead
  PROVE  RingInv'
<1> USE BufAssumption DEF RingInv, TypeOK, RingContent, WrapDecision, AreaFree,
     AreaFilled, IndexesStored, ReaderView, Holds, Index, WriteBase, consumerVars
<1>1. CASE AcquireLinear
  BY <1>1 DEF AcquireLinear, CalcFree, LinearFree, Least
<1>2. CASE AcquireWrapped
  BY <1>2 DEF AcquireWrapped, CalcFree, LinearFree, Least
<1>3. CASE AcquireRefused
  BY <1>3 DEF AcquireRefused, CalcFree, LinearFree, Least
<1>4. CASE NothingRead
  BY <1>4 DEF NothingRead
<1> HIDE DEF RingInv
<1> QED  BY <1>1, <1>2, <1>3, <1>4

(* read() into the area: the bytes are the next ones the UART delivers.    *)
LEMMA FillInv == ASSUME RingInv, NEW n \in 1 .. Expect, FillArea(n) PROVE RingInv'
  BY BufAssumption DEF RingInv, TypeOK, RingContent, WrapDecision, AreaFree, AreaFilled,
     IndexesStored, ReaderView, Holds, Index, WriteBase, FillArea, consumerVars

(* What WriteRelease computed is what IndexesStored describes: the same    *)
(* run continues, or it ends exactly at the array's end, or it restarts at *)
(* slot 0 and the old write index becomes the invalidate index.            *)
LEMMA StoreInvalidateInv == ASSUME RingInv, StoreInvalidate PROVE RingInv'
<1> USE BufAssumption
<1>1. /\ UNCHANGED <<data, w, r, area, written, readWrapped, rpc, seenW, from, len, copied, put, got>>
      /\ writeWrapped' = FALSE /\ wpc' = "stored"
  BY DEF StoreInvalidate, consumerVars
<1> DEFINE Straight == /\ ~writeWrapped /\ area = w /\ w + written < Size /\ newW' = w + written
                       /\ (r > w => i' = i /\ w + written < r)
           ToTheEnd == /\ ~writeWrapped /\ area = w /\ w + written = Size /\ newW' = 0
                       /\ i' = Size /\ 0 < r /\ r <= w
           Restart == /\ area = 0 /\ newW' = written /\ i' = w
                      /\ written < r /\ r <= w /\ Size - w < Expect
<1>2. i' \in 0 .. Size /\ (Straight \/ ToTheEnd \/ Restart)
  <2> USE DEF RingInv, TypeOK, Index, RingContent, WrapDecision, AreaFree
  <2>1. CASE writeWrapped
    BY <2>1 DEF StoreInvalidate, WriteBase, Invalidate, WrapIndex
  <2>2. CASE ~writeWrapped
    BY <2>2 DEF StoreInvalidate, WriteBase, Invalidate, WrapIndex
  <2> QED  BY <2>1, <2>2
<1>3. 1 <= written /\ Holds(area, area + written, put)
  BY DEF StoreInvalidate, RingInv, AreaFilled
<1>4. newW' \in Index
  BY <1>2 DEF RingInv, TypeOK, Index
<1>5. TypeOK'
  BY <1>1, <1>2, <1>4 DEF RingInv, TypeOK, Index
<1>6. r > w => i' = i
  BY <1>2 DEF RingInv, TypeOK, Index
<1>7. RingContent'
  BY <1>1, <1>6 DEF RingInv, RingContent, Holds
<1>8. WrapDecision' /\ AreaFree' /\ AreaFilled'
  BY <1>1 DEF WrapDecision, AreaFree, AreaFilled
<1>9. IndexesStored'
  <2>1. 1 <= written' /\ ~writeWrapped' /\ Holds(area, area + written, put)'
    BY <1>1, <1>3 DEF Holds
  <2>2. CASE Straight
    BY <1>1, <2>1, <2>2 DEF IndexesStored
  <2>3. CASE ToTheEnd
    BY <1>1, <2>1, <2>3 DEF IndexesStored
  <2>4. CASE Restart
    BY <1>1, <2>1, <2>4 DEF IndexesStored
  <2> QED  BY <1>2, <2>2, <2>3, <2>4
<1>10. ReaderView'
  <2>1. CASE r > w
    BY <1>1, <1>6, <2>1 DEF RingInv, ReaderView
  <2>2. CASE ~ (r > w)
    BY <1>1, <2>2 DEF RingInv, TypeOK, Index, ReaderView
  <2> QED  BY <2>1, <2>2
<1> QED  BY <1>5, <1>7, <1>8, <1>9, <1>10 DEF RingInv

(* The write index published last: the consumer sees the bytes, no sooner. *)
LEMMA StoreWriteInv == ASSUME RingInv, StoreWrite PROVE RingInv'
<1> USE BufAssumption DEF StoreWrite, consumerVars
<1>1. TypeOK'
  BY DEF RingInv, TypeOK, Index
<1>2. RingContent'
  <2> USE DEF RingInv, TypeOK, Index, RingContent, IndexesStored, Holds
  <2>1. CASE area = w /\ newW = w + written /\ (r > w => newW < r)
    BY <2>1
  <2>2. CASE area = w /\ newW = 0 /\ w + written = Size /\ i = Size /\ 0 < r /\ r <= w
    BY <2>2
  <2>3. CASE area = 0 /\ newW = written /\ i = w /\ newW < r /\ r <= w /\ Size - w < Expect
    BY <2>3, SMTT(30)
  <2> QED  BY <2>1, <2>2, <2>3
<1>3. WrapDecision' /\ AreaFree' /\ AreaFilled' /\ IndexesStored'
  BY DEF RingInv, IndexesStored, WrapDecision, AreaFree, AreaFilled
<1>4. ReaderView'
  BY DEF RingInv, TypeOK, Index, RingContent, IndexesStored, ReaderView
<1> QED  BY <1>1, <1>2, <1>3, <1>4 DEF RingInv

(* Where the read index goes: it wraps only when it was behind a wrap.     *)
LEMMA ReadReleaseIndex ==
  ASSUME RingInv, ReadRelease
  PROVE  /\ got' = got + len
         /\ \/ readWrapped /\ r = i /\ w < r /\ r' = len /\ len <= w
            \/ ~readWrapped /\ r <= w /\ r' = r + len /\ r + len <= w
            \/ ~readWrapped /\ w < r /\ r' = r + len /\ r + len <= i /\ r + len < Size
            \/ ~readWrapped /\ w < r /\ r' = 0 /\ r + len = Size /\ i = Size
<1> USE BufAssumption DEF RingInv, TypeOK, Index, RingContent, ReaderView
<1>1. CASE readWrapped
  BY <1>1 DEF ReadRelease, ReadBase, WrapIndex
<1>2. CASE ~readWrapped
  BY <1>2 DEF ReadRelease, ReadBase, WrapIndex
<1> QED  BY <1>1, <1>2

(* ReadRelease frees the area for the producer and keeps the rest unread.  *)
LEMMA ReadReleaseInv == ASSUME RingInv, ReadRelease PROVE RingInv'
<1> DEFINE Wrapping == readWrapped /\ r = i /\ w < r /\ r' = len /\ len <= w
           Linear == ~readWrapped /\ r <= w /\ r' = r + len /\ r + len <= w
           Upper == ~readWrapped /\ w < r /\ r' = r + len /\ r + len <= i /\ r + len < Size
           AtEnd == ~readWrapped /\ w < r /\ r' = 0 /\ r + len = Size /\ i = Size
<1>1. got' = got + len /\ (Wrapping \/ Linear \/ Upper \/ AtEnd)
  BY ReadReleaseIndex
<1>2. /\ UNCHANGED <<data, w, i, writeWrapped, wpc, area, written, newW, seenW, from, len, copied, put>>
      /\ readWrapped' = FALSE /\ rpc' = "idle"
  BY DEF ReadRelease, producerVars
<1> USE BufAssumption
<1>3. r' \in Index /\ got' \in Nat
  BY <1>1 DEF RingInv, TypeOK, Index
<1>4. TypeOK'
  BY <1>2, <1>3 DEF RingInv, TypeOK, Index
<1>5. RingContent'
  <2>1. CASE Wrapping
    BY <1>1, <1>2, <2>1 DEF RingInv, TypeOK, Index, RingContent, Holds
  <2>2. CASE Linear
    BY <1>1, <1>2, <2>2 DEF RingInv, TypeOK, Index, RingContent, Holds
  <2>3. CASE Upper
    <3>1. /\ r <= i /\ Size - Expect < i /\ (w = 0 => i = Size)
          /\ put - got = (i - r) + w
          /\ Holds(r, i, got) /\ Holds(0, w, got + (i - r))
      BY <2>3 DEF RingInv, RingContent
    <3>2. w' < r' /\ r' <= i' /\ put' - got' = (i' - r') + w'
      BY <1>1, <1>2, <2>3, <3>1 DEF RingInv, TypeOK, Index
    <3>3. \A k \in r' .. i' - 1 : data'[k] = got' + (k - r')
      BY <1>1, <1>2, <2>3, <3>1 DEF RingInv, TypeOK, Index, Holds
    <3>4. got' + (i' - r') = got + (i - r)
      BY <1>1, <1>2, <2>3 DEF RingInv, TypeOK, Index
    <3>5. \A k \in 0 .. w' - 1 : data'[k] = (got' + (i' - r')) + (k - 0)
      BY <1>2, <3>1, <3>4 DEF Holds
    <3>6. ~ (r' <= w')
      BY <1>3, <1>4, <3>2 DEF TypeOK, Index
    <3> QED  BY <1>2, <3>1, <3>2, <3>3, <3>5, <3>6 DEF RingContent, Holds
  <2>4. CASE AtEnd
    <3>1. put - got = (i - r) + w /\ Holds(0, w, got + (i - r))
      BY <2>4 DEF RingInv, RingContent
    <3>2. got' = got + (i - r) /\ put' - got' = w' - r' /\ ~ (r' > w')
      BY <1>1, <1>2, <2>4, <3>1 DEF RingInv, TypeOK, Index
    <3>3. \A k \in r' .. w' - 1 : data'[k] = got' + (k - r')
      BY <1>2, <2>4, <3>1, <3>2 DEF Holds
    <3> QED  BY <3>2, <3>3 DEF RingContent, Holds
  <2> QED  BY <1>1, <2>1, <2>2, <2>3, <2>4
<1>6. WrapDecision'
  BY <1>1, <1>2 DEF RingInv, TypeOK, Index, WrapDecision
<1>7. AreaFree'
  BY <1>1, <1>2 DEF RingInv, TypeOK, Index, AreaFree, WrapDecision, WriteBase
<1>8. AreaFilled'
  BY <1>2 DEF RingInv, AreaFilled, Holds
<1>9. IndexesStored'
  BY <1>1, <1>2 DEF RingInv, TypeOK, Index, IndexesStored, Holds
<1>10. ReaderView'
  BY <1>2 DEF ReaderView
<1> QED  BY <1>4, <1>5, <1>6, <1>7, <1>8, <1>9, <1>10 DEF RingInv

(* The consumer's steps before ReadRelease.                                *)
LEMMA ReadAcquireInv ==
  ASSUME RingInv,
         ReadEmpty \/ ReadLinear \/ ReadBehindWrap \/ ReadToInvalidate \/ ReadWrap \/ SeenEmpty
  PROVE  RingInv'
<1> USE BufAssumption DEF RingInv, TypeOK, RingContent, WrapDecision, AreaFree,
     AreaFilled, IndexesStored, ReaderView, Holds, Index, WriteBase, producerVars
<1>1. CASE ReadEmpty
  BY <1>1 DEF ReadEmpty
<1>2. CASE ReadLinear
  BY <1>2 DEF ReadLinear
<1>3. CASE ReadBehindWrap
  BY <1>3 DEF ReadBehindWrap
<1>4. CASE ReadToInvalidate
  BY <1>4 DEF ReadToInvalidate
<1>5. CASE ReadWrap
  BY <1>5 DEF ReadWrap
<1>6. CASE SeenEmpty
  BY <1>6 DEF SeenEmpty
<1> HIDE DEF RingInv
<1> QED  BY <1>1, <1>2, <1>3, <1>4, <1>5, <1>6

(* memcpy out of the area: the oldest unread bytes, in order.              *)
LEMMA CopyOutInv == ASSUME RingInv, NEW used \in 0 .. len, CopyOut(used) PROVE RingInv'
<1> USE BufAssumption DEF CopyOut, producerVars
<1>1. TypeOK'
  BY DEF RingInv, TypeOK, Index
<1>2. RingContent' /\ WrapDecision' /\ AreaFree'
  BY DEF RingInv, RingContent, WrapDecision, AreaFree, Holds, WriteBase
<1>3. AreaFilled' /\ IndexesStored'
  BY DEF RingInv, AreaFilled, IndexesStored, Holds
<1>4. \A k \in 0 .. used - 1 : data[from + k] = got + k
  <2> USE DEF RingInv, TypeOK, Index, RingContent, ReaderView, Holds
  <2>1. CASE readWrapped
    BY <2>1
  <2>2. CASE ~readWrapped /\ r <= w
    BY <2>2
  <2>3. CASE ~readWrapped /\ r > w
    BY <2>3
  <2> QED  BY <2>1, <2>2, <2>3
<1>5. copied' = [k \in 0 .. len' - 1 |-> got' + k]
  BY <1>4
<1>6. used <= len /\ len \in 0 .. Size
  BY DEF RingInv, TypeOK
<1>7. ReaderView'
  <2>1. CASE readWrapped
    BY <1>5, <1>6, <2>1 DEF RingInv, TypeOK, Index, ReaderView
  <2>2. CASE ~readWrapped
    <3>1. from = r /\ (r <= w => r + used <= w) /\ (r > w => r + used <= i)
      BY <1>6, <2>2 DEF RingInv, TypeOK, Index, RingContent, ReaderView
    <3> QED  BY <1>5, <2>2, <3>1 DEF ReaderView
  <2> QED  BY <2>1, <2>2
<1> QED  BY <1>1, <1>2, <1>3, <1>7 DEF RingInv

(* A step of the rest of the system. *)
LEMMA StutterInv == ASSUME RingInv, UNCHANGED vars PROVE RingInv'
<1> USE DEF vars, producerVars, consumerVars
<1>1. TypeOK' /\ RingContent'
  BY DEF RingInv, TypeOK, RingContent, Index, Holds
<1>2. WrapDecision' /\ AreaFree'
  BY DEF RingInv, WrapDecision, AreaFree, WriteBase
<1>3. AreaFilled' /\ IndexesStored'
  BY DEF RingInv, AreaFilled, IndexesStored, Holds
<1>4. ReaderView'
  BY DEF RingInv, ReaderView
<1> QED  BY <1>1, <1>2, <1>3, <1>4 DEF RingInv

(* Every step of either side keeps the invariant. *)
LEMMA StepInv == RingInv /\ [Next]_vars => RingInv'
<1> SUFFICES ASSUME RingInv, [Next]_vars PROVE RingInv'
  OBVIOUS
<1>1. CASE Producer
  BY <1>1, AcquireInv, FillInv, StoreInvalidateInv, StoreWriteInv DEF Producer
<1>2. CASE Consumer
  BY <1>2, ReadAcquireInv, CopyOutInv, ReadReleaseInv DEF Consumer
<1> QED  BY <1>1, <1>2, StutterInv DEF Next

-----------------------------------------------------------------------------
(* The indexes always describe the ring: what is published and not yet     *)
(* released is where they say, with the values the UART delivered.         *)
THEOREM RingInvariant == Spec => []RingInv
  BY InitInv, StepInv, PTL DEF Spec

(* Every index stays inside the array and every flag where it belongs.     *)
THEOREM TypeCorrect == Spec => []TypeOK
<1>1. RingInv => TypeOK
  BY DEF RingInv
<1> QED  BY <1>1, RingInvariant, PTL

(* read() never writes, and memcpy never reads, a byte the other side owns. *)
THEOREM AreasDisjoint == Spec => []NoOverlap
<1>1. RingInv => NoOverlap
  <2> SUFFICES ASSUME RingInv PROVE NoOverlap
    OBVIOUS
  <2> USE BufAssumption DEF RingInv, TypeOK, Index, RingContent
  <2>1. ASSUME wpc = "acquired", NEW k \in area .. area + Expect - 1 PROVE k \notin UnreadSlots
    BY <2>1 DEF AreaFree, WrapDecision, WriteBase, UnreadSlots
  <2>2. ASSUME rpc = "acquired", NEW k \in from .. from + len - 1 PROVE k \in UnreadSlots
    BY <2>2 DEF ReaderView, UnreadSlots
  <2> QED  BY <2>1, <2>2 DEF NoOverlap
<1> QED  BY <1>1, RingInvariant, PTL

(* The two assert()s of the implementation, live in a default build.       *)
THEOREM NoAssertFails == Spec => []AssertsHold
<1>1. RingInv => AssertsHold
  <2> SUFFICES ASSUME RingInv PROVE AssertsHold
    OBVIOUS
  <2> USE BufAssumption DEF RingInv, TypeOK, Index
  <2>1. ASSUME wpc = "filled" PROVE WriteBase + written <= Size
    BY <2>1 DEF AreaFree, WrapDecision, WriteBase
  <2>2. ASSUME rpc = "copied" PROVE ReadBase + len <= Size
    BY <2>2 DEF RingContent, ReaderView, ReadBase
  <2> QED  BY <2>1, <2>2 DEF AssertsHold
<1> QED  BY <1>1, RingInvariant, PTL

-----------------------------------------------------------------------------
(* The refinement, one lemma per side.                                      *)

(* A refusal is honest: less than two requests' worth of slots are free,    *)
(* and a grant leaves one slot between the new bytes and the oldest unread. *)
LEMMA ProducerImplements ==
  ASSUME RingInv, Producer
  PROVE  Fifo!FifoNext \/ UNCHANGED Fifo!fifoVars
<1> USE BufAssumption
<1>1. CASE AcquireLinear
  <2>1. (put - got) + Expect < Size
    BY <1>1 DEF AcquireLinear, RingInv, TypeOK, Index, RingContent, CalcFree, LinearFree, Least
  <2>2. Fifo!Grant
    BY <1>1, <2>1 DEF AcquireLinear, consumerVars, Fifo!Grant, Fifo!Unread
  <2> QED  BY <2>2 DEF Fifo!FifoNext
<1>2. CASE AcquireWrapped
  <2>1. (put - got) + Expect < Size
    BY <1>2 DEF AcquireWrapped, RingInv, TypeOK, Index, RingContent, CalcFree, LinearFree, Least
  <2>2. Fifo!Grant
    BY <1>2, <2>1 DEF AcquireWrapped, consumerVars, Fifo!Grant, Fifo!Unread
  <2> QED  BY <2>2 DEF Fifo!FifoNext
<1>3. CASE AcquireRefused
  <2>1. put - got > Size - 2 * Expect
    BY <1>3 DEF AcquireRefused, RingInv, TypeOK, Index, RingContent, CalcFree, LinearFree, Least
  <2>2. Fifo!Refuse
    BY <1>3, <2>1 DEF AcquireRefused, consumerVars, Fifo!Refuse, Fifo!Unread
  <2> QED  BY <2>2 DEF Fifo!FifoNext
<1>4. CASE NothingRead
  <2>1. Fifo!Retry
    BY <1>4 DEF NothingRead, consumerVars, Fifo!Retry
  <2> QED  BY <2>1 DEF Fifo!FifoNext
<1>5. ASSUME NEW n \in 1 .. Expect, FillArea(n) PROVE UNCHANGED Fifo!fifoVars
  BY <1>5 DEF FillArea, consumerVars, Fifo!fifoVars
<1>6. CASE StoreInvalidate
  BY <1>6 DEF StoreInvalidate, consumerVars, Fifo!fifoVars
<1>7. CASE StoreWrite
  <2>1. written \in 1 .. Expect
    BY <1>7 DEF StoreWrite, RingInv, TypeOK, IndexesStored
  <2>2. Fifo!Publish(written)
    BY <1>7 DEF StoreWrite, consumerVars, Fifo!Publish
  <2> QED  BY <2>1, <2>2 DEF Fifo!FifoNext
<1> QED  BY <1>1, <1>2, <1>3, <1>4, <1>5, <1>6, <1>7 DEF Producer

(* The consumer's steps are the FIFO's: an offer is the oldest unread       *)
(* bytes, and nullptr is reported only when there are none.                *)
LEMMA ConsumerImplements ==
  ASSUME RingInv, Consumer
  PROVE  Fifo!FifoNext \/ UNCHANGED Fifo!fifoVars
<1> USE BufAssumption
<1>1. CASE ReadEmpty
  <2>1. put - got = 0
    BY <1>1 DEF ReadEmpty, RingInv, TypeOK, Index, RingContent
  <2>2. Fifo!ReportEmpty
    BY <1>1, <2>1 DEF ReadEmpty, producerVars, Fifo!ReportEmpty, Fifo!Unread
  <2> QED  BY <2>2 DEF Fifo!FifoNext
<1>2. CASE ReadLinear
  <2>1. len' \in 1 .. put - got
    BY <1>2 DEF ReadLinear, RingInv, TypeOK, Index, RingContent
  <2>2. Fifo!Offer(len')
    BY <1>2, <2>1 DEF ReadLinear, producerVars, Fifo!Offer, Fifo!Unread
  <2> QED  BY <2>1, <2>2 DEF Fifo!FifoNext, Fifo!Unread
<1>3. CASE ReadBehindWrap
  BY <1>3 DEF ReadBehindWrap, producerVars, Fifo!fifoVars
<1>4. CASE ReadToInvalidate
  <2>1. len' \in 1 .. put - got
    BY <1>4 DEF ReadToInvalidate, RingInv, TypeOK, Index, RingContent, ReaderView
  <2>2. Fifo!Offer(len')
    BY <1>4, <2>1 DEF ReadToInvalidate, producerVars, Fifo!Offer, Fifo!Unread
  <2> QED  BY <2>1, <2>2 DEF Fifo!FifoNext, Fifo!Unread
<1>5. CASE ReadWrap
  <2>1. len' \in 1 .. put - got
    BY <1>5 DEF ReadWrap, RingInv, TypeOK, Index, RingContent, ReaderView
  <2>2. Fifo!Offer(len')
    BY <1>5, <2>1 DEF ReadWrap, producerVars, Fifo!Offer, Fifo!Unread
  <2> QED  BY <2>1, <2>2 DEF Fifo!FifoNext, Fifo!Unread
<1>6. ASSUME NEW used \in 0 .. len, CopyOut(used) PROVE Fifo!FifoNext
  <2>1. copied' = [k \in 0 .. used - 1 |-> got + k]
    <3>1. RingInv' /\ len' = used /\ got' = got /\ rpc' = "copied"
      BY <1>6, CopyOutInv DEF CopyOut
    <3> QED  BY <3>1 DEF RingInv, ReaderView
  <2>2. Fifo!Take(used)
    BY <1>6, <2>1 DEF CopyOut, producerVars, Fifo!Take, Fifo!NextBytes
  <2> QED  BY <2>2 DEF Fifo!FifoNext
<1>7. CASE ReadRelease
  <2>1. Fifo!Consume
    BY <1>7 DEF ReadRelease, producerVars, Fifo!Consume
  <2> QED  BY <2>1 DEF Fifo!FifoNext
<1>8. CASE SeenEmpty
  <2>1. Fifo!LeaveEmpty
    BY <1>8 DEF SeenEmpty, producerVars, Fifo!LeaveEmpty
  <2> QED  BY <2>1 DEF Fifo!FifoNext
<1> QED  BY <1>1, <1>2, <1>3, <1>4, <1>5, <1>6, <1>7, <1>8 DEF Consumer

(* The ring implements the fifo: every byte published comes out once, in   *)
(* order; nullptr from WriteAcquire means fewer than 2 * Expect slots were *)
(* free, so a refused producer always leaves the consumer something to     *)
(* read; nullptr from ReadAcquire means that everything was read.          *)
THEOREM ImplementsFifo == Spec => Implements
<1>1. Init => Fifo!FifoInit
  BY DEF Init, Fifo!FifoInit, Fifo!NextBytes
<1>2. RingInv /\ [Next]_vars => [Fifo!FifoNext]_Fifo!fifoVars
  <2> SUFFICES ASSUME RingInv, [Next]_vars PROVE Fifo!FifoNext \/ UNCHANGED Fifo!fifoVars
    OBVIOUS
  <2>1. CASE Next
    BY <2>1, ProducerImplements, ConsumerImplements DEF Next
  <2>2. CASE UNCHANGED vars
    BY <2>2 DEF vars, producerVars, consumerVars, Fifo!fifoVars
  <2> QED  BY <2>1, <2>2
<1> QED  BY <1>1, <1>2, RingInvariant, PTL DEF Spec, Implements, Fifo!FifoSpec
=============================================================================
