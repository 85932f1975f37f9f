------------------------- MODULE FrameParser_proofs -------------------------
(***************************************************************************)
(* The linear buffer and the parser, for any streams and any capacity.     *)
(* First what the operators of LinearBuffer keep of the unread bytes, then *)
(* what the parser makes of them; last, that what it delivers is what one  *)
(* scan over the whole stream would, however the stream comes in pieces.   *)
(***************************************************************************)
EXTENDS FrameParser, TLAPS, SequenceTheorems, WellFoundedInduction

USE ParserAssumption

-----------------------------------------------------------------------------
(* A buffer of n elements of S whose pointers are in order. *)
IsBuffer(b, S, n) ==
  /\ b = [data |-> b.data, rp |-> b.rp, wp |-> b.wp]
  /\ b.data \in Seq(S) /\ Len(b.data) = n
  /\ b.rp \in Nat /\ b.wp \in Nat /\ b.rp <= b.wp /\ b.wp <= n

(* The unread bytes, one by one. *)
LEMMA HeldIs ==
  ASSUME NEW S, NEW n \in Nat, NEW b, IsBuffer(b, S, n)
  PROVE  /\ Held(b) \in Seq(S) /\ Len(Held(b)) = b.wp - b.rp
         /\ GetLeftDataSize(b) = b.wp - b.rp /\ GetLeftDataSize(b) \in Nat
         /\ \A i \in 1 .. b.wp - b.rp : Held(b)[i] = b.data[b.rp + i]
<1>1. b.data \in Seq(S) /\ b.rp \in Nat /\ b.wp \in Nat /\ b.rp <= b.wp /\ b.wp <= Len(b.data)
  BY DEF IsBuffer
<1>2. \A i \in b.rp + 1 .. b.wp : b.data[i] \in S
  BY <1>1, ElementOfSeq, LenProperties
<1>3. b.rp + 1 \in Int /\ b.wp \in Int
  BY <1>1
<1>4. /\ SubSeq(b.data, b.rp + 1, b.wp) \in Seq(S)
      /\ Len(SubSeq(b.data, b.rp + 1, b.wp)) = IF b.rp + 1 <= b.wp THEN b.wp - (b.rp + 1) + 1 ELSE 0
      /\ \A i \in 1 .. b.wp - (b.rp + 1) + 1 :
           SubSeq(b.data, b.rp + 1, b.wp)[i] = b.data[(b.rp + 1) + i - 1]
  BY <1>2, <1>3, SubSeqProperties
<1>5. \A i \in 1 .. b.wp - b.rp : SubSeq(b.data, b.rp + 1, b.wp)[i] = b.data[b.rp + i]
  <2>. SUFFICES ASSUME NEW i \in 1 .. b.wp - b.rp
                PROVE  SubSeq(b.data, b.rp + 1, b.wp)[i] = b.data[b.rp + i]
    OBVIOUS
  <2>1. i \in 1 .. b.wp - (b.rp + 1) + 1 /\ (b.rp + 1) + i - 1 = b.rp + i
    BY <1>1
  <2>. QED
    BY <1>4, <2>1
<1>. QED
  BY <1>1, <1>4, <1>5 DEF Held, GetLeftDataSize

LEMMA OverwriteIs ==
  ASSUME NEW S, NEW data \in Seq(S), NEW at \in Nat, NEW bytes \in Seq(S)
  PROVE  /\ Overwrite(data, at, bytes) \in Seq(S)
         /\ Len(Overwrite(data, at, bytes)) = Len(data)
         /\ \A k \in 1 .. Len(data) :
              Overwrite(data, at, bytes)[k] =
                IF k \in at + 1 .. at + Len(bytes) THEN bytes[k - at] ELSE data[k]
<1>. DEFINE over == Overwrite(data, at, bytes)
            n == Len(data)
<1>1. n \in Nat /\ Len(bytes) \in Nat /\ data \in [1 .. n -> S]
  BY LenProperties
<1>2. \A k \in at + 1 .. at + Len(bytes) : k - at \in 1 .. Len(bytes) /\ bytes[k - at] \in S
  BY <1>1, ElementOfSeq
<1>3. over \in [1 .. n -> S]
  BY <1>1, <1>2 DEF Overwrite
<1>4. over \in Seq(S)
  BY <1>1, <1>3, SeqDef
<1>5. DOMAIN over = 1 .. n /\ DOMAIN over = 1 .. Len(over) /\ Len(over) \in Nat
  BY <1>3, <1>4, LenProperties
<1>6. Len(over) = n
  BY <1>1, <1>5
<1>. QED
  BY <1>4, <1>6 DEF Overwrite

(* Reorganization keeps what is unread, and puts it first. *)
LEMMA ReorganizationHolds ==
  ASSUME NEW S, NEW n \in Nat, NEW b, IsBuffer(b, S, n)
  PROVE  /\ IsBuffer(Reorganization(b), S, n)
         /\ Held(Reorganization(b)) = Held(b)
         /\ Reorganization(b).rp = 0 /\ Reorganization(b).wp = b.wp - b.rp
<1>1. /\ b.data \in Seq(S) /\ Len(b.data) = n /\ b.rp \in Nat /\ b.wp \in Nat
      /\ b.rp <= b.wp /\ b.wp <= n
  BY DEF IsBuffer
<1>2. CASE b.rp = 0
  BY <1>1, <1>2 DEF Reorganization
<1>3. CASE b.rp # 0
  <2>. DEFINE r == Reorganization(b)
              over == Overwrite(b.data, 0, Held(b))
  <2>1. r = [data |-> over, rp |-> 0, wp |-> GetLeftDataSize(b)]
    BY <1>3 DEF Reorganization
  <2>2. /\ Held(b) \in Seq(S) /\ Len(Held(b)) = b.wp - b.rp /\ GetLeftDataSize(b) = b.wp - b.rp
    BY HeldIs
  <2>3. /\ over \in Seq(S) /\ Len(over) = n
        /\ \A k \in 1 .. n : over[k] = IF k \in 0 + 1 .. 0 + Len(Held(b)) THEN Held(b)[k - 0] ELSE b.data[k]
    BY <1>1, <2>2, OverwriteIs
  <2>4. IsBuffer(r, S, n)
    BY <1>1, <2>1, <2>2, <2>3 DEF IsBuffer
  <2>5. /\ Held(r) \in Seq(S) /\ Len(Held(r)) = b.wp - b.rp
        /\ \A i \in 1 .. b.wp - b.rp : Held(r)[i] = over[0 + i]
    BY <2>1, <2>2, <2>4, HeldIs
  <2>6. \A i \in 1 .. b.wp - b.rp : Held(r)[i] = Held(b)[i]
    <3>. SUFFICES ASSUME NEW i \in 1 .. b.wp - b.rp PROVE Held(r)[i] = Held(b)[i]
      OBVIOUS
    <3>1. i \in 1 .. n /\ i \in 0 + 1 .. 0 + Len(Held(b)) /\ i - 0 = i /\ 0 + i = i
      BY <1>1, <2>2
    <3>. QED
      BY <2>3, <2>5, <3>1
  <2>7. Held(r) = Held(b)
    BY <2>2, <2>5, <2>6, SeqEqual
  <2>. QED
    BY <2>1, <2>2, <2>4, <2>7
<1>. QED
  BY <1>2, <1>3

(* Bytes written behind the w bytes at the front of a container.           *)
LEMMA BehindIs ==
  ASSUME NEW S, NEW n \in Nat, NEW data \in Seq(S), Len(data) = n,
         NEW w \in Nat, NEW m \in Nat, w + m <= n, NEW bytes \in Seq(S), Len(bytes) = m,
         NEW f, f = [data |-> Overwrite(data, w, bytes), rp |-> 0, wp |-> w + m]
  PROVE  /\ IsBuffer(f, S, n)
         /\ Held(f) = SubSeq(data, 1, w) \o bytes
         /\ Fresh(f, m) = bytes
<1>. DEFINE over == Overwrite(data, w, bytes)
<1>1. /\ over \in Seq(S) /\ Len(over) = n
      /\ \A k \in 1 .. n : over[k] = IF k \in w + 1 .. w + m THEN bytes[k - w] ELSE data[k]
  BY OverwriteIs
<1>. HIDE DEF over
<1>2. f.data = over /\ f.rp = 0 /\ f.wp = w + m /\ w + m \in Nat
  BY DEF over
<1>3. IsBuffer(f, S, n)
  BY <1>1, <1>2 DEF IsBuffer, over
<1>4. /\ Held(f) \in Seq(S) /\ Len(Held(f)) = w + m
      /\ \A i \in 1 .. w + m : Held(f)[i] = over[i]
  <2>1. /\ Held(f) \in Seq(S) /\ Len(Held(f)) = f.wp - f.rp
        /\ \A i \in 1 .. f.wp - f.rp : Held(f)[i] = f.data[f.rp + i]
    BY <1>3, HeldIs
  <2>2. f.wp - f.rp = w + m /\ \A i \in 1 .. w + m : 0 + i = i
    BY <1>2
  <2>. QED
    BY <1>2, <2>1, <2>2
<1>5. /\ SubSeq(data, 1, w) \in Seq(S) /\ Len(SubSeq(data, 1, w)) = w
      /\ \A i \in 1 .. w : SubSeq(data, 1, w)[i] = data[i]
  <2>1. \A i \in 1 .. w : data[i] \in S
    BY ElementOfSeq
  <2>2. /\ SubSeq(data, 1, w) \in Seq(S)
        /\ Len(SubSeq(data, 1, w)) = IF 1 <= w THEN w - 1 + 1 ELSE 0
        /\ \A i \in 1 .. w - 1 + 1 : SubSeq(data, 1, w)[i] = data[1 + i - 1]
    BY <2>1, SubSeqProperties
  <2>3. w - 1 + 1 = w /\ \A i \in 1 .. w : 1 + i - 1 = i
    OBVIOUS
  <2>. QED
    BY <2>2, <2>3
<1>6. Held(f) = SubSeq(data, 1, w) \o bytes
  <2>. DEFINE front == SubSeq(data, 1, w)
  <2>. HIDE DEF front
  <2>1. front \in Seq(S) /\ Len(front) = w /\ \A i \in 1 .. w : front[i] = data[i]
    BY <1>5 DEF front
  <2>2. /\ front \o bytes \in Seq(S) /\ Len(front \o bytes) = w + m
        /\ \A i \in 1 .. w + m : (front \o bytes)[i] = IF i <= w THEN front[i] ELSE bytes[i - w]
    BY <2>1, ConcatProperties, ZenonT(60)
  <2>3. \A i \in 1 .. w + m : Held(f)[i] = (front \o bytes)[i]
    <3>. SUFFICES ASSUME NEW i \in 1 .. w + m PROVE Held(f)[i] = (front \o bytes)[i]
      OBVIOUS
    <3>1. CASE i <= w
      <4>1. i \in 1 .. n /\ i \in 1 .. w /\ i \notin w + 1 .. w + m
        BY <3>1
      <4>. QED
        BY <1>1, <1>4, <2>1, <2>2, <3>1, <4>1
    <3>2. CASE ~(i <= w)
      <4>1. i \in 1 .. n /\ i \in w + 1 .. w + m
        BY <3>2
      <4>. QED
        BY <1>1, <1>4, <2>2, <3>2, <4>1
    <3>. QED
      BY <3>1, <3>2
  <2>4. Held(f) = front \o bytes
    BY <1>4, <2>2, <2>3, SeqEqual
  <2>. QED
    BY <2>4 DEF front
<1>7. Fresh(f, m) = bytes
  <2>1. Fresh(f, m) = SubSeq(over, w + 1, w + m)
    <3>1. w + m - m + 1 = w + 1
      OBVIOUS
    <3>. QED
      BY <1>2, <3>1 DEF Fresh
  <2>2. \A i \in w + 1 .. w + m : over[i] \in S
    BY <1>1, ElementOfSeq
  <2>3. \A lo, hi \in Int : (\A i \in lo .. hi : over[i] \in S) =>
          /\ SubSeq(over, lo, hi) \in Seq(S)
          /\ Len(SubSeq(over, lo, hi)) = IF lo <= hi THEN hi - lo + 1 ELSE 0
          /\ \A i \in 1 .. hi - lo + 1 : SubSeq(over, lo, hi)[i] = over[lo + i - 1]
    BY SubSeqProperties
  <2>4. /\ SubSeq(over, w + 1, w + m) \in Seq(S)
        /\ Len(SubSeq(over, w + 1, w + m)) = IF w + 1 <= w + m THEN w + m - (w + 1) + 1 ELSE 0
        /\ \A i \in 1 .. w + m - (w + 1) + 1 :
             SubSeq(over, w + 1, w + m)[i] = over[w + 1 + i - 1]
    <3>1. PICK lo \in Int, hi \in Int : lo = w + 1 /\ hi = w + m
      OBVIOUS
    <3>2. \A i \in lo .. hi : over[i] \in S
      BY <2>2, <3>1
    <3>3. /\ SubSeq(over, lo, hi) \in Seq(S)
          /\ Len(SubSeq(over, lo, hi)) = IF lo <= hi THEN hi - lo + 1 ELSE 0
          /\ \A i \in 1 .. hi - lo + 1 : SubSeq(over, lo, hi)[i] = over[lo + i - 1]
      BY <2>3, <3>2
    <3>. QED
      BY <3>1, <3>3
  <2>5. w + m - (w + 1) + 1 = m /\ \A i \in 1 .. m : w + 1 + i - 1 = w + i
    OBVIOUS
  <2>6. Len(Fresh(f, m)) = m
    BY <2>1, <2>4, <2>5
  <2>7. \A i \in 1 .. m : over[w + i] = bytes[i]
    <3>. SUFFICES ASSUME NEW i \in 1 .. m PROVE over[w + i] = bytes[i]
      OBVIOUS
    <3>1. w + i \in 1 .. n /\ w + i \in w + 1 .. w + m /\ (w + i) - w = i
      OBVIOUS
    <3>. QED
      BY <1>1, <3>1
  <2>8. \A i \in 1 .. m : Fresh(f, m)[i] = bytes[i]
    BY <2>1, <2>4, <2>5, <2>7
  <2>9. Fresh(f, m) \in Seq(S)
    BY <2>1, <2>4
  <2>. QED
    BY <2>6, <2>8, <2>9, SeqEqual
<1>. QED
  BY <1>3, <1>6, <1>7

(* A refill keeps what is unread and puts the new bytes behind it; the     *)
(* callbacks of the port get exactly the new bytes.                        *)
LEMMA RefillHolds ==
  ASSUME NEW S, NEW n \in Nat, NEW b, IsBuffer(b, S, n),
         NEW bytes \in Seq(S), Len(bytes) <= Room(b)
  PROVE  /\ IsBuffer(Refill(b, bytes), S, n)
         /\ Held(Refill(b, bytes)) = Held(b) \o bytes
         /\ Fresh(Refill(b, bytes), Len(bytes)) = bytes
<1>1. /\ b.data \in Seq(S) /\ Len(b.data) = n /\ b.rp \in Nat /\ b.wp \in Nat
      /\ b.rp <= b.wp /\ b.wp <= n
  BY DEF IsBuffer
<1>2. PICK m \in Nat : m = Len(bytes)
  BY LenProperties
<1>3. m <= n - (b.wp - b.rp)
  BY <1>1, <1>2, HeldIs DEF Room, GetTotalSize
<1>4. PICK r : r = Reorganization(b)
  OBVIOUS
<1>5. IsBuffer(r, S, n) /\ Held(r) = Held(b) /\ r.rp = 0 /\ r.wp = b.wp - b.rp
  BY <1>4, ReorganizationHolds
<1>6. PICK w \in Nat : w = r.wp
  BY <1>5 DEF IsBuffer
<1>7. PICK data \in Seq(S) : data = r.data /\ Len(data) = n
  BY <1>5 DEF IsBuffer
<1>8. w + m <= n
  BY <1>1, <1>3, <1>5, <1>6
<1>9. r = [data |-> data, rp |-> 0, wp |-> w]
  BY <1>5, <1>6, <1>7 DEF IsBuffer
<1>10. Refill(b, bytes) = [data |-> Overwrite(data, w, bytes), rp |-> 0, wp |-> w + m]
  <2>1. [r EXCEPT !.data = Overwrite(@, r.wp, bytes)] = [data |-> Overwrite(data, w, bytes), rp |-> 0, wp |-> w]
    BY <1>9
  <2>2. Len(Overwrite(data, w, bytes)) = n
    BY <1>7, OverwriteIs
  <2>3. Lesser(m, n - w) = m
    BY <1>8 DEF Lesser
  <2>. DEFINE q == [data |-> Overwrite(data, w, bytes), rp |-> 0, wp |-> w]
  <2>4. Refill(b, bytes) = UpdateWritePointer(q, m)
    BY <1>2, <1>4, <2>1 DEF Refill
  <2>5. UpdateWritePointer(q, m) = [q EXCEPT !.wp = w + m]
    BY <2>2, <2>3 DEF UpdateWritePointer, GetTotalSize
  <2>. QED
    BY <2>4, <2>5
<1>11. Held(b) = SubSeq(data, 1, w)
  <2>1. Held(r) = SubSeq(r.data, r.rp + 1, r.wp)
    BY DEF Held
  <2>2. r.data = data /\ r.rp + 1 = 1 /\ r.wp = w
    BY <1>9
  <2>. QED
    BY <1>5, <2>1, <2>2
<1>12. PICK f : f = Refill(b, bytes)
  OBVIOUS
<1>13. f = [data |-> Overwrite(data, w, bytes), rp |-> 0, wp |-> w + m]
  BY <1>10, <1>12
<1>14. IsBuffer(f, S, n) /\ Held(f) = SubSeq(data, 1, w) \o bytes /\ Fresh(f, m) = bytes
  <2>1. Len(data) = n /\ Len(bytes) = m /\ w + m <= n
    BY <1>2, <1>7, <1>8
  <2>2. /\ n \in Nat /\ data \in Seq(S) /\ w \in Nat /\ m \in Nat /\ bytes \in Seq(S)
    OBVIOUS
  <2>. QED
    BY ONLY <1>13, <2>1, <2>2, BehindIs
<1>. QED
  BY <1>2, <1>11, <1>12, <1>14

(* Dropping n bytes leaves the others. *)
LEMMA DropHolds ==
  ASSUME NEW S, NEW n \in Nat, NEW b, IsBuffer(b, S, n), NEW m \in Nat, m <= b.wp - b.rp
  PROVE  /\ IsBuffer(UpdateReadPointer(b, m), S, n)
         /\ UpdateReadPointer(b, m).rp = b.rp + m /\ UpdateReadPointer(b, m).wp = b.wp
         /\ UpdateReadPointer(b, m).data = b.data
<1>1. /\ b.rp \in Nat /\ b.wp \in Nat /\ b.rp <= b.wp /\ b.wp <= n
      /\ b = [data |-> b.data, rp |-> b.rp, wp |-> b.wp]
  BY DEF IsBuffer
<1>2. Lesser(m, GetLeftDataSize(b)) = m
  BY <1>1 DEF Lesser, GetLeftDataSize
<1>3. UpdateReadPointer(b, m) = [data |-> b.data, rp |-> b.rp + m, wp |-> b.wp]
  BY <1>1, <1>2 DEF UpdateReadPointer
<1>. QED
  BY <1>1, <1>3 DEF IsBuffer

-----------------------------------------------------------------------------
(* Searching.                                                              *)
LEMMA LeastExists ==
  ASSUME NEW T, T \subseteq Nat, T # {}
  PROVE  \E x \in T : \A y \in T : x <= y
<1>1. PICK x \in T : \A y \in T : <<y, x>> \notin OpToRel(<, Nat)
  BY NatLessThanWellFounded, WFMin
<1>2. \A y \in T : ~(y < x)
  BY <1>1 DEF OpToRel
<1>. QED
  BY <1>2

LEMMA FindIs ==
  ASSUME NEW S, NEW n \in Nat, NEW b, IsBuffer(b, S, n)
  PROVE  \/ /\ Find(b, CRLF) = -1
            /\ \A k \in 0 .. b.wp - b.rp - 2 : ~EqualAt(b, CRLF, b.rp + k)
         \/ /\ Find(b, CRLF) \in 0 .. b.wp - b.rp - 2
            /\ EqualAt(b, CRLF, b.rp + Find(b, CRLF))
            /\ \A k \in 0 .. b.wp - b.rp - 2 : EqualAt(b, CRLF, b.rp + k) => Find(b, CRLF) <= k
<1>. DEFINE at == {k \in 0 .. b.wp - b.rp - 2 : EqualAt(b, CRLF, b.rp + k)}
<1>1. b.rp \in Nat /\ b.wp \in Nat
  BY DEF IsBuffer
<1>2. GetLeftDataSize(b) - Len(CRLF) = b.wp - b.rp - 2
  BY <1>1 DEF GetLeftDataSize, CRLF
<1>3. Find(b, CRLF) = IF at = {} THEN -1 ELSE CHOOSE k \in at : \A j \in at : k <= j
  <2>. DEFINE found == {k \in 0 .. GetLeftDataSize(b) - Len(CRLF) : EqualAt(b, CRLF, b.rp + k)}
  <2>1. found = at
    BY <1>2
  <2>2. Find(b, CRLF) = IF found = {} THEN -1 ELSE CHOOSE k \in found : \A j \in found : k <= j
    BY DEF Find
  <2>. HIDE DEF found, at
  <2>. QED
    BY <2>1, <2>2
<1>4. CASE at = {}
  BY <1>3, <1>4
<1>5. CASE at # {}
  <2>1. at \subseteq Nat
    BY <1>1
  <2>2. \E k \in at : \A j \in at : k <= j
    BY <1>5, <2>1, LeastExists
  <2>3. Find(b, CRLF) \in at /\ \A j \in at : Find(b, CRLF) <= j
    BY <1>3, <1>5, <2>2
  <2>. QED
    BY <2>3
<1>. QED
  BY <1>4, <1>5

(* The next m of the unread bytes. *)
LEMMA PeekIs ==
  ASSUME NEW S, NEW n \in Nat, NEW b, IsBuffer(b, S, n), NEW m \in Nat
  PROVE  /\ Peek(b, m) \in Seq(S)
         /\ Len(Peek(b, m)) = Lesser(b.wp - b.rp, m)
         /\ \A i \in 1 .. Lesser(b.wp - b.rp, m) : Peek(b, m)[i] = b.data[b.rp + i]
<1>1. /\ b.data \in Seq(S) /\ Len(b.data) = n /\ b.rp \in Nat /\ b.wp \in Nat
      /\ b.rp <= b.wp /\ b.wp <= n
  BY DEF IsBuffer
<1>2. PICK l \in Nat : l = Lesser(b.wp - b.rp, m) /\ l <= b.wp - b.rp
  BY <1>1 DEF Lesser
<1>3. PICK lo \in Nat : lo = b.rp + 1
  BY <1>1
<1>4. PICK hi \in Nat : hi = b.rp + l
  BY <1>1
<1>5. Peek(b, m) = SubSeq(b.data, lo, hi)
  BY <1>2, <1>3, <1>4 DEF Peek, GetLeftDataSize
<1>6. \A i \in lo .. hi : b.data[i] \in S
  BY <1>1, <1>2, <1>3, <1>4, ElementOfSeq
<1>7. /\ SubSeq(b.data, lo, hi) \in Seq(S)
      /\ Len(SubSeq(b.data, lo, hi)) = IF lo <= hi THEN hi - lo + 1 ELSE 0
      /\ \A i \in 1 .. hi - lo + 1 : SubSeq(b.data, lo, hi)[i] = b.data[lo + i - 1]
  BY <1>6, SubSeqProperties
<1>8. hi - lo + 1 = l /\ (lo <= hi \/ l = 0) /\ \A i \in 1 .. l : lo + i - 1 = b.rp + i
  BY <1>1, <1>3, <1>4, SMTT(30)
<1>. QED
  BY <1>2, <1>5, <1>7, <1>8

LEMMA LineIs ==
  ASSUME NEW S, NEW n \in Nat, NEW b, IsBuffer(b, S, n), PeekLine(b) # <<>>
  PROVE  /\ Find(b, CRLF) \in 0 .. b.wp - b.rp - 2
         /\ PeekLine(b) = Peek(b, Find(b, CRLF) + 2)
         /\ PeekLine(b) \in Seq(S)
         /\ Len(PeekLine(b)) = Find(b, CRLF) + 2
<1>0. Find(b, CRLF) = -1 \/ Find(b, CRLF) \in 0 .. b.wp - b.rp - 2
  BY FindIs
<1>1. Find(b, CRLF) \in 0 .. b.wp - b.rp - 2
  <2>1. ~(Find(b, CRLF) < 0)
    BY DEF PeekLine
  <2>. QED
    BY <1>0, <2>1
<1>2. PICK cr \in Nat : cr = Find(b, CRLF) /\ cr + 2 <= b.wp - b.rp
  BY <1>1 DEF IsBuffer
<1>3. PeekLine(b) = Peek(b, cr + 2)
  BY <1>2 DEF PeekLine
<1>4. b.wp - b.rp \in Int
  BY DEF IsBuffer
<1>5. Lesser(b.wp - b.rp, cr + 2) = cr + 2
  BY <1>2, <1>4 DEF Lesser
<1>6. Peek(b, cr + 2) \in Seq(S) /\ Len(Peek(b, cr + 2)) = cr + 2
  BY <1>5, PeekIs, SMTT(30)
<1>. QED
  BY <1>1, <1>2, <1>3, <1>6

-----------------------------------------------------------------------------
(* What the parser finds when it has a part of what is to come, it finds   *)
(* when it has more: b2 holds what b holds, and what comes after it.       *)
Ahead(b, b2) ==
  /\ b.wp - b.rp <= b2.wp - b2.rp
  /\ \A i \in 1 .. b.wp - b.rp : b.data[b.rp + i] = b2.data[b2.rp + i]

LEMMA PeekWhole ==
  ASSUME NEW S, NEW n \in Nat, NEW b, IsBuffer(b, S, n), NEW m \in Nat, m <= b.wp - b.rp
  PROVE  /\ Peek(b, m) \in Seq(S) /\ Len(Peek(b, m)) = m
         /\ \A i \in 1 .. m : Peek(b, m)[i] = b.data[b.rp + i]
<1>1. /\ b.data \in Seq(S) /\ Len(b.data) = n /\ b.rp \in Nat /\ b.wp \in Nat
      /\ b.rp <= b.wp /\ b.wp <= n
  BY DEF IsBuffer
<1>2. Lesser(b.wp - b.rp, m) = m
  BY <1>1 DEF Lesser
<1>3. PICK lo \in Nat, hi \in Nat : lo = b.rp + 1 /\ hi = b.rp + m
  BY <1>1
<1>4. Peek(b, m) = SubSeq(b.data, lo, hi)
  BY <1>2, <1>3 DEF Peek, GetLeftDataSize
<1>5. \A i \in lo .. hi : b.data[i] \in S
  BY <1>1, <1>3, ElementOfSeq
<1>6. /\ SubSeq(b.data, lo, hi) \in Seq(S)
      /\ Len(SubSeq(b.data, lo, hi)) = IF lo <= hi THEN hi - lo + 1 ELSE 0
      /\ \A i \in 1 .. hi - lo + 1 : SubSeq(b.data, lo, hi)[i] = b.data[lo + i - 1]
  BY <1>5, SubSeqProperties
<1>7. hi - lo + 1 = m /\ (lo <= hi \/ m = 0) /\ \A i \in 1 .. m : lo + i - 1 = b.rp + i
  <2>1. PICK r \in Nat : r = b.rp
    BY <1>1
  <2>2. lo = r + 1 /\ hi = r + m
    BY <1>3, <2>1
  <2>3. hi - lo + 1 = m /\ (lo <= hi \/ m = 0)
    BY <2>2
  <2>4. \A i \in 1 .. m : lo + i - 1 = r + i
    BY <2>2
  <2>. QED
    BY <2>1, <2>3, <2>4
<1>. QED
  BY <1>4, <1>6, <1>7

LEMMA PeekAhead ==
  ASSUME NEW S, NEW n \in Nat, NEW b, IsBuffer(b, S, n),
         NEW n2 \in Nat, NEW b2, IsBuffer(b2, S, n2), Ahead(b, b2),
         NEW m \in Nat, m <= b.wp - b.rp
  PROVE  Peek(b, m) = Peek(b2, m) /\ Len(Peek(b, m)) = m
<1>1. m <= b2.wp - b2.rp
  <2>1. b.wp - b.rp \in Int /\ b2.wp - b2.rp \in Int
    BY DEF IsBuffer
  <2>. QED
    BY <2>1 DEF Ahead
<1>3. /\ Peek(b, m) \in Seq(S) /\ Len(Peek(b, m)) = m
      /\ \A i \in 1 .. m : Peek(b, m)[i] = b.data[b.rp + i]
  BY PeekWhole
<1>4. /\ Peek(b2, m) \in Seq(S) /\ Len(Peek(b2, m)) = m
      /\ \A i \in 1 .. m : Peek(b2, m)[i] = b2.data[b2.rp + i]
  BY <1>1, PeekWhole
<1>5. \A i \in 1 .. m : b.data[b.rp + i] = b2.data[b2.rp + i]
  <2>1. b.wp - b.rp \in Int
    BY DEF IsBuffer
  <2>. QED
    BY <2>1 DEF Ahead
<1>6. \A i \in 1 .. m : Peek(b, m)[i] = Peek(b2, m)[i]
  BY <1>3, <1>4, <1>5
<1>. QED
  BY <1>3, <1>4, <1>6, SeqEqual

LEMMA LineAhead ==
  ASSUME NEW S, NEW n \in Nat, NEW b, IsBuffer(b, S, n),
         NEW n2 \in Nat, NEW b2, IsBuffer(b2, S, n2), Ahead(b, b2),
         PeekLine(b) # <<>>
  PROVE  PeekLine(b2) = PeekLine(b)
<1>1. PICK cr \in Nat : cr = Find(b, CRLF) /\ cr + 2 <= b.wp - b.rp
  BY LineIs, SMTT(30) DEF IsBuffer
<1>2. /\ b.rp \in Nat /\ b.wp \in Nat /\ b2.rp \in Nat /\ b2.wp \in Nat
      /\ b.wp - b.rp <= b2.wp - b2.rp
  BY DEF IsBuffer, Ahead
<1>3. \A k \in 0 .. b.wp - b.rp - 2 : EqualAt(b, CRLF, b.rp + k) <=> EqualAt(b2, CRLF, b2.rp + k)
  <2>. SUFFICES ASSUME NEW k \in 0 .. b.wp - b.rp - 2
                PROVE  EqualAt(b, CRLF, b.rp + k) <=> EqualAt(b2, CRLF, b2.rp + k)
    OBVIOUS
  <2>1. \A j \in 1 .. 2 : b.data[b.rp + k + j] = b2.data[b2.rp + k + j]
    <3>. SUFFICES ASSUME NEW j \in 1 .. 2 PROVE b.data[b.rp + k + j] = b2.data[b2.rp + k + j]
      OBVIOUS
    <3>1. /\ \A l \in Nat : \A i \in 0 .. l - 2 : i + j \in 1 .. l
          /\ \A u \in Nat, i \in Nat : u + (i + j) = u + i + j
      OBVIOUS
    <3>2. k \in Nat /\ b.wp - b.rp \in Nat
      BY <1>2
    <3>3. k + j \in 1 .. b.wp - b.rp
      BY <3>1, <3>2
    <3>4. b.rp + (k + j) = b.rp + k + j /\ b2.rp + (k + j) = b2.rp + k + j
      BY <1>2, <3>1, <3>2
    <3>5. b.data[b.rp + (k + j)] = b2.data[b2.rp + (k + j)]
      BY <3>3 DEF Ahead
    <3>. QED
      BY <3>4, <3>5
  <2>2. Len(CRLF) = 2
    BY DEF CRLF
  <2>. QED
    BY <2>1, <2>2 DEF EqualAt
<1>4. EqualAt(b, CRLF, b.rp + cr) /\ \A k \in 0 .. b.wp - b.rp - 2 : EqualAt(b, CRLF, b.rp + k) => cr <= k
  <2>1. Find(b, CRLF) = -1 \/
          /\ EqualAt(b, CRLF, b.rp + Find(b, CRLF))
          /\ \A k \in 0 .. b.wp - b.rp - 2 : EqualAt(b, CRLF, b.rp + k) => Find(b, CRLF) <= k
    BY FindIs
  <2>. QED
    BY <1>1, <2>1
<1>5. cr \in 0 .. b.wp - b.rp - 2 /\ cr \in 0 .. b2.wp - b2.rp - 2
  BY <1>1, <1>2, SMTT(30)
<1>6. EqualAt(b2, CRLF, b2.rp + cr)
  BY <1>3, <1>4, <1>5
<1>7. /\ Find(b2, CRLF) \in 0 .. b2.wp - b2.rp - 2 /\ EqualAt(b2, CRLF, b2.rp + Find(b2, CRLF))
      /\ Find(b2, CRLF) <= cr
  BY <1>5, <1>6, FindIs
<1>8. Find(b2, CRLF) \in 0 .. b.wp - b.rp - 2
  BY <1>2, <1>5, <1>7, SMTT(30)
<1>9. Find(b2, CRLF) = cr
  BY <1>3, <1>4, <1>7, <1>8
<1>10. cr + 2 \in Nat /\ ~(cr < 0)
  OBVIOUS
<1>. QED
  BY <1>1, <1>9, <1>10, PeekAhead DEF PeekLine

-----------------------------------------------------------------------------
(* The classes. *)
ClassNames == {"GMF", "NMEA", "RESPONSE", "OUTCONFIG", "PORT"}

LEMMA ClassesAre == DOMAIN Classes = 1 .. 5 /\ \A k \in 1 .. 5 : Classes[k] \in ClassNames
<1>1. DOMAIN Classes = 1 .. 5
  BY DEF Classes
<1>2. /\ Classes[1] = "GMF" /\ Classes[2] = "NMEA" /\ Classes[3] = "RESPONSE"
      /\ Classes[4] = "OUTCONFIG" /\ Classes[5] = "PORT"
  BY DEF Classes
<1>3. \A k \in 1 .. 5 : k = 1 \/ k = 2 \/ k = 3 \/ k = 4 \/ k = 5
  OBVIOUS
<1>. QED
  BY <1>1, <1>2, <1>3 DEF ClassNames

LEMMA SizesAre == \A c \in ClassNames : IdentifierSize(c) \in 1 .. 5
BY DEF ClassNames, IdentifierSize

(* The class the loop stops at is one, and those before it do not match. *)
LEMMA ClassAtIs ==
  ASSUME NEW b, Stops(b) # {}
  PROVE  \E k \in 1 .. 5 : /\ ClassAt(b) = Classes[k] /\ Match(Classes[k], b) # "none"
                           /\ \A j \in 1 .. 5 : j < k => Match(Classes[j], b) = "none"
<1>1. Stops(b) \subseteq 1 .. 5 /\ \A j \in 1 .. 5 : j \notin Stops(b) => Match(Classes[j], b) = "none"
  BY ClassesAre DEF Stops
<1>2. \E x \in Stops(b) : \A y \in Stops(b) : x <= y
  <2>1. Stops(b) \subseteq Nat
    BY <1>1
  <2>. QED
    BY <2>1, LeastExists
<1>3. Min(Stops(b)) \in Stops(b) /\ \A y \in Stops(b) : Min(Stops(b)) <= y
  BY <1>2 DEF Min
<1>4. PICK k \in 1 .. 5 : k = Min(Stops(b))
  BY <1>1, <1>3
<1>5. \A j \in 1 .. 5 : j < k => j \notin Stops(b)
  BY <1>3, <1>4
<1>. QED
  BY <1>1, <1>3, <1>4, <1>5 DEF ClassAt, Stops

LEMMA MatchIs ==
  ASSUME NEW S, NEW n \in Nat, NEW b, IsBuffer(b, S, n), NEW c \in ClassNames
  PROVE  /\ Match(c, b) = "truncated" => b.wp - b.rp < IdentifierSize(c)
         /\ Match(c, b) # "truncated" => IdentifierSize(c) <= b.wp - b.rp
         /\ Match(c, b) = "exact" => Peek(b, IdentifierSize(c)) \in Identifiers(c)
         /\ Match(c, b) = "none" => Peek(b, IdentifierSize(c)) \notin Identifiers(c)
         /\ Match(c, b) \in {"truncated", "exact", "none"}
<1>1. PICK m \in Nat : m = IdentifierSize(c)
  BY SizesAre
<1>2. Len(Peek(b, m)) = Lesser(b.wp - b.rp, m)
  <2>1. n \in Nat /\ IsBuffer(b, S, n) /\ m \in Nat
    OBVIOUS
  <2>2. /\ Peek(b, m) \in Seq(S) /\ Len(Peek(b, m)) = Lesser(b.wp - b.rp, m)
        /\ \A i \in 1 .. Lesser(b.wp - b.rp, m) : Peek(b, m)[i] = b.data[b.rp + i]
    BY ONLY <2>1, PeekIs
  <2>. QED
    BY <2>2
<1>3. b.wp - b.rp \in Int
  BY DEF IsBuffer
<1>4. (Len(Peek(b, m)) < m) <=> (b.wp - b.rp < m)
  BY <1>2, <1>3 DEF Lesser
<1>. QED
  BY <1>1, <1>3, <1>4 DEF Match

(* The first token of the identifiers of a class. *)
FirstOf(c) ==
  CASE c = "GMF" -> "A"
    [] c = "NMEA" -> "$"
    [] c = "RESPONSE" -> ">"
    [] c = "OUTCONFIG" -> "<"
    [] c = "PORT" -> "["

LEMMA FirstIs ==
  ASSUME NEW S, NEW n \in Nat, NEW b, IsBuffer(b, S, n), NEW c \in ClassNames, Match(c, b) = "exact"
  PROVE  b.wp - b.rp >= 1 /\ b.data[b.rp + 1] = FirstOf(c)
<1>1. PICK m \in 1 .. 5 : m = IdentifierSize(c)
  BY SizesAre
<1>2. m <= b.wp - b.rp /\ Peek(b, m) \in Identifiers(c)
  BY <1>1, MatchIs
<1>3. b.wp - b.rp \in Int
  BY DEF IsBuffer
<1>4. Lesser(b.wp - b.rp, m) = m
  BY <1>2, <1>3 DEF Lesser
<1>5. Peek(b, m)[1] = b.data[b.rp + 1]
  <2>1. n \in Nat /\ IsBuffer(b, S, n) /\ m \in Nat
    OBVIOUS
  <2>2. /\ Peek(b, m) \in Seq(S) /\ Len(Peek(b, m)) = Lesser(b.wp - b.rp, m)
        /\ \A i \in 1 .. Lesser(b.wp - b.rp, m) : Peek(b, m)[i] = b.data[b.rp + i]
    BY ONLY <2>1, PeekIs
  <2>. QED
    BY <1>4, <2>2
<1>6. Peek(b, m)[1] = FirstOf(c)
  BY <1>2 DEF Identifiers, FirstOf, ClassNames
<1>. QED
  BY <1>2, <1>3, <1>5, <1>6

LEMMA OneClassMatches ==
  ASSUME NEW S, NEW n \in Nat, NEW b, IsBuffer(b, S, n),
         NEW c \in ClassNames, NEW d \in ClassNames, Match(c, b) = "exact", Match(d, b) = "exact"
  PROVE  c = d
<1>1. FirstOf(c) = FirstOf(d)
  BY FirstIs
<1>. QED
  BY <1>1 DEF FirstOf, ClassNames

LEMMA MatchAhead ==
  ASSUME NEW S, NEW n \in Nat, NEW b, IsBuffer(b, S, n),
         NEW n2 \in Nat, NEW b2, IsBuffer(b2, S, n2), Ahead(b, b2),
         NEW c \in ClassNames, Match(c, b) # "truncated"
  PROVE  Match(c, b2) = Match(c, b)
<1>1. PICK m \in Nat : m = IdentifierSize(c) /\ m <= b.wp - b.rp
  BY SizesAre, MatchIs
<1>2. Peek(b2, m) = Peek(b, m) /\ Len(Peek(b, m)) = m
  BY <1>1, PeekAhead
<1>. QED
  BY <1>1, <1>2 DEF Match

-----------------------------------------------------------------------------
(* What a buffer decides of a frame is what one that holds more decides.   *)
LEMMA TokenAhead ==
  ASSUME NEW S, NEW n \in Nat, NEW b, IsBuffer(b, S, n), NEW b2, Ahead(b, b2),
         NEW i \in Nat \ {0}, i <= b.wp - b.rp
  PROVE  Token(b2, i) = Token(b, i)
<1>1. i \in 1 .. b.wp - b.rp
  BY DEF IsBuffer
<1>. QED
  BY <1>1 DEF Token, Ahead

LEMMA HasIs ==
  ASSUME NEW S, NEW n \in Nat, NEW b, IsBuffer(b, S, n), NEW m \in Nat
  PROVE  Has(b, m) <=> m <= b.wp - b.rp
<1>1. b.wp \in Nat /\ b.rp \in Nat
  BY DEF IsBuffer
<1>. QED
  BY <1>1 DEF Has, GetLeftDataSize

(* A frame that is known and complete lies in what is unread. *)
LEMMA FrameIs ==
  ASSUME NEW S, NEW n \in Nat, NEW b, IsBuffer(b, S, n), NEW c \in ClassNames,
         ~Incomplete(c, b), Supported(c, b)
  PROVE  /\ HeaderComplete(c, b)
         /\ FrameSize(c, b) \in Nat /\ 1 <= FrameSize(c, b) /\ FrameSize(c, b) <= b.wp - b.rp
         /\ Len(Frame(c, b)) = FrameSize(c, b)
<1>1. HeaderComplete(c, b) /\ (Binary(c) => Has(b, FrameSize(c, b)))
  BY DEF Incomplete
<1>2. CASE Binary(c)
  <2>1. BodyLen(b) \in {0, 1}
    BY DEF BodyLen
  <2>2. PICK m \in Nat : m = FrameSize(c, b) /\ m >= 1
    BY <1>2, <2>1 DEF FrameSize
  <2>3. m <= b.wp - b.rp
    BY <1>1, <1>2, <2>2, HasIs
  <2>4. Len(Peek(b, m)) = Lesser(b.wp - b.rp, m) /\ b.wp - b.rp \in Int
    BY PeekIs DEF IsBuffer
  <2>5. Len(Peek(b, m)) = m
    BY <2>3, <2>4 DEF Lesser
  <2>6. Frame(c, b) = Peek(b, m)
    BY <1>2, <2>2 DEF Frame
  <2>. QED
    BY <1>1, <2>2, <2>3, <2>5, <2>6
<1>3. CASE ~Binary(c)
  <2>1. PeekLine(b) # <<>> /\ FrameSize(c, b) = Len(PeekLine(b)) /\ Frame(c, b) = PeekLine(b)
    BY <1>1, <1>3 DEF HeaderComplete, FrameSize, Frame
  <2>2. PICK cr \in Nat : cr + 2 <= b.wp - b.rp /\ Len(PeekLine(b)) = cr + 2
    BY <2>1, LineIs DEF IsBuffer
  <2>. QED
    BY <1>1, <2>1, <2>2
<1>. QED
  BY <1>2, <1>3

LEMMA HeaderHasTwo ==
  ASSUME NEW S, NEW n \in Nat, NEW b, IsBuffer(b, S, n), NEW c \in ClassNames,
         Match(c, b) = "exact", HeaderComplete(c, b)
  PROVE  b.wp - b.rp >= 2
<1>1. CASE Binary(c)
  BY <1>1, HasIs DEF HeaderComplete, IsBuffer
<1>2. CASE ~Binary(c)
  <2>1. PeekLine(b) # <<>>
    BY <1>2 DEF HeaderComplete
  <2>. QED
    BY <2>1, LineIs DEF IsBuffer
<1>. QED
  BY <1>1, <1>2

(* What is said of a complete header or line, is said with more behind it. *)
LEMMA DecisionAhead ==
  ASSUME NEW S, NEW n \in Nat, NEW b, IsBuffer(b, S, n),
         NEW n2 \in Nat, NEW b2, IsBuffer(b2, S, n2), Ahead(b, b2),
         NEW c \in ClassNames, Match(c, b) = "exact", ~Incomplete(c, b)
  PROVE  /\ Supported(c, b2) = Supported(c, b)
         /\ Supported(c, b) => FrameSize(c, b2) = FrameSize(c, b) /\ Frame(c, b2) = Frame(c, b)
         /\ Supported(c, b) => Passes(c, b2) = Passes(c, b)
<1>1. HeaderComplete(c, b)
  BY DEF Incomplete
<1>2. Token(b2, 2) = Token(b, 2)
  BY <1>1, HeaderHasTwo, TokenAhead
<1>3. Supported(c, b2) = Supported(c, b)
  BY <1>2 DEF Supported
<1>4. ASSUME Supported(c, b)
      PROVE  FrameSize(c, b2) = FrameSize(c, b) /\ Frame(c, b2) = Frame(c, b)
  <2>1. CASE Binary(c)
    <3>1. 3 <= b.wp - b.rp
      BY <1>1, <2>1, HasIs DEF HeaderComplete
    <3>2. Token(b2, 3) = Token(b, 3)
      BY <3>1, TokenAhead
    <3>3. FrameSize(c, b2) = FrameSize(c, b)
      BY <2>1, <3>2 DEF FrameSize, BodyLen
    <3>4. FrameSize(c, b) \in Nat /\ FrameSize(c, b) <= b.wp - b.rp
      BY <1>4, FrameIs
    <3>5. Peek(b, FrameSize(c, b)) = Peek(b2, FrameSize(c, b))
      BY <3>4, PeekAhead
    <3>. QED
      BY <2>1, <3>3, <3>5 DEF Frame
  <2>2. CASE ~Binary(c)
    <3>1. PeekLine(b2) = PeekLine(b)
      BY <1>1, <2>2, LineAhead DEF HeaderComplete
    <3>. QED
      BY <2>2, <3>1 DEF Frame, FrameSize
  <2>. QED
    BY <2>1, <2>2
<1>5. Supported(c, b) => Passes(c, b2) = Passes(c, b)
  BY <1>4 DEF Passes
<1>. QED
  BY <1>3, <1>4, <1>5

(* What the loop decides about: there is something, and a frame lies in it. *)
LEMMA SomethingNext ==
  ASSUME NEW S, NEW n \in Nat, NEW b, IsBuffer(b, S, n), ~Truncated(b)
  PROVE  /\ 1 <= b.wp - b.rp
         /\ Stops(b) # {} =>
              /\ ClassAt(b) \in ClassNames /\ Match(ClassAt(b), b) = "exact"
              /\ ~Incomplete(ClassAt(b), b)
<1>1. CASE Stops(b) = {}
  <2>1. Match("GMF", b) = "none"
    <3>1. Classes[1] = "GMF" /\ 1 \in DOMAIN Classes
      BY DEF Classes
    <3>. QED
      BY <1>1, <3>1 DEF Stops
  <2>2. "GMF" \in ClassNames /\ IdentifierSize("GMF") = 1
    BY DEF ClassNames, IdentifierSize
  <2>3. IdentifierSize("GMF") <= b.wp - b.rp
    BY <2>1, <2>2, MatchIs
  <2>. QED
    BY <1>1, <2>2, <2>3
<1>2. CASE Stops(b) # {}
  <2>1. PICK k \in 1 .. 5 : ClassAt(b) = Classes[k] /\ Match(Classes[k], b) # "none"
    BY <1>2, ClassAtIs
  <2>2. ClassAt(b) \in ClassNames
    BY <2>1, ClassesAre
  <2>3. Match(ClassAt(b), b) = "exact" /\ ~Incomplete(ClassAt(b), b)
    BY <1>2 DEF Truncated
  <2>4. b.wp - b.rp >= 1
    BY <2>2, <2>3, FirstIs
  <2>. QED
    BY <2>2, <2>3, <2>4
<1>. QED
  BY <1>1, <1>2

(* The class is decided by the first that matches. *)
LEMMA ClassAhead ==
  ASSUME NEW S, NEW n \in Nat, NEW b, IsBuffer(b, S, n),
         NEW n2 \in Nat, NEW b2, IsBuffer(b2, S, n2), Ahead(b, b2),
         Stops(b) # {}, Match(ClassAt(b), b) = "exact"
  PROVE  Stops(b2) # {} /\ ClassAt(b2) = ClassAt(b) /\ Match(ClassAt(b), b2) = "exact"
<1>1. PICK k \in 1 .. 5 : /\ ClassAt(b) = Classes[k]
                          /\ \A j \in 1 .. 5 : j < k => Match(Classes[j], b) = "none"
  BY ClassAtIs
<1>2. ASSUME NEW j \in 1 .. 5, Match(Classes[j], b) # "truncated"
      PROVE  Match(Classes[j], b2) = Match(Classes[j], b)
  BY <1>2, ClassesAre, MatchAhead
<1>3. Match(Classes[k], b2) = "exact"
  BY <1>1, <1>2
<1>4. \A j \in 1 .. 5 : j < k => Match(Classes[j], b2) = "none"
  BY <1>1, <1>2
<1>5. k \in Stops(b2)
  BY <1>3, ClassesAre DEF Stops
<1>6. PICK l \in 1 .. 5 : /\ ClassAt(b2) = Classes[l] /\ Match(Classes[l], b2) # "none"
                          /\ \A j \in 1 .. 5 : j < l => Match(Classes[j], b2) = "none"
  BY <1>5, ClassAtIs
<1>7. l = k
  BY <1>3, <1>4, <1>6
<1>. QED
  BY <1>1, <1>3, <1>5, <1>6, <1>7

(* Whatever the loop decides on a part of what is to come, other than to   *)
(* wait for more, it decides on all of it.                                 *)
LEMMA DecidedAhead ==
  ASSUME NEW S, NEW n \in Nat, NEW b, IsBuffer(b, S, n),
         NEW n2 \in Nat, NEW b2, IsBuffer(b2, S, n2), Ahead(b, b2), ~Truncated(b)
  PROVE  /\ ~Truncated(b2)
         /\ FrameNext(b2) <=> FrameNext(b)
         /\ FrameNext(b) => /\ ClassAt(b2) = ClassAt(b)
                            /\ Frame(ClassAt(b), b2) = Frame(ClassAt(b), b)
                            /\ FrameSize(ClassAt(b), b2) = FrameSize(ClassAt(b), b)
<1>1. CASE Stops(b) = {}
  <2>1. ASSUME NEW j \in 1 .. 5 PROVE Match(Classes[j], b2) = "none"
    <3>1. Match(Classes[j], b) = "none"
      BY <1>1, ClassesAre DEF Stops
    <3>. QED
      BY <3>1, ClassesAre, MatchAhead
  <2>2. Stops(b2) = {}
    BY <2>1, ClassesAre DEF Stops
  <2>. QED
    BY <1>1, <2>2 DEF Truncated, FrameNext
<1>2. CASE Stops(b) # {}
  <2>1. PICK c \in ClassNames : c = ClassAt(b) /\ Match(c, b) = "exact" /\ ~Incomplete(c, b)
    BY <1>2, SomethingNext
  <2>2. Stops(b2) # {} /\ ClassAt(b2) = c /\ Match(c, b2) = "exact"
    BY <1>2, <2>1, ClassAhead
  <2>3. /\ Supported(c, b2) = Supported(c, b)
        /\ Supported(c, b) => FrameSize(c, b2) = FrameSize(c, b) /\ Frame(c, b2) = Frame(c, b)
        /\ Supported(c, b) => Passes(c, b2) = Passes(c, b)
    BY <2>1, DecisionAhead
  <2>4. ~Incomplete(c, b2)
    <3>1. b.wp - b.rp \in Nat /\ b2.wp - b2.rp \in Nat /\ b.wp - b.rp <= b2.wp - b2.rp
      BY DEF IsBuffer, Ahead
    <3>2. HeaderComplete(c, b)
      BY <2>1 DEF Incomplete
    <3>3. HeaderComplete(c, b2)
      <4>1. CASE Binary(c)
        <5>1. 3 <= b.wp - b.rp
          BY <3>2, <4>1, HasIs DEF HeaderComplete
        <5>2. 3 <= b2.wp - b2.rp
          BY <3>1, <5>1
        <5>. QED
          BY <4>1, <5>2, HasIs DEF HeaderComplete
      <4>2. CASE ~Binary(c)
        BY <3>2, <4>2, LineAhead DEF HeaderComplete
      <4>. QED
        BY <4>1, <4>2
    <3>4. ASSUME Binary(c), Supported(c, b) PROVE Has(b2, FrameSize(c, b2))
      <4>1. PICK m \in Nat : m = FrameSize(c, b) /\ m <= b.wp - b.rp
        BY <2>1, <3>4, FrameIs
      <4>2. m <= b2.wp - b2.rp /\ FrameSize(c, b2) = m
        BY <2>3, <3>1, <3>4, <4>1
      <4>. QED
        BY <4>2, HasIs
    <3>. QED
      BY <2>3, <3>3, <3>4 DEF Incomplete
  <2>5. ~Truncated(b2)
    BY <2>2, <2>4 DEF Truncated
  <2>6. FrameNext(b2) <=> FrameNext(b)
    BY <1>2, <2>1, <2>2, <2>3, <2>5 DEF FrameNext
  <2>7. FrameNext(b) => Supported(c, b)
    BY <2>1 DEF FrameNext
  <2>. QED
    BY <2>1, <2>2, <2>3, <2>5, <2>6, <2>7
<1>. QED
  BY <1>1, <1>2

-----------------------------------------------------------------------------
(* A buffer as a window on a stream. *)
Window(b, s, r, w) ==
  b.wp - b.rp = w - r /\ \A i \in 1 .. w - r : b.data[b.rp + i] = s[r + i]

LEMMA PartIs ==
  ASSUME NEW S, NEW s \in Seq(S), NEW r \in Nat, NEW w \in Nat, r <= w, w <= Len(s)
  PROVE  /\ SubSeq(s, r + 1, w) \in Seq(S) /\ Len(SubSeq(s, r + 1, w)) = w - r
         /\ \A i \in 1 .. w - r : SubSeq(s, r + 1, w)[i] = s[r + i]
<1>1. PICK lo \in Nat : lo = r + 1
  OBVIOUS
<1>2. \A i \in lo .. w : s[i] \in S
  BY <1>1, ElementOfSeq, LenProperties
<1>3. /\ SubSeq(s, lo, w) \in Seq(S)
      /\ Len(SubSeq(s, lo, w)) = IF lo <= w THEN w - lo + 1 ELSE 0
      /\ \A i \in 1 .. w - lo + 1 : SubSeq(s, lo, w)[i] = s[lo + i - 1]
  BY <1>2, SubSeqProperties
<1>4. w - lo + 1 = w - r /\ (lo <= w \/ w - r = 0) /\ \A i \in 1 .. w - r : lo + i - 1 = r + i
  BY <1>1
<1>. QED
  BY <1>1, <1>3, <1>4

LEMMA WindowIs ==
  ASSUME NEW S, NEW n \in Nat, NEW b, IsBuffer(b, S, n),
         NEW s \in Seq(S), NEW r \in Nat, NEW w \in Nat, r <= w, w <= Len(s)
  PROVE  /\ Window(b, s, r, w) => Held(b) = SubSeq(s, r + 1, w)
         /\ Held(b) = SubSeq(s, r + 1, w) => Window(b, s, r, w)
<1>1. /\ SubSeq(s, r + 1, w) \in Seq(S) /\ Len(SubSeq(s, r + 1, w)) = w - r
      /\ \A i \in 1 .. w - r : SubSeq(s, r + 1, w)[i] = s[r + i]
  BY PartIs
<1>2. /\ Held(b) \in Seq(S) /\ Len(Held(b)) = b.wp - b.rp
      /\ \A i \in 1 .. b.wp - b.rp : Held(b)[i] = b.data[b.rp + i]
  BY HeldIs
<1>3. ASSUME Window(b, s, r, w)
      PROVE  Held(b) = SubSeq(s, r + 1, w)
  <2>1. Len(Held(b)) = w - r /\ \A i \in 1 .. w - r : Held(b)[i] = s[r + i]
    BY <1>2, <1>3 DEF Window
  <2>. QED
    BY <1>1, <1>2, <2>1, SeqEqual
<1>4. ASSUME Held(b) = SubSeq(s, r + 1, w)
      PROVE  Window(b, s, r, w)
  BY <1>1, <1>2, <1>4 DEF Window
<1>. QED
  BY <1>3, <1>4

(* All of a stream from p on. *)
LEMMA FromIs ==
  ASSUME NEW S, NEW s \in Seq(S), NEW p \in 0 .. Len(s)
  PROVE  IsBuffer(From(s, p), S, Len(s))
BY LenProperties DEF IsBuffer, From

LEMMA FromIsAhead ==
  ASSUME NEW S, NEW b, NEW s \in Seq(S), NEW r \in Nat, NEW w \in Nat, r <= w, w <= Len(s),
         Window(b, s, r, w)
  PROVE  Ahead(b, From(s, r))
<1>1. Len(s) \in Nat
  BY LenProperties
<1>. QED
  BY <1>1 DEF Ahead, From, Window

-----------------------------------------------------------------------------
Base ==
  /\ stream \in Streams
  /\ IsBuffer(buf, Tokens, BufSize)
  /\ rd \in Nat /\ wr \in Nat /\ rd <= wr /\ wr <= Len(stream)
  /\ pc \in {"prepare", "scan"}
  /\ BufferIsWindow /\ TapIsStream

Deliveries ==
  /\ delivered \in Seq(ClassNames \X Nat \X Seq(Tokens))
  /\ \A k \in DOMAIN delivered : delivered[k][2] < rd

Inv == Base /\ Deliveries /\ NoIntactFrameSkipped

LEMMA StreamIs == Base => stream \in Seq(Tokens) /\ Len(stream) \in Nat
BY LenProperties DEF Base

LEMMA BufIsWindow ==
  ASSUME Base
  PROVE  Window(buf, stream, rd, wr) /\ buf.wp - buf.rp = wr - rd
<1>1. /\ IsBuffer(buf, Tokens, BufSize) /\ Held(buf) = SubSeq(stream, rd + 1, wr)
      /\ rd \in Nat /\ wr \in Nat /\ rd <= wr /\ wr <= Len(stream) /\ stream \in Seq(Tokens)
      /\ BufSize \in Nat
  BY StreamIs DEF Base, BufferIsWindow
<1>2. Window(buf, stream, rd, wr)
  BY ONLY <1>1, WindowIs
<1>. QED
  BY <1>2 DEF Window

LEMMA InitInv == Init => Inv
<1>. SUFFICES ASSUME Init PROVE Inv
  OBVIOUS
<1>1. buf = [data |-> [k \in 1 .. BufSize |-> "0"], rp |-> 0, wp |-> 0]
  BY DEF Init, NewBuffer
<1>2. IsBuffer(buf, Tokens, BufSize)
  <2>1. [k \in 1 .. BufSize |-> "0"] \in [1 .. BufSize -> Tokens]
    BY DEF Tokens
  <2>2. buf.data \in Seq(Tokens)
    BY <1>1, <2>1, SeqDef
  <2>3. DOMAIN buf.data = 1 .. BufSize /\ DOMAIN buf.data = 1 .. Len(buf.data) /\ Len(buf.data) \in Nat
    BY <1>1, <2>2, LenProperties
  <2>4. Len(buf.data) = BufSize
    BY <2>3
  <2>. QED
    BY <1>1, <2>2, <2>4 DEF IsBuffer
<1>3. stream \in Streams /\ rd = 0 /\ wr = 0 /\ pc = "prepare" /\ delivered = <<>> /\ tapped = <<>>
  BY DEF Init
<1>4. stream \in Seq(Tokens) /\ Len(stream) \in Nat
  BY <1>3, LenProperties
<1>5. BufferIsWindow
  <2>1. Window(buf, stream, 0, 0)
    BY <1>1 DEF Window
  <2>. QED
    BY <1>2, <1>3, <1>4, <2>1, WindowIs DEF BufferIsWindow
<1>6. TapIsStream
  BY <1>3, SubSeqEmpty DEF TapIsStream
<1>7. Base
  BY <1>2, <1>3, <1>4, <1>5, <1>6 DEF Base
<1>8. Deliveries
  <2>1. DOMAIN delivered = {}
    BY <1>3
  <2>. QED
    BY <1>3, <2>1, EmptySeq DEF Deliveries
<1>9. NoIntactFrameSkipped
  BY <1>3 DEF NoIntactFrameSkipped, IntactAt
<1>. QED
  BY <1>7, <1>8, <1>9 DEF Inv

(* PrepareData and the callbacks of the port. *)
LEMMA PrepareKeeps ==
  ASSUME Inv, NEW m \in 0 .. Len(stream) - wr, Prepare(m)
  PROVE  Inv'
<1>. DEFINE bytes == SubSeq(stream, wr + 1, wr + m)
<1>1. /\ m <= Room(buf) /\ wr + m <= Len(stream) /\ m \in Nat
      /\ buf' = Refill(buf, bytes) /\ wr' = wr + m /\ tapped' = tapped \o Fresh(buf', m)
      /\ pc' = "scan" /\ UNCHANGED <<stream, rd, delivered>>
  BY StreamIs DEF Prepare, Inv, Base
<1>2. /\ stream \in Seq(Tokens) /\ Len(stream) \in Nat /\ rd \in Nat /\ wr \in Nat /\ rd <= wr
      /\ IsBuffer(buf, Tokens, BufSize) /\ BufSize \in Nat
  BY StreamIs DEF Inv, Base
<1>3. PICK w \in Nat : w = wr + m
  BY <1>1, <1>2
<1>4. bytes \in Seq(Tokens) /\ Len(bytes) = m
  <2>1. /\ SubSeq(stream, wr + 1, w) \in Seq(Tokens) /\ Len(SubSeq(stream, wr + 1, w)) = w - wr
    BY <1>1, <1>2, <1>3, PartIs, SMTT(30)
  <2>. QED
    BY <1>1, <1>2, <1>3, <2>1
<1>5. /\ IsBuffer(Refill(buf, bytes), Tokens, BufSize)
      /\ Held(Refill(buf, bytes)) = Held(buf) \o bytes
      /\ Fresh(Refill(buf, bytes), Len(bytes)) = bytes
  <2>1. Len(bytes) <= Room(buf)
    BY <1>1, <1>4
  <2>2. bytes \in Seq(Tokens)
    BY <1>4
  <2>. HIDE DEF bytes
  <2>. QED
    BY ONLY <1>2, <2>1, <2>2, RefillHolds
<1>6. BufferIsWindow'
  <2>1. Held(buf) = SubSeq(stream, rd + 1, wr)
    BY DEF Inv, Base, BufferIsWindow
  <2>2. PICK lo \in 1 .. Len(stream) + 1 : lo = rd + 1 /\ wr \in lo - 1 .. Len(stream) /\ w \in wr .. Len(stream)
    BY <1>1, <1>2, <1>3
  <2>3. SubSeq(stream, lo, wr) \o SubSeq(stream, wr + 1, w) = SubSeq(stream, lo, w)
    BY <1>2, <2>2, ConcatAdjacentSubSeq
  <2>. QED
    BY <1>1, <1>3, <1>5, <2>1, <2>2, <2>3 DEF BufferIsWindow
<1>7. TapIsStream'
  <2>1. tapped = SubSeq(stream, 1, wr) /\ Fresh(buf', m) = SubSeq(stream, wr + 1, w)
    BY <1>1, <1>3, <1>4, <1>5 DEF Inv, Base, TapIsStream
  <2>2. 1 \in 1 .. Len(stream) + 1 /\ wr \in 1 - 1 .. Len(stream) /\ w \in wr .. Len(stream)
    BY <1>1, <1>2, <1>3
  <2>3. SubSeq(stream, 1, wr) \o SubSeq(stream, wr + 1, w) = SubSeq(stream, 1, w)
    BY <1>2, <2>2, ConcatAdjacentSubSeq
  <2>. QED
    BY <1>1, <1>3, <2>1, <2>3 DEF TapIsStream
<1>8. Base'
  BY <1>1, <1>2, <1>5, <1>6, <1>7 DEF Inv, Base
<1>9. Deliveries' /\ NoIntactFrameSkipped'
  BY <1>1 DEF Inv, Deliveries, NoIntactFrameSkipped
<1>. QED
  BY <1>8, <1>9 DEF Inv

(* m unread bytes are dropped. *)
LEMMA DropKeeps ==
  ASSUME Base, NEW m \in Nat, m <= wr - rd, Drop(m), UNCHANGED <<stream, wr, pc, tapped>>
  PROVE  Base' /\ rd' = rd + m
<1>1. /\ buf' = UpdateReadPointer(buf, m) /\ rd' = rd + m
  BY DEF Drop
<1>2. /\ stream \in Seq(Tokens) /\ Len(stream) \in Nat /\ rd \in Nat /\ wr \in Nat /\ rd <= wr
      /\ IsBuffer(buf, Tokens, BufSize) /\ BufSize \in Nat /\ wr <= Len(stream)
  BY StreamIs DEF Base
<1>3. /\ buf.wp - buf.rp = wr - rd /\ \A i \in 1 .. wr - rd : buf.data[buf.rp + i] = stream[rd + i]
  BY BufIsWindow DEF Window
<1>4. buf.rp \in Nat /\ buf.wp \in Nat
  BY <1>2 DEF IsBuffer
<1>5. /\ IsBuffer(UpdateReadPointer(buf, m), Tokens, BufSize)
      /\ UpdateReadPointer(buf, m).rp = buf.rp + m /\ UpdateReadPointer(buf, m).wp = buf.wp
      /\ UpdateReadPointer(buf, m).data = buf.data
  <2>1. m <= buf.wp - buf.rp
    BY <1>3
  <2>. QED
    BY <1>2, <2>1, DropHolds
<1>6. rd + m \in Nat /\ rd + m <= wr
  BY <1>2
<1>7. Window(buf', stream, rd + m, wr)
  <2>1. buf'.wp - buf'.rp = wr - (rd + m)
    <3>1. buf'.wp = buf.wp /\ buf'.rp = buf.rp + m
      BY <1>1, <1>5
    <3>2. wr \in Nat
      BY DEF Base
    <3>3. buf.wp - (buf.rp + m) = wr - (rd + m)
      <4>1. PICK p \in Nat, q \in Nat, x \in Nat, y \in Nat :
              p = buf.rp /\ q = buf.wp /\ x = rd /\ y = wr
        BY <1>2, <1>4, <3>2
      <4>2. q - p = y - x
        BY <1>3, <4>1
      <4>3. q - (p + m) = y - (x + m)
        BY <4>2
      <4>. QED
        BY <4>1, <4>3
    <3>. QED
      BY <3>1, <3>3
  <2>2. \A i \in 1 .. wr - (rd + m) : buf'.data[buf'.rp + i] = stream[(rd + m) + i]
    <3>. SUFFICES ASSUME NEW i \in 1 .. wr - (rd + m)
                  PROVE  buf'.data[buf'.rp + i] = stream[(rd + m) + i]
      OBVIOUS
    <3>1. m + i \in 1 .. wr - rd /\ buf.rp + (m + i) = (buf.rp + m) + i /\ rd + (m + i) = (rd + m) + i
      BY <1>2, <1>4
    <3>2. buf.data[buf.rp + (m + i)] = stream[rd + (m + i)]
      BY <1>3, <3>1
    <3>. QED
      BY <1>1, <1>5, <3>1, <3>2
  <2>. QED
    BY <2>1, <2>2 DEF Window
<1>8. Held(buf') = SubSeq(stream, (rd + m) + 1, wr)
  <2>1. IsBuffer(buf', Tokens, BufSize)
    BY <1>1, <1>5
  <2>. QED
    BY ONLY <1>2, <1>6, <1>7, <2>1, WindowIs
<1>9. BufferIsWindow'
  BY <1>1, <1>8 DEF BufferIsWindow
<1>10. TapIsStream'
  BY DEF Base, TapIsStream
<1>. QED
  BY <1>1, <1>5, <1>6, <1>9, <1>10 DEF Base

(* The same of the parser's buffer.                                        *)
LEMMA NotTruncatedIs ==
  ASSUME Base, ~Truncated(buf)
  PROVE  /\ 1 <= wr - rd
         /\ Stops(buf) # {} =>
              /\ ClassAt(buf) \in ClassNames /\ Match(ClassAt(buf), buf) = "exact"
              /\ ~Incomplete(ClassAt(buf), buf)
<1>1. /\ IsBuffer(buf, Tokens, BufSize) /\ BufSize \in Nat /\ buf.wp - buf.rp = wr - rd
      /\ ~Truncated(buf)
  BY BufIsWindow DEF Base
<1>2. /\ 1 <= buf.wp - buf.rp
      /\ Stops(buf) # {} =>
           /\ ClassAt(buf) \in ClassNames /\ Match(ClassAt(buf), buf) = "exact"
           /\ ~Incomplete(ClassAt(buf), buf)
  BY ONLY <1>1, SomethingNext
<1>. QED
  BY <1>1, <1>2

(* One byte is dropped: no intact frame starts with it. *)
LEMMA DropByteKeeps ==
  ASSUME Inv, DropByte
  PROVE  Inv'
<1>1. /\ pc = "scan" /\ ~Truncated(buf) /\ ~FrameNext(buf) /\ Drop(1)
      /\ UNCHANGED <<stream, wr, pc, delivered, tapped>>
  BY DEF DropByte
<1>2. Base
  BY DEF Inv
<1>3. 1 <= wr - rd
  BY <1>1, <1>2, NotTruncatedIs
<1>4. Base' /\ rd' = rd + 1
  BY <1>1, <1>2, <1>3, DropKeeps
<1>5. rd \in Nat /\ wr \in Nat /\ wr <= Len(stream) /\ stream \in Seq(Tokens) /\ Len(stream) \in Nat
  BY <1>2, StreamIs DEF Base
<1>6. Deliveries'
  <2>1. \A k \in DOMAIN delivered : delivered[k][2] \in Nat
    BY ElementOfSeq, LenProperties DEF Inv, Deliveries
  <2>. QED
    BY <1>1, <1>4, <1>5, <2>1 DEF Inv, Deliveries
<1>7. rd \notin IntactAt[stream]
  <2>. SUFFICES ASSUME rd \in IntactAt[stream] PROVE FALSE
    OBVIOUS
  <2>1. PICK c \in ClassNames : Intact(c, From(stream, rd))
    <3>1. PICK c \in Range(Classes) : Intact(c, From(stream, rd))
      BY <1>2 DEF IntactAt, Base
    <3>2. c \in ClassNames
      BY ClassesAre DEF Range
    <3>. QED
      BY <3>1, <3>2
  <2>. DEFINE whole == From(stream, rd)
  <2>2. rd \in 0 .. Len(stream)
    BY <1>3, <1>5
  <2>3. IsBuffer(whole, Tokens, Len(stream))
    BY <1>5, <2>2, FromIs
  <2>4. Ahead(buf, whole)
    BY <1>2, <1>3, <1>5, BufIsWindow, FromIsAhead
  <2>5. Match(c, whole) = "exact" /\ Supported(c, whole) /\ Passes(c, whole)
    BY <2>1 DEF Intact
  <2>. HIDE DEF whole
  <2>6. IsBuffer(buf, Tokens, BufSize) /\ BufSize \in Nat
    BY <1>2 DEF Base
  <2>7. Stops(buf) # {}
    <3>1. Match(c, buf) # "none"
      BY ONLY <1>5, <2>3, <2>4, <2>5, <2>6, MatchAhead, c \in ClassNames
    <3>2. \E k \in DOMAIN Classes : Classes[k] = c
      BY DEF Classes, ClassNames
    <3>. QED
      BY <3>1, <3>2 DEF Stops
  <2>8. PICK d \in ClassNames : d = ClassAt(buf) /\ Match(d, buf) = "exact" /\ ~Incomplete(d, buf)
    BY <1>1, <1>2, <2>7, NotTruncatedIs
  <2>9. Match(d, whole) = "exact"
    BY ONLY <1>5, <2>3, <2>4, <2>6, <2>8, MatchAhead, d \in ClassNames
  <2>10. d = c
    BY ONLY <1>5, <2>3, <2>5, <2>9, OneClassMatches, c \in ClassNames, d \in ClassNames
  <2>11. /\ Supported(d, whole) = Supported(d, buf)
         /\ Supported(d, buf) => Passes(d, whole) = Passes(d, buf)
    BY ONLY <1>5, <2>3, <2>4, <2>6, <2>8, DecisionAhead, d \in ClassNames
  <2>12. Supported(d, buf) /\ Passes(d, buf)
    BY <2>5, <2>10, <2>11
  <2>. QED
    BY <1>1, <2>7, <2>8, <2>12 DEF FrameNext
<1>8. NoIntactFrameSkipped'
  <2>. SUFFICES ASSUME NEW p \in IntactAt[stream], p < rd + 1
                PROVE  \E k \in DOMAIN delivered :
                         delivered[k][2] <= p /\ p < delivered[k][2] + Len(delivered[k][3])
    BY <1>1, <1>4 DEF NoIntactFrameSkipped, IntactAt
  <2>1. p \in Nat
    BY <1>2, <1>5 DEF IntactAt, Base
  <2>2. p < rd
    BY <1>5, <1>7, <2>1
  <2>. QED
    BY <2>2 DEF Inv, NoIntactFrameSkipped
<1>. QED
  BY <1>4, <1>6, <1>8 DEF Inv

(* A frame is delivered, and dropped as a whole. *)
LEMMA DeliverKeeps ==
  ASSUME Inv, Deliver
  PROVE  Inv'
<1>. DEFINE c == ClassAt(buf)
<1>1. /\ pc = "scan" /\ FrameNext(buf)
      /\ delivered' = Append(delivered, <<c, rd, Frame(c, buf)>>)
      /\ Drop(FrameSize(c, buf))
      /\ UNCHANGED <<stream, wr, pc, tapped>>
  BY DEF Deliver
<1>2. Base
  BY DEF Inv
<1>3. /\ Stops(buf) # {} /\ ~Truncated(buf) /\ Supported(c, buf) /\ Passes(c, buf)
  BY <1>1 DEF FrameNext
<1>4. c \in ClassNames /\ ~Incomplete(c, buf)
  BY <1>2, <1>3, NotTruncatedIs
<1>5. IsBuffer(buf, Tokens, BufSize) /\ BufSize \in Nat /\ buf.wp - buf.rp = wr - rd
  BY <1>2, BufIsWindow DEF Base
<1>6. PICK m \in Nat : m = FrameSize(c, buf) /\ 1 <= m /\ m <= wr - rd /\ Len(Frame(c, buf)) = m
  <2>. HIDE DEF c
  <2>. QED
    BY <1>3, <1>4, <1>5, FrameIs
<1>7. Base' /\ rd' = rd + m
  BY <1>1, <1>2, <1>6, DropKeeps
<1>8. rd \in Nat /\ wr \in Nat /\ wr <= Len(stream) /\ stream \in Seq(Tokens) /\ Len(stream) \in Nat
  BY <1>2, StreamIs DEF Base
<1>9. Frame(c, buf) \in Seq(Tokens)
  <2>. HIDE DEF c
  <2>1. CASE Binary(c)
    BY <1>5, <1>6, <2>1, PeekIs DEF Frame
  <2>2. CASE ~Binary(c)
    <3>1. PeekLine(buf) # <<>>
      BY <1>4, <2>2 DEF Incomplete, HeaderComplete
    <3>. QED
      BY <1>5, <2>2, <3>1, LineIs DEF Frame
  <2>. QED
    BY <2>1, <2>2
<1>. DEFINE T == ClassNames \X Nat \X Seq(Tokens)
            new == <<c, rd, Frame(c, buf)>>
            frame == Frame(c, buf)
<1>10. new \in T /\ new[2] = rd /\ new[3] = frame
  BY <1>4, <1>8, <1>9
<1>11. delivered \in Seq(T) /\ Len(delivered) \in Nat /\ DOMAIN delivered = 1 .. Len(delivered)
  BY LenProperties DEF Inv, Deliveries
<1>. HIDE DEF T, new, frame
<1>12. /\ delivered' \in Seq(T) /\ Len(delivered') = Len(delivered) + 1
       /\ \A k \in 1 .. Len(delivered) : delivered'[k] = delivered[k]
       /\ delivered'[Len(delivered) + 1] = new
  <2>1. delivered' = Append(delivered, new)
    BY <1>1 DEF new
  <2>. QED
    BY <1>10, <1>11, <2>1, AppendProperties
<1>13. DOMAIN delivered' = 1 .. Len(delivered) + 1
  BY <1>12, LenProperties
<1>14. Deliveries'
  <2>1. \A k \in 1 .. Len(delivered) : delivered[k] \in T
    BY <1>11, ElementOfSeq
  <2>2. \A k \in 1 .. Len(delivered) : delivered[k][2] \in Nat /\ delivered[k][2] < rd
    BY <1>11, <2>1 DEF T, Inv, Deliveries
  <2>3. \A k \in 1 .. Len(delivered) + 1 : delivered'[k][2] < rd + m
    <3>. SUFFICES ASSUME NEW k \in 1 .. Len(delivered) + 1 PROVE delivered'[k][2] < rd + m
      OBVIOUS
    <3>1. CASE k \in 1 .. Len(delivered)
      BY <1>6, <1>8, <1>12, <2>2, <3>1, SMTT(30)
    <3>2. CASE k = Len(delivered) + 1
      BY <1>6, <1>8, <1>10, <1>12, <3>2
    <3>. QED
      BY <1>11, <3>1, <3>2
  <2>. QED
    BY <1>7, <1>12, <1>13, <2>3 DEF T, Deliveries
<1>15. NoIntactFrameSkipped'
  <2>. SUFFICES ASSUME NEW p \in IntactAt[stream], p < rd + m
                PROVE  \E k \in DOMAIN delivered' :
                         delivered'[k][2] <= p /\ p < delivered'[k][2] + Len(delivered'[k][3])
    BY <1>1, <1>7 DEF NoIntactFrameSkipped, IntactAt
  <2>1. p \in Nat
    BY <1>2, <1>8 DEF IntactAt, Base
  <2>2. CASE p < rd
    <3>1. PICK k \in DOMAIN delivered :
             delivered[k][2] <= p /\ p < delivered[k][2] + Len(delivered[k][3])
      BY <2>2 DEF Inv, NoIntactFrameSkipped
    <3>2. k \in DOMAIN delivered' /\ delivered'[k] = delivered[k]
      BY <1>11, <1>12, <1>13
    <3>. QED
      BY <3>1, <3>2
  <2>3. CASE rd <= p
    <3>1. Len(delivered) + 1 \in DOMAIN delivered'
      BY <1>11, <1>13
    <3>2. delivered'[Len(delivered) + 1][2] = rd /\ Len(delivered'[Len(delivered) + 1][3]) = m
      BY <1>6, <1>10, <1>12 DEF frame
    <3>. QED
      BY <2>3, <3>1, <3>2
  <2>. QED
    BY <1>8, <2>1, <2>2, <2>3
<1>. QED
  BY <1>7, <1>14, <1>15 DEF Inv

LEMMA StepInv == Inv /\ [Next]_vars => Inv'
<1>. SUFFICES ASSUME Inv, [Next]_vars PROVE Inv'
  OBVIOUS
<1>1. CASE KeepTail
  <2>1. pc' = "prepare" /\ UNCHANGED <<stream, buf, rd, wr, delivered, tapped>>
    BY <1>1 DEF KeepTail
  <2>. QED
    BY <2>1 DEF Inv, Base, BufferIsWindow, TapIsStream, Deliveries, NoIntactFrameSkipped
<1>2. CASE UNCHANGED vars
  BY <1>2 DEF vars, Inv, Base, BufferIsWindow, TapIsStream, Deliveries, NoIntactFrameSkipped
<1>. QED
  BY <1>1, <1>2, PrepareKeeps, DropByteKeeps, DeliverKeeps DEF Next, Scan

(* The pointers of the buffer are in order and its size never changes.     *)
THEOREM TypeCorrect == Spec => []TypeOK
<1>1. Inv => TypeOK
  <2>. SUFFICES ASSUME Inv PROVE TypeOK
    OBVIOUS
  <2>1. /\ IsBuffer(buf, Tokens, BufSize) /\ rd \in Nat /\ wr \in Nat /\ rd <= wr /\ wr <= Len(stream)
        /\ Len(stream) \in Nat /\ stream \in Streams /\ pc \in {"prepare", "scan"}
    BY StreamIs DEF Inv, Base
  <2>2. buf.rp \in 0 .. buf.wp /\ buf.wp \in 0 .. BufSize
    BY <2>1 DEF IsBuffer
  <2>3. DOMAIN buf.data = 1 .. BufSize
    BY <2>1, LenProperties DEF IsBuffer
  <2>4. \A k \in DOMAIN delivered : delivered[k][1] \in Range(Classes) /\ delivered[k][2] < rd
    <3>1. \A k \in DOMAIN delivered : delivered[k] \in ClassNames \X Nat \X Seq(Tokens)
      BY ElementOfSeq, LenProperties DEF Inv, Deliveries
    <3>2. ClassNames \subseteq Range(Classes)
      BY DEF ClassNames, Classes, Range
    <3>. QED
      BY <3>1, <3>2 DEF Inv, Deliveries
  <2>. QED
    BY <2>1, <2>2, <2>3, <2>4 DEF TypeOK
<1>. QED
  BY InitInv, StepInv, <1>1, PTL DEF Spec

(* However Reorganization moves the tail and a port appends to it, the     *)
(* buffer holds what was received and neither dropped nor delivered.       *)
THEOREM BufferIsAWindow == Spec => []BufferIsWindow
<1>1. Inv => BufferIsWindow
  BY DEF Inv, Base
<1>. QED
  BY InitInv, StepInv, <1>1, PTL DEF Spec

(* The callbacks of the port are given each byte once and in order.        *)
THEOREM TapIsTheStream == Spec => []TapIsStream
<1>1. Inv => TapIsStream
  BY DEF Inv, Base
<1>. QED
  BY InitInv, StepInv, <1>1, PTL DEF Spec

(* Whatever the stream and however it is cut into reads, the scan goes     *)
(* past the start of an intact frame only by delivering it, or a frame     *)
(* that it lies inside.                                                    *)
THEOREM NoFrameIsSkipped == Spec => []NoIntactFrameSkipped
<1>1. Inv => NoIntactFrameSkipped
  BY DEF Inv
<1>. QED
  BY InitInv, StepInv, <1>1, PTL DEF Spec

-----------------------------------------------------------------------------
(* The reference, Frames, is a recursion on the position.  That it has a   *)
(* solution is not given: the position only grows, by at least one and to  *)
(* the end of the stream at most, so the positions from which there is no  *)
(* solution would have a last one, and there is none.                      *)
Turn(s, f, p) ==
  LET b == From(s, p)
  IN  IF Truncated(b) THEN << >>
      ELSE IF FrameNext(b)
           THEN << <<ClassAt(b), p, Frame(ClassAt(b), b)>> >> \o f[p + FrameSize(ClassAt(b), b)]
      ELSE f[p + 1]

Scanned(s) == CHOOSE f : f = [p \in 0 .. Len(s) |-> Turn(s, f, p)]

LEMMA FramesAre == ASSUME NEW s \in Streams PROVE Frames[s] = Scanned(s)[0]
BY DEF Frames, Scanned, Turn

(* The loop moves on, and within the stream.                               *)
LEMMA MovesOn ==
  ASSUME NEW s \in Seq(Tokens), NEW p \in 0 .. Len(s), NEW b, b = From(s, p), ~Truncated(b)
  PROVE  /\ p + 1 \in p + 1 .. Len(s)
         /\ FrameNext(b) => /\ FrameSize(ClassAt(b), b) \in Nat
                            /\ p + FrameSize(ClassAt(b), b) \in p + 1 .. Len(s)
                            /\ <<ClassAt(b), p, Frame(ClassAt(b), b)>> \in
                                 ClassNames \X Nat \X Seq(Tokens)
<1>1. Len(s) \in Nat /\ IsBuffer(b, Tokens, Len(s)) /\ b.wp - b.rp = Len(s) - p
  BY FromIs, LenProperties DEF From
<1>2. /\ 1 <= b.wp - b.rp
      /\ Stops(b) # {} =>
           /\ ClassAt(b) \in ClassNames /\ Match(ClassAt(b), b) = "exact"
           /\ ~Incomplete(ClassAt(b), b)
  BY <1>1, SomethingNext
<1>3. p + 1 \in p + 1 .. Len(s)
  BY <1>1, <1>2
<1>4. ASSUME FrameNext(b)
      PROVE  /\ FrameSize(ClassAt(b), b) \in Nat
             /\ p + FrameSize(ClassAt(b), b) \in p + 1 .. Len(s)
             /\ Frame(ClassAt(b), b) \in Seq(Tokens) /\ ClassAt(b) \in ClassNames
  <2>1. PICK c \in ClassNames : c = ClassAt(b) /\ ~Incomplete(c, b) /\ Supported(c, b)
    BY <1>2, <1>4 DEF FrameNext
  <2>2. HeaderComplete(c, b) /\ FrameSize(c, b) \in Nat /\ 1 <= FrameSize(c, b)
        /\ FrameSize(c, b) <= b.wp - b.rp
    BY <1>1, <2>1, FrameIs
  <2>3. Frame(c, b) \in Seq(Tokens)
    <3>1. CASE Binary(c)
      BY <1>1, <2>2, <3>1, PeekIs DEF Frame
    <3>2. CASE ~Binary(c)
      <4>1. PeekLine(b) # <<>>
        BY <2>2, <3>2 DEF HeaderComplete
      <4>. QED
        BY <1>1, <3>2, <4>1, LineIs DEF Frame
    <3>. QED
      BY <3>1, <3>2
  <2>4. PICK m \in Nat : m = FrameSize(c, b) /\ 1 <= m /\ m <= Len(s) - p
    BY <1>1, <2>2
  <2>. QED
    BY <1>1, <2>1, <2>3, <2>4
<1>. QED
  BY <1>3, <1>4

(* A turn reads the solution behind its own position only.                 *)
LEMMA TurnReadsOn ==
  ASSUME NEW s \in Seq(Tokens), NEW p \in 0 .. Len(s), NEW f, NEW g,
         \A q \in p + 1 .. Len(s) : f[q] = g[q]
  PROVE  Turn(s, f, p) = Turn(s, g, p)
<1>1. PICK b : b = From(s, p)
  OBVIOUS
<1>2. CASE Truncated(b)
  BY <1>1, <1>2 DEF Turn
<1>3. CASE ~Truncated(b) /\ FrameNext(b)
  <2>1. p + FrameSize(ClassAt(b), b) \in p + 1 .. Len(s)
    BY <1>1, <1>3, MovesOn
  <2>2. f[p + FrameSize(ClassAt(b), b)] = g[p + FrameSize(ClassAt(b), b)]
    BY <2>1
  <2>. QED
    BY <1>1, <1>3, <2>2 DEF Turn
<1>4. CASE ~Truncated(b) /\ ~FrameNext(b)
  <2>1. p + 1 \in p + 1 .. Len(s)
    BY <1>1, <1>4, MovesOn
  <2>2. f[p + 1] = g[p + 1]
    BY <2>1
  <2>. QED
    BY <1>1, <1>4, <2>2 DEF Turn
<1>. QED
  BY <1>2, <1>3, <1>4

(* A solution for the positions from p on.                                 *)
Solves(s, f, p) == f = [q \in p .. Len(s) |-> Turn(s, f, q)]

LEMMA SolutionGrows ==
  ASSUME NEW s \in Seq(Tokens), NEW p \in 0 .. Len(s), NEW f, Solves(s, f, p + 1)
  PROVE  \E g : Solves(s, g, p)
<1>1. Len(s) \in Nat
  BY LenProperties
<1>. DEFINE g == [q \in p .. Len(s) |-> IF q = p THEN Turn(s, f, p) ELSE f[q]]
<1>2. \A q \in p + 1 .. Len(s) : q \in p .. Len(s) /\ q # p
  BY <1>1
<1>3. \A q \in p + 1 .. Len(s) : g[q] = f[q]
  BY <1>2
<1>4. \A q \in p + 1 .. Len(s) : f[q] = Turn(s, f, q)
  BY DEF Solves
<1>5. ASSUME NEW q \in p .. Len(s) PROVE g[q] = Turn(s, g, q)
  <2>1. q \in 0 .. Len(s) /\ \A r \in q + 1 .. Len(s) : r \in p + 1 .. Len(s)
    BY <1>1
  <2>2. \A r \in q + 1 .. Len(s) : g[r] = f[r]
    BY <1>3, <2>1
  <2>. HIDE DEF g
  <2>3. Turn(s, g, q) = Turn(s, f, q)
    BY <2>1, <2>2, TurnReadsOn
  <2>4. CASE q = p
    BY <2>3, <2>4 DEF g
  <2>5. CASE q # p
    <3>1. q \in p + 1 .. Len(s)
      BY <2>5, <1>1
    <3>. QED
      BY <1>3, <1>4, <2>3, <3>1
  <2>. QED
    BY <2>4, <2>5
<1>6. g = [q \in p .. Len(s) |-> g[q]]
  OBVIOUS
<1>. HIDE DEF g
<1>7. Solves(s, g, p)
  BY <1>5, <1>6 DEF Solves
<1>. QED
  BY <1>7

(* There is one from the first position on.                                *)
LEMMA SolutionExists ==
  ASSUME NEW s \in Seq(Tokens)
  PROVE  Scanned(s) = [p \in 0 .. Len(s) |-> Turn(s, Scanned(s), p)]
<1>1. Len(s) \in Nat
  BY LenProperties
<1>. DEFINE Unsolved == {k \in 0 .. Len(s) : ~\E f : Solves(s, f, Len(s) - k)}
<1>2. Unsolved = {}
  <2>. SUFFICES ASSUME Unsolved # {} PROVE FALSE
    OBVIOUS
  <2>1. PICK k \in Unsolved : \A j \in Unsolved : k <= j
    <3>1. Unsolved \subseteq Nat
      BY <1>1
    <3>. HIDE DEF Unsolved
    <3>. QED
      BY <3>1, LeastExists
  <2>2. k \in 0 .. Len(s) /\ ~\E f : Solves(s, f, Len(s) - k)
    OBVIOUS
  <2>3. PICK p \in 0 .. Len(s) : p = Len(s) - k
    BY <1>1, <2>2, SMTT(30)
  <2>4. \E f : Solves(s, f, p + 1)
    <3>1. CASE k = 0
      <4>1. p + 1 .. Len(s) = {}
        BY <1>1, <2>3, <3>1
      <4>2. Solves(s, << >>, p + 1)
        BY <4>1 DEF Solves
      <4>. QED
        BY <4>2
    <3>2. CASE k # 0
      <4>1. k - 1 \in 0 .. Len(s) /\ ~(k <= k - 1) /\ Len(s) - (k - 1) = p + 1
        BY <1>1, <2>2, <2>3, <3>2
      <4>2. k - 1 \notin Unsolved
        BY <2>1, <4>1
      <4>. QED
        BY <4>1, <4>2
    <3>. QED
      BY <3>1, <3>2
  <2>5. \E f : Solves(s, f, p)
    BY <2>4, SolutionGrows
  <2>. QED
    BY <2>2, <2>3, <2>5
<1>3. \E f : Solves(s, f, 0)
  <2>1. Len(s) \in 0 .. Len(s) /\ Len(s) - Len(s) = 0
    BY <1>1
  <2>. QED
    BY <1>2, <2>1
<1>. QED
  BY <1>3 DEF Scanned, Solves

(* What the reference finds is a sequence, from every position.            *)
LEMMA ScannedIsSeq ==
  ASSUME NEW s \in Seq(Tokens), NEW p \in 0 .. Len(s)
  PROVE  Scanned(s)[p] \in Seq(ClassNames \X Nat \X Seq(Tokens))
<1>1. Len(s) \in Nat
  BY LenProperties
<1>. DEFINE T == ClassNames \X Nat \X Seq(Tokens)
            Bad == {k \in 0 .. Len(s) : Scanned(s)[Len(s) - k] \notin Seq(T)}
<1>2. Bad = {}
  <2>. SUFFICES ASSUME Bad # {} PROVE FALSE
    OBVIOUS
  <2>1. PICK k \in Bad : \A j \in Bad : k <= j
    <3>1. Bad \subseteq Nat
      BY <1>1
    <3>. HIDE DEF Bad
    <3>. QED
      BY <3>1, LeastExists
  <2>2. PICK q \in 0 .. Len(s) : q = Len(s) - k /\ Scanned(s)[q] \notin Seq(T)
    BY <1>1
  <2>3. ASSUME NEW r \in q + 1 .. Len(s) PROVE Scanned(s)[r] \in Seq(T)
    <3>1. PICK j \in 0 .. Len(s) : r = Len(s) - j /\ ~(k <= j)
      <4>1. Len(s) - r \in 0 .. Len(s) /\ r = Len(s) - (Len(s) - r) /\ ~(k <= Len(s) - r)
        BY <1>1, <2>2
      <4>. QED
        BY <4>1
    <3>2. j \notin Bad
      BY <2>1, <3>1
    <3>. QED
      BY <3>1, <3>2
  <2>4. Scanned(s)[q] = Turn(s, Scanned(s), q)
    <3>1. Scanned(s) = [x \in 0 .. Len(s) |-> Turn(s, Scanned(s), x)]
      BY SolutionExists
    <3>. QED
      BY <3>1
  <2>5. PICK b : b = From(s, q)
    OBVIOUS
  <2>6. Turn(s, Scanned(s), q) \in Seq(T)
    <3>1. CASE Truncated(b)
      BY <2>5, <3>1, EmptySeq DEF Turn
    <3>2. CASE ~Truncated(b) /\ FrameNext(b)
      <4>. DEFINE next == q + FrameSize(ClassAt(b), b)
                  found == <<ClassAt(b), q, Frame(ClassAt(b), b)>>
      <4>1. next \in q + 1 .. Len(s) /\ found \in T
        BY <2>5, <3>2, MovesOn
      <4>2. Turn(s, Scanned(s), q) = <<found>> \o Scanned(s)[next]
        BY <2>5, <3>2 DEF Turn
      <4>. HIDE DEF next, found, T
      <4>3. <<found>> \in Seq(T) /\ Scanned(s)[next] \in Seq(T)
        BY <2>3, <4>1
      <4>. QED
        BY <4>2, <4>3, ConcatProperties
    <3>3. CASE ~Truncated(b) /\ ~FrameNext(b)
      <4>1. q + 1 \in q + 1 .. Len(s)
        BY <2>5, <3>3, MovesOn
      <4>2. Turn(s, Scanned(s), q) = Scanned(s)[q + 1]
        BY <2>5, <3>3 DEF Turn
      <4>. QED
        BY <2>3, <4>1, <4>2
    <3>. QED
      BY <3>1, <3>2, <3>3
  <2>. QED
    BY <2>2, <2>4, <2>6
<1>3. Len(s) - p \in 0 .. Len(s) /\ Len(s) - (Len(s) - p) = p
  BY <1>1
<1>. QED
  BY <1>2, <1>3

(* What was delivered, and what the reference finds from here on, is what  *)
(* it finds in all; the loop only stops where it cannot decide.            *)
Accounted ==
  /\ Frames[stream] = delivered \o Scanned(stream)[rd]
  /\ pc = "prepare" => Truncated(buf)

LEMMA WholeIsAhead ==
  ASSUME Base
  PROVE  /\ rd \in 0 .. Len(stream) /\ IsBuffer(From(stream, rd), Tokens, Len(stream))
         /\ Ahead(buf, From(stream, rd))
         /\ wr = Len(stream) => Ahead(From(stream, rd), buf)
<1>1. /\ rd \in Nat /\ wr \in Nat /\ rd <= wr /\ wr <= Len(stream)
      /\ stream \in Seq(Tokens) /\ Len(stream) \in Nat
  BY StreamIs DEF Base
<1>2. Window(buf, stream, rd, wr)
  BY BufIsWindow
<1>3. rd \in 0 .. Len(stream)
  BY <1>1
<1>4. Ahead(buf, From(stream, rd))
  BY <1>1, <1>2, FromIsAhead
<1>5. wr = Len(stream) => Ahead(From(stream, rd), buf)
  BY <1>1, <1>2 DEF Ahead, From, Window
<1>. QED
  BY <1>1, <1>3, <1>4, <1>5, FromIs

(* The turns of the loop are the turns of the reference.                   *)
LEMMA TurnIs ==
  ASSUME Base, ~Truncated(buf)
  PROVE  /\ FrameNext(buf) =>
              Scanned(stream)[rd] = << <<ClassAt(buf), rd, Frame(ClassAt(buf), buf)>> >>
                                      \o Scanned(stream)[rd + FrameSize(ClassAt(buf), buf)]
         /\ ~FrameNext(buf) => Scanned(stream)[rd] = Scanned(stream)[rd + 1]
<1>1. PICK b : b = From(stream, rd)
  OBVIOUS
<1>2. /\ IsBuffer(buf, Tokens, BufSize) /\ BufSize \in Nat
      /\ IsBuffer(b, Tokens, Len(stream)) /\ Len(stream) \in Nat
      /\ Ahead(buf, b) /\ rd \in 0 .. Len(stream) /\ stream \in Seq(Tokens)
      /\ ~Truncated(buf)
  BY <1>1, WholeIsAhead, StreamIs DEF Base
<1>3. /\ ~Truncated(b)
      /\ FrameNext(b) <=> FrameNext(buf)
      /\ FrameNext(buf) => /\ ClassAt(b) = ClassAt(buf)
                           /\ Frame(ClassAt(buf), b) = Frame(ClassAt(buf), buf)
                           /\ FrameSize(ClassAt(buf), b) = FrameSize(ClassAt(buf), buf)
  BY ONLY <1>2, DecidedAhead
<1>4. Scanned(stream)[rd] = Turn(stream, Scanned(stream), rd)
  <2>1. Scanned(stream) = [p \in 0 .. Len(stream) |-> Turn(stream, Scanned(stream), p)]
    BY <1>2, SolutionExists
  <2>. QED
    BY <1>2, <2>1
<1>. QED
  BY <1>1, <1>3, <1>4 DEF Turn

LEMMA AccountedInit == Init => Accounted
<1>. SUFFICES ASSUME Init PROVE Accounted
  OBVIOUS
<1>1. Base /\ rd = 0 /\ wr = 0 /\ delivered = << >>
  BY InitInv DEF Init, Inv
<1>2. stream \in Seq(Tokens) /\ stream \in Streams /\ 0 \in 0 .. Len(stream)
  BY <1>1, StreamIs DEF Base
<1>3. Frames[stream] = << >> \o Scanned(stream)[0]
  BY <1>2, FramesAre, ScannedIsSeq, ConcatEmptySeq
<1>4. Truncated(buf)
  BY <1>1, NotTruncatedIs
<1>. QED
  BY <1>1, <1>3, <1>4 DEF Accounted

LEMMA AccountedDeliver == Inv /\ Accounted /\ Deliver => Accounted'
<1>. SUFFICES ASSUME Inv, Accounted, Deliver PROVE Accounted'
  OBVIOUS
<1>. DEFINE T == ClassNames \X Nat \X Seq(Tokens)
            found == <<ClassAt(buf), rd, Frame(ClassAt(buf), buf)>>
            next == rd + FrameSize(ClassAt(buf), buf)
<1>1. /\ FrameNext(buf) /\ ~Truncated(buf) /\ delivered' = Append(delivered, found)
      /\ rd' = next /\ pc = "scan" /\ pc' = pc /\ stream' = stream
  BY DEF Deliver, FrameNext, Drop
<1>2. Base /\ delivered \in Seq(T)
  BY DEF Inv, Deliveries
<1>3. Scanned(stream)[rd] = <<found>> \o Scanned(stream)[next]
  BY <1>1, <1>2, TurnIs
<1>4. Inv'
  BY StepInv DEF Next, Scan
<1>5. next \in 0 .. Len(stream)
  <2>1. Base' /\ rd' = next /\ stream' = stream
    BY <1>1, <1>4 DEF Inv
  <2>2. rd' \in Nat /\ rd' <= wr' /\ wr' \in Nat /\ wr' <= Len(stream')
    BY <2>1 DEF Base
  <2>3. Len(stream) \in Nat
    BY <1>2, StreamIs
  <2>. HIDE DEF next
  <2>. QED
    BY <2>1, <2>2, <2>3
<1>6. delivered' \in Seq(T) /\ Len(delivered') = Len(delivered) + 1 /\ Len(delivered) \in Nat
  <2>1. Len(delivered) \in Nat /\ delivered' \in Seq(T)
    BY <1>2, <1>4, LenProperties DEF Inv, Deliveries
  <2>. QED
    BY <1>1, <1>2, <2>1
<1>7. found \in T
  <2>1. delivered'[Len(delivered) + 1] = found
    BY <1>1, <1>2
  <2>2. Len(delivered) + 1 \in 1 .. Len(delivered')
    BY <1>6
  <2>. HIDE DEF T, found
  <2>. QED
    BY <1>6, <2>1, <2>2, ElementOfSeq
<1>8. Scanned(stream)[next] \in Seq(T)
  BY <1>2, <1>5, StreamIs, ScannedIsSeq
<1>9. delivered' \o Scanned(stream)[next] = delivered \o Scanned(stream)[rd]
  <2>. HIDE DEF T, found, next
  <2>1. delivered' = delivered \o <<found>>
    BY <1>1, <1>2, <1>7, AppendIsConcat
  <2>2. <<found>> \in Seq(T)
    BY <1>7
  <2>3. delivered \in Seq(T) /\ Scanned(stream)[next] \in Seq(T)
    BY <1>2, <1>8 DEF T
  <2>4. PICK x \in Seq(T), y \in Seq(T), z \in Seq(T) :
           x = delivered /\ y = <<found>> /\ z = Scanned(stream)[next]
    BY <2>2, <2>3
  <2>5. (x \o y) \o z = x \o (y \o z)
    BY ConcatAssociative
  <2>. QED
    BY <1>3, <2>1, <2>4, <2>5
<1>. QED
  BY <1>1, <1>9 DEF Accounted

LEMMA AccountedStep == Inv /\ Accounted /\ [Next]_vars => Accounted'
<1>. SUFFICES ASSUME Inv, Accounted, [Next]_vars PROVE Accounted'
  OBVIOUS
<1>1. CASE DropByte
  <2>1. /\ ~Truncated(buf) /\ ~FrameNext(buf) /\ rd' = rd + 1 /\ pc = "scan"
        /\ UNCHANGED <<stream, delivered, pc>>
    BY <1>1 DEF DropByte, Drop
  <2>2. Scanned(stream)[rd] = Scanned(stream)[rd + 1]
    BY <2>1, TurnIs DEF Inv
  <2>. QED
    BY <2>1, <2>2 DEF Accounted
<1>2. CASE KeepTail
  BY <1>2 DEF KeepTail, Accounted
<1>3. CASE \E m \in 0 .. Len(stream) - wr : Prepare(m)
  BY <1>3 DEF Prepare, Accounted
<1>4. CASE UNCHANGED vars
  BY <1>4 DEF vars, Accounted
<1>. QED
  BY <1>1, <1>2, <1>3, <1>4, AccountedDeliver DEF Next, Scan

(* What is accounted for does not depend on the pieces.                    *)
LEMMA AccountedIsEnough == Inv /\ Accounted => PiecesDoNotMatter
<1>. SUFFICES ASSUME Inv, Accounted PROVE PiecesDoNotMatter
  OBVIOUS
<1>. DEFINE T == ClassNames \X Nat \X Seq(Tokens)
            rest == Scanned(stream)[rd]
<1>1. Base /\ delivered \in Seq(T)
  BY DEF Inv, Deliveries
<1>2. rest \in Seq(T)
  BY <1>1, WholeIsAhead, StreamIs, ScannedIsSeq
<1>3. Frames[stream] = delivered \o rest
  BY DEF Accounted
<1>4. IsPrefix(delivered, Frames[stream])
  <2>. HIDE DEF T, rest
  <2>1. PICK n \in Nat : n = Len(delivered)
    BY <1>1, LenProperties
  <2>2. /\ delivered \o rest \in Seq(T) /\ Len(delivered \o rest) = n + Len(rest)
        /\ Len(rest) \in Nat
        /\ \A i \in 1 .. n + Len(rest) :
             (delivered \o rest)[i] = IF i <= n THEN delivered[i] ELSE rest[i - n]
    BY <1>1, <1>2, <2>1, ConcatProperties, LenProperties
  <2>3. PICK both \in Seq(T) : both = delivered \o rest
    BY <2>2
  <2>4. n <= Len(both) /\ \A i \in 1 .. n : both[i] = delivered[i]
    BY <2>2, <2>3
  <2>5. /\ SubSeq(delivered, 0 + 1, n) \in Seq(T) /\ Len(SubSeq(delivered, 0 + 1, n)) = n - 0
        /\ \A i \in 1 .. n - 0 : SubSeq(delivered, 0 + 1, n)[i] = delivered[0 + i]
    BY <1>1, <2>1, PartIs
  <2>6. /\ SubSeq(both, 0 + 1, n) \in Seq(T) /\ Len(SubSeq(both, 0 + 1, n)) = n - 0
        /\ \A i \in 1 .. n - 0 : SubSeq(both, 0 + 1, n)[i] = both[0 + i]
    BY <2>3, <2>4, PartIs
  <2>7. SubSeq(delivered, 1, n) = SubSeq(both, 1, n)
    BY <2>4, <2>5, <2>6, SeqEqual
  <2>. QED
    BY <1>3, <2>1, <2>3, <2>4, <2>7 DEF IsPrefix
<1>5. ASSUME pc = "prepare", wr = Len(stream) PROVE delivered = Frames[stream]
  <2>1. PICK b : b = From(stream, rd)
    OBVIOUS
  <2>2. /\ IsBuffer(buf, Tokens, BufSize) /\ BufSize \in Nat
        /\ IsBuffer(b, Tokens, Len(stream)) /\ Len(stream) \in Nat
        /\ Ahead(b, buf) /\ rd \in 0 .. Len(stream) /\ stream \in Seq(Tokens)
    BY <1>1, <1>5, <2>1, WholeIsAhead, StreamIs DEF Base
  <2>3. Truncated(buf)
    BY <1>5 DEF Accounted
  <2>4. ~Truncated(b) => ~Truncated(buf)
    BY ONLY <2>2, DecidedAhead
  <2>5. Scanned(stream) = [p \in 0 .. Len(stream) |-> Turn(stream, Scanned(stream), p)]
    BY <2>2, SolutionExists
  <2>6. rest = << >>
    BY <2>1, <2>2, <2>3, <2>4, <2>5 DEF Turn
  <2>. HIDE DEF T, rest
  <2>. QED
    BY <1>1, <1>3, <2>6, ConcatEmptySeq
<1>. QED
  BY <1>4, <1>5 DEF PiecesDoNotMatter

(* However the stream is cut into reads, the same frames are delivered, in *)
(* the same order and with the same bytes, as if all of it had been there  *)
(* at once, for any streams and any capacity of the buffer.                *)
THEOREM PiecesMakeNoDifference == Spec => []PiecesDoNotMatter
<1>. QED
  BY InitInv, StepInv, AccountedInit, AccountedStep, AccountedIsEnough, PTL DEF Spec
=============================================================================
