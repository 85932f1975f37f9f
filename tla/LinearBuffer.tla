---------------------------- MODULE LinearBuffer ----------------------------
(***************************************************************************)
(* Buffer, the parser's linear buffer, and how IOInterface reads it and    *)
(* the ports refill it.  A buffer is a record: the container, whose size   *)
(* never changes and which keeps the bytes it had beyond the write pointer *)
(* and before the read pointer, and the two pointers, counted from 0.      *)
(* The operators are pure: they take a buffer and return one, or what the  *)
(* code would return.                                                      *)
(***************************************************************************)
EXTENDS Integers, Sequences

CRLF == <<"r", "n">>

Lesser(m, n) == IF m <= n THEN m ELSE n

(* Buffer(size): the container is resized, which fills it with one value. *)
NewBuffer(size, fill) == [data |-> [k \in 1 .. size |-> fill], rp |-> 0, wp |-> 0]

GetTotalSize(b) == Len(b.data)
GetLeftDataSize(b) == b.wp - b.rp

(* The unread bytes. *)
Held(b) == SubSeq(b.data, b.rp + 1, b.wp)

(* Peek(n): as many of the next n bytes as there are. *)
Peek(b, n) == SubSeq(b.data, b.rp + 1, b.rp + Lesser(GetLeftDataSize(b), n))

(* IOInterface::Drop. *)
UpdateReadPointer(b, n) == [b EXCEPT !.rp = @ + Lesser(n, GetLeftDataSize(b))]

UpdateWritePointer(b, n) == [b EXCEPT !.wp = @ + Lesser(n, GetTotalSize(b) - b.wp)]

(* bytes replace what the container has from index at on. *)
Overwrite(data, at, bytes) ==
  [k \in 1 .. Len(data) |-> IF k \in at + 1 .. at + Len(bytes) THEN bytes[k - at] ELSE data[k]]

(* Slip: the pointers move and the bytes stay. *)
ReorganizationInPlace(b) == [b EXCEPT !.rp = 0, !.wp = GetLeftDataSize(b)]

(* The unread bytes move to the front.  Nothing moves when they are there, *)
(* and a buffer that was read to its end only resets its pointers.         *)
Reorganization(b) ==
  IF b.rp = 0 THEN b
  ELSE [data |-> Overwrite(b.data, 0, Held(b)), rp |-> 0, wp |-> GetLeftDataSize(b)]

(* desired_bytes of a port: the room behind the unread bytes. *)
Room(b) == GetTotalSize(b) - GetLeftDataSize(b)

(* PrepareData... with bytes read, at most Room(b) of them. *)
Refill(b, bytes) ==
  LET r == Reorganization(b)
  IN  UpdateWritePointer([r EXCEPT !.data = Overwrite(@, r.wp, bytes)], Len(bytes))

(* Slip: the callbacks get the bytes from the front of the container. *)
FreshFromFront(b, n) == SubSeq(b.data, 1, n)

(* What the callbacks of the port get after a refill with n bytes: the     *)
(* container from left_bytes to left_bytes + read_bytes.                   *)
Fresh(b, n) == SubSeq(b.data, b.wp - n + 1, b.wp)

(* std::equal(pattern, it): reads the container, valid bytes or not. *)
EqualAt(b, pattern, k) == \A j \in 1 .. Len(pattern) : b.data[k + j] = pattern[j]

(* Slip: the pattern may begin at the last valid byte. *)
FindBeyond(b, pattern) ==
  LET at == {k \in 0 .. GetLeftDataSize(b) - 1 :
               b.rp + k + Len(pattern) <= GetTotalSize(b) /\ EqualAt(b, pattern, b.rp + k)}
  IN  IF at = {} THEN -1 ELSE CHOOSE k \in at : \A j \in at : k <= j

(* Find: the first place, counted from the read pointer, where the pattern *)
(* lies before the write pointer, or -1.                                   *)
Find(b, pattern) ==
  LET at == {k \in 0 .. GetLeftDataSize(b) - Len(pattern) : EqualAt(b, pattern, b.rp + k)}
  IN  IF at = {} THEN -1 ELSE CHOOSE k \in at : \A j \in at : k <= j

(* PeekLine: the bytes to the first CR LF, with it, or nothing. *)
PeekLine(b) ==
  LET cr == Find(b, CRLF)
  IN  IF cr < 0 THEN << >> ELSE Peek(b, cr + 2)
=============================================================================
