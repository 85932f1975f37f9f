--------------------------- MODULE CommandChannel ---------------------------
(***************************************************************************)
(* What SendMessage promises to its callers, whatever threads they are:    *)
(* texts go out one after the other.  A call that returns Ok has put its   *)
(* whole text behind all that went out before; one that returns Err has    *)
(* put out the beginning of its text, or nothing.                          *)
(***************************************************************************)
EXTENDS Sequences, Naturals

CONSTANTS
  Callers,
  Texts,    (* sequences of pieces                                         *)
  Torn      (* a part of a piece                                           *)

VARIABLES
  asked,    (* of each caller: the text of the call it is in, or <<>>      *)
  line,     (* what the calls that returned have put out                   *)
  sent      (* the calls that returned, and what: [text, ok]               *)

vars == <<asked, line, sent>>

Init ==
  /\ asked = [c \in Callers |-> <<>>]
  /\ line = <<>> /\ sent = <<>>

Ask(c) ==
  /\ asked[c] = <<>>
  /\ \E text \in Texts \ {<<>>} : asked' = [asked EXCEPT ![c] = text]
  /\ UNCHANGED <<line, sent>>

Answer(c, ok) ==
  /\ asked' = [asked EXCEPT ![c] = <<>>]
  /\ sent' = Append(sent, [text |-> asked[c], ok |-> ok])

ReturnOk(c) ==
  /\ asked[c] # <<>>
  /\ line' = line \o asked[c]
  /\ Answer(c, TRUE)

ReturnErr(c) ==
  /\ asked[c] # <<>>
  /\ \E n \in 0 .. Len(asked[c]) - 1, tail \in {<<>>, <<Torn>>} :
       line' = line \o SubSeq(asked[c], 1, n) \o tail
  /\ Answer(c, FALSE)

Next == \E c \in Callers : Ask(c) \/ ReturnOk(c) \/ ReturnErr(c)

Spec == Init /\ [][Next]_vars
=============================================================================
