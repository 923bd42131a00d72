----------------------------- MODULE ByteStream ------------------------------
(***************************************************************************)
(* What a connection promises to its two ends, whatever bufferevents,      *)
(* buffers and sockets lie between them: the program is handed what the    *)
(* peer sent, in the order it was sent; the peer is given what the program *)
(* answered, in the order it answered; and the program is told of the end  *)
(* once, of an orderly one only when it has everything.  The program       *)
(* echoes: its answer is what it was handed.  Told of the end, it may      *)
(* answer for the last time.                                               *)
(***************************************************************************)
EXTENDS Naturals, Sequences

VARIABLES
  sent,     \* the number of bytes the peer has sent: 1, 2, ...
  handed,   \* the bytes the program was handed
  written,  \* the bytes it answered with
  got,      \* the bytes the peer was given
  end       \* what the program was told of the end: "none", "eof", "error"

vars == <<sent, handed, written, got, end>>

UpTo(n) == [i \in 1 .. n |-> i]

Init ==
  /\ sent = 0
  /\ handed = <<>> /\ written = <<>> /\ got = <<>>
  /\ end = "none"

Send ==
  /\ sent' = sent + 1
  /\ UNCHANGED <<handed, written, got, end>>

Hand ==
  /\ end = "none"
  /\ \E n \in Len(handed) + 1 .. sent : handed' = UpTo(n)
  /\ UNCHANGED <<sent, written, got, end>>

Answers ==
  \E n \in Len(written) + 1 .. Len(handed) : written' = SubSeq(handed, 1, n)

Answer ==
  /\ end = "none"
  /\ Answers
  /\ UNCHANGED <<sent, handed, got, end>>

Give ==
  /\ \E n \in Len(got) + 1 .. Len(written) : got' = SubSeq(written, 1, n)
  /\ UNCHANGED <<sent, handed, written, end>>

End ==
  /\ end = "none"
  /\ end' \in {"eof", "error"}
  /\ end' = "eof" => Len(handed) = sent
  /\ Answers \/ UNCHANGED written
  /\ UNCHANGED <<sent, handed, got>>

Next == Send \/ Hand \/ Answer \/ Give \/ End

Spec == Init /\ [][Next]_vars
=============================================================================
