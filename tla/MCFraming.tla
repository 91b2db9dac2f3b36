----------------------------- MODULE MCFraming -----------------------------
(* Instances of Framing and Sending for TLC.                               *)
EXTENDS Sending

CONSTANTS Lengths, MaxPdus, Mixed, MaxPosted

\* Every stream of a few PDUs: a header alone, one that fits in a read, one
\* that needs the buffer to grow, one that is too long.
MCStreams == UNION {[1 .. n -> Lengths] : n \in 0 .. MaxPdus}

\* The peer sends any of them, the application sends, or both.
MCExchanges ==
  (MCStreams \X {0}) \cup ({<<>>} \X {MaxPosted}) \cup ({<<Mixed>>} \X {1})

MCMessages ==
  {[int |-> 3,     width |-> 1, str |-> <<>>,        vec |-> <<0, 2>>],
   [int |-> 201,   width |-> 4, str |-> <<3, 1>>,    vec |-> <<>>],
   [int |-> 40961, width |-> 8, str |-> <<1, 2, 3>>, vec |-> <<259>>]}
=============================================================================
