------------------------------- MODULE Clock -------------------------------
(***************************************************************************)
(* Time as the probes see it: gettimeofday, the differences they compute,  *)
(* and the timeval of a select.  now counts ticks; a tick is the unit of   *)
(* tv_usec.                                                                *)
(***************************************************************************)
EXTENDS Integers

CONSTANTS
  Second,  \* ticks in a second: 1000000
  Milli,   \* ticks in a millisecond: 1000
  Epoch    \* tv_sec at tick 0; more than a tv_usec can be

ASSUME ClockAssumption ==
  /\ Milli \in Nat \ {0} /\ Second \in Nat \ {0} /\ Second % Milli = 0
  /\ Epoch \in Nat /\ Epoch >= Second

VARIABLES
  now,      \* the clock
  left,     \* the timeval given to select
  until,    \* when the select in progress times out, else 0
  updates   \* kernel: select leaves in its timeval what remained (Linux)

clockVars == <<now, left, until, updates>>

Sec(t)  == Epoch + t \div Second
Usec(t) == t % Second

\* Division in C.
Quotient(a, b) == IF a >= 0 THEN a \div b ELSE -((-a) \div b)

\* use_time of NetCheck, in milliseconds.
UseTime(begin, end) ==
  (Sec(end) - Sec(begin)) * (Second \div Milli)
    + Quotient(Usec(end) - Usec(begin), Milli)

\* Mutant: the second that is borrowed is not taken away.
TvSubLoose(r, s) == [sec  |-> Sec(r) - Sec(s), usec |-> Usec(r) + Second - Usec(s)]

\* tv_sub of Ping.  The test compares a tv_usec with a tv_sec, so that it
\* always borrows.
TvSub(r, s) ==
  IF Usec(r) < Sec(s)
  THEN [sec |-> Sec(r) - Sec(s) - 1, usec |-> Usec(r) + Second - Usec(s)]
  ELSE [sec |-> Sec(r) - Sec(s), usec |-> Usec(r) - Usec(s)]

\* unpack_icmp: the round trip in milliseconds.
Rtt(r, s) == LET d == TvSub(r, s)
             IN  d.sec * (Second \div Milli) + Quotient(d.usec, Milli)

ClockInit == now = 0 /\ left = 0 /\ until = 0 /\ updates \in BOOLEAN

\* select is entered with the timeval as it is, and returns.
EnterSelect(timeval) == /\ left' = timeval /\ until' = now + timeval
                        /\ UNCHANGED <<now, updates>>
FreshLeft == left  \* mutant: as if no kernel wrote the timeval
LeaveLeft == IF updates THEN until - now ELSE left
LeaveSelect == /\ left' = LeaveLeft /\ until' = 0
               /\ UNCHANGED <<now, updates>>

\* Time passes up to the end of a select.
Advance == /\ now < until
           /\ now' = now + 1
           /\ UNCHANGED <<left, until, updates>>

=============================================================================
