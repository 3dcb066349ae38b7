------------------------------ MODULE Timeval ------------------------------
(***************************************************************************)
(* struct timeval arithmetic as delayer.c, packet_logic.c and switcher.c   *)
(* do it, and the clock that they read.  UsecPerMsec and UsecPerSec are    *)
(* 1000 and 1000000 in the code; TLC gets small ones.                      *)
(***************************************************************************)
EXTENDS Integers

CONSTANTS UsecPerMsec, UsecPerSec

ASSUME TimevalAssumption ==
  /\ UsecPerMsec \in Nat \ {0} /\ UsecPerSec \in Nat \ {0}
  /\ UsecPerSec % UsecPerMsec = 0

VARIABLE now  \* the clock, in microseconds

Timevals == [sec : Nat, usec : 0 .. UsecPerSec]

(* Microseconds since the epoch, and back (gettimeofday). *)
Microseconds(tv) == tv.sec * UsecPerSec + tv.usec
TimevalOf(t) == [sec |-> t \div UsecPerSec, usec |-> t % UsecPerSec]

(* Mutant: a carry that does not reach tv_sec. *)
AddDelayLosesCarry(tv, delay) ==
  [sec |-> tv.sec, usec |-> (tv.usec + delay * UsecPerMsec) % UsecPerSec]

(* tv.tv_usec += delay * 1000, and the carry into tv_sec, which the code   *)
(* makes only when the sum is greater than a second: an exact second stays *)
(* in tv_usec.                                                             *)
AddDelay(tv, delay) ==
  LET usec == tv.usec + delay * UsecPerMsec
  IN  IF usec > UsecPerSec
        THEN [sec  |-> tv.sec + usec \div UsecPerSec,
              usec |-> usec % UsecPerSec]
        ELSE [sec |-> tv.sec, usec |-> usec]

(* Mutant: the microseconds are not compared. *)
NotAfterInSeconds(a, b) == a.sec <= b.sec

(* ip_noise_timeval_cmp(a, b) <= 0, and < 0. *)
NotAfter(a, b) == a.sec < b.sec \/ (a.sec = b.sec /\ a.usec <= b.usec)
Before(a, b)   == a.sec < b.sec \/ (a.sec = b.sec /\ a.usec < b.usec)
=============================================================================
