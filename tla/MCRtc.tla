------------------------------- MODULE MCRtc -------------------------------
(* Instances of Rtc: Period stands for 1024, with the same kind of divisors. *)
EXTENDS Rtc
MCFrequencies == {2, 4, 8, 16}
=============================================================================
