------------------------------- MODULE Timers -------------------------------
(***************************************************************************)
(* Deadlines as the time left.  The source stores absolute timestamps of   *)
(* a monotonic clock and compares them with now; every comparison it makes *)
(* depends only on the difference, which is what these operators keep, so  *)
(* that a behaviour may run for ever in finitely many states.              *)
(*   *_timeout_ts = 0                    Off                               *)
(*   *_timeout_ts = now + d, d > 0       d                                 *)
(*   now >= *_timeout_ts                 0                                 *)
(***************************************************************************)
EXTENDS Integers

Off == -1

\* The deadline is armed and has passed.
Due(left) == left = 0

\* One unit of time passes; a deadline that has passed stays passed.
CountDown(left) == IF left > 0 THEN left - 1 ELSE left

Armed(limit) == {Off} \cup 0..limit
=============================================================================
