--------------------------------- MODULE Clock ---------------------------------
(***************************************************************************)
(* now(), the clock that is handed to most constructors of the peer        *)
(* fabric.  Whoever reads it keeps what was read: a signedAt, an           *)
(* expiresAt.  The module that owns the time lets it pass, by a Tick.      *)
(***************************************************************************)
EXTENDS Integers

CONSTANT MaxClock       \* bound: the last instant
VARIABLE clock

ASSUME ClockAssumption == MaxClock \in Nat
===============================================================================
