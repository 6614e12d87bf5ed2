---------------------------- MODULE AbrController ----------------------------
(***************************************************************************)
(* AbrController of stream/src/core/abr_controller.{h,cc}: the bitrate     *)
(* StreamImpl adapts after each video frame it sends while streaming       *)
(* (Update, with the backend's loss figure) and sets back after each       *)
(* successful Connect (Reset).  The loss percentage matters only against   *)
(* the two thresholds of Update; the round-trip time is not used.          *)
(*                                                                         *)
(* Rates are kbps in unsigned words: Word is 2^32 in the code.  No mutex   *)
(* protects the two members, so what a call reads and what it writes are   *)
(* separate here; StreamSend has the threads.                              *)
(***************************************************************************)
EXTENDS Integers

CONSTANTS
    InitialRate, MinRate, MaxRate,   \* the constructor's arguments
    Word                             \* the values an unsigned integer has

(* std::clamp in the constructor is defined only for MinRate <= MaxRate; a *)
(* rate and its increase stay below Word for any MaxRate up to 3.8 Tbit/s. *)
ASSUME RateAssumption ==
    /\ InitialRate \in Nat /\ MinRate \in Nat /\ MaxRate \in Nat
    /\ MinRate <= MaxRate
    /\ Word \in Nat /\ 2 * MaxRate + 50 < Word

VARIABLES
    rate,       \* current_bitrate_kbps_
    good        \* consecutive_good_intervals_

abrVars == <<rate, good>>

(* The loss figure: "high" is above 5%, "mid" above 2%, else "low". *)
Losses == {"high", "mid", "low"}

AtLeast(x, bound) == IF x < bound THEN bound ELSE x
AtMost(x, bound)  == IF x > bound THEN bound ELSE x

StartRate == AtMost(AtLeast(InitialRate, MinRate), MaxRate)

AbrNew == rate = StartRate /\ good = 0

(* Plausible bugs: a rate raised past the cap, and a loss that adds. *)
RaisedUncapped(r, increase) == (r + increase) % Word

ReducedByAdding(r, reduction) == AtLeast((r + reduction) % Word, MinRate)

(* Unsigned subtraction: it wraps when the reduction exceeds the rate. *)
Reduced(r, reduction) == AtLeast((r - reduction) % Word, MinRate)

Raised(r, increase) == AtMost((r + increase) % Word, MaxRate)

(* Every fifth good interval raises the rate. *)
Fifth(g) == g + 1 >= 5

(* Plausible bugs: a reduction that would cross the floor is skipped; the  *)
(* good intervals are not started over after a raise.                      *)
UpdatedSkipsFloor(r, g, l) ==
    IF l = "high" /\ r \div 2 >= MinRate THEN r \div 2 ELSE r

CountsOn(g, l) == IF l = "low" THEN g + 1 ELSE 0

(* What an Update that read rate r and good g makes of them. *)
UpdatedRate(r, g, l) ==
    CASE l = "high" -> Reduced(r, AtLeast(r \div 2, 100))
      [] l = "mid"  -> Reduced(r, AtLeast(r \div 4, 50))
      [] OTHER      -> IF Fifth(g) THEN Raised(r, AtLeast(r \div 8, 50)) ELSE r

UpdatedGood(g, l) == IF l = "low" /\ ~Fifth(g) THEN g + 1 ELSE 0
=============================================================================
