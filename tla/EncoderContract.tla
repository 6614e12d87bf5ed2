--------------------------- MODULE EncoderContract ---------------------------
(***************************************************************************)
(* What any encoder in push mode promises to the owner of its sink,        *)
(* whatever codec is behind it (PacketSink and VideoEncoder/AudioEncoder   *)
(* of codec/src/framework): packets reach the sink in the order of their   *)
(* frames, each at most once, and a frame is only ever missing when a call *)
(* has accounted for it, by the error it returned.                         *)
(*                                                                         *)
(* Frames are numbered from 1 in the order the encoder took them.          *)
(***************************************************************************)
EXTENDS Naturals

VARIABLES taken,     \* the last frame the encoder took
          emitted,   \* the last frame whose packet the sink got
          excused    \* frames up to this one may be missing

vars == <<taken, emitted, excused>>

Init == taken = 0 /\ emitted = 0 /\ excused = 0

Take ==
    /\ taken' = taken + 1
    /\ UNCHANGED <<emitted, excused>>

Emit ==
    /\ \E n \in (emitted + 1)..taken :
          /\ n > emitted + 1 => n - 1 <= excused
          /\ emitted' = n
    /\ UNCHANGED <<taken, excused>>

Excuse ==
    /\ excused' \in excused..taken
    /\ UNCHANGED <<taken, emitted>>

Next == Take \/ Emit \/ Excuse

Spec == Init /\ [][Next]_vars
=============================================================================
