-------------------------------- MODULE Muxer --------------------------------
(***************************************************************************)
(* What every sink of encoded packets has in common (Muxer, PacketConsumer *)
(* and ByteSink of codec/src/framework): the output it leaves behind the   *)
(* byte sink, and a byte sink that may fail.  A packet is its number in    *)
(* the order its media's packets come; bytes, timestamps and the order of  *)
(* the two media in the file are left out.                                 *)
(*                                                                         *)
(* Push and Finish of a sink are actions with their Status as a parameter: *)
(* what the call does when it returns that.                                *)
(***************************************************************************)
EXTENDS Integers, Sequences

CONSTANT ByteSinkMayFail   \* the byte sink may refuse bytes

ASSUME ByteSinkAssumption == ByteSinkMayFail \in BOOLEAN

Media == {"video", "audio"}

Nothing == [m \in Media |-> <<>>]

Failed == "kEncodeFailed"

VARIABLES
    file,      \* the packets whose samples reached the byte sink, per media
    headers,   \* headers written to it
    trailers,  \* trailers written to it
    damaged    \* history: bytes were lost behind the byte sink

outputVars == <<file, headers, trailers, damaged>>

NoOutput == file = Nothing /\ headers = 0 /\ trailers = 0 /\ damaged = FALSE

(* Every packet of a in front of every packet of b. *)
Joined(a, b) == [m \in Media |-> a[m] \o b[m]]

With(samples, m, n) == [samples EXCEPT ![m] = Append(@, n)]

BytesLost == ByteSinkMayFail /\ damaged' = TRUE
=============================================================================
