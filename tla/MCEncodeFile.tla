---------------------------- MODULE MCEncodeFile ----------------------------
(***************************************************************************)
(* The instance of EncodeFile that TLC explores.                           *)
(***************************************************************************)
EXTENDS EncodeFile

AllSinks == {"FFmpegMuxer", "MediaCodecMuxer", "FileConsumer", "TeeSink"}

Frames == [m \in Media |-> IF m = "video" THEN 3 ELSE 2]
=============================================================================
