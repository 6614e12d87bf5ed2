--------------------------- MODULE MCCodecFactory ---------------------------
(***************************************************************************)
(* The configurations of CodecFactory that TLC explores.                   *)
(***************************************************************************)
EXTENDS CodecFactory

Request(force, platform, media, surface) ==
    [force |-> force, platform |-> platform, media |-> media, surface |-> surface]

AllRequests ==
    {Request("kAuto", "other", "video", FALSE),
     Request("kAuto", "android", "video", FALSE),
     Request("kAuto", "android", "video", TRUE),
     Request("kFFmpeg", "other", "audio", FALSE),
     Request("kAndroid", "android", "audio", FALSE),
     Request("kAndroid", "other", "video", FALSE)}
=============================================================================
