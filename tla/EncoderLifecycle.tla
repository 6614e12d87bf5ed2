-------------------------- MODULE EncoderLifecycle --------------------------
(***************************************************************************)
(* The state machine every encoder backend shares                          *)
(* (codec/src/framework/api/encoder_lifecycle.{h,cc}), as the states from  *)
(* which each call is legal.  A legal call moves to the state named after  *)
(* it: Init to kInitialized, Encode to kEncoding, Flush to kFlushed; any   *)
(* other call is refused and leaves the state alone.                       *)
(***************************************************************************)

LifeStates == {"kCreated", "kInitialized", "kEncoding", "kFlushed", "kReleased"}

(* Plausible bug: an encoder that is encoding may be initialised again. *)
CanAlwaysInit(life) == life # "kReleased"

(* CanInit: a new encoder, or one that was flushed and is used again. *)
CanInit(life) == life \in {"kCreated", "kFlushed"}

CanEncode(life) == life \in {"kInitialized", "kEncoding"}

CanFlush(life) == life \in {"kInitialized", "kEncoding", "kFlushed"}
=============================================================================
