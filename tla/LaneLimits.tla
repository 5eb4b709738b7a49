----------------------------- MODULE LaneLimits -----------------------------
(***************************************************************************)
(* The limits of CarrierLane.                                              *)
(***************************************************************************)
EXTENDS Naturals

CONSTANTS
  Frames,        \* frames written
  Sizes,         \* their sizes
  Prefix,        \* units of the length prefix, 4 in the code
  MaxFrames,     \* IncomingFrameQueue.maxBufferedFrames, 64 in the code
  MaxBytes,      \* IncomingFrameQueue.maxBufferedBytes
  MaxEarly       \* WebSocket frames kept before openLane(), 8 in the code

ASSUME LaneAssumption ==
  /\ {Frames, Prefix, MaxFrames, MaxBytes, MaxEarly} \subseteq Nat \ {0}
  /\ Sizes \subseteq 1..MaxBytes   \* bufferBytesFor: every frame fits an empty queue
=============================================================================
