--------------------------- MODULE WindowsBitrate ---------------------------
(***************************************************************************)
(* The bitrate of the Windows host: the rate chosen at startup (bitrate.rs *)
(* and resolve_bitrate of bin/rd-engine-windows-host.rs) and the           *)
(* controller that follows what the encoder spends                         *)
(* (platform/windows_bitrate.rs), as the worker of                         *)
(* windows_host_publisher.rs calls it after every unit.                    *)
(*                                                                         *)
(* Rates are in units of 100 kbit/s.  A frame spends a percentage of what  *)
(* the encoder's own rate allows one frame; window sums are kept in that   *)
(* percentage times the rate, so that ratios compare without division.     *)
(***************************************************************************)
EXTENDS Naturals, FiniteSetsExt

CONSTANTS RaiseAfter,   \* RAISE_AFTER_FRAMES: 24
          LowerAfter,   \* LOWER_AFTER_FRAMES: 240
          Shapes,       \* pixels * fps * bits per pixel of a session; 0 is malformed
          Spends,       \* percentages of its budget a frame may spend
          MaxFrames     \* bound: frames

ASSUME BitrateConstants ==
    /\ RaiseAfter \in Nat \ {0} /\ LowerAfter \in Nat \ {0} /\ MaxFrames \in Nat
    /\ Shapes \subseteq Nat /\ Spends \subseteq Nat

VARIABLES encoder,   \* the rate NVENC runs at
          controller,   \* BitrateController: current and its two windows
          frames,    \* frames so far
          since      \* frames since the controller last changed its rate

rateVars == <<encoder, controller, frames, since>>

MinAuto == 10     \* MIN_AUTO_BITRATE
MaxAuto == 1000   \* MAX_AUTO_BITRATE
MinRate == 20     \* MIN_BITRATE
MaxRate == 1200   \* MAX_BITRATE
HighWater == 85
LowWater == 55

Clamp(x, low, high) == Min({Max({x, low}), high})

(* auto_bitrate_bps, and the default of resolve_bitrate when the shape is  *)
(* malformed.                                                              *)
AutoBitrate(shape) == Clamp(shape, MinAuto, MaxAuto)
ResolveBitrate(shape) == IF shape = 0 THEN 200 ELSE AutoBitrate(shape)

Window == [frames |-> 0, spent |-> 0]

(* BitrateController::new clamps its own start, not the encoder's.         *)
RateInit ==
    /\ \E shape \in Shapes : encoder = ResolveBitrate(shape)
    /\ controller = [current |-> Clamp(encoder, MinRate, MaxRate), short |-> Window, long |-> Window]
    /\ frames = 0 /\ since = 0

Added(w, spend) == [frames |-> w.frames + 1, spent |-> w.spent + spend * encoder]

(* ratio against the rate the controller believes in.                      *)
AtLeast(w, water) == w.spent >= water * w.frames * controller.current
AtMost(w, water) == w.spent <= water * w.frames * controller.current

Raised == Clamp((controller.current * 125) \div 100, MinRate, MaxRate)
Lowered == Clamp((controller.current * 88) \div 100, MinRate, MaxRate)

(* apply: both windows restart; the encoder may refuse, the controller     *)
(* has moved all the same.                                                 *)
\* mutant
ClearedShortOnly(long) == [short |-> Window, long |-> long]

Cleared(long) == [short |-> Window, long |-> Window]

Decides(target, long) ==
    /\ controller' = [current |-> target, short |-> Cleared(long).short,
                   long |-> Cleared(long).long]
    /\ IF target = controller.current THEN UNCHANGED encoder ELSE encoder' \in {target, encoder}

(* observe: raising is tried first and needs the short window, lowering    *)
(* needs the long one; a long window that decides nothing restarts.        *)
Observe(spend) ==
    LET short == Added(controller.short, spend)
        long == Added(controller.long, spend) IN
    /\ frames < MaxFrames /\ frames' = frames + 1
    /\ IF short.frames >= RaiseAfter /\ AtLeast(short, HighWater)
       THEN Decides(Raised, long)
       ELSE IF long.frames >= LowerAfter /\ AtMost(long, LowWater)
       THEN Decides(Lowered, long)
       ELSE /\ controller' = [controller EXCEPT !.short = short,
                             !.long = IF long.frames >= LowerAfter THEN Window ELSE long]
            /\ UNCHANGED encoder
    /\ since' = IF controller'.current # controller.current THEN 0 ELSE since + 1

RateNext == \E spend \in Spends : Observe(spend)
RateSpec == RateInit /\ [][RateNext]_rateVars

-----------------------------------------------------------------------------
(* A rate is lowered only after a whole long window since the last change: *)
(* a raise is not undone by the lull that follows it, so the rate does not *)
(* pulse.                                                                  *)
NoPulse ==
    [][controller'.current < controller.current => since + 1 >= LowerAfter]_rateVars
=============================================================================
