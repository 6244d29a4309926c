--------------------------- MODULE ModernConstants --------------------------
(***************************************************************************)
(* A second set of constants and of the calculations that depend on them   *)
(* (Common/inc/ModernConstants.h): the wire format, the angles, and the    *)
(* platforms, each of which the program has once more elsewhere.           *)
(*                                                                         *)
(* Lengths are in half pixels where they say so, and angles in parts of a  *)
(* degree, of which a degree has 2 * frameWidth: so they are integers.     *)
(***************************************************************************)
EXTENDS Integers

CAMERA_FOV_DEGREES == 62

(* HALF_FOV for a frame of this width.                                     *)
HALF_FOV(frameWidth) == (CAMERA_FOV_DEGREES \div 2) * 2 * frameWidth

(* ProtocolConstants                                                       *)
SOP == 250
EOP == 253
DLC == 4

(* ProtocolFrame: the bytes in the order of the structure, from position 0. *)
ProtocolFrame(theta, deltaTheta) ==
  LET bytes == <<SOP, DLC, theta, deltaTheta, 0, 0, EOP>>
  IN  [p \in 0 .. 6 |-> bytes[p + 1]]

(* ProtocolFrame::isValid                                                  *)
IsValid(frame) == frame[0] = SOP /\ frame[6] = EOP /\ frame[1] = DLC

-----------------------------------------------------------------------------
(* MathUtils                                                               *)

(* The centres are in half pixels.                                         *)
CalculateAngle(centerX, frameCenterX, frameWidth) ==
  LET angle == (centerX - frameCenterX) * CAMERA_FOV_DEGREES
  IN  IF angle < -HALF_FOV(frameWidth) THEN -HALF_FOV(frameWidth)
      ELSE IF angle > HALF_FOV(frameWidth) THEN HALF_FOV(frameWidth)
      ELSE angle

CalculateDeltaAngle(width, frameWidth) == width * 2 * CAMERA_FOV_DEGREES

(* ConfigValidator                                                         *)
ValidateAngle(angle, frameWidth) ==
  angle >= -HALF_FOV(frameWidth) /\ angle <= HALF_FOV(frameWidth)

-----------------------------------------------------------------------------
(* PLATFORM_CONFIGS: the scale factor in hundredths.                       *)
PLATFORM_CONFIGS ==
  << [platformId |-> 1, supportsGPU |-> TRUE,  defaultScaleFactor |-> 110],
     [platformId |-> 2, supportsGPU |-> FALSE, defaultScaleFactor |-> 105],
     [platformId |-> 3, supportsGPU |-> TRUE,  defaultScaleFactor |-> 120] >>
=============================================================================
