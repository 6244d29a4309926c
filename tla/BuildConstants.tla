--------------------------- MODULE BuildConstants ---------------------------
(***************************************************************************)
(* Constants of the build (Common/inc/BuildConstants.h): those of the wire *)
(* format, which the transmission uses, those that depend on the platform, *)
(* and the validation that the compiler evaluates in a static_assert.      *)
(* Fractional constants are in hundredths.                                 *)
(***************************************************************************)
EXTENDS Integers

(* DetectionConstants                                                      *)
CAMERA_FOV_DEGREES == 6200
DetectionConstants == [minDetectionArea |-> 1000, maxStraightLines |-> 6, maxDetectionResults |-> 50]

(* ProtocolConstants, with the positions of the bytes in the frame.        *)
SOP == 250
EOP == 253
DLC == 4
PROTOCOL_SIZE == 7
DATA_SIZE == 4
ProtocolPosition == [sop |-> 0, dlc |-> 1, theta |-> 2, deltaTheta |-> 3,
                     reserved1 |-> 4, reserved2 |-> 5, eop |-> 6]

(* ThreadConstants, MemoryConstants, PerformanceConstants, as far as they
   are validated.                                                          *)
ThreadConstants == [stackSizeDetection |-> 32768, timeoutDetection |-> 5000]
MemoryConstants == [frameBufferSize |-> 10, maxFrameSize |-> 1920 * 1080 * 3, memoryAlignment |-> 64]
PerformanceConstants == [targetFps |-> 3000, maxDetectionTime |-> 10000]

-----------------------------------------------------------------------------
(* The three platforms (global.h), and what depends on the one that the
   program is built for.                                                   *)
NVIDIA == 1
RSP == 2
PC == 3
Platform == {NVIDIA, RSP, PC}

HasGPU(platform) == platform \in {NVIDIA, PC}

DefaultScaleFactor(platform) ==
  CASE platform = NVIDIA -> 110
    [] platform = RSP    -> 105
    [] OTHER             -> 120

-----------------------------------------------------------------------------
ValidateDetectionConstants ==
  /\ CAMERA_FOV_DEGREES \in 1 .. 18000
  /\ DetectionConstants.minDetectionArea > 0 /\ DetectionConstants.maxDetectionResults > 0

ValidateProtocolConstants == PROTOCOL_SIZE >= 7 /\ SOP # EOP /\ DATA_SIZE = 4

ValidateThreadConstants ==
  ThreadConstants.stackSizeDetection >= 4096 /\ ThreadConstants.timeoutDetection > 0

ValidateMemoryConstants == \A field \in DOMAIN MemoryConstants : MemoryConstants[field] > 0

ValidatePerformanceConstants ==
  \A field \in DOMAIN PerformanceConstants : PerformanceConstants[field] > 0

(* static_assert(ConstantsValidator::validateAllConstants())               *)
ASSUME StaticAssert ==
  /\ ValidateDetectionConstants /\ ValidateProtocolConstants /\ ValidateThreadConstants
  /\ ValidateMemoryConstants /\ ValidatePerformanceConstants
=============================================================================
