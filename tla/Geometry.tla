------------------------------ MODULE Geometry ------------------------------
(***************************************************************************)
(* Rectangles of the frame and the angles at which the camera sees them,   *)
(* as filterDetections (App/src/CDetection.cpp) computes them.             *)
(*                                                                         *)
(* Lengths are in pixels of the resized frame, angles in degrees.  The     *)
(* floating-point angles are computed exactly; for the pixels of the frame *)
(* the single-precision result truncates to the same degree.               *)
(***************************************************************************)
EXTENDS Integers

FrameWidth  == 960      (* RESOLUTION_RESIZED_WIDTH                        *)
FrameHeight == 540      (* RESOLUTION_RESIZED_HEIGHT                       *)

InFrame(r) == /\ r.x \in Nat /\ r.w \in Nat /\ r.x + r.w <= FrameWidth
              /\ r.y \in Nat /\ r.h \in Nat /\ r.y + r.h <= FrameHeight

Area(r)     == r.w * r.h
Bottom(r)   == r.y + r.h
Least(a, b) == IF a <= b THEN a ELSE b
Most(a, b)  == IF a >= b THEN a ELSE b

Common(lo1, len1, lo2, len2) ==
  Most(0, Least(lo1 + len1, lo2 + len2) - Most(lo1, lo2))

IntersectionArea(r, s) == Common(r.x, r.w, s.x, s.w) * Common(r.y, r.h, s.y, s.h)

(* Intersection over union above a threshold in percent, without the
   division.                                                               *)
OverlapsBeyond(r, s, percent) ==
  LET common == IntersectionArea(r, s)
  IN  100 * common > percent * (Area(r) + Area(s) - common)

(* Towards zero, as a float is converted to an int8_t; then 8 bits of it.  *)
Truncate(num, den) == IF num >= 0 THEN num \div den ELSE -((-num) \div den)
Int8(n) == ((n + 128) % 256) - 128

Theta(r)      == Int8(Truncate(622 * r.x - 298560, 9600))
DeltaTheta(r) == Int8(Truncate(622 * r.w, 9600))
=============================================================================
