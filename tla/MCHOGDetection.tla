--------------------------- MODULE MCHOGDetection ---------------------------
(* Boxes for TLC: two that overlap and one below them, one to either side of
   the centre, a wide one at the right edge of the frame, one that is too
   small, and one that leaves the frame, as the padding of the detector
   allows.                                                                 *)
EXTENDS HOGDetection

Box(x, y, w, h) == [x |-> x, y |-> y, w |-> w, h |-> h]

MCRects == { Box(0, 0, 96, 192), Box(20, 10, 90, 180), Box(10, 250, 80, 160),
             Box(350, 100, 64, 128), Box(500, 100, 64, 128), Box(800, 100, 160, 320),
             Box(500, 20, 16, 32), Box(-16, 300, 64, 128) }

MCThresholds == {-50, 50}
=============================================================================
