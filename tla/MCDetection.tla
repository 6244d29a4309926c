---------------------------- MODULE MCDetection -----------------------------
(* Rectangles for TLC: two that overlap and one of those inside the other's
   columns, a large one that leaves the frame, two at the two sides of the
   area threshold (13478 and 13480 square pixels) that overlap as well, and a
   thin one: it spans less than one degree, and is too small to be reported. *)
EXTENDS Detection

Box(x, y, w, h) == [x |-> x, y |-> y, w |-> w, h |-> h]

MCRects == { Box(0, 0, 96, 192), Box(60, 50, 121, 242),
             Box(890, 100, 46, 293), Box(880, 90, 40, 337),
             Box(500, 20, 10, 400), Box(870, 100, 160, 300) }

(* Two weights of the detector, one of them negative, and their sum.       *)
MCScores == {-50, 80, 30}
=============================================================================
