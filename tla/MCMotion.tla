------------------------------ MODULE MCMotion ------------------------------
(* A camera with chrominance and restart markers and 6x2 blocks, and a grey one
   with 4x3 blocks.  The scenes are empty, or have something at both
   ends, or in the middle; all that changes from the second to the third is one
   blob. *)
EXTENDS MotionDetect

MCCameras == {"colour", "grey"}
MCFormat ==
  [colour |-> [cols |-> 3, rows |-> 2, h |-> 2, v |-> 1, colour |-> TRUE,
               restart |-> 2, q |-> 8],
   grey   |-> [cols |-> 4, rows |-> 3, h |-> 1, v |-> 1, colour |-> FALSE,
               restart |-> 0, q |-> 16]]

Scene(lit) == [i \in 0 .. 11 |-> IF i \in lit THEN 100 ELSE -15]
MCPictures ==
  [colour |-> <<Scene({}), Scene({0, 5}), Scene({2})>>,
   grey   |-> <<Scene({}), Scene({5})>>]

\* The header of the camera, and ones without the frame's or the table's segment.
Without(h, kind) == SelectSeq(h, LAMBDA seg : seg.kind # kind)
MCHeaders ==
  [cam \in MCCameras |->
     LET h == Header(MCFormat[cam]) IN <<h, Without(h, "sof0"), Without(h, "dht")>>]

\* In a run only the grey camera loses bytes: whatever part of its picture the
\* new one replaces is a scene of its own.
MCLostAtRun == [colour |-> {0}, grey |-> {0, 5}]

=============================================================================
