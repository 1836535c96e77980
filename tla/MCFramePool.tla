---------------------------- MODULE MCFramePool ----------------------------
(***************************************************************************)
(* Instances of FramePool for TLC.                                         *)
(***************************************************************************)
EXTENDS FramePool

CONSTANTS motion, ws1, ws2, http

\* motion_task skips frames, the senders take every one.
MCStride == [c \in Watchers |-> IF c = motion THEN 2 ELSE 1]
=============================================================================
