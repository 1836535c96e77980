----------------------------- MODULE FrameFeed -----------------------------
(***************************************************************************)
(* What the frame pool of yy1 (cam/frame_pool.h) promises its clients,     *)
(* without slots, reference counts or notifications: pictures 1, 2, 3, ... *)
(* appear one after the other; a consumer that looks gets the newest       *)
(* complete picture, a follower one it has not seen yet, and the picture   *)
(* it is looking at never changes until it puts it down.                   *)
(***************************************************************************)
EXTENDS Naturals

CONSTANTS
  Followers,    \* tasks that ask for a picture newer than their last one
  Restarting,   \* the followers that end and start afresh
  Peekers       \* tasks that take whatever picture is the newest

VARIABLES
  count,        \* pictures published so far
  view,         \* view[c]: the picture consumer c is looking at, 0 if none
  seen          \* seen[c]: the last picture follower c has looked at

feedVars == <<count, view, seen>>

Viewers == Followers \cup Peekers

FeedInit ==
  /\ count = 0
  /\ view  = [c \in Viewers |-> 0]
  /\ seen  = [c \in Followers |-> 0]

Appear ==
  /\ count' = count + 1
  /\ UNCHANGED <<view, seen>>

Follow(c) ==
  /\ view[c] = 0
  /\ count > seen[c]
  /\ view' = [view EXCEPT ![c] = count]
  /\ seen' = [seen EXCEPT ![c] = count]
  /\ UNCHANGED count

Peek(c) ==
  /\ view[c] = 0
  /\ count > 0
  /\ view' = [view EXCEPT ![c] = count]
  /\ UNCHANGED <<count, seen>>

PutDown(c) ==
  /\ view[c] # 0
  /\ view' = [view EXCEPT ![c] = 0]
  /\ UNCHANGED <<count, seen>>

StartAfresh(c) ==
  /\ view[c] = 0
  /\ seen' = [seen EXCEPT ![c] = 0]
  /\ UNCHANGED <<count, view>>

FeedNext ==
  \/ Appear
  \/ \E c \in Followers  : Follow(c)
  \/ \E c \in Peekers    : Peek(c)
  \/ \E c \in Viewers    : PutDown(c)
  \/ \E c \in Restarting : StartAfresh(c)

FeedSpec == FeedInit /\ [][FeedNext]_feedVars
=============================================================================
