----------------------------- MODULE FramePool -----------------------------
(***************************************************************************)
(* The reference-counted camera frame pool of yy1 (cam/frame_pool.c), with *)
(* the tasks that use it: cam_task, which produces (cam/cam_pipeline.c),   *)
(* the subscribed tasks that wait for newer frames (motion_task,           *)
(* face_detect_task and the WebSocket senders of net/ws_stream.c), and the *)
(* /snapshot handler (net/stream_handler.c), which takes the latest frame. *)
(*                                                                         *)
(* A step is what the code does without letting another task in: a section *)
(* under the pool mutex, one atomic operation on a refcount, one           *)
(* notification, or the local work between two of these.  Everything that  *)
(* frame_pool_publish does after it gives the mutex back interleaves with  *)
(* the consumers.                                                          *)
(***************************************************************************)
EXTENDS Naturals, FiniteSets

CONSTANTS
  Slots,         \* the FRAME_POOL_SLOT_COUNT buffers
  Watchers,      \* tasks that subscribe and call frame_pool_wait_newer
  Senders,       \* the watchers that are ws_sender_task: they start and end
  Snapshotters,  \* tasks that call frame_pool_get_latest
  Stride,        \* Stride[c]: frames watcher c advances at least
  MaxSubs,       \* FRAME_POOL_MAX_SUBSCRIBERS
  MaxSeq,        \* bound: frames published (uint32_t next_seq does not wrap)
  MaxFails,      \* bound: acquire_fails counted
  None           \* NULL

ASSUME PoolAssumption ==
  /\ IsFiniteSet(Slots) /\ IsFiniteSet(Watchers) /\ IsFiniteSet(Snapshotters)
  /\ Senders \subseteq Watchers
  /\ Watchers \cap Snapshotters = {}
  /\ Stride \in [Watchers -> Nat \ {0}]
  /\ MaxSubs \in Nat /\ MaxSeq \in Nat /\ MaxFails \in Nat
  /\ None \notin Slots

VARIABLES
  refcount,      \* slots[s].refcount
  seq,           \* slots[s].seq
  img,           \* the picture in slots[s].buf, by the number it is published as
  latest,        \* s_pool.latest
  next_seq,      \* s_pool.next_seq
  subs,          \* s_pool.subs[0 .. sub_count-1]
  acquire_fails, \* s_pool.acquire_fails
  cam,           \* control state of cam_task
  wslot,         \* the slot cam_task fills
  old_latest,    \* frame_pool_publish: the slot whose "latest" ref is due
  subs_copy,     \* frame_pool_publish: subscribers still to be notified
  task,          \* control state of each consumer
  held,          \* the slot each consumer got and has not released
  last_seq,      \* each watcher's last_seq
  notified       \* whether the task notification count is above zero

poolVars     == <<refcount, seq, img, latest, next_seq, subs, acquire_fails>>
producerVars == <<cam, wslot, old_latest, subs_copy>>
consumerVars == <<task, held, last_seq, notified>>
vars         == <<poolVars, producerVars, consumerVars>>

Consumers == Watchers \cup Snapshotters

\* Control states of cam_task and of a consumer.
CamStates  == {"idle", "fill", "filled", "drop", "notify"}
TaskStates == {"off", "start", "check", "sleep", "use", "leave", "exit", "ready"}

Init ==
  /\ refcount = [s \in Slots |-> 0]
  /\ seq      = [s \in Slots |-> 0]
  /\ img      = [s \in Slots |-> 0]
  /\ latest   = None
  /\ next_seq = 0
  /\ subs     = {}
  /\ acquire_fails = 0
  /\ cam        = "idle"
  /\ wslot      = None
  /\ old_latest = None
  /\ subs_copy  = {}
  /\ task = [c \in Consumers |-> CASE c \in Senders      -> "off"
                                   [] c \in Snapshotters -> "ready"
                                   [] OTHER              -> "start"]
  /\ held     = [c \in Consumers |-> None]
  /\ last_seq = [c \in Watchers |-> 0]
  /\ notified = [c \in Watchers |-> FALSE]

-----------------------------------------------------------------------------
(* cam_task: one camera frame goes acquire, fill, publish. *)

\* Mutant of AcquireWritable: a slot with one reference passes for free.
AcquireShared ==
  /\ cam = "idle"
  /\ next_seq < MaxSeq
  /\ \E s \in Slots :
       /\ refcount[s] <= 1
       /\ refcount' = [refcount EXCEPT ![s] = 1]
       /\ wslot' = s
  /\ cam' = "fill"
  /\ UNCHANGED <<seq, img, latest, next_seq, subs, acquire_fails,
                 old_latest, subs_copy, consumerVars>>

\* frame_pool_acquire_writable takes a slot nobody refers to.
AcquireWritable ==
  /\ cam = "idle"
  /\ next_seq < MaxSeq
  /\ \E s \in Slots :
       /\ refcount[s] = 0
       /\ refcount' = [refcount EXCEPT ![s] = 1]
       /\ wslot' = s
  /\ cam' = "fill"
  /\ UNCHANGED <<seq, img, latest, next_seq, subs, acquire_fails,
                 old_latest, subs_copy, consumerVars>>

\* ... or finds every slot referred to: the camera frame is dropped.
AcquireFail ==
  /\ cam = "idle"
  /\ next_seq < MaxSeq /\ acquire_fails < MaxFails
  /\ \A s \in Slots : refcount[s] # 0
  /\ acquire_fails' = acquire_fails + 1
  /\ UNCHANGED <<refcount, seq, img, latest, next_seq, subs,
                 producerVars, consumerVars>>

\* The memcpy of the JPEG into slot->buf.
Fill ==
  /\ cam = "fill"
  /\ img' = [img EXCEPT ![wslot] = next_seq + 1]
  /\ cam' = "filled"
  /\ UNCHANGED <<refcount, seq, latest, next_seq, subs, acquire_fails,
                 wslot, old_latest, subs_copy, consumerVars>>

\* Mutant of Publish: the frame is published before it is copied.
PublishUnfilled ==
  /\ cam = "fill"
  /\ next_seq' = next_seq + 1
  /\ seq' = [seq EXCEPT ![wslot] = next_seq + 1]
  /\ old_latest' = latest
  /\ latest' = wslot
  /\ subs_copy' = subs
  /\ wslot' = None
  /\ cam' = "drop"
  /\ UNCHANGED <<refcount, img, subs, acquire_fails, consumerVars>>

\* The part of frame_pool_publish under the mutex.
Publish ==
  /\ cam = "filled"
  /\ next_seq' = next_seq + 1
  /\ seq' = [seq EXCEPT ![wslot] = next_seq + 1]
  /\ old_latest' = latest
  /\ latest' = wslot
  /\ subs_copy' = subs
  /\ wslot' = None
  /\ cam' = "drop"
  /\ UNCHANGED <<refcount, img, subs, acquire_fails, consumerVars>>

\* Mutant of DropOldLatest: the previous frame keeps its reference.
KeepOldLatest ==
  /\ cam = "drop"
  /\ old_latest' = None
  /\ cam' = "notify"
  /\ UNCHANGED <<poolVars, wslot, subs_copy, consumerVars>>

\* After the unlock: the previous frame loses the "latest" reference.
DropOldLatest ==
  /\ cam = "drop"
  /\ refcount' = IF old_latest = None
                 THEN refcount
                 ELSE [refcount EXCEPT ![old_latest] = @ - 1]
  /\ old_latest' = None
  /\ cam' = "notify"
  /\ UNCHANGED <<seq, img, latest, next_seq, subs, acquire_fails,
                 wslot, subs_copy, consumerVars>>

\* xTaskNotifyGive on one of the copied handles.
NotifyOne(c) ==
  /\ cam = "notify"
  /\ c \in subs_copy
  /\ subs_copy' = subs_copy \ {c}
  /\ notified' = [notified EXCEPT ![c] = TRUE]
  /\ UNCHANGED <<poolVars, cam, wslot, old_latest, task, held, last_seq>>

\* Mutant of PublishReturns: the notify loop ends one subscriber short.
PublishReturnsEarly ==
  /\ cam = "notify"
  /\ Cardinality(subs_copy) <= 1
  /\ subs_copy' = {}
  /\ cam' = "idle"
  /\ UNCHANGED <<poolVars, wslot, old_latest, consumerVars>>

PublishReturns ==
  /\ cam = "notify"
  /\ subs_copy = {}
  /\ cam' = "idle"
  /\ UNCHANGED <<poolVars, wslot, old_latest, subs_copy, consumerVars>>

-----------------------------------------------------------------------------
(* Watchers: subscribe, then wait_newer / use / release in a loop. *)

\* ws_stream_handler creates a sender task; its TCB may be a recycled one.
StartSender(c) ==
  /\ task[c] = "off"
  /\ task' = [task EXCEPT ![c] = "start"]
  /\ last_seq' = [last_seq EXCEPT ![c] = 0]
  /\ notified' = [notified EXCEPT ![c] = FALSE]
  /\ UNCHANGED <<poolVars, producerVars, held>>

\* A full table leaves the caller unsubscribed; no caller looks at the result.
Subscribe(c) ==
  /\ task[c] = "start"
  /\ subs' = IF Cardinality(subs) < MaxSubs THEN subs \cup {c} ELSE subs
  /\ task' = [task EXCEPT ![c] = "check"]
  /\ UNCHANGED <<refcount, seq, img, latest, next_seq, acquire_fails,
                 producerVars, held, last_seq, notified>>

\* The condition wait_newer tests for its caller under the mutex.
Newer(c) == latest # None /\ seq[latest] > last_seq[c] + Stride[c] - 1

TakeNewer(c) ==
  /\ task[c] = "check"
  /\ Newer(c)
  /\ refcount' = [refcount EXCEPT ![latest] = @ + 1]
  /\ held'     = [held EXCEPT ![c] = latest]
  /\ last_seq' = [last_seq EXCEPT ![c] = seq[latest]]
  /\ task'     = [task EXCEPT ![c] = "use"]
  /\ UNCHANGED <<seq, img, latest, next_seq, subs, acquire_fails,
                 producerVars, notified>>

\* Nothing newer: the mutex is given back before ulTaskNotifyTake is called.
Sleep(c) ==
  /\ task[c] = "check"
  /\ ~Newer(c)
  /\ task' = [task EXCEPT ![c] = "sleep"]
  /\ UNCHANGED <<poolVars, producerVars, held, last_seq, notified>>

\* Mutant of Wake: the wait has no timeout (portMAX_DELAY).
WakeNotified(c) ==
  /\ task[c] = "sleep"
  /\ notified[c]
  /\ task' = [task EXCEPT ![c] = "check"]
  /\ notified' = [notified EXCEPT ![c] = FALSE]
  /\ UNCHANGED <<poolVars, producerVars, held, last_seq>>

\* ulTaskNotifyTake returns, by a notification (cleared) or by its timeout.
Wake(c) ==
  /\ task[c] = "sleep"
  /\ task' = [task EXCEPT ![c] = "check"]
  /\ notified' = [notified EXCEPT ![c] = FALSE]
  /\ UNCHANGED <<poolVars, producerVars, held, last_seq>>

\* wait_newer returned NULL and WS_NO_FRAME_EXIT_MS have passed.
NoFrameExit(c) ==
  /\ task[c] = "check"
  /\ ~Newer(c)
  /\ task' = [task EXCEPT ![c] = "leave"]
  /\ UNCHANGED <<poolVars, producerVars, held, last_seq, notified>>

\* Mutant of Release: a sender that leaves after a failed send releases the
\* frame a second time.
ReleaseTwice(c) ==
  /\ task[c] = "use"
  /\ held' = [held EXCEPT ![c] = None]
  /\ \/ /\ refcount' = [refcount EXCEPT ![held[c]] = @ - 1]
        /\ task' = [task EXCEPT ![c] = IF c \in Watchers THEN "check" ELSE "ready"]
     \/ /\ c \in Senders
        /\ refcount' = [refcount EXCEPT ![held[c]] = @ - 2]
        /\ task' = [task EXCEPT ![c] = "leave"]
  /\ UNCHANGED <<seq, img, latest, next_seq, subs, acquire_fails,
                 producerVars, last_seq, notified>>

\* frame_pool_release; a sender whose send failed leaves its loop.
Release(c) ==
  /\ task[c] = "use"
  /\ refcount' = [refcount EXCEPT ![held[c]] = @ - 1]
  /\ held' = [held EXCEPT ![c] = None]
  /\ \/ task' = [task EXCEPT ![c] = IF c \in Watchers THEN "check" ELSE "ready"]
     \/ c \in Senders /\ task' = [task EXCEPT ![c] = "leave"]
  /\ UNCHANGED <<seq, img, latest, next_seq, subs, acquire_fails,
                 producerVars, last_seq, notified>>

Unsubscribe(c) ==
  /\ task[c] = "leave"
  /\ subs' = subs \ {c}
  /\ task' = [task EXCEPT ![c] = "exit"]
  /\ UNCHANGED <<refcount, seq, img, latest, next_seq, acquire_fails,
                 producerVars, held, last_seq, notified>>

\* vTaskDelete(NULL), and the idle task frees the TCB.
DeleteSender(c) ==
  /\ task[c] = "exit"
  /\ task' = [task EXCEPT ![c] = "off"]
  /\ UNCHANGED <<poolVars, producerVars, held, last_seq, notified>>

\* The /snapshot handler: frame_pool_get_latest (NULL answers 503).
GetLatest(c) ==
  /\ task[c] = "ready"
  /\ latest # None
  /\ refcount' = [refcount EXCEPT ![latest] = @ + 1]
  /\ held' = [held EXCEPT ![c] = latest]
  /\ task' = [task EXCEPT ![c] = "use"]
  /\ UNCHANGED <<seq, img, latest, next_seq, subs, acquire_fails,
                 producerVars, last_seq, notified>>

-----------------------------------------------------------------------------
CamTask ==
  \/ AcquireWritable \/ AcquireFail \/ Fill \/ Publish
  \/ DropOldLatest \/ PublishReturns
  \/ \E c \in Watchers : NotifyOne(c)

WatchLoop(c) == Subscribe(c) \/ TakeNewer(c) \/ Sleep(c) \/ Wake(c)

SenderLife(c) ==
  StartSender(c) \/ NoFrameExit(c) \/ Unsubscribe(c) \/ DeleteSender(c)

Next ==
  \/ CamTask
  \/ \E c \in Watchers     : WatchLoop(c)
  \/ \E c \in Senders      : SenderLife(c)
  \/ \E c \in Snapshotters : GetLatest(c)
  \/ \E c \in Consumers    : Release(c)

Spec == Init /\ [][Next]_vars

(* Every task runs again: cam_task and the consumers are never suspended,  *)
(* every wait has a timeout, and a JPEG is decoded or sent, or its send    *)
(* fails, in bounded time.  Nobody has to open or close a stream.          *)
Fairness ==
  /\ WF_vars(CamTask)
  /\ \A c \in Watchers  : WF_vars(WatchLoop(c))
  /\ \A c \in Consumers : WF_vars(Release(c))

FairSpec == Spec /\ Fairness
-----------------------------------------------------------------------------
(* Properties *)

\* Every variable keeps its type; in particular a refcount is never negative.
TypeOK ==
  /\ refcount \in [Slots -> Nat]
  /\ seq \in [Slots -> 0 .. MaxSeq]
  /\ img \in [Slots -> 0 .. MaxSeq]
  /\ latest \in Slots \cup {None}
  /\ next_seq \in 0 .. MaxSeq
  /\ subs \subseteq Watchers
  /\ acquire_fails \in 0 .. MaxFails
  /\ cam \in CamStates
  /\ wslot \in Slots \cup {None}
  /\ old_latest \in Slots \cup {None}
  /\ subs_copy \subseteq Watchers
  /\ task \in [Consumers -> TaskStates]
  /\ held \in [Consumers -> Slots \cup {None}]
  /\ last_seq \in [Watchers -> 0 .. MaxSeq]
  /\ notified \in [Watchers -> BOOLEAN]

Holders(s) == {c \in Consumers : held[c] = s}

One(condition) == IF condition THEN 1 ELSE 0

\* The reference counting of frame_pool.c, across the window in which
\* frame_pool_publish has moved s_pool.latest and not yet dropped the old
\* reference: a count is exactly the holders, the producer that fills the
\* slot, the "latest" reference and the one still to be dropped.  A slot is
\* therefore neither leaked nor reused too early.
RefcountExact ==
  \A s \in Slots :
    refcount[s] = Cardinality(Holders(s)) + One(wslot = s)
                  + One(latest = s) + One(old_latest = s)

\* cam_task writes only into a buffer that no consumer reads and that no
\* consumer can get (frame_pool_acquire_writable, the memcpy in cam_task).
ExclusiveWrite ==
  wslot # None => /\ Holders(wslot) = {}
                  /\ wslot # latest

\* A subscribed watcher that has gone to sleep on a frame that is already out
\* has been notified or is about to be: no wake-up falls between the check in
\* frame_pool_wait_newer and its ulTaskNotifyTake, although publish notifies
\* from a copy of the subscribers and outside the mutex.
NoLostWakeup ==
  \A c \in subs : task[c] = "sleep" /\ Newer(c)
                     => notified[c] \/ c \in subs_copy

\* When consumers hold every slot, cam_task drops frames only for a while:
\* some slot becomes free again (frame_pool_release reaches zero).
StarvationEnds ==
  (\A s \in Slots : refcount[s] # 0) ~> (\E s \in Slots : refcount[s] = 0)

\* A watcher in wait_newer gets a frame that is new to it, or is a sender
\* that gives its stream up.
NewFrameArrives ==
  \A c \in Watchers :
    task[c] \in {"check", "sleep"} /\ Newer(c)
      ~> held[c] # None \/ task[c] = "leave"

\* The picture a consumer looks at: the contents of the buffer it holds.
View(c) == IF held[c] = None THEN 0 ELSE img[held[c]]

\* The pool implements FrameFeed: consumers see complete pictures, the newest
\* at the time, and none changes under them (frame_pool.h, file comment).
Feed == INSTANCE FrameFeed WITH
          Followers  <- Watchers,
          Restarting <- Senders,
          Peekers    <- Snapshotters,
          count      <- next_seq,
          view       <- [c \in Consumers |-> View(c)],
          seen       <- last_seq

ImplementsFeed == Feed!FeedSpec

=============================================================================
