-------------------------- MODULE FramePoolProofs --------------------------
(***************************************************************************)
(* Proofs about FramePool, for any number of slots, watchers, senders and  *)
(* snapshot handlers, any strides and any number of published frames.      *)
(*                                                                         *)
(* RefcountExact is not inductive: that a free slot is neither latest nor  *)
(* the old latest follows from it, but that the slot under cam_task stays  *)
(* apart from both, and that the "latest" reference is dropped once, is    *)
(* control information.  IInv adds it, and what relates the numbers in the *)
(* slots to next_seq.                                                      *)
(***************************************************************************)
EXTENDS FramePool, FiniteSetTheorems, TLAPS

-----------------------------------------------------------------------------
(* The inductive invariant *)

\* Where cam_task is tells which of its local variables are in use, and the
\* slot it writes and the slot it is about to drop are apart from latest.
ProducerInv ==
  /\ (wslot # None) <=> (cam \in {"fill", "filled"})
  /\ old_latest # None => cam = "drop"
  /\ subs_copy # {} => cam \in {"drop", "notify"}
  /\ wslot # None => next_seq < MaxSeq
  /\ wslot # None => wslot # latest /\ Holders(wslot) = {}
  /\ old_latest # None => old_latest # latest

\* A consumer holds a slot exactly while it uses it.
ConsumerInv ==
  \A c \in Consumers : (held[c] # None) <=> (task[c] = "use")

\* What is known of the numbers and pictures in the slots.
FrameInv ==
  /\ (latest = None) <=> (next_seq = 0)
  /\ latest # None => seq[latest] = next_seq /\ img[latest] = next_seq
  /\ cam = "filled" => img[wslot] = next_seq + 1
  /\ \A c \in Consumers : held[c] # None => img[held[c]] # 0
  /\ \A c \in Watchers : last_seq[c] <= next_seq

IInv ==
  /\ TypeOK
  /\ RefcountExact
  /\ ProducerInv
  /\ ConsumerInv
  /\ FrameInv
  /\ NoLostWakeup

-----------------------------------------------------------------------------
(* Lemmas on the holders of a slot *)

\* Only finitely many consumers hold a slot.
LEMMA HoldersFinite ==
  ASSUME NEW s
  PROVE  IsFiniteSet(Holders(s)) /\ Cardinality(Holders(s)) \in Nat
<1>1. IsFiniteSet(Consumers)
  BY PoolAssumption, FS_Union DEF Consumers
<1>2. Holders(s) \subseteq Consumers
  BY DEF Holders
<1> QED
  BY <1>1, <1>2, FS_Subset, FS_CardinalityType

\* A consumer that takes slot x adds one holder to x and to no other slot.
LEMMA TakeHolders ==
  ASSUME held \in [Consumers -> Slots \cup {None}],
         NEW c \in Consumers, NEW x \in Slots,
         held[c] = None, held' = [held EXCEPT ![c] = x],
         NEW s \in Slots
  PROVE  Cardinality(Holders(s)') = Cardinality(Holders(s)) + One(s = x)
<1>1. CASE s = x
  <2>1. Holders(s)' = Holders(s) \cup {c} /\ c \notin Holders(s)
    BY <1>1, PoolAssumption DEF Holders
  <2> QED
    BY <1>1, <2>1, HoldersFinite, FS_AddElement DEF One
<1>2. CASE s # x
  <2>1. Holders(s)' = Holders(s)
    BY <1>2, PoolAssumption DEF Holders
  <2> QED
    BY <1>2, <2>1, HoldersFinite DEF One
<1> QED
  BY <1>1, <1>2

\* A consumer that releases slot x takes one holder off x and off no other.
LEMMA ReleaseHolders ==
  ASSUME held \in [Consumers -> Slots \cup {None}],
         NEW c \in Consumers, held[c] \in Slots,
         held' = [held EXCEPT ![c] = None],
         NEW s \in Slots
  PROVE  /\ Cardinality(Holders(s)') + One(s = held[c])
              = Cardinality(Holders(s))
         /\ Cardinality(Holders(s)') \in Nat
<1>1. CASE s = held[c]
  <2>1. Holders(s)' = Holders(s) \ {c} /\ c \in Holders(s)
    BY <1>1, PoolAssumption DEF Holders
  <2>2. IsFiniteSet(Holders(s)') /\ Cardinality(Holders(s)') \in Nat
    BY <2>1, HoldersFinite, FS_RemoveElement, FS_CardinalityType
  <2>3. Cardinality(Holders(s)') = Cardinality(Holders(s)) - 1
    BY <2>1, HoldersFinite, FS_RemoveElement
  <2> QED
    BY <1>1, <2>2, <2>3, HoldersFinite DEF One
<1>2. CASE s # held[c]
  <2>1. Holders(s)' = Holders(s)
    BY <1>2, PoolAssumption DEF Holders
  <2> QED
    BY <1>2, <2>1, HoldersFinite DEF One
<1> QED
  BY <1>1, <1>2

\* A slot whose refcount is zero has no holder and no other reference.
LEMMA FreeSlot ==
  ASSUME RefcountExact, NEW s \in Slots, refcount[s] = 0
  PROVE  Holders(s) = {} /\ s # wslot /\ s # latest /\ s # old_latest
<1>1. Cardinality(Holders(s)) + One(wslot = s) + One(latest = s)
        + One(old_latest = s) = 0
  BY DEF RefcountExact
<1>2. Cardinality(Holders(s)) \in Nat
  BY HoldersFinite
<1>3. /\ Cardinality(Holders(s)) = 0
      /\ One(wslot = s) = 0 /\ One(latest = s) = 0 /\ One(old_latest = s) = 0
  BY <1>1, <1>2 DEF One
<1> QED
  BY <1>3, HoldersFinite, FS_EmptySet DEF One
-----------------------------------------------------------------------------
(* Every step preserves every part of the invariant *)

\* The old latest slot still carries the reference that is due.
LEMMA OldLatestCounted ==
  ASSUME TypeOK, RefcountExact, old_latest # None
  PROVE  old_latest \in Slots /\ refcount[old_latest] - 1 \in Nat
<1>1. old_latest \in Slots
  BY DEF TypeOK
<1>2. Cardinality(Holders(old_latest)) \in Nat
  BY HoldersFinite
<1> QED
  BY <1>1, <1>2 DEF TypeOK, RefcountExact, One

\* The slot a consumer uses carries its reference.
LEMMA HeldCounted ==
  ASSUME TypeOK, RefcountExact, ConsumerInv,
         NEW c \in Consumers, task[c] = "use"
  PROVE  held[c] \in Slots /\ refcount[held[c]] - 1 \in Nat
<1>1. held[c] \in Slots
  BY DEF TypeOK, ConsumerInv
<1>2. c \in Holders(held[c])
  BY DEF Holders
<1>3. Cardinality(Holders(held[c])) \in Nat \ {0}
  BY <1>2, HoldersFinite, FS_EmptySet
<1> QED
  BY <1>1, <1>3 DEF TypeOK, RefcountExact, One

\* Types are preserved.
LEMMA TypeStep == IInv /\ [Next]_vars => TypeOK'
<1> SUFFICES ASSUME IInv, [Next]_vars PROVE TypeOK'
  OBVIOUS
<1> USE PoolAssumption DEF IInv
<1>1. CASE AcquireWritable
  BY <1>1 DEF AcquireWritable, consumerVars,
       TypeOK, Consumers, CamStates, TaskStates
<1>2. CASE AcquireFail
  BY <1>2 DEF AcquireFail, producerVars, consumerVars,
       TypeOK, Consumers, CamStates, TaskStates
<1>3. CASE Fill
  <2>1. wslot \in Slots /\ next_seq + 1 \in 0 .. MaxSeq
    BY <1>3 DEF Fill, TypeOK, ProducerInv
  <2> QED
    BY <1>3, <2>1 DEF Fill, TypeOK, CamStates, consumerVars
<1>4. CASE Publish
  <2>1. wslot \in Slots /\ next_seq + 1 \in 0 .. MaxSeq
    BY <1>4 DEF Publish, TypeOK, ProducerInv
  <2> QED
    BY <1>4, <2>1 DEF Publish, TypeOK, CamStates, consumerVars
<1>5. CASE DropOldLatest
  <2>1. refcount' \in [Slots -> Nat]
    BY <1>5, OldLatestCounted DEF DropOldLatest, TypeOK
  <2> QED
    BY <1>5, <2>1 DEF DropOldLatest, TypeOK, CamStates, consumerVars
<1>6. CASE PublishReturns
  BY <1>6 DEF PublishReturns, poolVars, consumerVars,
       TypeOK, Consumers, CamStates, TaskStates
<1>7. ASSUME NEW c \in Watchers, NotifyOne(c) PROVE TypeOK'
  BY <1>7 DEF NotifyOne, poolVars,
       TypeOK, Consumers, CamStates, TaskStates
<1>8. ASSUME NEW c \in Watchers, Subscribe(c) PROVE TypeOK'
  BY <1>8 DEF Subscribe, producerVars,
       TypeOK, Consumers, CamStates, TaskStates
<1>9. ASSUME NEW c \in Watchers, TakeNewer(c) PROVE TypeOK'
  <2>1. latest \in Slots /\ seq[latest] \in 0 .. MaxSeq
    BY <1>9 DEF TakeNewer, Newer, TypeOK
  <2> QED
    BY <1>9, <2>1 DEF TakeNewer, TypeOK, Consumers, TaskStates, producerVars
<1>10. ASSUME NEW c \in Watchers, Sleep(c) PROVE TypeOK'
  BY <1>10 DEF Sleep, poolVars, producerVars,
       TypeOK, Consumers, CamStates, TaskStates
<1>11. ASSUME NEW c \in Watchers, Wake(c) PROVE TypeOK'
  BY <1>11 DEF Wake, poolVars, producerVars,
       TypeOK, Consumers, CamStates, TaskStates
<1>12. ASSUME NEW c \in Senders, StartSender(c) PROVE TypeOK'
  BY <1>12 DEF StartSender, poolVars, producerVars,
       TypeOK, Consumers, CamStates, TaskStates
<1>13. ASSUME NEW c \in Senders, NoFrameExit(c) PROVE TypeOK'
  BY <1>13 DEF NoFrameExit, poolVars, producerVars,
       TypeOK, Consumers, CamStates, TaskStates
<1>14. ASSUME NEW c \in Senders, Unsubscribe(c) PROVE TypeOK'
  BY <1>14 DEF Unsubscribe, producerVars,
       TypeOK, Consumers, CamStates, TaskStates
<1>15. ASSUME NEW c \in Senders, DeleteSender(c) PROVE TypeOK'
  BY <1>15 DEF DeleteSender, poolVars, producerVars,
       TypeOK, Consumers, CamStates, TaskStates
<1>16. ASSUME NEW c \in Snapshotters, GetLatest(c) PROVE TypeOK'
  BY <1>16 DEF GetLatest, producerVars,
       TypeOK, Consumers, CamStates, TaskStates
<1>17. ASSUME NEW c \in Consumers, Release(c) PROVE TypeOK'
  <2>1. refcount' \in [Slots -> Nat]
    BY <1>17, HeldCounted DEF Release, TypeOK
  <2> QED
    BY <1>17, <2>1 DEF Release, TypeOK, Consumers, TaskStates, producerVars
<1>18. CASE UNCHANGED vars
  BY <1>18 DEF vars, poolVars, producerVars, consumerVars,
       TypeOK, Consumers, CamStates, TaskStates
<1> QED
  BY <1>1, <1>2, <1>3, <1>4, <1>5, <1>6, <1>7, <1>8, <1>9,
     <1>10, <1>11, <1>12, <1>13, <1>14, <1>15, <1>16, <1>17, <1>18
  DEF Next, CamTask, WatchLoop, SenderLife

\* Reference counts stay exact.
LEMMA RefcountStep == IInv /\ [Next]_vars => RefcountExact'
<1> SUFFICES ASSUME IInv, [Next]_vars PROVE RefcountExact'
  OBVIOUS
<1> USE PoolAssumption DEF IInv
<1>1. CASE AcquireWritable
  <2>1. \A s : Holders(s)' = Holders(s)
    BY <1>1 DEF AcquireWritable, Holders, consumerVars
  <2>2. PICK x \in Slots : /\ refcount[x] = 0
                          /\ refcount' = [refcount EXCEPT ![x] = 1]
                          /\ wslot' = x
    BY <1>1 DEF AcquireWritable
  <2>3. Holders(x) = {} /\ x # wslot /\ x # latest /\ x # old_latest
    BY <2>2, FreeSlot
  <2>4. wslot = None /\ latest' = latest /\ old_latest' = old_latest
    BY <1>1 DEF AcquireWritable, ProducerInv
  <2>5. Cardinality(Holders(x)) = 0
    BY <2>3, FS_EmptySet
  <2> SUFFICES ASSUME NEW s \in Slots
               PROVE  refcount'[s] = Cardinality(Holders(s)) + One(x = s)
                        + One(latest = s) + One(old_latest = s)
    BY <2>1, <2>2, <2>4 DEF RefcountExact
  <2>6. CASE s = x
    <3>1. refcount'[x] = 1
      BY <2>2 DEF TypeOK
    <3>2. One(x = s) = 1 /\ One(latest = s) = 0 /\ One(old_latest = s) = 0
      BY <2>3, <2>6 DEF One
    <3> QED
      BY <2>5, <2>6, <3>1, <3>2
  <2>7. CASE s # x
    BY <2>2, <2>4, <2>7 DEF RefcountExact, One, TypeOK
  <2> QED
    BY <2>6, <2>7
<1>2. CASE AcquireFail
  BY <1>2 DEF AcquireFail, producerVars, consumerVars,
       TypeOK, RefcountExact, One, Holders
<1>3. CASE Fill
  BY <1>3 DEF Fill, consumerVars,
       TypeOK, RefcountExact, One, Holders
<1>4. CASE Publish
  <2>1. \A s : Holders(s)' = Holders(s)
    BY <1>4 DEF Publish, Holders, consumerVars
  <2>2. wslot \in Slots /\ wslot # latest /\ old_latest = None
    BY <1>4 DEF Publish, ProducerInv, TypeOK
  <2>3. \A s \in Slots : Cardinality(Holders(s)) \in Nat
    BY HoldersFinite
  <2> QED
    BY <1>4, <2>1, <2>2, <2>3 DEF Publish, RefcountExact, One
<1>5. CASE DropOldLatest
  <2>1. \A s : Holders(s)' = Holders(s)
    BY <1>5 DEF DropOldLatest, Holders, consumerVars
  <2>2. \A s \in Slots : Cardinality(Holders(s)) \in Nat
    BY HoldersFinite
  <2> QED
    BY <1>5, <2>1, <2>2 DEF DropOldLatest, RefcountExact, One, TypeOK
<1>6. CASE PublishReturns
  BY <1>6 DEF PublishReturns, poolVars, consumerVars,
       TypeOK, RefcountExact, One, Holders
<1>7. ASSUME NEW c \in Watchers, NotifyOne(c) PROVE RefcountExact'
  BY <1>7 DEF NotifyOne, poolVars,
       TypeOK, RefcountExact, One, Holders
<1>8. ASSUME NEW c \in Watchers, Subscribe(c) PROVE RefcountExact'
  BY <1>8 DEF Subscribe, producerVars,
       TypeOK, RefcountExact, One, Holders
<1>9. ASSUME NEW c \in Watchers, TakeNewer(c) PROVE RefcountExact'
  <2>1. latest \in Slots /\ held[c] = None /\ held' = [held EXCEPT ![c] = latest]
    BY <1>9 DEF TakeNewer, Newer, TypeOK, ConsumerInv, Consumers
  <2>2. \A s \in Slots : Cardinality(Holders(s)') = Cardinality(Holders(s)) + One(s = latest)
    <3>1. held \in [Consumers -> Slots \cup {None}] /\ c \in Consumers
      BY DEF TypeOK, Consumers
    <3> QED
      BY <2>1, <3>1, TakeHolders
  <2>3. \A s \in Slots : refcount'[s] = refcount[s] + One(s = latest)
    BY <1>9, <2>1 DEF TakeNewer, TypeOK, One
  <2>4. \A s \in Slots : Cardinality(Holders(s)) \in Nat
    BY HoldersFinite
  <2> QED
    BY <1>9, <2>2, <2>3, <2>4 DEF TakeNewer, RefcountExact, One, producerVars
<1>10. ASSUME NEW c \in Watchers, Sleep(c) PROVE RefcountExact'
  BY <1>10 DEF Sleep, poolVars, producerVars,
       TypeOK, RefcountExact, One, Holders
<1>11. ASSUME NEW c \in Watchers, Wake(c) PROVE RefcountExact'
  BY <1>11 DEF Wake, poolVars, producerVars,
       TypeOK, RefcountExact, One, Holders
<1>12. ASSUME NEW c \in Senders, StartSender(c) PROVE RefcountExact'
  BY <1>12 DEF StartSender, poolVars, producerVars,
       TypeOK, RefcountExact, One, Holders
<1>13. ASSUME NEW c \in Senders, NoFrameExit(c) PROVE RefcountExact'
  BY <1>13 DEF NoFrameExit, poolVars, producerVars,
       TypeOK, RefcountExact, One, Holders
<1>14. ASSUME NEW c \in Senders, Unsubscribe(c) PROVE RefcountExact'
  BY <1>14 DEF Unsubscribe, producerVars,
       TypeOK, RefcountExact, One, Holders
<1>15. ASSUME NEW c \in Senders, DeleteSender(c) PROVE RefcountExact'
  BY <1>15 DEF DeleteSender, poolVars, producerVars,
       TypeOK, RefcountExact, One, Holders
<1>16. ASSUME NEW c \in Snapshotters, GetLatest(c) PROVE RefcountExact'
  <2>1. latest \in Slots /\ held[c] = None /\ held' = [held EXCEPT ![c] = latest]
    BY <1>16 DEF GetLatest, TypeOK, ConsumerInv, Consumers
  <2>2. \A s \in Slots : Cardinality(Holders(s)') = Cardinality(Holders(s)) + One(s = latest)
    <3>1. held \in [Consumers -> Slots \cup {None}] /\ c \in Consumers
      BY DEF TypeOK, Consumers
    <3> QED
      BY <2>1, <3>1, TakeHolders
  <2>3. \A s \in Slots : refcount'[s] = refcount[s] + One(s = latest)
    BY <1>16, <2>1 DEF GetLatest, TypeOK, One
  <2>4. \A s \in Slots : Cardinality(Holders(s)) \in Nat
    BY HoldersFinite
  <2> QED
    BY <1>16, <2>2, <2>3, <2>4 DEF GetLatest, RefcountExact, One, producerVars
<1>17. ASSUME NEW c \in Consumers, Release(c) PROVE RefcountExact'
  <2>1. held[c] \in Slots /\ held' = [held EXCEPT ![c] = None]
    BY <1>17 DEF Release, TypeOK, ConsumerInv
  <2>2. \A s \in Slots : /\ Cardinality(Holders(s)') + One(s = held[c])
                             = Cardinality(Holders(s))
                        /\ Cardinality(Holders(s)') \in Nat
    BY <2>1, ReleaseHolders DEF TypeOK
  <2>3. \A s \in Slots : refcount'[s] = refcount[s] - One(s = held[c])
    BY <1>17, <2>1 DEF Release, TypeOK, One
  <2> QED
    BY <1>17, <2>2, <2>3 DEF Release, RefcountExact, One, producerVars
<1>18. CASE UNCHANGED vars
  BY <1>18 DEF vars, poolVars, producerVars, consumerVars,
       TypeOK, RefcountExact, One, Holders
<1> QED
  BY <1>1, <1>2, <1>3, <1>4, <1>5, <1>6, <1>7, <1>8, <1>9,
     <1>10, <1>11, <1>12, <1>13, <1>14, <1>15, <1>16, <1>17, <1>18
  DEF Next, CamTask, WatchLoop, SenderLife

\* The slot cam_task works on stays its own.
LEMMA ProducerStep == IInv /\ [Next]_vars => ProducerInv'
<1> SUFFICES ASSUME IInv, [Next]_vars PROVE ProducerInv'
  OBVIOUS
<1> USE PoolAssumption DEF IInv
<1>1. CASE AcquireWritable
  <2>1. PICK x \in Slots : refcount[x] = 0 /\ wslot' = x
    BY <1>1 DEF AcquireWritable
  <2>2. Holders(x) = {} /\ x # latest
    BY <2>1, FreeSlot
  <2>3. Holders(x)' = Holders(x)
    BY <1>1 DEF AcquireWritable, Holders, consumerVars
  <2> QED
    BY <1>1, <2>1, <2>2, <2>3 DEF AcquireWritable, ProducerInv
<1>2. CASE AcquireFail
  BY <1>2 DEF AcquireFail, producerVars, consumerVars,
       TypeOK, ProducerInv, Holders
<1>3. CASE Fill
  BY <1>3 DEF Fill, consumerVars,
       TypeOK, ProducerInv, Holders
<1>4. CASE Publish
  BY <1>4 DEF Publish, consumerVars,
       TypeOK, ProducerInv, Holders
<1>5. CASE DropOldLatest
  BY <1>5 DEF DropOldLatest, consumerVars,
       TypeOK, ProducerInv, Holders
<1>6. CASE PublishReturns
  BY <1>6 DEF PublishReturns, poolVars, consumerVars,
       TypeOK, ProducerInv, Holders
<1>7. ASSUME NEW c \in Watchers, NotifyOne(c) PROVE ProducerInv'
  BY <1>7 DEF NotifyOne, poolVars,
       TypeOK, ProducerInv, Holders
<1>8. ASSUME NEW c \in Watchers, Subscribe(c) PROVE ProducerInv'
  BY <1>8 DEF Subscribe, producerVars,
       TypeOK, ProducerInv, Holders
<1>9. ASSUME NEW c \in Watchers, TakeNewer(c) PROVE ProducerInv'
  <2>1. latest \in Slots
    BY <1>9 DEF TakeNewer, Newer, TypeOK
  <2> QED
    BY <1>9, <2>1 DEF TakeNewer, TypeOK, ProducerInv, Holders, Consumers, producerVars
<1>10. ASSUME NEW c \in Watchers, Sleep(c) PROVE ProducerInv'
  BY <1>10 DEF Sleep, poolVars, producerVars,
       TypeOK, ProducerInv, Holders
<1>11. ASSUME NEW c \in Watchers, Wake(c) PROVE ProducerInv'
  BY <1>11 DEF Wake, poolVars, producerVars,
       TypeOK, ProducerInv, Holders
<1>12. ASSUME NEW c \in Senders, StartSender(c) PROVE ProducerInv'
  BY <1>12 DEF StartSender, poolVars, producerVars,
       TypeOK, ProducerInv, Holders
<1>13. ASSUME NEW c \in Senders, NoFrameExit(c) PROVE ProducerInv'
  BY <1>13 DEF NoFrameExit, poolVars, producerVars,
       TypeOK, ProducerInv, Holders
<1>14. ASSUME NEW c \in Senders, Unsubscribe(c) PROVE ProducerInv'
  BY <1>14 DEF Unsubscribe, producerVars,
       TypeOK, ProducerInv, Holders
<1>15. ASSUME NEW c \in Senders, DeleteSender(c) PROVE ProducerInv'
  BY <1>15 DEF DeleteSender, poolVars, producerVars,
       TypeOK, ProducerInv, Holders
<1>16. ASSUME NEW c \in Snapshotters, GetLatest(c) PROVE ProducerInv'
  <2>1. latest \in Slots
    BY <1>16 DEF GetLatest, TypeOK
  <2> QED
    BY <1>16, <2>1 DEF GetLatest, TypeOK, ProducerInv, Holders, Consumers, producerVars
<1>17. ASSUME NEW c \in Consumers, Release(c) PROVE ProducerInv'
  BY <1>17 DEF Release, producerVars,
       TypeOK, ProducerInv, Holders
<1>18. CASE UNCHANGED vars
  BY <1>18 DEF vars, poolVars, producerVars, consumerVars,
       TypeOK, ProducerInv, Holders
<1> QED
  BY <1>1, <1>2, <1>3, <1>4, <1>5, <1>6, <1>7, <1>8, <1>9,
     <1>10, <1>11, <1>12, <1>13, <1>14, <1>15, <1>16, <1>17, <1>18
  DEF Next, CamTask, WatchLoop, SenderLife

\* Holding and using a slot stay the same thing.
LEMMA ConsumerStep == IInv /\ [Next]_vars => ConsumerInv'
<1> SUFFICES ASSUME IInv, [Next]_vars PROVE ConsumerInv'
  OBVIOUS
<1> USE PoolAssumption DEF IInv
<1>1. CASE AcquireWritable
  BY <1>1 DEF AcquireWritable, consumerVars,
       TypeOK, ConsumerInv, Consumers
<1>2. CASE AcquireFail
  BY <1>2 DEF AcquireFail, producerVars, consumerVars,
       TypeOK, ConsumerInv, Consumers
<1>3. CASE Fill
  BY <1>3 DEF Fill, consumerVars,
       TypeOK, ConsumerInv, Consumers
<1>4. CASE Publish
  BY <1>4 DEF Publish, consumerVars,
       TypeOK, ConsumerInv, Consumers
<1>5. CASE DropOldLatest
  BY <1>5 DEF DropOldLatest, consumerVars,
       TypeOK, ConsumerInv, Consumers
<1>6. CASE PublishReturns
  BY <1>6 DEF PublishReturns, poolVars, consumerVars,
       TypeOK, ConsumerInv, Consumers
<1>7. ASSUME NEW c \in Watchers, NotifyOne(c) PROVE ConsumerInv'
  BY <1>7 DEF NotifyOne, poolVars,
       TypeOK, ConsumerInv, Consumers
<1>8. ASSUME NEW c \in Watchers, Subscribe(c) PROVE ConsumerInv'
  BY <1>8 DEF Subscribe, producerVars,
       TypeOK, ConsumerInv, Consumers
<1>9. ASSUME NEW c \in Watchers, TakeNewer(c) PROVE ConsumerInv'
  <2>1. latest \in Slots
    BY <1>9 DEF TakeNewer, Newer, TypeOK
  <2> QED
    BY <1>9, <2>1 DEF TakeNewer, TypeOK, ConsumerInv, Consumers
<1>10. ASSUME NEW c \in Watchers, Sleep(c) PROVE ConsumerInv'
  BY <1>10 DEF Sleep, poolVars, producerVars,
       TypeOK, ConsumerInv, Consumers
<1>11. ASSUME NEW c \in Watchers, Wake(c) PROVE ConsumerInv'
  BY <1>11 DEF Wake, poolVars, producerVars,
       TypeOK, ConsumerInv, Consumers
<1>12. ASSUME NEW c \in Senders, StartSender(c) PROVE ConsumerInv'
  BY <1>12 DEF StartSender, poolVars, producerVars,
       TypeOK, ConsumerInv, Consumers
<1>13. ASSUME NEW c \in Senders, NoFrameExit(c) PROVE ConsumerInv'
  BY <1>13 DEF NoFrameExit, poolVars, producerVars,
       TypeOK, ConsumerInv, Consumers
<1>14. ASSUME NEW c \in Senders, Unsubscribe(c) PROVE ConsumerInv'
  BY <1>14 DEF Unsubscribe, producerVars,
       TypeOK, ConsumerInv, Consumers
<1>15. ASSUME NEW c \in Senders, DeleteSender(c) PROVE ConsumerInv'
  BY <1>15 DEF DeleteSender, poolVars, producerVars,
       TypeOK, ConsumerInv, Consumers
<1>16. ASSUME NEW c \in Snapshotters, GetLatest(c) PROVE ConsumerInv'
  BY <1>16 DEF GetLatest, producerVars,
       TypeOK, ConsumerInv, Consumers
<1>17. ASSUME NEW c \in Consumers, Release(c) PROVE ConsumerInv'
  BY <1>17 DEF Release, producerVars,
       TypeOK, ConsumerInv, Consumers
<1>18. CASE UNCHANGED vars
  BY <1>18 DEF vars, poolVars, producerVars, consumerVars,
       TypeOK, ConsumerInv, Consumers
<1> QED
  BY <1>1, <1>2, <1>3, <1>4, <1>5, <1>6, <1>7, <1>8, <1>9,
     <1>10, <1>11, <1>12, <1>13, <1>14, <1>15, <1>16, <1>17, <1>18
  DEF Next, CamTask, WatchLoop, SenderLife

\* Sequence numbers and pictures keep agreeing.
LEMMA FrameStep == IInv /\ [Next]_vars => FrameInv'
<1> SUFFICES ASSUME IInv, [Next]_vars PROVE FrameInv'
  OBVIOUS
<1> USE PoolAssumption DEF IInv
<1>1. CASE AcquireWritable
  BY <1>1 DEF AcquireWritable, consumerVars,
       TypeOK, FrameInv, ProducerInv, Consumers
<1>2. CASE AcquireFail
  BY <1>2 DEF AcquireFail, producerVars, consumerVars,
       TypeOK, FrameInv, ProducerInv, Consumers
<1>3. CASE Fill
  BY <1>3 DEF Fill, consumerVars,
       TypeOK, FrameInv, ProducerInv, Consumers
<1>4. CASE Publish
  BY <1>4 DEF Publish, consumerVars,
       TypeOK, FrameInv, ProducerInv, Consumers
<1>5. CASE DropOldLatest
  BY <1>5 DEF DropOldLatest, consumerVars,
       TypeOK, FrameInv, ProducerInv, Consumers
<1>6. CASE PublishReturns
  BY <1>6 DEF PublishReturns, poolVars, consumerVars,
       TypeOK, FrameInv, ProducerInv, Consumers
<1>7. ASSUME NEW c \in Watchers, NotifyOne(c) PROVE FrameInv'
  BY <1>7 DEF NotifyOne, poolVars,
       TypeOK, FrameInv, ProducerInv, Consumers
<1>8. ASSUME NEW c \in Watchers, Subscribe(c) PROVE FrameInv'
  BY <1>8 DEF Subscribe, producerVars,
       TypeOK, FrameInv, ProducerInv, Consumers
<1>9. ASSUME NEW c \in Watchers, TakeNewer(c) PROVE FrameInv'
  <2>1. /\ latest \in Slots
        /\ seq[latest] = next_seq /\ img[latest] = next_seq /\ next_seq # 0
    BY <1>9 DEF TakeNewer, Newer, TypeOK, FrameInv
  <2> QED
    BY <1>9, <2>1 DEF TakeNewer, TypeOK, FrameInv, Consumers, producerVars
<1>10. ASSUME NEW c \in Watchers, Sleep(c) PROVE FrameInv'
  BY <1>10 DEF Sleep, poolVars, producerVars,
       TypeOK, FrameInv, ProducerInv, Consumers
<1>11. ASSUME NEW c \in Watchers, Wake(c) PROVE FrameInv'
  BY <1>11 DEF Wake, poolVars, producerVars,
       TypeOK, FrameInv, ProducerInv, Consumers
<1>12. ASSUME NEW c \in Senders, StartSender(c) PROVE FrameInv'
  BY <1>12 DEF StartSender, poolVars, producerVars,
       TypeOK, FrameInv, ProducerInv, Consumers
<1>13. ASSUME NEW c \in Senders, NoFrameExit(c) PROVE FrameInv'
  BY <1>13 DEF NoFrameExit, poolVars, producerVars,
       TypeOK, FrameInv, ProducerInv, Consumers
<1>14. ASSUME NEW c \in Senders, Unsubscribe(c) PROVE FrameInv'
  BY <1>14 DEF Unsubscribe, producerVars,
       TypeOK, FrameInv, ProducerInv, Consumers
<1>15. ASSUME NEW c \in Senders, DeleteSender(c) PROVE FrameInv'
  BY <1>15 DEF DeleteSender, poolVars, producerVars,
       TypeOK, FrameInv, ProducerInv, Consumers
<1>16. ASSUME NEW c \in Snapshotters, GetLatest(c) PROVE FrameInv'
  BY <1>16 DEF GetLatest, producerVars,
       TypeOK, FrameInv, ProducerInv, Consumers
<1>17. ASSUME NEW c \in Consumers, Release(c) PROVE FrameInv'
  BY <1>17 DEF Release, producerVars,
       TypeOK, FrameInv, ProducerInv, Consumers
<1>18. CASE UNCHANGED vars
  BY <1>18 DEF vars, poolVars, producerVars, consumerVars,
       TypeOK, FrameInv, ProducerInv, Consumers
<1> QED
  BY <1>1, <1>2, <1>3, <1>4, <1>5, <1>6, <1>7, <1>8, <1>9,
     <1>10, <1>11, <1>12, <1>13, <1>14, <1>15, <1>16, <1>17, <1>18
  DEF Next, CamTask, WatchLoop, SenderLife

\* No step loses a wake-up.
LEMMA WakeupStep == IInv /\ [Next]_vars => NoLostWakeup'
<1> SUFFICES ASSUME IInv, [Next]_vars PROVE NoLostWakeup'
  OBVIOUS
<1> USE PoolAssumption DEF IInv
<1>1. CASE AcquireWritable
  BY <1>1 DEF AcquireWritable, consumerVars,
       TypeOK, NoLostWakeup, Newer, Consumers
<1>2. CASE AcquireFail
  BY <1>2 DEF AcquireFail, producerVars, consumerVars,
       TypeOK, NoLostWakeup, Newer, Consumers
<1>3. CASE Fill
  BY <1>3 DEF Fill, consumerVars,
       TypeOK, NoLostWakeup, Newer, Consumers
<1>4. CASE Publish
  BY <1>4 DEF Publish, consumerVars,
       TypeOK, NoLostWakeup, Newer, Consumers
<1>5. CASE DropOldLatest
  BY <1>5 DEF DropOldLatest, consumerVars,
       TypeOK, NoLostWakeup, Newer, Consumers
<1>6. CASE PublishReturns
  BY <1>6 DEF PublishReturns, poolVars, consumerVars,
       TypeOK, NoLostWakeup, Newer, Consumers
<1>7. ASSUME NEW c \in Watchers, NotifyOne(c) PROVE NoLostWakeup'
  BY <1>7 DEF NotifyOne, poolVars,
       TypeOK, NoLostWakeup, Newer, Consumers
<1>8. ASSUME NEW c \in Watchers, Subscribe(c) PROVE NoLostWakeup'
  BY <1>8 DEF Subscribe, producerVars,
       TypeOK, NoLostWakeup, Newer, Consumers
<1>9. ASSUME NEW c \in Watchers, TakeNewer(c) PROVE NoLostWakeup'
  BY <1>9 DEF TakeNewer, producerVars,
       TypeOK, NoLostWakeup, Newer, Consumers
<1>10. ASSUME NEW c \in Watchers, Sleep(c) PROVE NoLostWakeup'
  BY <1>10 DEF Sleep, poolVars, producerVars,
       TypeOK, NoLostWakeup, Newer, Consumers
<1>11. ASSUME NEW c \in Watchers, Wake(c) PROVE NoLostWakeup'
  BY <1>11 DEF Wake, poolVars, producerVars,
       TypeOK, NoLostWakeup, Newer, Consumers
<1>12. ASSUME NEW c \in Senders, StartSender(c) PROVE NoLostWakeup'
  BY <1>12 DEF StartSender, poolVars, producerVars,
       TypeOK, NoLostWakeup, Newer, Consumers
<1>13. ASSUME NEW c \in Senders, NoFrameExit(c) PROVE NoLostWakeup'
  BY <1>13 DEF NoFrameExit, poolVars, producerVars,
       TypeOK, NoLostWakeup, Newer, Consumers
<1>14. ASSUME NEW c \in Senders, Unsubscribe(c) PROVE NoLostWakeup'
  BY <1>14 DEF Unsubscribe, producerVars,
       TypeOK, NoLostWakeup, Newer, Consumers
<1>15. ASSUME NEW c \in Senders, DeleteSender(c) PROVE NoLostWakeup'
  BY <1>15 DEF DeleteSender, poolVars, producerVars,
       TypeOK, NoLostWakeup, Newer, Consumers
<1>16. ASSUME NEW c \in Snapshotters, GetLatest(c) PROVE NoLostWakeup'
  BY <1>16 DEF GetLatest, producerVars,
       TypeOK, NoLostWakeup, Newer, Consumers
<1>17. ASSUME NEW c \in Consumers, Release(c) PROVE NoLostWakeup'
  BY <1>17 DEF Release, producerVars,
       TypeOK, NoLostWakeup, Newer, Consumers
<1>18. CASE UNCHANGED vars
  BY <1>18 DEF vars, poolVars, producerVars, consumerVars,
       TypeOK, NoLostWakeup, Newer, Consumers
<1> QED
  BY <1>1, <1>2, <1>3, <1>4, <1>5, <1>6, <1>7, <1>8, <1>9,
     <1>10, <1>11, <1>12, <1>13, <1>14, <1>15, <1>16, <1>17, <1>18
  DEF Next, CamTask, WatchLoop, SenderLife
-----------------------------------------------------------------------------
(* The theorems *)

\* The initial state satisfies the invariant.
LEMMA InitIInv == Init => IInv
<1> SUFFICES ASSUME Init PROVE IInv
  OBVIOUS
<1> USE PoolAssumption
<1>1. TypeOK
  BY DEF Init, TypeOK, Consumers, CamStates, TaskStates
<1>2. RefcountExact
  <2>1. \A s \in Slots : Holders(s) = {}
    BY DEF Init, Holders
  <2>2. \A s \in Slots : Cardinality(Holders(s)) = 0
    BY <2>1, FS_EmptySet
  <2>3. wslot = None /\ latest = None /\ old_latest = None
    BY DEF Init
  <2> QED
    BY <2>2, <2>3 DEF Init, RefcountExact, One
<1>3. ProducerInv /\ ConsumerInv /\ NoLostWakeup
  BY DEF Init, ProducerInv, ConsumerInv, NoLostWakeup
<1>4. FrameInv
  BY DEF Init, FrameInv, Consumers
<1> QED
  BY <1>1, <1>2, <1>3, <1>4 DEF IInv

\* IInv holds in every reachable state of the frame pool.
THEOREM Inductive == Spec => []IInv
<1>1. IInv /\ [Next]_vars => IInv'
  BY TypeStep, RefcountStep, ProducerStep, ConsumerStep, FrameStep, WakeupStep
  DEF IInv
<1> QED
  BY InitIInv, <1>1, PTL DEF Spec

\* Type correctness: no refcount of frame_pool.c ever goes below zero.
THEOREM TypeCorrect == Spec => []TypeOK
<1>1. IInv => TypeOK
  BY DEF IInv
<1> QED
  BY Inductive, <1>1, PTL

\* A refcount is at every step the number of references to its slot, also
\* while frame_pool_publish runs outside the mutex.
THEOREM RefcountsAreExact == Spec => []RefcountExact
<1>1. IInv => RefcountExact
  BY DEF IInv
<1> QED
  BY Inductive, <1>1, PTL

\* cam_task never writes into a frame that a consumer can see.
THEOREM WritesAreExclusive == Spec => []ExclusiveWrite
<1>1. IInv => ExclusiveWrite
  BY DEF IInv, ProducerInv, ExclusiveWrite
<1> QED
  BY Inductive, <1>1, PTL

\* A subscribed consumer never sleeps through a frame.
THEOREM WakeupsAreNotLost == Spec => []NoLostWakeup
<1>1. IInv => NoLostWakeup
  BY DEF IInv
<1> QED
  BY Inductive, <1>1, PTL

-----------------------------------------------------------------------------
(* Refinement *)

\* The view of every consumer, as a function; it is FrameFeed's view.
ViewMap == [c \in Consumers |-> View(c)]

\* A step that changes no picture in a held buffer and leaves held alone
\* changes no view.
LEMMA SameView ==
  ASSUME TypeOK, UNCHANGED held,
         \A c \in Consumers : held[c] # None => img'[held[c]] = img[held[c]]
  PROVE  ViewMap' = ViewMap
BY DEF ViewMap, View, TypeOK

\* A consumer that takes the latest slot sees the newest picture.
LEMMA TakeView ==
  ASSUME IInv, NEW c \in Consumers, latest # None, held[c] = None,
         UNCHANGED img, held' = [held EXCEPT ![c] = latest]
  PROVE  /\ View(c) = 0
         /\ ViewMap' = [ViewMap EXCEPT ![c] = next_seq]
         /\ next_seq > 0
<1>1. latest \in Slots /\ img[latest] = next_seq /\ next_seq > 0
  BY DEF IInv, TypeOK, FrameInv
<1> QED
  BY <1>1, PoolAssumption DEF ViewMap, View, IInv, TypeOK

\* A consumer that releases its slot sees no picture any more.
LEMMA ReleaseView ==
  ASSUME IInv, NEW c \in Consumers, held[c] # None,
         UNCHANGED img, held' = [held EXCEPT ![c] = None]
  PROVE  View(c) # 0 /\ ViewMap' = [ViewMap EXCEPT ![c] = 0]
BY PoolAssumption DEF ViewMap, View, IInv, TypeOK, FrameInv

\* Every step of the frame pool is a step of FrameFeed or leaves it alone.
LEMMA FeedStep == IInv /\ [Next]_vars => [Feed!FeedNext]_(Feed!feedVars)
<1> SUFFICES ASSUME IInv, [Next]_vars
             PROVE  Feed!FeedNext \/ UNCHANGED <<next_seq, ViewMap, last_seq>>
  BY DEF Feed!feedVars, ViewMap
<1> USE PoolAssumption
<1>1. CASE Fill
  <2>1. \A c \in Consumers : held[c] # None => held[c] # wslot
    BY <1>1 DEF Fill, IInv, ProducerInv, Holders
  <2>2. \A c \in Consumers : held[c] # None => img'[held[c]] = img[held[c]]
    BY <1>1, <2>1 DEF Fill, IInv, TypeOK
  <2> QED
    BY <1>1, <2>2, SameView DEF Fill, IInv, consumerVars
<1>2. CASE Publish
  <2>1. ViewMap' = ViewMap
    BY <1>2, SameView DEF Publish, IInv, consumerVars
  <2> QED
    BY <1>2, <2>1 DEF Publish, Feed!FeedNext, Feed!Appear, ViewMap, consumerVars
<1>3. ASSUME NEW c \in Watchers, TakeNewer(c)
      PROVE  Feed!FeedNext
  <2>1. c \in Consumers /\ latest # None /\ held[c] = None /\ seq[latest] = next_seq
    BY <1>3 DEF TakeNewer, Newer, IInv, ConsumerInv, FrameInv, Consumers
  <2>2. /\ View(c) = 0
        /\ ViewMap' = [ViewMap EXCEPT ![c] = next_seq]
    BY <1>3, <2>1, TakeView DEF TakeNewer
  <2>3. next_seq > last_seq[c] /\ last_seq' = [last_seq EXCEPT ![c] = next_seq]
    BY <1>3, <2>1 DEF TakeNewer, Newer, IInv, TypeOK
  <2>4. Feed!Follow(c)
    BY <1>3, <2>1, <2>2, <2>3 DEF TakeNewer, Feed!Follow, ViewMap
  <2> QED
    BY <2>4 DEF Feed!FeedNext
<1>4. ASSUME NEW c \in Snapshotters, GetLatest(c)
      PROVE  Feed!FeedNext
  <2>1. c \in Consumers /\ latest # None /\ held[c] = None
    BY <1>4 DEF GetLatest, IInv, ConsumerInv, Consumers
  <2>2. /\ View(c) = 0 /\ next_seq > 0
        /\ ViewMap' = [ViewMap EXCEPT ![c] = next_seq]
    BY <1>4, <2>1, TakeView DEF GetLatest
  <2>3. Feed!Peek(c)
    BY <1>4, <2>1, <2>2 DEF GetLatest, Feed!Peek, ViewMap
  <2> QED
    BY <2>3 DEF Feed!FeedNext
<1>5. ASSUME NEW c \in Consumers, Release(c)
      PROVE  Feed!FeedNext
  <2>1. held[c] # None
    BY <1>5 DEF Release, IInv, ConsumerInv
  <2>2. View(c) # 0 /\ ViewMap' = [ViewMap EXCEPT ![c] = 0]
    BY <1>5, <2>1, ReleaseView DEF Release
  <2>3. Feed!PutDown(c)
    BY <1>5, <2>2 DEF Release, Feed!PutDown, ViewMap
  <2> QED
    BY <2>3 DEF Feed!FeedNext, Feed!Viewers, Consumers
<1>6. ASSUME NEW c \in Senders, StartSender(c)
      PROVE  Feed!FeedNext
  <2>1. c \in Consumers /\ View(c) = 0
    BY <1>6 DEF StartSender, View, IInv, ConsumerInv, Consumers
  <2>2. ViewMap' = ViewMap
    BY <1>6, SameView DEF StartSender, IInv, poolVars
  <2>3. Feed!StartAfresh(c)
    BY <1>6, <2>1, <2>2 DEF StartSender, Feed!StartAfresh, ViewMap, poolVars
  <2> QED
    BY <2>3 DEF Feed!FeedNext
<1>7. ASSUME UNCHANGED <<next_seq, img, held, last_seq>>
      PROVE  UNCHANGED <<next_seq, ViewMap, last_seq>>
  BY <1>7 DEF ViewMap, View
<1>8. CASE AcquireWritable \/ AcquireFail \/ DropOldLatest \/ PublishReturns
  BY <1>7, <1>8 DEF AcquireWritable, AcquireFail, DropOldLatest, PublishReturns,
                    poolVars, consumerVars
<1>9. ASSUME NEW c \in Watchers,
             NotifyOne(c) \/ Subscribe(c) \/ Sleep(c) \/ Wake(c)
      PROVE  UNCHANGED <<next_seq, ViewMap, last_seq>>
  BY <1>7, <1>9 DEF NotifyOne, Subscribe, Sleep, Wake, poolVars
<1>10. ASSUME NEW c \in Senders,
              NoFrameExit(c) \/ Unsubscribe(c) \/ DeleteSender(c)
       PROVE  UNCHANGED <<next_seq, ViewMap, last_seq>>
  BY <1>7, <1>10 DEF NoFrameExit, Unsubscribe, DeleteSender, poolVars
<1>11. CASE UNCHANGED vars
  BY <1>7, <1>11 DEF vars, poolVars, consumerVars
<1> QED
  BY <1>1, <1>2, <1>3, <1>4, <1>5, <1>6, <1>8, <1>9, <1>10, <1>11
  DEF Next, CamTask, WatchLoop, SenderLife

\* The frame pool implements FrameFeed: every consumer sees only complete
\* pictures, each the newest when it was taken, and none changes under it.
THEOREM FeedIsImplemented == Spec => ImplementsFeed
<1>1. Init => Feed!FeedInit
  BY PoolAssumption DEF Init, Feed!FeedInit, Feed!Viewers, View, Consumers
<1> QED
  BY <1>1, Inductive, FeedStep, PTL DEF Spec, ImplementsFeed, Feed!FeedSpec

=============================================================================
