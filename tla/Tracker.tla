------------------------------ MODULE Tracker ------------------------------
(***************************************************************************)
(* The multi-object tracker of the motion detector (vision/motion_detect.c *)
(* from tracker_update to tracker_publish).  A frame brings a list of      *)
(* blobs; each goes to the nearest track that is near enough and has none  *)
(* yet, or starts a track of its own; then the tracks without a blob age   *)
(* and the others escalate; then the confirmed ones are published.         *)
(*                                                                         *)
(* A blob is its centre, in half pixels, and whether its score reaches     *)
(* MOTION_TRACK_ALERT_SCORE.  A smoothed value lies between the integers   *)
(* next to the real one: either may be taken.  The boxes' sizes and ages,  *)
(* which no decision depends on, are left out.                             *)
(***************************************************************************)
EXTENDS Integers, Sequences, FiniteSets

CONSTANTS MaxTracks,     \* MOTION_MAX_TRACKS
          MaxId,         \* 65535: identifiers are 16 bits wide, 0 is not used
          MatchD2,       \* square of MOTION_TRACK_MATCH_DIST_PX, in half pixels
          ConfirmHits,   \* MOTION_TRACK_CONFIRM_HITS
          AlertSustain,  \* MOTION_TRACK_ALERT_SUSTAIN
          PossibleHold,  \* MOTION_TRACK_POSSIBLE_HOLD
          Reach          \* centres are in 0 .. Reach

ASSUME TrackerAssumption ==
  /\ MaxTracks \in Nat \ {0} /\ MaxId \in Nat \ {0} /\ MatchD2 \in Nat
  /\ ConfirmHits \in Nat \ {0} /\ AlertSustain \in Nat \ {0}
  /\ PossibleHold \in Nat /\ Reach \in Nat

VARIABLES
  active, id,       \* tracks[t].active, .id
  at, high,         \* .cx and .cy; whether .score_smooth reaches the alert score
  hits, misses,     \* .hits (counted to HitCap), .misses
  alert_frames,     \* .alert_frames (counted to AlertSustain)
  was_alert,        \* .was_alert
  matched_now,      \* .matched_now
  next_id,          \* next_track_id
  pc,               \* what motion_task does next
  pending,          \* the blobs of this frame not yet looked at
  result,           \* s_mo.result.tracks: the state of each track published
  since,            \* history: identifiers given out after a track's own
  streak,           \* history: frames the track has matched in a row
  earned,           \* history: whether a streak has reached AlertSustain
  seen, dropped     \* history: blobs of this frame, and those without a track

bodyVars    == <<at, high, hits, misses, alert_frames, was_alert>>
historyVars == <<since, streak, earned>>
frameVars   == <<pending, seen, dropped>>
trackVars   == <<active, id, bodyVars, matched_now, next_id, pc, frameVars,
                 result, historyVars>>

Tracks == 1 .. MaxTracks
Ids    == 1 .. MaxId
Point  == [x : 0 .. Reach, y : 0 .. Reach]
Blob   == [at : Point, high : BOOLEAN]
HitCap == IF ConfirmHits > AlertSustain THEN ConfirmHits ELSE AlertSustain

States == {"tracking", "alert", "possible"}
Results == UNION {[S -> States] : S \in SUBSET Tracks}

TypeOK ==
  /\ active \in [Tracks -> BOOLEAN] /\ id \in [Tracks -> Ids]
  /\ at \in [Tracks -> Point] /\ high \in [Tracks -> BOOLEAN]
  /\ hits \in [Tracks -> 0 .. HitCap] /\ misses \in [Tracks -> 0 .. PossibleHold + 1]
  /\ alert_frames \in [Tracks -> 0 .. AlertSustain]
  /\ was_alert \in [Tracks -> BOOLEAN] /\ matched_now \in [Tracks -> BOOLEAN]
  /\ next_id \in Ids
  /\ pc \in {"frame", "match", "publish"}
  /\ pending \in Seq(Blob) /\ seen \in Nat /\ dropped \in Nat
  /\ result \in Results
  /\ since \in [Tracks -> 0 .. MaxId]
  /\ streak \in [Tracks -> 0 .. AlertSustain] /\ earned \in [Tracks -> BOOLEAN]

\* motion_detect_init.
TrackInit ==
  /\ active = [t \in Tracks |-> FALSE] /\ id = [t \in Tracks |-> 1]
  /\ at = [t \in Tracks |-> [x |-> 0, y |-> 0]] /\ high = [t \in Tracks |-> FALSE]
  /\ hits = [t \in Tracks |-> 0] /\ misses = [t \in Tracks |-> 0]
  /\ alert_frames = [t \in Tracks |-> 0] /\ was_alert = [t \in Tracks |-> FALSE]
  /\ matched_now = [t \in Tracks |-> FALSE]
  /\ next_id = 1
  /\ pc = "frame"
  /\ pending = <<>> /\ seen = 0 /\ dropped = 0
  /\ result = <<>>
  /\ since = [t \in Tracks |-> 0]
  /\ streak = [t \in Tracks |-> 0] /\ earned = [t \in Tracks |-> FALSE]

---------------------------------------------------------------------------

\* Mutant of FreshFlags: the flags of the last frame stay.
StaleFlags == matched_now

FreshFlags == [t \in Tracks |-> FALSE]

\* The blobs of a frame; tracker_reset_match_flags.
Feed(blobs) ==
  /\ pc = "frame"
  /\ pending' = blobs /\ seen' = Len(blobs) /\ dropped' = 0
  /\ matched_now' = FreshFlags
  /\ pc' = "match"
  /\ UNCHANGED <<active, id, bodyVars, next_id, result, historyVars>>

D2(p, q) == (p.x - q.x) * (p.x - q.x) + (p.y - q.y) * (p.y - q.y)
Candidates == {t \in Tracks : active[t] /\ ~matched_now[t]}
\* The nearest candidate; the first of several.
Nearest(t, p) ==
  /\ t \in Candidates
  /\ \A u \in Candidates : D2(at[t], p) < D2(at[u], p) + (IF t <= u THEN 1 ELSE 0)
Takes(t, b) == Nearest(t, b.at) /\ D2(at[t], b.at) <= MatchD2

\* 45 parts of the new value and 55 of the old.
Smoothed(old, new) ==
  LET down == (9 * new + 11 * old) \div 20
      up   == (9 * new + 11 * old + 19) \div 20
  IN  {down, up}

Counted(n, cap) == IF n < cap THEN n + 1 ELSE cap

Matching == pc = "match" /\ pending # <<>>

Match(t) ==
  /\ Matching
  /\ Takes(t, Head(pending))
  /\ LET b == Head(pending)
     IN  /\ \E x \in Smoothed(at[t].x, b.at.x), y \in Smoothed(at[t].y, b.at.y) :
              at' = [at EXCEPT ![t] = [x |-> x, y |-> y]]
         /\ \E s \in {b.high, high[t]} : high' = [high EXCEPT ![t] = s]
  /\ hits' = [hits EXCEPT ![t] = Counted(@, HitCap)]
  /\ misses' = [misses EXCEPT ![t] = 0]
  /\ matched_now' = [matched_now EXCEPT ![t] = TRUE]
  /\ streak' = [streak EXCEPT ![t] = Counted(@, AlertSustain)]
  /\ earned' = [earned EXCEPT ![t] = @ \/ Counted(streak[t], AlertSustain) = AlertSustain]
  /\ pending' = Tail(pending)
  /\ UNCHANGED <<active, id, alert_frames, was_alert, next_id, pc, seen, dropped,
                 result, since>>

Unmatched == Matching /\ \A t \in Tracks : ~Takes(t, Head(pending))
FirstFree(t) == ~active[t] /\ \A u \in Tracks : u < t => active[u]

\* Mutant of AfterId: the largest identifier is passed over.
AfterIdShort(n) == (n % (MaxId - 1)) + 1

\* alloc_track_id: the counter passes over 0 when it wraps.
AfterId(n) == IF n = MaxId THEN 1 ELSE n + 1

Spawn(t) ==
  /\ Unmatched
  /\ FirstFree(t)
  /\ active' = [active EXCEPT ![t] = TRUE]
  /\ id' = [id EXCEPT ![t] = next_id]
  /\ next_id' = AfterId(next_id)
  /\ at' = [at EXCEPT ![t] = Head(pending).at]
  /\ high' = [high EXCEPT ![t] = Head(pending).high]
  /\ hits' = [hits EXCEPT ![t] = 1]
  /\ misses' = [misses EXCEPT ![t] = 0]
  /\ alert_frames' = [alert_frames EXCEPT ![t] = 0]
  /\ was_alert' = [was_alert EXCEPT ![t] = FALSE]
  /\ matched_now' = [matched_now EXCEPT ![t] = TRUE]
  /\ since' = [u \in Tracks |->
               IF u # t /\ active[u] THEN Counted(since[u], MaxId) ELSE 0]
  /\ streak' = [streak EXCEPT ![t] = 1]
  /\ earned' = [earned EXCEPT ![t] = AlertSustain = 1]
  /\ pending' = Tail(pending)
  /\ UNCHANGED <<pc, seen, dropped, result>>

\* Out of slots.
Drop ==
  /\ Unmatched
  /\ \A t \in Tracks : active[t]
  /\ pending' = Tail(pending) /\ dropped' = dropped + 1
  /\ UNCHANGED <<active, id, bodyVars, matched_now, next_id, pc, seen, result,
                 historyVars>>

\* Mutant of Missed: tracks age in frames with blobs only.
MissedAmongBlobs(t) == active[t] /\ ~matched_now[t] /\ seen > 0

Missed(t) == active[t] /\ ~matched_now[t]

\* Mutant of AlertFrames: the counter outlives a miss and the track.
AlertFramesKept(t) ==
  IF active[t] /\ matched_now[t] /\ high[t]
  THEN Counted(alert_frames[t], AlertSustain) ELSE alert_frames[t]

AlertFrames(t) ==
  IF ~active[t] THEN alert_frames[t]
  ELSE IF matched_now[t] /\ high[t] THEN Counted(alert_frames[t], AlertSustain)
  ELSE 0

\* The loops over the tracks at the end of tracker_update, or the one that
\* stands for it in motion_task when there are no blobs.
Advance ==
  /\ pc = "match" /\ pending = <<>>
  /\ misses' = [t \in Tracks |-> misses[t] + (IF Missed(t) THEN 1 ELSE 0)]
  /\ active' = [t \in Tracks |->
                  active[t] /\ ~(Missed(t) /\ misses[t] + 1 > PossibleHold)]
  /\ alert_frames' = [t \in Tracks |-> AlertFrames(t)]
  /\ was_alert' = [t \in Tracks |->
       was_alert[t] \/ (active[t] /\ matched_now[t] /\ AlertFrames(t) = AlertSustain)]
  /\ streak' = [t \in Tracks |-> IF Missed(t) THEN 0 ELSE streak[t]]
  /\ earned' = [t \in Tracks |-> earned[t] /\ active'[t]]
  /\ since'  = [t \in Tracks |-> IF active'[t] THEN since[t] ELSE 0]
  /\ pc' = "publish"
  /\ UNCHANGED <<id, at, high, hits, matched_now, next_id, frameVars, result>>

Visible == {t \in Tracks : active[t] /\ hits[t] >= ConfirmHits}
StateOf(t) == IF misses[t] > 0 THEN "possible"
              ELSE IF alert_frames[t] = AlertSustain \/ was_alert[t] THEN "alert"
              ELSE "tracking"

\* tracker_publish, under the mutex of the result.
Publish ==
  /\ pc = "publish"
  /\ result' = [t \in Visible |-> StateOf(t)]
  /\ pc' = "frame"
  /\ UNCHANGED <<active, id, bodyVars, matched_now, next_id, frameVars, historyVars>>

Track == (\E t \in Tracks : Match(t) \/ Spawn(t)) \/ Drop \/ Advance \/ Publish

TrackNext == (\E blobs \in Seq(Blob) : Feed(blobs)) \/ Track

TrackSpec == TrackInit /\ [][TrackNext]_trackVars

---------------------------------------------------------------------------

\* The browser tells live tracks apart by their identifiers: of two live tracks
\* with one identifier, one has outlived all the identifiers there are
\* (motion_detect.c:212).
SameIdOnlyAfterWrap ==
  \A t, u \in Tracks :
    t # u /\ active[t] /\ active[u] /\ id[t] = id[u]
      => since[t] = MaxId \/ since[u] = MaxId

\* Every blob the frame has brought so far has a track to itself, or none was
\* free (motion_detect.c:235).
EveryBlobHasATrack ==
  pc = "match" =>
    /\ Cardinality({t \in Tracks : matched_now[t]}) + dropped + Len(pending) = seen
    /\ dropped > 0 => \A t \in Tracks : active[t]

\* A track is in alert only if it, and no track that had the slot before it, has
\* matched AlertSustain frames in a row (motion_detect.c:57, 311).
AlertIsEarned ==
  /\ \A t \in Tracks : active[t] /\ was_alert[t] => earned[t]
  /\ pc = "frame" => \A t \in DOMAIN result : result[t] = "alert" => earned[t]

=============================================================================
