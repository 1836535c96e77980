---------------------------- MODULE MotionDetect ----------------------------
(***************************************************************************)
(* The motion detector of yy1 (vision/motion_detect.c): motion_task takes  *)
(* a JPEG frame, extracts the luminance of its blocks (JpegDc), compares   *)
(* it with the last one, dilates, labels and merges what has changed       *)
(* (Blobs) and hands the blobs to the tracker (Tracker).  The camera is    *)
(* external (JpegCamera); the pool the frames come through is FramePool's. *)
(*                                                                         *)
(* The mask has the size of the camera's grid, as the real one has at the  *)
(* resolution in cam_config.h.                                             *)
(***************************************************************************)
EXTENDS JpegDc, JpegCamera, Blobs, Tracker

CONSTANTS Cameras,   \* names of cameras
          Format,    \* Format[cam]: a CameraFormat
          Pictures,  \* Pictures[cam][n]: the quantised DC values of scene n
          Details,   \* which AC coefficients the blocks may have
          Headers,   \* Headers[cam][n]: a header a frame may have
          Lost,      \* bytes that may be missing at the end, with 0
          LostAtRun, \* LostAtRun[cam]: bound, those of Lost that happen in a run
          Garbage    \* what a buffer may hold before anything is written to it

ASSUME CameraAssumption ==
  /\ \A cam \in Cameras : Format[cam] \in CameraFormat
  /\ Lost \subseteq Nat /\ LostAtRun \in [Cameras -> SUBSET Lost] /\ Garbage \subseteq 0 .. 255

VARIABLES
  camera,    \* the format of this camera
  gray,      \* dc_gray and its copy prev_gray
  have_prev  \* .have_prev

imageVars == <<camera, gray, have_prev>>
vars == <<imageVars, trackVars>>

Width(cam)  == Format[cam].cols * Format[cam].h
Height(cam) == Format[cam].rows * Format[cam].v
Cells(cam)  == 0 .. Width(cam) * Height(cam) - 1

\* The tracker's coordinates go as far as the picture.
ASSUME ReachAssumption ==
  \A cam \in Cameras : 2 * Width(cam) <= Reach /\ 2 * Height(cam) <= Reach

\* Everything a camera may send, and what jpeg_extract_dc_luma makes of it.
Shots(cam) == [scene : DOMAIN Pictures[cam], detail : Details, lost : Lost,
               header : DOMAIN Headers[cam]]
Scans ==
  [cam \in Cameras |-> [n \in DOMAIN Pictures[cam] |-> [d \in Details |->
     ScanBytes(Format[cam], Pictures[cam][n], d)]]]
Parsed == [cam \in Cameras |-> [n \in DOMAIN Headers[cam] |-> Parse(Headers[cam][n])]]

\* A camera sends bytes, and its scans are of the components its frame has.
ASSUME HeaderAssumption ==
  \A cam \in Cameras : \A n \in DOMAIN Headers[cam] :
    LET p == Parsed[cam][n]
    IN  /\ Headers[cam][n] \in Seq(Segment)
        /\ ~Unusable(p) => \A s \in DOMAIN p.scan : p.scan[s].comp \in DOMAIN p.comps
ASSUME ScanAssumption ==
  \A cam \in Cameras : \A n \in DOMAIN Pictures[cam] : \A d \in Details :
    Scans[cam][n][d] \in Seq(0 .. FF)

\* The coding is that of the standard's baseline, 8 bits a sample: the quantised DC
\* values have 11 bits.  A frame has the camera's header or one that is of no use.
ASSUME PictureAssumption ==
  /\ Details \subseteq {"flat", "edge", "sharp"}
  /\ \A cam \in Cameras : \A n \in DOMAIN Pictures[cam] :
       Pictures[cam][n] \in [Cells(cam) -> -1024 .. 1023]
  /\ \A cam \in Cameras : \A n \in DOMAIN Headers[cam] :
       Headers[cam][n] = Header(Format[cam]) \/ Unusable(Parsed[cam][n])

Sent(cam, s) ==
  LET scan == Scans[cam][s.scene][s.detail]
  IN  SubSeq(scan, 1, Len(scan) - s.lost)
Extracted ==
  [cam \in Cameras |->
     [n \in DOMAIN Pictures[cam] |-> [d \in Details |-> [k \in Lost |->
        [h \in DOMAIN Headers[cam] |->
           ExtractDc(Parsed[cam][h], Sent(cam, [scene |-> n, detail |-> d, lost |-> k]))]]]]]
Extraction(cam, s) == Extracted[cam][s.scene][s.detail][s.lost][s.header]
Arriving == [cam \in Cameras |-> 
  {Extraction(cam, s) : s \in {x \in Shots(cam) : x.lost \in LostAtRun[cam]}}]

---------------------------------------------------------------------------

\* A blob as the tracker sees it; its score is the mean intensity over 255.
AsTracked(b) == [at   |-> [x |-> 2 * b.x + b.w, y |-> 2 * b.y + b.h],
                 high |-> 50 * b.sum >= 255 * b.area]

Moving(mask, w) ==
  LET bs == MergeClose(FindBlobs(Dilate(mask, w), w))
  IN  [k \in DOMAIN bs |-> AsTracked(bs[k])]

\* What this frame has changed: nothing before there is a frame to compare with.
Changed(now) ==
  LET mask == DiffMask(now, gray)
  IN  IF ~have_prev \/ \A i \in DOMAIN mask : mask[i] = 0
      THEN <<>> ELSE Moving(mask, Width(camera))

Init == /\ camera \in Cameras
        /\ \E g \in Garbage : gray = [i \in Cells(camera) |-> g]
        /\ have_prev = FALSE
        /\ TrackInit

\* motion_task: one frame up to the tracker.  Cells that were not extracted keep
\* what they held; a frame that cannot be extracted is passed over.
Updated(dc) ==
  [i \in Cells(camera) |-> IF i \in DOMAIN dc.grid THEN dc.grid[i] ELSE gray[i]]

Frame(dc) ==
  /\ dc.ok
  /\ \E now \in {Updated(dc)} : \E blobs \in {Changed(now)} :
        gray' = now /\ Feed(blobs)
  /\ have_prev' = TRUE
  /\ UNCHANGED camera

SkipFrame(dc) ==
  /\ pc = "frame"
  /\ ~dc.ok
  /\ UNCHANGED vars

Next == \/ \E dc \in Arriving[camera] : Frame(dc) \/ SkipFrame(dc)
        \/ Track /\ UNCHANGED imageVars

\* The task does not stop, and the camera goes on delivering frames that can be
\* extracted: passing over a frame is no step.
Spec == Init /\ [][Next]_vars /\ []<><<Next>>_vars

---------------------------------------------------------------------------

MotionTypeOK ==
  /\ TypeOK
  /\ camera \in Cameras /\ gray \in [Cells(camera) -> 0 .. 255]
  /\ have_prev \in BOOLEAN

\* What the camera meant: the mean luminance of each block.
Luminance(cam, picture) ==
  [i \in Cells(cam) |->
     Atleast(0, Upto(255, 128 + (IF picture[i] < 0 THEN -1 ELSE 1) *
                                ((Distance(picture[i], 0) * Format[cam].q) \div 8)))]

\* The bytes in front of the marker that ends restart interval i, and the cells
\* of that interval.
Ends ==
  [cam \in Cameras |-> [n \in DOMAIN Pictures[cam] |-> [d \in Details |->
     LET parts == Intervals(Format[cam])
     IN  [i \in DOMAIN parts |->
            Total([k \in 1 .. i |->
              2 + Len(IntervalBytes(Format[cam], Pictures[cam][n], d, parts[k]))]) - 2]]]]
CellsOf ==
  [cam \in Cameras |->
     LET parts == Intervals(Format[cam])
     IN  [i \in DOMAIN parts |->
            {b \in UNION {ToSet(BlocksOf(Format[cam], mcu)) : mcu \in ToSet(parts[i])} :
               b >= 0}]]
Meant == [cam \in Cameras |-> [n \in DOMAIN Pictures[cam] |->
            Luminance(cam, Pictures[cam][n])]]

\* The cells of the restart intervals that arrived as a whole.
Received(cam, s) ==
  LET ends == Ends[cam][s.scene][s.detail]
      bytes == Len(Sent(cam, s))
  IN  UNION {CellsOf[cam][i] : i \in {j \in DOMAIN ends : ends[j] <= bytes}}

Exact(cam, s, dc, received) ==
  /\ Headers[cam][s.header] = Header(Format[cam]) => dc.ok
  /\ dc.ok => /\ dc.w = Width(cam) /\ dc.h = Height(cam)
              /\ DOMAIN dc.grid \subseteq Cells(cam)
              /\ received \subseteq DOMAIN dc.grid
              /\ \A i \in received : dc.grid[i] = Meant[cam][s.scene][i]

\* Of a frame that lost its end, whatever the scene and the detail, every
\* restart interval that arrived gives the luminance the camera meant; a frame
\* that lost nothing gives the whole grid (jpeg_dc.c:449).
DcIsExact ==
  ~have_prev => \A s \in Shots(camera) :
    Exact(camera, s, Extraction(camera, s), Received(camera, s))

Masks == [Cells(camera) -> {0, 90}]

\* For every mask, the blobs found are the connected components that are large
\* enough, largest first; if there are more than fit, none that is left out is
\* larger than one that is kept (blob_finder.c:135).
LabelsAreComponents ==
  ~have_prev => \A mask \in Masks : FindsComponents(mask, Width(camera))

\* The ways to divide n blobs into groups, and the box around a group.
Groupings ==
  [n \in 0 .. 4 |->
     {{{j \in 1 .. n : f[j] = f[i]} : i \in 1 .. n} : f \in [1 .. n -> 1 .. n]}]
Box(bs, group) ==
  LET f == SetToSeq(group)
  IN  Each(LAMBDA b, k : Hull(b, bs[k]), bs[Head(f)], Tail(f))
Apart(bs, grouping) ==
  \A g, h \in grouping : g # h => ~Close(Box(bs, g), Box(bs, h))

\* For the components of every mask, as long as there are no more than four, the
\* merged boxes are those of the finest division into groups whose boxes are
\* apart: nothing is merged that need not be, nothing close is left, whatever
\* the order (motion_detect.c:163).
MergeIsFinest ==
  ~have_prev => \A mask \in Masks :
    LET w == Width(camera)
        cs == Components(mask, w)
        bs == SetToSeq({Describe(c, mask, w) : c \in cs})
        apart == {g \in Groupings[Len(bs)] : Apart(bs, g)}
    IN  Cardinality(cs) <= 4 =>
          \E finest \in apart :
            /\ \A other \in apart : \A g \in finest : \E h \in other : g \subseteq h
            /\ ToSet(MergeClose(bs)) = {Box(bs, g) : g \in finest}
            /\ Len(MergeClose(bs)) = Cardinality(finest)

\* When nothing moves any more, nothing is reported for long: blobs are found
\* again and again, or from some time on no track is published
\* (motion_detect.c:290, 470).
StillSceneClears == []<>(pending # <<>>) \/ <>[](DOMAIN result = {})

=============================================================================
