------------------------------ MODULE FrameLayout ------------------------------
(***************************************************************************)
(* Where the planes of a frame lie.  The layout of a stream's buffers is    *)
(* computed twice from the same stream information: by the HAL              *)
(* (QCameraStream::calcOffset) when it allocates the buffers before the     *)
(* stream is configured, and by the stack (mm_stream_calc_offset) when it   *)
(* is.  The HAL allocates and describes the buffers by its copy, the stack  *)
(* tells the driver its own.  The sizes are those of the code; formats that *)
(* it treats alike are one format here.                                     *)
(***************************************************************************)
EXTENDS Naturals, Sequences, FiniteSets, SequencesExt, FiniteSetsExt

CONSTANTS
    Widths, Heights,    \* picture sizes tried, zero among them
    Padding,            \* cam_padding_info_t of the sensor: width, height, plane
    NumBufs             \* buffers per stream

LayoutAssumption ==
    /\ Widths \subseteq Nat /\ Heights \subseteq Nat
    /\ Padding \in [width : Nat \ {0}, height : Nat \ {0}, plane : Nat \ {0}]
    /\ NumBufs \in Nat \ {0}

Yuv == {"NV21", "NV12_VENUS", "NV21_ADRENO", "YV12", "NV16"}
Raw == {"YUYV", "RAW8", "QCOM10", "QCOM12", "MIPI10", "MIPI12", "PLAIN16"}
Formats == Yuv \cup Raw
FrameTypes == {"PREVIEW", "POSTVIEW", "SNAPSHOT", "VIDEO", "RAW", "METADATA"}
StreamTypes == FrameTypes \cup {"CALLBACK", "OFFLINE_PROC"}

Failed == [frame_len |-> 0, mp |-> <<>>]    \* calc_offset returned -1

PAD_TO_SIZE(size, padding) == ((size + padding - 1) \div padding) * padding

\* One plane: its length, the offset of the picture in it, its rows and the
\* picture's size in it.
Plane(len, offset, stride, scanline, width, height) ==
    [len |-> len, offset |-> offset, stride |-> stride, scanline |-> scanline,
     width |-> width, height |-> height]
Rows(stride, scanline, width, height) ==
    Plane(stride * scanline, 0, stride, scanline, width, height)

SumOf(mp) == FoldLeft(LAMBDA sum, plane : sum + plane.len, 0, mp)

Frame(mp) == [frame_len |-> PAD_TO_SIZE(SumOf(mp), 4096),
              mp |-> mp]

PlanarChroma(stride, scanline, w, h) ==
    Rows(PAD_TO_SIZE(stride \div 2, 16), scanline \div 2, w \div 2, h \div 2)

Planar(w, h) ==
    LET stride == PAD_TO_SIZE(w, 16)
        scanline == PAD_TO_SIZE(h, 2)
        chroma == PlanarChroma(stride, scanline, w, h)
    IN  Frame(<<Rows(stride, scanline, w, h), chroma, chroma>>)

Nv16(w, h) ==
    LET plane == Rows(PAD_TO_SIZE(w, 16), h, w, h) IN Frame(<<plane, plane>>)

Adreno(w, h) ==
    LET y == Rows(PAD_TO_SIZE(w, 32), PAD_TO_SIZE(h, 32), w, h)
        uv == Rows(2 * PAD_TO_SIZE(w \div 2, 32), PAD_TO_SIZE(h \div 2, 32), w, h \div 2)
        Whole(p) == [p EXCEPT !.len = PAD_TO_SIZE(@, 4096)]
    IN  Frame(<<Whole(y), Whole(uv)>>)

\* The macros of the video encoder's header, as the code uses them.
VENUS_STRIDE(w) == PAD_TO_SIZE(w, 128)
VENUS_Y_SCANLINES(h) == PAD_TO_SIZE(h, 32)
VENUS_UV_SCANLINES(h) == PAD_TO_SIZE((h + 1) \div 2, 16)
VENUS_BUFFER_SIZE(w, h) ==
    PAD_TO_SIZE(VENUS_STRIDE(w) * (VENUS_Y_SCANLINES(h) + VENUS_UV_SCANLINES(h)) + 4096, 4096)

mm_stream_calc_offset_video(w, h) ==
    LET y == Rows(VENUS_STRIDE(w), VENUS_Y_SCANLINES(h), w, h)
        frame_len == VENUS_BUFFER_SIZE(w, h)
    IN  [frame_len |-> frame_len,
         mp |-> <<y, Plane(frame_len - y.len, 0, VENUS_STRIDE(w), VENUS_UV_SCANLINES(h), w, h)>>]

SemiPlanar(w, h, wide, high) ==
    Frame(<<Rows(PAD_TO_SIZE(w, wide), PAD_TO_SIZE(h, high), w, h),
            Rows(PAD_TO_SIZE(w, wide), PAD_TO_SIZE(h \div 2, high), w, h \div 2)>>)

mm_stream_calc_offset_preview(fmt, w, h) ==
    CASE fmt = "NV21"        -> SemiPlanar(w, h, 32, 2)
      [] fmt = "NV21_ADRENO" -> Adreno(w, h)
      [] fmt = "YV12"        -> Planar(w, h)
      [] fmt = "NV16"        -> Nv16(w, h)
      [] fmt = "NV12_VENUS"  -> mm_stream_calc_offset_video(w, h)
      [] OTHER               -> Failed

mm_stream_calc_offset_post_view(fmt, w, h) ==
    IF fmt = "NV21" THEN SemiPlanar(w, h, 64, 64)
    ELSE mm_stream_calc_offset_preview(fmt, w, h)

Aligned(p) == [p EXCEPT !.len = PAD_TO_SIZE(@, Padding.plane)]

\* The first branch of the code is for chips of the A family, which this is not.
mm_stream_calc_offset_snapshot(fmt, w, h) ==
    LET stride == PAD_TO_SIZE(w, Padding.width)
        scanline == PAD_TO_SIZE(h, Padding.height)
        y == Aligned(Rows(stride, scanline, w, h))
        uv == Aligned(Rows(stride, scanline \div 2, w, h \div 2))
        chroma == Aligned(PlanarChroma(stride, scanline, w, h))
    IN  CASE fmt = "NV21" -> Frame(<<y, uv>>)
          [] fmt = "YV12" -> Frame(<<y, chroma, chroma>>)
          [] fmt = "NV16" -> Frame(<<y, y>>)
          [] OTHER        -> Failed

\* Bytes from one row to the next; YUYV counts its pixels, of two bytes.
RawStride(fmt, w) ==
    CASE fmt \in {"YUYV", "RAW8"} -> PAD_TO_SIZE(w, 16)
      [] fmt = "QCOM10"  -> ((w + 11) \div 12) * 16
      [] fmt = "QCOM12"  -> ((w + 9) \div 10) * 16
      [] fmt = "MIPI10"  -> PAD_TO_SIZE((PAD_TO_SIZE(w, 4) * 5) \div 4, 16)
      [] fmt = "MIPI12"  -> PAD_TO_SIZE((PAD_TO_SIZE(w, 2) * 3) \div 2, 16)
      [] fmt = "PLAIN16" -> PAD_TO_SIZE(w, 8) * 2

mm_stream_calc_offset_raw(fmt, w, h) ==
    IF fmt \notin Raw THEN Failed
    ELSE LET stride == RawStride(fmt, w)
             bytes == IF fmt = "YUYV" THEN 2 * stride ELSE stride
         IN  Frame(<<Aligned(Plane(bytes * h, 0, stride, h, w, h))>>)

mm_stream_calc_offset_metadata(w, h) ==
    LET plane == Aligned(Rows(w, h, w, h)) IN [frame_len |-> plane.len, mp |-> <<plane>>]

OfType(type, fmt, w, h) ==
    CASE type \in {"PREVIEW", "CALLBACK"} -> mm_stream_calc_offset_preview(fmt, w, h)
      [] type = "POSTVIEW" -> mm_stream_calc_offset_post_view(fmt, w, h)
      [] type = "SNAPSHOT" -> mm_stream_calc_offset_snapshot(fmt, w, h)
      [] type = "VIDEO"    -> mm_stream_calc_offset_video(w, h)
      [] type = "RAW"      -> mm_stream_calc_offset_raw(fmt, w, h)
      [] type = "METADATA" -> mm_stream_calc_offset_metadata(w, h)
      [] OTHER             -> Failed

\* A stream of reprocessed frames is laid out as its input, in its own size; an
\* offline one without an input type takes the input's planes while it has none.
mm_stream_calc_offset_postproc(i, p) ==
    IF i.pp_type = "OFFLINE" /\ i.input_type = "DEFAULT" /\ p.frame_len = 0
    THEN i.input_planes
    ELSE OfType(i.input_type, i.fmt, i.width, i.height)

Turned(i) == i.rotated /\ i.type # "VIDEO"
Dim(i) == IF Turned(i) THEN [w |-> i.height, h |-> i.width]
             ELSE [w |-> i.width, h |-> i.height]

LayoutOf(i, p, types) ==
    IF i.type \notin types THEN Failed
    ELSE IF i.type = "OFFLINE_PROC" THEN mm_stream_calc_offset_postproc(i, p)
    ELSE OfType(i.type, i.fmt, Dim(i).w, Dim(i).h)

mm_stream_calc_offset(i, p) == LayoutOf(i, p, StreamTypes)
calcOffset(i, p) == LayoutOf(i, p, StreamTypes \ {"CALLBACK"})

\* What the driver is told of the pixels; formats it does not know are 0.
mm_stream_get_v4l2_fmt(fmt) ==
    CASE fmt \in {"NV12_VENUS", "YV12"} -> "NV12"
      [] fmt = "QCOM10" -> "SBGGR10"
      [] fmt \in {"NV21", "NV16", "YUYV"} -> fmt
      [] OTHER -> "0"

\* How a buffer is described: the descriptor of each plane and where it starts.
getBufDef(layout, index) ==
    [i \in 1..Len(layout.mp) |->
        [fd |-> IF i = 1 THEN index ELSE i - 1,
         start |-> SumOf(SubSeq(layout.mp, 1, i - 1)),
         length |-> layout.mp[i].len, data_offset |-> layout.mp[i].offset]]

--------------------------------------------------------------------------------
VARIABLES
    info,               \* what the HAL asks for: the shared stream information
    planes,             \* its buf_planes, which both sides write
    stage,              \* "new", "laid out", "configured" or "failed"
    frame_offset,       \* the stack's copy of the layout
    mFrameLenOffset,    \* the HAL's copy, by which the buffers are allocated
    bufs,               \* the buffers' descriptions, one per buffer; <<>>: none yet
    driver              \* what VIDIOC_S_FMT told the driver

vars == <<info, planes, stage, frame_offset, mFrameLenOffset, bufs, driver>>

NoFormat == [pixelformat |-> "0", plane_sizes |-> <<>>]

\* The HAL records video in the encoder's format only.
FormatsOf(type) == IF type = "VIDEO" THEN {"NV12_VENUS"} ELSE Formats
Plain ==
    UNION {[type : {t}, fmt : FormatsOf(t), width : Widths, height : Heights,
            rotated : BOOLEAN, deferred : BOOLEAN,
            pp_type : {"ONLINE"}, input_type : {"DEFAULT"}, input_planes : {Failed}] :
                t \in FrameTypes}

\* Reprocessing streams turn a picture they are given, and are not deferred.
Reprocessing ==
    UNION {[type : {"OFFLINE_PROC"}, fmt : {"NV21", "YV12", "NV16"},
            width : {w}, height : {h}, rotated : BOOLEAN, deferred : {FALSE},
            pp_type : {"OFFLINE", "ONLINE"}, input_type : FrameTypes \cup {"DEFAULT"},
            input_planes : {mm_stream_calc_offset_snapshot("NV21", w, h)}] :
                w \in Widths, h \in Heights}
Callback == {[i EXCEPT !.type = "CALLBACK", !.deferred = FALSE] : i \in Plain}

Init ==
    /\ info \in Plain \cup Reprocessing \cup Callback
    /\ planes = Failed /\ frame_offset = Failed /\ mFrameLenOffset = Failed
    /\ stage = "new" /\ bufs = <<>> /\ driver = NoFormat

\* A deferred stream is laid out by the HAL when it is made.
LayOut ==
    /\ stage = "new" /\ info.deferred
    /\ LET layout == calcOffset(info, planes)
       IN  IF layout = Failed THEN stage' = "failed" /\ UNCHANGED planes
           ELSE stage' = "laid out" /\ planes' = layout
    /\ UNCHANGED <<info, frame_offset, mFrameLenOffset, bufs, driver>>

Describe(layout) ==
    /\ mFrameLenOffset' = layout
    /\ bufs' = [b \in 1..NumBufs |-> getBufDef(layout, b)]

\* Its buffers are allocated in the background, before or after it is configured.
allocateBuffers ==
    /\ info.deferred /\ stage \in {"laid out", "configured"} /\ bufs = <<>>
    /\ Describe(planes)
    /\ UNCHANGED <<info, planes, stage, frame_offset, driver>>

\* The stack's layout goes to the server and, unless the size is empty, to the
\* driver.  frame_offset is set also when there is no layout.
Configure ==
    /\ stage = IF info.deferred THEN "laid out" ELSE "new"
    /\ LET layout == mm_stream_calc_offset(info, planes)
           written == IF layout = Failed THEN planes ELSE layout
           ok == layout # Failed /\ info.width # 0 /\ info.height # 0
       IN  /\ planes' = written /\ frame_offset' = written
           /\ stage' = IF ok THEN "configured" ELSE "failed"
           /\ driver' = IF ~ok THEN driver
                        ELSE [pixelformat |-> mm_stream_get_v4l2_fmt(info.fmt),
                              plane_sizes |-> [i \in 1..Len(written.mp) |-> written.mp[i].len]]
    /\ UNCHANGED <<info, mFrameLenOffset, bufs>>

\* The stack asks a stream that was not deferred for its buffers.
getBufs ==
    /\ ~info.deferred /\ stage = "configured" /\ bufs = <<>>
    /\ Describe(frame_offset)
    /\ UNCHANGED <<info, planes, stage, frame_offset, driver>>

Next == LayOut \/ allocateBuffers \/ Configure \/ getBufs

Spec == Init /\ [][Next]_vars
--------------------------------------------------------------------------------
Layouts == [frame_len : Nat, mp : Seq([len : Nat, offset : Nat, stride : Nat,
                scanline : Nat, width : Nat, height : Nat])]

\* Every variable holds a value of its kind.
TypeOK ==
    /\ info.type \in StreamTypes /\ info.fmt \in Formats
    /\ planes \in Layouts /\ frame_offset \in Layouts /\ mFrameLenOffset \in Layouts
    /\ stage \in {"new", "laid out", "configured", "failed"}
    /\ bufs = <<>> \/ DOMAIN bufs = 1..NumBufs
    /\ driver.plane_sizes \in Seq(Nat)

\* The bytes of a row of the picture in a plane, worked out from the format alone.
RowBytes(fmt, i, w) ==
    LET Bytes(bits) == (w * bits + 7) \div 8
    IN  CASE fmt = "YV12" /\ i > 1 -> w \div 2
          [] fmt \in {"MIPI10", "QCOM10"} -> Bytes(10)
          [] fmt \in {"MIPI12", "QCOM12"} -> Bytes(12)
          [] fmt = "PLAIN16" -> 2 * w
          [] OTHER -> w

PictureRows(i) ==
    IF i = 1 \/ info.fmt = "NV16" THEN Dim(info).h ELSE Dim(info).h \div 2

\* The picture, turned or not, fits in the buffers that were allocated for it:
\* every row in its stride, every plane's rows in the plane, and the planes one
\* after the other in the frame.
PictureFits ==
    bufs # <<>> /\ info.type \in FrameTypes \ {"METADATA"} =>
        LET n == Len(mFrameLenOffset.mp)
        IN  \A i \in 1..n :
                LET plane == mFrameLenOffset.mp[i]
                IN  /\ RowBytes(info.fmt, i, Dim(info).w) <= plane.stride
                    /\ plane.offset + plane.stride * PictureRows(i) <= plane.len
                    /\ \A b \in DOMAIN bufs :
                            bufs[b][i].start + bufs[b][i].length <= mFrameLenOffset.frame_len

\* The HAL and the stack work the layout out apart, and agree: what the driver
\* was told and what the buffers were allocated by is one layout.
OneLayout ==
    stage = "configured" /\ bufs # <<>> =>
        /\ mFrameLenOffset = frame_offset /\ planes = frame_offset
        /\ \A b \in DOMAIN bufs :
                driver.plane_sizes = [i \in DOMAIN bufs[b] |-> bufs[b][i].length]

\* getBufDef describes "the buffer" of the index it is given: every plane of it
\* names that buffer's descriptor.
PlanesOfTheBuffer ==
    \A b \in DOMAIN bufs : \A i \in DOMAIN bufs[b] : bufs[b][i].fd = b
================================================================================
