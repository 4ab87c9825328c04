------------------------ MODULE QCamera2HWI_proofs ------------------------
(***************************************************************************)
(* Proofs about QCamera2HWI, the callers, the state machine with all its   *)
(* handlers and the device behind it, for any number of callers.           *)
(*                                                                         *)
(* The argument has three layers.  Each operation on the device is shown   *)
(* to keep, drop or stop the video channel.  From that, every handler of   *)
(* every state is shown to keep one contract (Contract): it moves the      *)
(* state and the video channel together, and gives the answer it owes, no  *)
(* more and no less.  The invariants of the composed system follow from    *)
(* the contract alone, without looking at any handler again.               *)
(***************************************************************************)
EXTENDS QCamera2HWI, FiniteSetTheorems, FunctionTheorems, SequenceTheorems,
        WellFoundedInduction, TLAPS

-----------------------------------------------------------------------------
(* What the operations on the camera do to its channels.  Video is followed *)
(* everywhere; the channels of the preview, and what decides which of them  *)
(* streams, only by the operations that neither start a preview nor set     *)
(* parameters, which are most.                                              *)

\* The outcome of an operation on device d is a device e with the same retro flag.
Same(d, e)  == e \in Device /\ e.bRetroPicture = d.bRetroPicture

\* With the same modes, in force and staged, and the same window,
Modes(d, e) ==
    /\ e.m_bZslMode = d.m_bZslMode /\ e.m_bZslMode_new = d.m_bZslMode_new
    /\ e.mPreviewWindow = d.mPreviewWindow
\* and no preview that did not stream before.
Tame(d, e) ==
    /\ Same(d, e) /\ Modes(d, e)
    /\ Started(e, "PREVIEW") => Started(d, "PREVIEW")
    /\ Started(e, "ZSL") => Started(d, "ZSL")
\* Nothing streams for a preview.
Quiet(d) == ~Started(d, "PREVIEW") /\ ~Started(d, "ZSL")

\* Of such an operation: the video channel streams exactly if it did,
Keeps(d, e) == Tame(d, e) /\ (Started(e, "VIDEO") <=> Started(d, "VIDEO"))
\* or it streams only if it did,
Drops(d, e) == Tame(d, e) /\ (Started(e, "VIDEO") => Started(d, "VIDEO"))
\* or it does not stream.
Stops(d, e) == Tame(d, e) /\ ~Started(e, "VIDEO")
\* With the same channels in the same states, and the same window.
SameStreams(d, e) == e.m_channels = d.m_channels /\ e.mPreviewWindow = d.mPreviewWindow
\* The mode that is staged is the one in force,
Agreed(d) == d.m_bZslMode_new = d.m_bZslMode
\* and the zero shutter lag channel streams in its mode only.
Settled(d) == Agreed(d) /\ (Started(d, "ZSL") => d.m_bZslMode)

\* The first two of any other operation.
KeepsVideo(d, e) == Same(d, e) /\ (Started(e, "VIDEO") <=> Started(d, "VIDEO"))
DropsVideo(d, e) == Same(d, e) /\ (Started(e, "VIDEO") => Started(d, "VIDEO"))

\* The same of every outcome of an operation that may fail.
AllKeep(d, outcomes) == \A o \in outcomes : o.ok \in BOOLEAN /\ Keeps(d, o.dev)
AllDrop(d, outcomes) == \A o \in outcomes : o.ok \in BOOLEAN /\ Drops(d, o.dev)
AllStop(d, outcomes) == \A o \in outcomes : o.ok \in BOOLEAN /\ Stops(d, o.dev)
AllKeepVideo(d, outcomes) == \A o \in outcomes : o.ok \in BOOLEAN /\ KeepsVideo(d, o.dev)
AllDropVideo(d, outcomes) == \A o \in outcomes : o.ok \in BOOLEAN /\ DropsVideo(d, o.dev)

\* The changes of the mode that an application may ask for.
ZslChange == {"zsl_on", "zsl_off"}

\* What the shapes of outcomes are: done or failed,
LEMMA DoneOrFail ==
  ASSUME NEW a
  PROVE  Done(a).ok = TRUE /\ Done(a).dev = a /\ Fail(a).ok = FALSE /\ Fail(a).dev = a
  BY DEF Done, Fail

\* and done in one way or failed in another.
LEMMA TryEither ==
  ASSUME NEW a, NEW b, NEW o \in Try(a, b)
  PROVE  (o.ok = TRUE /\ o.dev = a) \/ (o.ok = FALSE /\ o.dev = b)
  BY DEF Try, Done, Fail

\* Writing the states of some channels leaves a device,
LEMMA SetChannelsType ==
  ASSUME NEW d \in Device, NEW chs \in SUBSET ChannelType, NEW s \in ChannelState
  PROVE  /\ Same(d, SetChannels(d, chs, s)) /\ Modes(d, SetChannels(d, chs, s))
         /\ \A ch \in ChannelType :
              SetChannels(d, chs, s).m_channels[ch] = IF ch \in chs THEN s ELSE d.m_channels[ch]
  BY DEF SetChannels, Device, Same, Tame, Modes

\* whose video channel changes only if it is one of them.
LEMMA SetChannelsVideo ==
  ASSUME NEW d \in Device, NEW chs \in SUBSET ChannelType, NEW s \in ChannelState
  PROVE  /\ "VIDEO" \notin chs /\ (s # "started" \/ {"PREVIEW", "ZSL"} \cap chs = {}) =>
              Keeps(d, SetChannels(d, chs, s))
         /\ "VIDEO" \notin chs => KeepsVideo(d, SetChannels(d, chs, s))
         /\ s # "started" => Drops(d, SetChannels(d, chs, s))
         /\ s # "started" /\ "VIDEO" \in chs => Stops(d, SetChannels(d, chs, s))
         /\ s # "started" /\ "PREVIEW" \in chs => ~Started(SetChannels(d, chs, s), "PREVIEW")
         /\ s # "started" /\ {"PREVIEW", "ZSL"} \subseteq chs => Quiet(SetChannels(d, chs, s))
<1> DEFINE e == SetChannels(d, chs, s)
<1>1. Same(d, e) /\ Modes(d, e)
  BY SetChannelsType
<1>2. \A ch \in ChannelType : Started(e, ch) <=> IF ch \in chs THEN s = "started" ELSE Started(d, ch)
  BY SetChannelsType DEF Started
<1> HIDE DEF e
<1> QED
  BY <1>1, <1>2 DEF Keeps, Drops, Stops, KeepsVideo, Tame, Quiet, ChannelType, e

\* delChannel() of some channels stops video if it is one of them.
LEMMA DelChannelsVideo ==
  ASSUME NEW d \in Device, NEW chs \in SUBSET ChannelType
  PROVE  /\ "VIDEO" \notin chs => Keeps(d, DelChannels(d, chs))
         /\ Drops(d, DelChannels(d, chs))
         /\ "VIDEO" \in chs => Stops(d, DelChannels(d, chs))
         /\ "PREVIEW" \in chs => ~Started(DelChannels(d, chs), "PREVIEW")
         /\ {"PREVIEW", "ZSL"} \subseteq chs => Quiet(DelChannels(d, chs))
  BY SetChannelsVideo DEF DelChannels, ChannelState

\* stopChannel().
LEMMA StopChannelVideo ==
  ASSUME NEW d \in Device, NEW ch \in ChannelType
  PROVE  /\ ch # "VIDEO" => Keeps(d, StopChannel(d, ch))
         /\ Drops(d, StopChannel(d, ch))
         /\ ch = "VIDEO" => Stops(d, StopChannel(d, ch))
<1>1. {ch} \in SUBSET ChannelType /\ "added" \in ChannelState /\ "added" # "started"
  BY DEF ChannelState
<1>2. CASE Started(d, ch)
  BY <1>1, <1>2, SetChannelsVideo DEF StopChannel
<1>3. CASE ~Started(d, ch)
  BY <1>3 DEF StopChannel, Stops, Keeps, Drops, Same, Tame, Modes
<1> QED
  BY <1>2, <1>3

\* startChannel(), which may fail: what it starts is the channel it is given.
LEMMA StartChannelVideo ==
  ASSUME NEW d \in Device, NEW ch \in ChannelType, NEW o \in StartChannel(d, ch)
  PROVE  /\ o.ok \in BOOLEAN /\ Same(d, o.dev) /\ Modes(d, o.dev)
         /\ ch # "VIDEO" => KeepsVideo(d, o.dev)
         /\ ch \notin {"PREVIEW", "ZSL"} => Tame(d, o.dev)
         /\ ch \notin {"PREVIEW", "ZSL", "VIDEO"} => Keeps(d, o.dev)
         /\ ch # "ZSL" /\ Started(o.dev, "ZSL") => Started(d, "ZSL")
         /\ ch = "VIDEO" /\ o.ok => Started(o.dev, "VIDEO")
         /\ ~o.ok => Keeps(d, o.dev)
<1> DEFINE e == SetChannels(d, {ch}, "started")
<1>1. {ch} \in SUBSET ChannelType /\ "started" \in ChannelState
  BY DEF ChannelState
<1>2. /\ Same(d, e) /\ Modes(d, e) /\ \A c \in ChannelType \ {ch} : Started(e, c) <=> Started(d, c)
      /\ Started(e, ch)
  BY <1>1, SetChannelsType DEF Started
<1>3. o \in Try(e, d) \/ o = Fail(d)
  BY DEF StartChannel
<1> HIDE DEF e
<1>4. (o.ok = TRUE /\ o.dev = e) \/ (o.ok = FALSE /\ o.dev = d)
  <2>1. CASE o \in Try(e, d)
    BY ONLY <2>1, TryEither
  <2>2. CASE o = Fail(d)
    BY ONLY <2>2, DoneOrFail
  <2> QED
    BY <1>3, <2>1, <2>2
<1>5. Keeps(d, d) /\ Same(d, d) /\ Modes(d, d)
  BY DEF Keeps, Drops, Stops, Same, Tame, Modes
<1> QED
  BY <1>2, <1>4, <1>5 DEF Keeps, KeepsVideo, Tame, ChannelType

\* addChannel(), which replaces the channel if there is one, starts nothing.
LEMMA AddChannelVideo ==
  ASSUME NEW d \in Device, NEW ch \in ChannelType
  PROVE  AllDrop(d, AddChannel(d, ch)) /\ (ch = "VIDEO" => AllStop(d, AddChannel(d, ch)))
<1> DEFINE chs == IF ch = "ZSL" THEN {"ZSL", "PREVIEW"} ELSE {ch}
           e == DelChannels(d, chs)
           f == SetChannels(e, {ch}, "added")
<1> SUFFICES ASSUME NEW o \in AddChannel(d, ch)
             PROVE  o.ok \in BOOLEAN /\ Drops(d, o.dev) /\ (ch = "VIDEO" => Stops(d, o.dev))
  BY DEF AllDrop, AllStop
<1>1. chs \in SUBSET ChannelType /\ {ch} \in SUBSET ChannelType
      /\ "added" \in ChannelState /\ "added" # "started" /\ (ch = "VIDEO" => "VIDEO" \in chs)
  BY DEF ChannelState, ChannelType
<1> HIDE DEF chs
<1>2. Drops(d, e) /\ (ch = "VIDEO" => Stops(d, e)) /\ e \in Device
  BY <1>1, DelChannelsVideo DEF Keeps, Drops, Stops, Same, Tame, Modes
<1>3. o \in Try(f, e) \/ (o = Done(d) /\ ch # "VIDEO")
  BY DEF AddChannel, chs
<1> HIDE DEF e
<1>4. Drops(e, f)
  BY <1>1, <1>2, SetChannelsVideo
<1> HIDE DEF f
<1>5. \/ o.ok = TRUE /\ o.dev = f
      \/ o.ok = FALSE /\ o.dev = e
      \/ o.ok = TRUE /\ o.dev = d /\ ch # "VIDEO"
  <2>1. CASE o \in Try(f, e)
    BY ONLY <2>1, TryEither
  <2>2. CASE o = Done(d) /\ ch # "VIDEO"
    BY ONLY <2>2, DoneOrFail
  <2> QED
    BY <1>3, <2>1, <2>2
<1>6. Drops(d, f) /\ (ch = "VIDEO" => Stops(d, f)) /\ Drops(d, d)
  BY <1>2, <1>4 DEF Drops, Stops, Keeps, Same, Tame, Modes
<1> QED
  BY <1>2, <1>5, <1>6

\* One operation after another.
LEMMA AllChain ==
  ASSUME NEW d, NEW e, NEW outcomes
  PROVE  /\ Keeps(d, e) /\ AllKeep(e, outcomes) => AllKeep(d, outcomes)
         /\ Drops(d, e) /\ AllDrop(e, outcomes) => AllDrop(d, outcomes)
         /\ Stops(d, e) /\ AllDrop(e, outcomes) => AllStop(d, outcomes)
         /\ DropsVideo(d, e) /\ AllDropVideo(e, outcomes) => AllDropVideo(d, outcomes)
         /\ KeepsVideo(d, e) /\ AllKeepVideo(e, outcomes) => AllKeepVideo(d, outcomes)
         /\ AllKeep(d, outcomes) => AllDrop(d, outcomes) /\ AllKeepVideo(d, outcomes)
         /\ AllDrop(d, outcomes) => AllDropVideo(d, outcomes)
         /\ AllKeepVideo(d, outcomes) => AllDropVideo(d, outcomes)
         /\ AllStop(d, outcomes) => AllDrop(d, outcomes)
  BY DEF AllKeep, AllDrop, AllStop, AllKeepVideo, AllDropVideo, KeepsVideo, DropsVideo,
         Keeps, Drops, Stops, Same, Tame, Modes

\* The snapshot and video channels that preparePreview() adds for recording.
LEMMA AddRecordingChannelsDrop ==
  ASSUME NEW d \in Device
  PROVE  AllDrop(d, AddRecordingChannels(d))
<1> SUFFICES ASSUME NEW o \in AddRecordingChannels(d)
             PROVE  o.ok \in BOOLEAN /\ Drops(d, o.dev)
  BY DEF AllDrop
<1>1. PICK a \in AddChannel(d, "SNAPSHOT") :
        \/ ~a.ok /\ o = a
        \/ o \in OrElse(AddChannel(a.dev, "VIDEO"), LAMBDA f : DelChannels(f, {"SNAPSHOT"}))
  BY DEF AddRecordingChannels, AndThen
<1>2. a.ok \in BOOLEAN /\ Drops(d, a.dev) /\ a.dev \in Device
  BY AddChannelVideo DEF AllDrop, ChannelType, Keeps, Drops, Stops, Same, Tame, Modes
<1>3. CASE o = a
  BY <1>2, <1>3
<1>4. CASE o \in OrElse(AddChannel(a.dev, "VIDEO"), LAMBDA f : DelChannels(f, {"SNAPSHOT"}))
  <2>1. PICK b \in AddChannel(a.dev, "VIDEO") :
          o = b \/ o = Fail(DelChannels(b.dev, {"SNAPSHOT"}))
    BY <1>4 DEF OrElse
  <2>2. b.ok \in BOOLEAN /\ Drops(a.dev, b.dev) /\ b.dev \in Device
    BY <1>2, AddChannelVideo DEF AllDrop, ChannelType, Keeps, Drops, Stops, Same, Tame, Modes
  <2>3. Drops(b.dev, DelChannels(b.dev, {"SNAPSHOT"}))
    BY <2>2, DelChannelsVideo DEF ChannelType
  <2>4. CASE o = b
    BY ONLY <1>2, <2>2, <2>4 DEF Drops, Same, Tame, Modes
  <2>5. CASE o = Fail(DelChannels(b.dev, {"SNAPSHOT"}))
    <3>1. o.ok = FALSE /\ o.dev = DelChannels(b.dev, {"SNAPSHOT"})
      BY ONLY <2>5, DoneOrFail
    <3> QED
      BY ONLY <1>2, <2>2, <2>3, <3>1 DEF Drops, Same, Tame, Modes
  <2> QED
    BY <2>1, <2>4, <2>5
<1> QED
  BY <1>1, <1>3, <1>4

\* Those it adds otherwise.
LEMMA AddPreviewChannelsDrop ==
  ASSUME NEW d \in Device
  PROVE  AllDrop(d, AddPreviewChannels(d))
<1>1. CASE d.m_bRecordingHint /\ ~UsesZslChannel(d)
  <2> SUFFICES ASSUME NEW o \in AddPreviewChannels(d)
               PROVE  o.ok \in BOOLEAN /\ Drops(d, o.dev)
    BY DEF AllDrop
  <2>1. PICK a \in AddRecordingChannels(d) :
          \/ ~a.ok /\ o = a
          \/ o \in OrElse(AddChannel(a.dev, "PREVIEW"),
                          LAMBDA f : DelChannels(f, {"SNAPSHOT", "VIDEO"}))
    BY <1>1 DEF AddPreviewChannels, AndThen
  <2>2. a.ok \in BOOLEAN /\ Drops(d, a.dev) /\ a.dev \in Device
    BY AddRecordingChannelsDrop DEF AllDrop, Keeps, Drops, Stops, Same, Tame, Modes
  <2>3. CASE o = a
    BY <2>2, <2>3
  <2>4. CASE o \in OrElse(AddChannel(a.dev, "PREVIEW"),
                          LAMBDA f : DelChannels(f, {"SNAPSHOT", "VIDEO"}))
    <3>1. PICK b \in AddChannel(a.dev, "PREVIEW") :
            o = b \/ o = Fail(DelChannels(b.dev, {"SNAPSHOT", "VIDEO"}))
      BY <2>4 DEF OrElse
    <3>2. b.ok \in BOOLEAN /\ Drops(a.dev, b.dev) /\ b.dev \in Device
      BY <2>2, AddChannelVideo DEF AllDrop, ChannelType, Keeps, Drops, Stops, Same, Tame, Modes
    <3>3. Drops(b.dev, DelChannels(b.dev, {"SNAPSHOT", "VIDEO"}))
      BY <3>2, DelChannelsVideo DEF ChannelType
    <3>4. CASE o = b
      BY ONLY <2>2, <3>2, <3>4 DEF Drops, Same, Tame, Modes
    <3>5. CASE o = Fail(DelChannels(b.dev, {"SNAPSHOT", "VIDEO"}))
      <4>1. o.ok = FALSE /\ o.dev = DelChannels(b.dev, {"SNAPSHOT", "VIDEO"})
        BY ONLY <3>5, DoneOrFail
      <4> QED
        BY ONLY <2>2, <3>2, <3>3, <4>1 DEF Drops, Same, Tame, Modes
    <3> QED
      BY <3>1, <3>4, <3>5
  <2> QED
    BY <2>1, <2>3, <2>4
<1>2. CASE UsesZslChannel(d) \/ ~d.m_bRecordingHint
  <2>1. AllDrop(d, AddChannel(d, "ZSL")) /\ AllDrop(d, AddChannel(d, "PREVIEW"))
    BY AddChannelVideo DEF ChannelType
  <2> QED
    BY <1>2, <2>1 DEF AddPreviewChannels
<1> QED
  BY <1>1, <1>2

\* preparePreview() may replace the video channel but never starts it.
LEMMA PreparePreviewDrops ==
  ASSUME NEW d \in Device
  PROVE  AllDrop(d, PreparePreview(d))
<1> SUFFICES ASSUME NEW o \in PreparePreview(d)
             PROVE  o.ok \in BOOLEAN /\ Drops(d, o.dev)
  BY DEF AllDrop
<1>1. o \in AddPreviewChannels(d) \/ o = Fail(d)
  BY DEF PreparePreview
<1>2. Drops(d, d)
  BY DEF Keeps, Drops, Stops, Same, Tame, Modes
<1>3. CASE o = Fail(d)
  BY <1>2, <1>3, DoneOrFail
<1> QED
  BY <1>1, <1>3, AddPreviewChannelsDrop DEF AllDrop

\* startPreview().
LEMMA StartPreviewKeeps ==
  ASSUME NEW d \in Device
  PROVE  AllKeepVideo(d, StartPreview(d))
  BY StartChannelVideo DEF StartPreview, AllKeepVideo, ChannelType

\* unpreparePreview() deletes the video channel.
LEMMA UnpreparePreviewStops ==
  ASSUME NEW d \in Device
  PROVE  /\ Stops(d, UnpreparePreview(d)) /\ Stops(d, StopPreview(d))
         /\ Quiet(UnpreparePreview(d)) /\ Quiet(StopPreview(d))
<1>1. /\ Stops(d, UnpreparePreview(d)) /\ UnpreparePreview(d) \in Device
      /\ Quiet(UnpreparePreview(d))
  BY DelChannelsVideo DEF UnpreparePreview, ChannelType, Stops, Tame, Same
<1>2. Keeps(UnpreparePreview(d), StopPreview(d))
  BY <1>1 DEF StopPreview, Keeps, Same, Tame, Modes, Device, Started, FocusState
<1> QED
  BY <1>1, <1>2 DEF Keeps, Stops, Same, Tame, Modes, Quiet

\* preparePreview(), then startPreview().
LEMMA PrepareAndStartPreviewDrops ==
  ASSUME NEW d \in Device
  PROVE  AllDropVideo(d, PrepareAndStartPreview(d))
<1> SUFFICES ASSUME NEW o \in PrepareAndStartPreview(d)
             PROVE  o.ok \in BOOLEAN /\ DropsVideo(d, o.dev)
  BY DEF AllDropVideo
<1>1. PICK a \in PreparePreview(d) :
        \/ ~a.ok /\ o = a
        \/ o \in OrElse(StartPreview(a.dev), UnpreparePreview)
  BY DEF PrepareAndStartPreview, AndThen
<1>2. a.ok \in BOOLEAN /\ DropsVideo(d, a.dev) /\ a.dev \in Device
  BY PreparePreviewDrops DEF AllDrop, AllDropVideo, Keeps, Drops, Stops, Same, Tame, Modes, KeepsVideo, DropsVideo
<1>3. CASE o = a
  BY <1>2, <1>3
<1>4. CASE o \in OrElse(StartPreview(a.dev), UnpreparePreview)
  <2>1. PICK b \in StartPreview(a.dev) : o = b \/ o = Fail(UnpreparePreview(b.dev))
    BY <1>4 DEF OrElse
  <2>2. b.ok \in BOOLEAN /\ DropsVideo(a.dev, b.dev) /\ b.dev \in Device
    BY <1>2, StartPreviewKeeps DEF AllKeep, AllKeepVideo, Keeps, Drops, Stops, Same, Tame, Modes, KeepsVideo, DropsVideo
  <2>3. DropsVideo(b.dev, UnpreparePreview(b.dev))
    BY <2>2, UnpreparePreviewStops DEF Keeps, Drops, Stops, Same, Tame, Modes, KeepsVideo, DropsVideo
  <2>4. CASE o = b
    BY ONLY <1>2, <2>2, <2>4 DEF Drops, Same, Tame, Modes, KeepsVideo, DropsVideo
  <2>5. CASE o = Fail(UnpreparePreview(b.dev))
    <3>1. o.ok = FALSE /\ o.dev = UnpreparePreview(b.dev)
      BY ONLY <2>5, DoneOrFail
    <3> QED
      BY ONLY <1>2, <2>2, <2>3, <3>1 DEF Drops, Same, Tame, Modes, KeepsVideo, DropsVideo
  <2> QED
    BY <2>1, <2>4, <2>5
<1> QED
  BY <1>1, <1>3, <1>4

\* commitParameterChanges().
LEMMA CommitKeeps ==
  ASSUME NEW d \in Device
  PROVE  AllKeepVideo(d, Commit(d))
<1> DEFINE e == [d EXCEPT !.m_bZslMode = d.m_bZslMode_new,
                  !.m_bRecordingHint = d.m_bRecordingHint_new,
                  !.hintKey = d.hintKey_new]
<1>1. KeepsVideo(d, e) /\ KeepsVideo(d, d)
  BY DEF Device, Keeps, Same, Tame, Modes, Started, KeepsVideo, DropsVideo
<1>2. Commit(d) = Try(e, d)
  BY DEF Commit
<1> HIDE DEF e
<1>3. \A o \in Try(e, d) : o.ok \in BOOLEAN /\ KeepsVideo(d, o.dev)
  <2>1. \A o \in Try(e, d) : (o.ok = TRUE /\ o.dev = e) \/ (o.ok = FALSE /\ o.dev = d)
    BY ONLY TryEither
  <2> QED
    BY ONLY <1>1, <2>1
<1> QED
  BY <1>2, <1>3 DEF AllKeep, AllKeepVideo

\* A setting that restarts the preview goes through unpreparePreview(), so that
\* nothing it starts again is video.
LEMMA RestartsDrop ==
  ASSUME NEW d \in Device
  PROVE  AllDropVideo(d, RestartPreview(d)) /\ AllDropVideo(d, Reprepare(d))
<1>1. \A e \in Device : Stops(d, e) =>
        \A o \in UNION {PrepareAndStartPreview(c.dev) : c \in Commit(e)} :
            o.ok \in BOOLEAN /\ DropsVideo(d, o.dev)
  <2> SUFFICES ASSUME NEW e \in Device, Stops(d, e), NEW c \in Commit(e),
                      NEW o \in PrepareAndStartPreview(c.dev)
               PROVE  o.ok \in BOOLEAN /\ DropsVideo(d, o.dev)
    OBVIOUS
  <2>1. KeepsVideo(e, c.dev) /\ c.dev \in Device
    BY CommitKeeps DEF AllKeep, AllKeepVideo, Keeps, Drops, Stops, Same, Tame, Modes, KeepsVideo, DropsVideo
  <2>2. o.ok \in BOOLEAN /\ DropsVideo(c.dev, o.dev)
    BY <2>1, PrepareAndStartPreviewDrops DEF AllDropVideo
  <2> QED
    BY <2>1, <2>2 DEF Keeps, Drops, Stops, Same, Tame, Modes, KeepsVideo, DropsVideo
<1>2. \A e \in Device : Stops(d, e) =>
        \A o \in UNION {PreparePreview(c.dev) : c \in Commit(e)} :
            o.ok \in BOOLEAN /\ DropsVideo(d, o.dev)
  <2> SUFFICES ASSUME NEW e \in Device, Stops(d, e), NEW c \in Commit(e),
                      NEW o \in PreparePreview(c.dev)
               PROVE  o.ok \in BOOLEAN /\ DropsVideo(d, o.dev)
    OBVIOUS
  <2>1. KeepsVideo(e, c.dev) /\ c.dev \in Device
    BY CommitKeeps DEF AllKeep, AllKeepVideo, Keeps, Drops, Stops, Same, Tame, Modes, KeepsVideo, DropsVideo
  <2>2. o.ok \in BOOLEAN /\ DropsVideo(c.dev, o.dev)
    BY <2>1, PreparePreviewDrops, AllChain DEF AllDropVideo
  <2> QED
    BY <2>1, <2>2 DEF Keeps, Drops, Stops, Same, Tame, Modes, KeepsVideo, DropsVideo
<1>3. UnpreparePreview(d) \in Device /\ StopPreview(d) \in Device
  BY UnpreparePreviewStops DEF Keeps, Drops, Stops, Same, Tame, Modes, KeepsVideo, DropsVideo
<1> QED
  BY <1>1, <1>2, <1>3, UnpreparePreviewStops DEF RestartPreview, Reprepare, AllDropVideo

\* An attempt that may fail, of an operation that leaves video alone.
LEMMA TryKeeps ==
  ASSUME NEW d, NEW e, NEW f, Keeps(d, e), Keeps(d, f)
  PROVE  AllKeep(d, Try(e, f))
<1>1. \A o \in Try(e, f) : (o.ok = TRUE /\ o.dev = e) \/ (o.ok = FALSE /\ o.dev = f)
  BY TryEither
<1> QED
  BY <1>1 DEF AllKeep

\* What startRecording() puts in place before it starts the preview again: a
\* device without a preview and with the hint asked for.
LEMMA RecordingHintStaged ==
  ASSUME NEW d \in Device
  PROVE  LET e == [StopPreview(d) EXCEPT !.m_bRecordingHint_new = TRUE]
         IN  Stops(d, e) /\ Quiet(e) /\ e \in Device
<1>1. Stops(d, StopPreview(d)) /\ Quiet(StopPreview(d)) /\ StopPreview(d) \in Device
  BY UnpreparePreviewStops DEF Stops, Same, Tame
<1>2. \A x \in Device : LET e == [x EXCEPT !.m_bRecordingHint_new = TRUE]
                       IN  Keeps(x, e) /\ (Quiet(x) => Quiet(e))
  BY DEF Keeps, Same, Tame, Modes, Device, Started, Quiet
<1> QED
  BY <1>1, <1>2 DEF Keeps, Stops, Same, Tame, Modes

\* An operation with one outcome.
LEMMA OneKeeps ==
  ASSUME NEW d, NEW e, Keeps(d, e)
  PROVE  AllKeep(d, {Done(e)}) /\ AllKeep(d, {Fail(e)})
  BY DoneOrFail DEF AllKeep

\* start_recording() without the hint sets the preview up again.
LEMMA EnterRecordingModeDrops ==
  ASSUME NEW d \in Device
  PROVE  AllDropVideo(d, EnterRecordingMode(d))
<1> DEFINE e == [StopPreview(d) EXCEPT !.m_bRecordingHint_new = TRUE]
<1> SUFFICES ASSUME NEW o \in EnterRecordingMode(d)
             PROVE  o.ok \in BOOLEAN /\ DropsVideo(d, o.dev)
  BY DEF AllDropVideo
<1>1. Stops(d, e) /\ e \in Device
  BY RecordingHintStaged
<1>2. PICK c \in Commit(e) :
        o \in AndThen(PreparePreview(c.dev), LAMBDA x : StartChannel(x, "PREVIEW"))
  BY DEF EnterRecordingMode
<1> HIDE DEF e
<1>3. KeepsVideo(e, c.dev) /\ c.dev \in Device
  BY <1>1, <1>2, CommitKeeps DEF AllKeepVideo, KeepsVideo, Same
<1>4. PICK a \in PreparePreview(c.dev) :
        (~a.ok /\ o = a) \/ o \in StartChannel(a.dev, "PREVIEW")
  BY <1>2 DEF AndThen
<1>5. a.ok \in BOOLEAN /\ Drops(c.dev, a.dev) /\ a.dev \in Device
  BY <1>3, <1>4, PreparePreviewDrops DEF AllDrop, Drops, Same, Tame
<1>6. DropsVideo(d, a.dev)
  BY <1>1, <1>3, <1>5 DEF KeepsVideo, DropsVideo, Drops, Stops, Same, Tame
<1>7. CASE o = a
  BY <1>5, <1>6, <1>7
<1>8. CASE o \in StartChannel(a.dev, "PREVIEW")
  <2>1. o.ok \in BOOLEAN /\ KeepsVideo(a.dev, o.dev)
    BY <1>5, <1>8, StartChannelVideo DEF ChannelType
  <2> QED
    BY <1>6, <2>1 DEF KeepsVideo, DropsVideo, Same
<1> QED
  BY <1>4, <1>7, <1>8

\* startRecording() starts the video channel exactly when it succeeds.
LEMMA StartRecordingVideo ==
  ASSUME NEW d \in Device, NEW o \in StartRecording(d)
  PROVE  /\ o.ok \in BOOLEAN /\ Same(d, o.dev)
         /\ o.ok => Started(o.dev, "VIDEO")
         /\ ~o.ok => DropsVideo(d, o.dev)
<1> DEFINE first == IF d.m_bRecordingHint THEN {Done(d)} ELSE EnterRecordingMode(d)
<1>1. AllDropVideo(d, {Done(d)})
  BY DoneOrFail DEF AllDropVideo, DropsVideo, Same
<1>2. AllDropVideo(d, first)
  BY <1>1, EnterRecordingModeDrops
<1>3. PICK a \in first : (~a.ok /\ o = a) \/ o \in StartChannel(a.dev, "VIDEO")
  BY DEF StartRecording, AndThen
<1> HIDE DEF first
<1>4. a.ok \in BOOLEAN /\ DropsVideo(d, a.dev) /\ a.dev \in Device
  BY <1>2, <1>3 DEF AllDropVideo, DropsVideo, Same
<1>5. CASE ~a.ok /\ o = a
  BY <1>4, <1>5 DEF DropsVideo
<1>6. CASE o \in StartChannel(a.dev, "VIDEO")
  <2>1. /\ o.ok \in BOOLEAN /\ Same(a.dev, o.dev)
        /\ o.ok => Started(o.dev, "VIDEO")
        /\ ~o.ok => Keeps(a.dev, o.dev)
    BY <1>4, <1>6, StartChannelVideo DEF ChannelType
  <2> QED
    BY <1>4, <2>1 DEF Keeps, DropsVideo, Same, Tame
<1> QED
  BY <1>3, <1>5, <1>6

\* stopRecording().
LEMMA StopRecordingStops ==
  ASSUME NEW d \in Device
  PROVE  Stops(d, StopRecording(d))
  BY StopChannelVideo DEF StopRecording, ChannelType

\* set_parameters() writes what it stages into fields that are not channels,
\* and only a change of zero shutter lag, which needs a restart, stages a mode.
LEMMA StagedKeeps ==
  ASSUME NEW d \in Device, NEW p \in ParamChange
  PROVE  /\ KeepsVideo(d, Staged(d, p)) /\ SameStreams(d, Staged(d, p))
         /\ ~(p \in ZslChange /\ NeedRestart(d, p)) => Keeps(d, Staged(d, p))
<1> USE DEF Device, Keeps, KeepsVideo, SameStreams, Same, Tame, Modes, Started, ZslChange
<1>1. CASE p \in {"zsl_on", "zsl_off"}
  <2>1. Staged(d, p) = [d EXCEPT !.m_bZslMode_new = (p = "zsl_on")]
    BY <1>1 DEF Staged, NewHint
  <2>2. ~NeedRestart(d, p) => d.m_bZslMode_new = (p = "zsl_on")
    BY <1>1 DEF NeedRestart
  <2> QED
    BY <1>1, <2>1, <2>2
<1>2. CASE NewHint(d, p)
  <2>1. p \in {"hint_on", "hint_off"}
    BY <1>2 DEF NewHint
  <2>2. Staged(d, p) = [d EXCEPT !.m_bRecordingHint_new = (p = "hint_on"), !.hintKey_new = p]
    BY <1>2, <2>1 DEF Staged
  <2> QED
    BY <2>1, <2>2 DEF HintKey
<1>3. CASE p \notin {"zsl_on", "zsl_off"} /\ ~NewHint(d, p)
  <2>1. Staged(d, p) \in {[d EXCEPT !.mFocusMode = "AUTO"], [d EXCEPT !.mFocusMode = "CONTINUOUS"],
                          [d EXCEPT !.mFocusMode = "FIXED"], d}
    BY <1>3 DEF Staged
  <2> QED
    BY <2>1 DEF FocusMode
<1> QED
  BY <1>1, <1>2, <1>3

\* updateParameters().
LEMMA UpdateParametersKeeps ==
  ASSUME NEW d \in Device, NEW p \in ParamChange, NEW u \in UpdateParameters(d, p)
  PROVE  /\ u.ok \in BOOLEAN /\ KeepsVideo(d, u.dev) /\ SameStreams(d, u.dev)
         /\ ~(p \in ZslChange /\ NeedRestart(d, p)) => Keeps(d, u.dev)
         /\ ~Faults => u.ok
<1> DEFINE e == Staged(d, p)
<1>1. Keeps(d, d) /\ KeepsVideo(d, d) /\ SameStreams(d, d)
  BY DEF Keeps, KeepsVideo, SameStreams, Same, Tame, Modes
<1>2. /\ KeepsVideo(d, e) /\ SameStreams(d, e)
      /\ ~(p \in ZslChange /\ NeedRestart(d, p)) => Keeps(d, e)
  BY StagedKeeps
<1>3. u = Done(e) \/ (Faults /\ (u = Fail(e) \/ u = Fail(d)))
  BY DEF UpdateParameters, Try
<1> HIDE DEF e
<1>4. \/ u.ok = TRUE /\ u.dev = e
      \/ Faults /\ u.ok = FALSE /\ u.dev \in {d, e}
  BY ONLY <1>3, DoneOrFail
<1> QED
  BY ONLY <1>1, <1>2, <1>4

\* autoFocus().
LEMMA AutoFocusKeeps ==
  ASSUME NEW d \in Device
  PROVE  AllKeep(d, AutoFocus(d))
<1> DEFINE e == [d EXCEPT !.lens = "scanning"]
<1>1. Keeps(d, e) /\ Keeps(d, d)
  BY DEF Device, Keeps, Same, Tame, Modes, Started
<1>2. AutoFocus(d) = {Done(d)} \/ AutoFocus(d) = Try(e, d)
  BY DEF AutoFocus
<1> HIDE DEF e
<1> QED
  BY <1>1, <1>2, TryKeeps, OneKeeps

\* cancelAutoFocus().
LEMMA CancelAutoFocusKeeps ==
  ASSUME NEW d \in Device
  PROVE  AllKeep(d, CancelAutoFocus(d))
<1> DEFINE e == [d EXCEPT !.m_currentFocusState = "CANCELLED"]
           f == [e EXCEPT !.lens = IF @ = "scanning" THEN "cancelling" ELSE @]
<1>1. Keeps(d, e) /\ Keeps(d, d) /\ Keeps(d, f)
  BY DEF Device, Keeps, Same, Tame, Modes, Started, FocusState
<1>2. CancelAutoFocus(d) = {Done(d)} \/ CancelAutoFocus(d) = Try(f, e)
  BY DEF CancelAutoFocus
<1> HIDE DEF e, f
<1> QED
  BY <1>1, <1>2, TryKeeps, OneKeeps

\* prepareHardwareForSnapshot().
LEMMA PrepareHardwareKeeps ==
  ASSUME NEW d \in Device
  PROVE  AllKeep(d, PrepareHardwareForSnapshot(d))
<1> DEFINE e == [d EXCEPT !.preparing = TRUE]
<1>1. Keeps(d, e) /\ Keeps(d, d)
  BY DEF Device, Keeps, Same, Tame, Modes, Started
<1>2. PrepareHardwareForSnapshot(d) = Try(e, d)
  BY DEF PrepareHardwareForSnapshot
<1> HIDE DEF e
<1> QED
  BY <1>1, <1>2, TryKeeps

\* Starting and stopping the postprocessor.
LEMMA PostProcKeeps ==
  ASSUME NEW d \in Device
  PROVE  AllKeep(d, PostProcStart(d)) /\ Keeps(d, PostProcStop(d))
<1> DEFINE e == [d EXCEPT !.m_postprocessor = TRUE, !.shot = "armed"]
<1>1. Keeps(d, e) /\ Keeps(d, d) /\ Keeps(d, PostProcStop(d))
  BY DEF Device, Keeps, Same, Tame, Modes, Started, Shot, PostProcStop
<1>2. PostProcStart(d) \subseteq Try(e, d) \cup {Fail(e)}
  BY DEF PostProcStart
<1> HIDE DEF e
<1>3. AllKeep(d, Try(e, d)) /\ AllKeep(d, {Fail(e)})
  BY <1>1, TryKeeps, OneKeeps
<1> QED
  BY <1>1, <1>2, <1>3 DEF AllKeep

\* A zero shutter lag picture uses the channel that streams.
LEMMA TakeZslPictureKeeps ==
  ASSUME NEW d \in Device
  PROVE  AllKeep(d, TakeZslPicture(d))
<1>1. CASE ~Exists(d, "ZSL")
  <2>1. Keeps(d, d)
    BY DEF Keeps, Same, Tame, Modes
  <2> QED
    BY <1>1, <2>1, OneKeeps DEF TakeZslPicture
<1>2. CASE Exists(d, "ZSL")
  <2> SUFFICES ASSUME NEW o \in TakeZslPicture(d)
               PROVE  o.ok \in BOOLEAN /\ Keeps(d, o.dev)
    BY DEF AllKeep
  <2>1. PICK a \in PostProcStart(d) :
          \/ o = a
          \/ o \in Try([a.dev EXCEPT !.retroReady = a.dev.bRetroPicture], PostProcStop(a.dev))
    BY <1>2 DEF TakeZslPicture, AndThen
  <2>2. a.ok \in BOOLEAN /\ Keeps(d, a.dev) /\ a.dev \in Device
    BY PostProcKeeps DEF AllKeep, Keeps, Same, Tame, Modes
  <2>3. Keeps(a.dev, PostProcStop(a.dev))
        /\ Keeps(a.dev, [a.dev EXCEPT !.retroReady = a.dev.bRetroPicture])
    BY <2>2, PostProcKeeps DEF Keeps, Same, Tame, Modes, Device, Started
  <2>4. AllKeep(a.dev, Try([a.dev EXCEPT !.retroReady = a.dev.bRetroPicture],
                           PostProcStop(a.dev)))
    BY <2>3, TryKeeps
  <2> QED
    BY <2>1, <2>2, <2>4 DEF AllKeep, Keeps, Same, Tame, Modes
<1> QED
  BY <1>1, <1>2

\* A raw picture.
LEMMA TakeRawPictureDrops ==
  ASSUME NEW d \in Device
  PROVE  AllDrop(DelChannels(d, {"PREVIEW"}), TakeRawPicture(d))
<1> DEFINE e == DelChannels(d, {"PREVIEW"})
<1> SUFFICES ASSUME NEW o \in TakeRawPicture(d)
             PROVE  o.ok \in BOOLEAN /\ Drops(e, o.dev)
  BY DEF AllDrop
<1>1. Drops(d, e) /\ Drops(e, e) /\ e \in Device
  BY DelChannelsVideo DEF ChannelType, Drops, Same, Tame, Modes
<1>2. PICK a \in AddChannel(e, "RAW") :
        \/ o = a
        \/ o \in OrElse(AndThen(PostProcStart(a.dev),
                                LAMBDA f : OrElse(StartChannel(f, "RAW"), PostProcStop)),
                        LAMBDA f : DelChannels(f, {"RAW"}))
  BY DEF TakeRawPicture, AndThen
<1> HIDE DEF e
<1>3. a.ok \in BOOLEAN /\ Drops(e, a.dev) /\ a.dev \in Device
  BY <1>1, AddChannelVideo DEF AllDrop, Drops, Same, Tame, Modes, ChannelType
<1>4. CASE o \in OrElse(AndThen(PostProcStart(a.dev),
                               LAMBDA f : OrElse(StartChannel(f, "RAW"), PostProcStop)),
                       LAMBDA f : DelChannels(f, {"RAW"}))
  <2>1. PICK b \in AndThen(PostProcStart(a.dev),
                           LAMBDA f : OrElse(StartChannel(f, "RAW"), PostProcStop)) :
          o = b \/ o = Fail(DelChannels(b.dev, {"RAW"}))
    BY <1>4 DEF OrElse
  <2>2. PICK c \in PostProcStart(a.dev) :
          b = c \/ b \in OrElse(StartChannel(c.dev, "RAW"), PostProcStop)
    BY <2>1 DEF AndThen
  <2>3. c.ok \in BOOLEAN /\ Keeps(a.dev, c.dev) /\ c.dev \in Device
    BY <1>3, PostProcKeeps DEF AllKeep, Keeps, Same, Tame, Modes
  <2>4. ASSUME b \in OrElse(StartChannel(c.dev, "RAW"), PostProcStop)
        PROVE  b.ok \in BOOLEAN /\ Keeps(c.dev, b.dev)
    <3>1. PICK x \in StartChannel(c.dev, "RAW") : b = x \/ b = Fail(PostProcStop(x.dev))
      BY <2>4 DEF OrElse
    <3>2. x.ok \in BOOLEAN /\ Keeps(c.dev, x.dev) /\ x.dev \in Device
      BY <2>3, StartChannelVideo DEF ChannelType, Keeps, Same, Tame, Modes
    <3>3. Keeps(x.dev, PostProcStop(x.dev))
      BY <3>2, PostProcKeeps
    <3>4. CASE b = x
      BY ONLY <3>2, <3>4
    <3>5. CASE b = Fail(PostProcStop(x.dev))
      <4>1. b.ok = FALSE /\ b.dev = PostProcStop(x.dev)
        BY ONLY <3>5, DoneOrFail
      <4> QED
        BY ONLY <3>2, <3>3, <4>1 DEF Keeps, Same, Tame, Modes
    <3> QED
      BY <3>1, <3>4, <3>5
  <2>5. b.ok \in BOOLEAN /\ Drops(e, b.dev) /\ b.dev \in Device
    BY <1>3, <2>2, <2>3, <2>4 DEF Keeps, Drops, Same, Tame, Modes
  <2>6. Drops(b.dev, DelChannels(b.dev, {"RAW"}))
    BY <2>5, DelChannelsVideo DEF ChannelType
  <2>7. CASE o = Fail(DelChannels(b.dev, {"RAW"}))
    <3>1. o.ok = FALSE /\ o.dev = DelChannels(b.dev, {"RAW"})
      BY ONLY <2>7, DoneOrFail
    <3> QED
      BY ONLY <2>5, <2>6, <3>1 DEF Drops, Same, Tame, Modes
  <2> QED
    BY <2>1, <2>5, <2>7
<1> QED
  BY <1>2, <1>3, <1>4

\* The capture channel, added and started for one.
LEMMA StartCaptureDrops ==
  ASSUME NEW d \in Device
  PROVE  AllDrop(d, StartCapture(d))
<1> DEFINE q == [d EXCEPT !.reprocJobs = @ + 1]
           e == SetChannels(q, {"CAPTURE"}, "started")
           f == DelChannels(d, {"CAPTURE"})
           g == DelChannels(q, {"CAPTURE"})
<1>1. Keeps(d, q) /\ q \in Device
  BY DEF Device, Keeps, Same, Tame, Modes, Started
<1>2. StartCapture(d) \subseteq Try(e, f) \cup {Fail(g)}
  BY DEF StartCapture
<1> HIDE DEF q
<1>3. Keeps(q, e) /\ Keeps(q, g) /\ Keeps(d, f)
  BY <1>1, SetChannelsVideo, DelChannelsVideo DEF ChannelType, ChannelState
<1>4. Keeps(d, e) /\ Keeps(d, g)
  BY <1>1, <1>3 DEF Keeps, Same, Tame, Modes
<1> HIDE DEF e, f, g
<1>5. AllKeep(d, Try(e, f)) /\ AllKeep(d, {Fail(g)})
  BY <1>3, <1>4, TryKeeps, OneKeeps
<1> QED
  BY <1>2, <1>5 DEF AllKeep, AllDrop, Keeps, Tame, Drops

\* A picture without zero shutter lag gives up the channels of the preview.
LEMMA TakeNonZslPictureDrops ==
  ASSUME NEW d \in Device
  PROVE  AllDrop(DelChannels(d, {"PREVIEW"}), TakeNonZslPicture(d))
<1> DEFINE e == DelChannels(d, {"PREVIEW"})
           f == SetChannels(e, {"CAPTURE"}, "added")
<1>1. Drops(d, e) /\ Drops(e, e) /\ e \in Device
  BY DelChannelsVideo DEF ChannelType, Drops, Same, Tame, Modes
<1>2. Drops(e, f) /\ f \in Device
  BY <1>1, SetChannelsVideo DEF ChannelType, ChannelState, Drops, Same, Tame, Modes
<1> SUFFICES ASSUME NEW o \in TakeNonZslPicture(d)
             PROVE  o.ok \in BOOLEAN /\ Drops(e, o.dev)
  BY DEF AllDrop
<1>3. \/ o \in AndThen(AddChannel(e, "CAPTURE"), StartCapture)
      \/ o = Fail(e)
      \/ o \in StartCapture(f)
  BY DEF TakeNonZslPicture
<1> HIDE DEF e, f
<1>4. CASE o \in AndThen(AddChannel(e, "CAPTURE"), StartCapture)
  <2>1. PICK a \in AddChannel(e, "CAPTURE") : o = a \/ o \in StartCapture(a.dev)
    BY <1>4 DEF AndThen
  <2>2. a.ok \in BOOLEAN /\ Drops(e, a.dev) /\ a.dev \in Device
    BY <1>1, AddChannelVideo DEF AllDrop, Drops, Same, Tame, Modes, ChannelType
  <2> QED
    BY <1>1, <2>1, <2>2, StartCaptureDrops DEF AllDrop, Drops, Same, Tame, Modes
<1>5. CASE o \in StartCapture(f)
  BY <1>1, <1>2, <1>5, StartCaptureDrops DEF AllDrop, Drops, Same, Tame, Modes
<1>6. CASE o = Fail(e)
  BY <1>1, <1>6, DoneOrFail
<1> QED
  BY <1>3, <1>4, <1>5, <1>6

\* takePicture() of any kind.
LEMMA TakePictureDrops ==
  ASSUME NEW d \in Device
  PROVE  AllDrop(d, TakePicture(d))
<1>1. Drops(d, DelChannels(d, {"PREVIEW"}))
  BY DelChannelsVideo DEF ChannelType
<1> QED
  BY <1>1, TakeZslPictureKeeps, TakeRawPictureDrops, TakeNonZslPictureDrops, AllChain DEF TakePicture

\* The deferred job of a picture, which may fail and give up its channel.
LEMMA RunReprocJobKeeps ==
  ASSUME NEW d \in Device, d.reprocJobs > 0
  PROVE  AllKeep(d, RunReprocJob(d))
<1> DEFINE e == [d EXCEPT !.reprocJobs = @ - 1]
<1>1. Keeps(d, e) /\ e \in Device
  BY DEF Device, Keeps, Same, Tame, Modes, Started
<1> SUFFICES ASSUME NEW o \in RunReprocJob(d)
             PROVE  o.ok \in BOOLEAN /\ Keeps(d, o.dev)
  BY DEF AllKeep
<1>2. PICK a \in PostProcStart(e) : o = a \/ o = Fail(DelChannels(a.dev, {"CAPTURE"}))
  BY DEF RunReprocJob, OrElse
<1> HIDE DEF e
<1>3. a.ok \in BOOLEAN /\ Keeps(d, a.dev) /\ a.dev \in Device
  BY <1>1, PostProcKeeps DEF AllKeep, Keeps, Same, Tame, Modes
<1>4. Keeps(a.dev, DelChannels(a.dev, {"CAPTURE"}))
  BY <1>3, DelChannelsVideo DEF ChannelType
<1>5. CASE o = Fail(DelChannels(a.dev, {"CAPTURE"}))
  <2>1. o.ok = FALSE /\ o.dev = DelChannels(a.dev, {"CAPTURE"})
    BY ONLY <1>5, DoneOrFail
  <2> QED
    BY ONLY <1>3, <1>4, <2>1 DEF Keeps, Same, Tame, Modes
<1> QED
  BY <1>2, <1>3, <1>5

\* longShot().
LEMMA LongShotKeeps ==
  ASSUME NEW d \in Device
  PROVE  AllKeep(d, LongShot(d))
<1>1. Keeps(d, d)
  BY DEF Keeps, Same, Tame, Modes
<1>2. LongShot(d) = Try(d, d) \/ LongShot(d) = {Fail(d)}
  BY DEF LongShot
<1> QED
  BY <1>1, <1>2, TryKeeps, OneKeeps

\* cancelPicture().
LEMMA CancelPictureKeeps ==
  ASSUME NEW d \in Device
  PROVE  Keeps(d, CancelPicture(d))
<1>1. Keeps(d, PostProcStop(d)) /\ PostProcStop(d) \in Device
  BY PostProcKeeps DEF Keeps, Same, Tame, Modes
<1>2. PictureChannel \in ChannelType /\ PictureChannel # "VIDEO"
  BY DEF PictureChannel, ChannelType
<1>3. Keeps(PostProcStop(d), DelChannels(PostProcStop(d), {PictureChannel}))
  BY <1>1, <1>2, DelChannelsVideo
<1> QED
  BY <1>1, <1>3 DEF CancelPicture, Keeps, Same, Tame, Modes

\* stopCaptureChannel().
LEMMA StopCaptureChannelKeeps ==
  ASSUME NEW d \in Device, NEW destroy \in BOOLEAN
  PROVE  Keeps(d, StopCaptureChannel(d, destroy))
<1>1. Keeps(d, d)
  BY DEF Keeps, Same, Tame, Modes
<1>2. Keeps(d, SetChannels(d, {"CAPTURE"}, "closed"))
  BY SetChannelsVideo DEF ChannelType, ChannelState
<1>3. Keeps(d, StopChannel(d, "CAPTURE"))
  BY StopChannelVideo DEF ChannelType
<1> QED
  BY <1>1, <1>2, <1>3 DEF StopCaptureChannel

\* A live snapshot thread.
LEMMA LiveSnapshotKeeps ==
  ASSUME NEW d \in Device
  PROVE  /\ AllKeep(d, TakeLiveSnapshot(d))
         /\ Keeps(d, CancelLiveSnapshot(d))
         /\ \A t \in d.liveThreads : AllKeep(d, RunLiveSnapshot(d, t))
<1>0. Keeps(d, d)
  BY DEF Keeps, Same, Tame, Modes
<1>1. AllKeep(d, TakeLiveSnapshot(d))
  <2> SUFFICES ASSUME NEW o \in TakeLiveSnapshot(d)
               PROVE  o.ok \in BOOLEAN /\ Keeps(d, o.dev)
    BY DEF AllKeep
  <2>1. CASE o = Fail(d)
    BY <1>0, <2>1, DoneOrFail
  <2>2. CASE \E t \in (1..MaxLive) \ d.liveThreads :
               o = Done([d EXCEPT !.mLiveSnapshotThread = t, !.liveThreads = @ \cup {t}])
    <3>1. PICK t \in 1..MaxLive :
            o = Done([d EXCEPT !.mLiveSnapshotThread = t, !.liveThreads = @ \cup {t}])
      BY <2>2
    <3> DEFINE e == [d EXCEPT !.mLiveSnapshotThread = t, !.liveThreads = @ \cup {t}]
    <3>2. t \in 0..MaxLive
      BY DeviceAssumption
    <3>3. Keeps(d, e)
      BY <3>2 DEF Device, Keeps, Same, Tame, Modes, Started
    <3> QED
      BY <3>1, <3>3, DoneOrFail
  <2> QED
    BY <2>1, <2>2 DEF TakeLiveSnapshot
<1>2. Keeps(d, CancelLiveSnapshot(d))
  <2> DEFINE e == [d EXCEPT !.mLiveSnapshotThread = 0]
  <2>1. 0 \in 0..MaxLive
    BY DeviceAssumption
  <2>2. Keeps(d, e) /\ e \in Device
    BY <2>1 DEF Device, Keeps, Same, Tame, Modes, Started
  <2>3. CancelLiveSnapshot(d) = StopChannel(PostProcStop(e), "SNAPSHOT")
    BY DEF CancelLiveSnapshot
  <2> HIDE DEF e
  <2>4. Keeps(e, PostProcStop(e)) /\ PostProcStop(e) \in Device
    BY <2>2, PostProcKeeps DEF Keeps, Same, Tame, Modes
  <2>5. Keeps(PostProcStop(e), CancelLiveSnapshot(d))
    BY <2>3, <2>4, StopChannelVideo DEF ChannelType
  <2> QED
    BY <2>2, <2>4, <2>5 DEF Keeps, Same, Tame, Modes
<1>3. ASSUME NEW t \in d.liveThreads, NEW o \in RunLiveSnapshot(d, t)
      PROVE  o.ok \in BOOLEAN /\ Keeps(d, o.dev)
  <2>1. PICK a \in AndThen(PostProcStart(d), LAMBDA e : StartChannel(e, "SNAPSHOT")) :
          o = [a EXCEPT !.dev.liveThreads = @ \ {t}]
    BY DEF RunLiveSnapshot
  <2>2. PICK b \in PostProcStart(d) : a = b \/ a \in StartChannel(b.dev, "SNAPSHOT")
    BY <2>1 DEF AndThen
  <2>3. b.ok \in BOOLEAN /\ Keeps(d, b.dev) /\ b.dev \in Device
    BY PostProcKeeps DEF AllKeep, Keeps, Same, Tame, Modes
  <2>4. a.ok \in BOOLEAN /\ Keeps(d, a.dev) /\ a.dev \in Device
    BY <2>2, <2>3, StartChannelVideo DEF ChannelType, Keeps, Same, Tame, Modes
  <2> DEFINE e == [a.dev EXCEPT !.liveThreads = @ \ {t}]
  <2>5. Keeps(a.dev, e)
    BY <2>4 DEF Keeps, Same, Tame, Modes, Device, Started
  <2>6. b = [ok |-> b.ok, dev |-> b.dev]
    BY DEF PostProcStart, Try, Done, Fail
  <2>8. a = [ok |-> a.ok, dev |-> a.dev]
    <3>1. CASE a \in StartChannel(b.dev, "SNAPSHOT")
      <4> DEFINE e1 == SetChannels(b.dev, {"SNAPSHOT"}, "started")
      <4>1. a \in Try(e1, b.dev) \/ a = Fail(b.dev)
        BY <3>1 DEF StartChannel
      <4> HIDE DEF e1
      <4> QED
        BY <4>1 DEF Try, Done, Fail
    <3> QED
      BY <2>2, <2>6, <3>1
  <2>7. o.ok = a.ok /\ o.dev = e
    BY <2>1, <2>8
  <2> QED
    BY <2>4, <2>5, <2>7 DEF Keeps, Same, Tame, Modes
<1> QED
  BY <1>1, <1>2, <1>3 DEF AllKeep

\* release() stops and deletes every channel.
LEMMA ReleaseStops ==
  ASSUME NEW d \in Device
  PROVE  Stops(d, Release(d))
  BY DelChannelsVideo DEF Release, ChannelType

-----------------------------------------------------------------------------
(* The operations that start a preview or change the mode: what they leave   *)
(* streaming.                                                                *)

\* startPreview() starts the channel of the mode, and nothing when it fails.
LEMMA StartPreviewSettles ==
  ASSUME NEW d \in Device, NEW o \in StartPreview(d)
  PROVE  /\ o.dev \in Device /\ o.ok \in BOOLEAN
         /\ Settled(d) => Settled(o.dev)
         /\ ~o.ok => Tame(d, o.dev)
<1>1. o \in StartChannel(d, "PREVIEW") \/ (d.m_bZslMode /\ o \in StartChannel(d, "ZSL"))
  BY DEF StartPreview, UsesZslChannel
<1>2. /\ o.ok \in BOOLEAN /\ Same(d, o.dev) /\ Modes(d, o.dev) /\ (~o.ok => Tame(d, o.dev))
      /\ Started(o.dev, "ZSL") => Started(d, "ZSL") \/ d.m_bZslMode
  BY <1>1, StartChannelVideo DEF ChannelType, Keeps
<1> QED
  BY <1>2 DEF Same, Modes, Settled, Agreed

\* An operation after which no preview streams that did not before settles what it found settled.
LEMMA TameSettles ==
  ASSUME NEW d, NEW e, Tame(d, e)
  PROVE  (Settled(d) => Settled(e)) /\ (Quiet(d) => Quiet(e)) /\ (Agreed(d) => Agreed(e))
  BY DEF Tame, Modes, Settled, Agreed, Quiet

\* preparePreview(), then startPreview(): if that fails on a device without a
\* preview, there is still none.
LEMMA PrepareAndStartSettles ==
  ASSUME NEW d \in Device, Settled(d), NEW o \in PrepareAndStartPreview(d)
  PROVE  o.ok \in BOOLEAN /\ Settled(o.dev) /\ (~o.ok /\ Quiet(d) => Quiet(o.dev))
<1>1. PICK a \in PreparePreview(d) :
        \/ ~a.ok /\ o = a
        \/ o \in OrElse(StartPreview(a.dev), UnpreparePreview)
  BY DEF PrepareAndStartPreview, AndThen
<1>2. a.ok \in BOOLEAN /\ Tame(d, a.dev) /\ a.dev \in Device
  BY PreparePreviewDrops DEF AllDrop, Drops, Tame, Same
<1>3. Settled(a.dev) /\ (Quiet(d) => Quiet(a.dev))
  BY <1>2, TameSettles
<1>4. CASE o = a
  BY <1>2, <1>3, <1>4
<1>5. CASE o \in OrElse(StartPreview(a.dev), UnpreparePreview)
  <2>1. PICK b \in StartPreview(a.dev) :
          (b.ok /\ o = b) \/ o = Fail(UnpreparePreview(b.dev))
    BY <1>5 DEF OrElse
  <2>2. b.ok \in BOOLEAN /\ b.dev \in Device /\ Settled(b.dev)
    BY <1>2, <1>3, StartPreviewSettles
  <2>3. CASE b.ok /\ o = b
    BY <2>2, <2>3
  <2>4. CASE o = Fail(UnpreparePreview(b.dev))
    <3>1. o.ok = FALSE /\ o.dev = UnpreparePreview(b.dev)
      BY ONLY <2>4, DoneOrFail
    <3>2. Tame(b.dev, UnpreparePreview(b.dev)) /\ Quiet(UnpreparePreview(b.dev))
      BY <2>2, UnpreparePreviewStops DEF Stops
    <3> QED
      BY <2>2, <3>1, <3>2, TameSettles
  <2> QED
    BY <2>1, <2>3, <2>4
<1> QED
  BY <1>1, <1>4, <1>5

\* commitParameterChanges() puts the staged mode in force, or leaves what was
\* in force, which is the same thing if nothing was staged.
LEMMA CommitAgrees ==
  ASSUME NEW d \in Device, Agreed(d) \/ ~Faults, NEW o \in Commit(d)
  PROVE  /\ o.ok \in BOOLEAN /\ o.dev \in Device /\ Agreed(o.dev) /\ SameStreams(d, o.dev)
         /\ Agreed(d) => o.dev.m_bZslMode = d.m_bZslMode
<1> DEFINE e == [d EXCEPT !.m_bZslMode = d.m_bZslMode_new,
                  !.m_bRecordingHint = d.m_bRecordingHint_new,
                  !.hintKey = d.hintKey_new]
<1>1. e \in Device /\ Agreed(e) /\ SameStreams(d, e) /\ (Agreed(d) => e.m_bZslMode = d.m_bZslMode)
  BY DEF Device, Agreed, SameStreams
<1>2. o = Done(e) \/ (Faults /\ o = Fail(d))
  BY DEF Commit, Try
<1>3. SameStreams(d, d)
  BY DEF SameStreams
<1> HIDE DEF e
<1>4. (o.ok = TRUE /\ o.dev = e) \/ (Faults /\ o.ok = FALSE /\ o.dev = d)
  BY ONLY <1>2, DoneOrFail
<1> QED
  BY <1>1, <1>3, <1>4

\* Streams that did not change are quiet if they were, and settled if the mode is.
LEMMA SameStreamsSettle ==
  ASSUME NEW d, NEW e, SameStreams(d, e), Agreed(e)
  PROVE  /\ Quiet(d) => Quiet(e) /\ Settled(e)
         /\ Settled(d) /\ e.m_bZslMode = d.m_bZslMode => Settled(e)
  BY DEF SameStreams, Agreed, Settled, Quiet, Started

\* A restart of the preview, of a device whose modes agree or will.
LEMMA RestartSettles ==
  ASSUME NEW d \in Device, Agreed(d) \/ ~Faults, NEW o \in RestartPreview(d)
  PROVE  o.ok \in BOOLEAN /\ Settled(o.dev) /\ (~o.ok => Quiet(o.dev))
<1> DEFINE e == StopPreview(d)
<1>1. e \in Device /\ Quiet(e) /\ (Agreed(d) => Agreed(e))
  BY UnpreparePreviewStops, TameSettles DEF Stops, Tame, Same
<1>2. PICK c \in Commit(e) : o \in PrepareAndStartPreview(c.dev)
  BY DEF RestartPreview
<1> HIDE DEF e
<1>3. c.dev \in Device /\ Quiet(c.dev) /\ Settled(c.dev)
  BY <1>1, <1>2, CommitAgrees, SameStreamsSettle
<1> QED
  BY <1>2, <1>3, PrepareAndStartSettles

\* The restart of a preview that is only prepared starts nothing.
LEMMA ReprepareSettles ==
  ASSUME NEW d \in Device, Agreed(d) \/ ~Faults, NEW o \in Reprepare(d)
  PROVE  /\ o.ok \in BOOLEAN /\ Settled(o.dev) /\ Quiet(o.dev)
         /\ o.dev.mPreviewWindow = d.mPreviewWindow
<1> DEFINE e == UnpreparePreview(d)
<1>1. e \in Device /\ Quiet(e) /\ (Agreed(d) => Agreed(e)) /\ e.mPreviewWindow = d.mPreviewWindow
  BY UnpreparePreviewStops, TameSettles DEF Stops, Tame, Same, Modes
<1>2. PICK c \in Commit(e) : o \in PreparePreview(c.dev)
  BY DEF Reprepare
<1> HIDE DEF e
<1>3. c.dev \in Device /\ SameStreams(e, c.dev) /\ Quiet(c.dev) /\ Settled(c.dev)
  BY <1>1, <1>2, CommitAgrees, SameStreamsSettle
<1>4. o.ok \in BOOLEAN /\ Tame(c.dev, o.dev)
  BY <1>2, <1>3, PreparePreviewDrops DEF AllDrop, Drops
<1> QED
  BY <1>1, <1>3, <1>4, TameSettles DEF SameStreams, Tame, Modes

\* startRecording() starts the preview channel again, never the other.
LEMMA StartRecordingSettles ==
  ASSUME NEW d \in Device, Settled(d), NEW o \in StartRecording(d)
  PROVE  Settled(o.dev)
<1> DEFINE first == IF d.m_bRecordingHint THEN {Done(d)} ELSE EnterRecordingMode(d)
<1>1. PICK a \in first : o = a \/ o \in StartChannel(a.dev, "VIDEO")
  BY DEF StartRecording, AndThen
<1>2. a.dev \in Device /\ Settled(a.dev)
  <2>1. CASE a = Done(d)
    BY <2>1, DoneOrFail
  <2>2. CASE a \in EnterRecordingMode(d)
    <3> DEFINE e == [StopPreview(d) EXCEPT !.m_bRecordingHint_new = TRUE]
    <3>1. e \in Device /\ Quiet(e) /\ Agreed(e)
      BY RecordingHintStaged, TameSettles DEF Stops, Settled
    <3>2. PICK c \in Commit(e) :
            a \in AndThen(PreparePreview(c.dev), LAMBDA x : StartChannel(x, "PREVIEW"))
      BY <2>2 DEF EnterRecordingMode
    <3> HIDE DEF e
    <3>3. c.dev \in Device /\ Settled(c.dev)
      BY <3>1, <3>2, CommitAgrees, SameStreamsSettle
    <3>4. PICK b \in PreparePreview(c.dev) : a = b \/ a \in StartChannel(b.dev, "PREVIEW")
      BY <3>2 DEF AndThen
    <3>5. b.dev \in Device /\ Settled(b.dev)
      BY <3>3, <3>4, PreparePreviewDrops, TameSettles DEF AllDrop, Drops, Tame, Same
    <3>6. CASE a \in StartChannel(b.dev, "PREVIEW")
      <4>1. Same(b.dev, a.dev) /\ Modes(b.dev, a.dev)
            /\ (Started(a.dev, "ZSL") => Started(b.dev, "ZSL"))
        BY <3>5, <3>6, StartChannelVideo DEF ChannelType
      <4> QED
        BY <3>5, <4>1 DEF Same, Modes, Settled, Agreed
    <3> QED
      BY <3>4, <3>5, <3>6
  <2> QED
    BY <1>1, <2>1, <2>2
<1>3. CASE o \in StartChannel(a.dev, "VIDEO")
  BY <1>2, <1>3, StartChannelVideo, TameSettles DEF ChannelType
<1> QED
  BY <1>1, <1>2, <1>3

\* A picture without zero shutter lag gives up the preview channel.
LEMMA TakePictureQuiets ==
  ASSUME NEW d \in Device, Settled(d), ~d.m_bZslMode, NEW o \in TakePicture(d)
  PROVE  Quiet(o.dev)
<1> DEFINE e == DelChannels(d, {"PREVIEW"})
<1>1. Drops(d, e) /\ e \in Device /\ ~Started(e, "PREVIEW") /\ ~Started(d, "ZSL")
  BY DelChannelsVideo DEF ChannelType, Drops, Same, Tame, Settled
<1>2. Quiet(e)
  BY <1>1 DEF Quiet, Drops, Tame
<1>3. o \in TakeRawPicture(d) \/ o \in TakeNonZslPicture(d)
  BY DEF TakePicture
<1> HIDE DEF e
<1>4. Drops(e, o.dev)
  BY <1>3, TakeRawPictureDrops, TakeNonZslPictureDrops DEF e, AllDrop
<1> QED
  BY <1>2, <1>4, TameSettles DEF Drops


-----------------------------------------------------------------------------
(* What a handler of the state machine may do. *)

\* The states in which the machine says it records.
Recording == {"RECORDING", "VIDEO_PIC_TAKING"}

\* What a handler may rely on.
Ctx == SMTypeOK /\ VideoIffRecording

\* The states in which no preview streams.
Off == {"PREVIEW_STOPPED", "PREVIEW_READY", "PIC_TAKING"}

\* The application never asks for another mode.
Fixed == \A p \in ZslChange : CmdWith("SET_PARAMS", p) \notin Calls

\* The device d is as the state s says.
Fine(d, s) ==
    /\ Settled(d)
    /\ s \in Off => Quiet(d)
    /\ s = "PREVIEW_READY" => ~d.mPreviewWindow
    /\ s \in Recording => Fixed

\* A command that leaves it so: no preview is restarted behind a picture, and
\* where the mode changes nothing is recorded and no change of it fails.
Suits(cmd) ==
    /\ ~PreviewRestartEnabled
    /\ cmd.evt = "START_RECORDING" => Fixed
    /\ cmd.evt = "SET_PARAMS" /\ cmd.arg \in ZslChange => ~Fixed /\ ~Faults

\* What such a command comes to when it leaves the device e and the state s.
Passes(cmd, e, s) == Suits(cmd) /\ Fine(dev, m_state) => Fine(e, s)

\* The device e a handler leaves fits the state s it moves to.
Fit(cmd, e, s) ==
    /\ Same(dev, e)
    /\ Started(e, "VIDEO") <=> s \in Recording
    /\ Passes(cmd, e, s)

\* The commands whose answer cannot get lost.
Owed == ApiEvent \ {"STOP_AUTO_FOCUS", "REG_FACE_IMAGE"}

\* The machine waits for the flash, with an answer put off.
Preparing == m_state = "PREPARE_SNAPSHOT"

\* No answer.
Silent == UNCHANGED m_apiResultList

\* One answer, to evt.
Answer(evt) ==
    \E r \in Result : r.request_api = evt /\ m_apiResultList' = Append(m_apiResultList, r)

\* What a handler owes: an answer to its own command, none if none is owed,
\* or an answer put off while the flash is prepared and given when it is.
Answers(cmd) ==
    \/ Answer(cmd.evt) /\ (Preparing' <=> Preparing)
    \/ /\ cmd.evt \notin Owed
       /\ Silent \/ \E evt : evt \notin Owed /\ Answer(evt)
       /\ Preparing' <=> Preparing
    \/ cmd.evt = "PREPARE_SNAPSHOT" /\ Silent /\ ~Preparing /\ Preparing'
    \/ cmd.evt = "PREP_SNAPSHOT_DONE" /\ Answer("PREPARE_SNAPSHOT") /\ Preparing /\ ~Preparing'

\* What every handler does, whatever the state: it keeps the machine's types
\* and the channels in step with the state, posts at most SNAPSHOT_DONE,
\* and answers what it owes.
Contract(cmd) ==
    /\ m_state' \in State
    /\ Fit(cmd, dev', m_state')
    /\ evt_queue' \in {evt_queue, Append(evt_queue, Cmd("SNAPSHOT_DONE"))}
    /\ m_evtResult' \in BOOLEAN
    /\ Silent \/ \E r \in Result : m_apiResultList' = Append(m_apiResultList, r)
    /\ dev.bRetroPicture \/ Answers(cmd)

\* The events an answer can be for.
Signalled == ApiEvent \cup {"STOP_CAPTURE_CHANNEL", "SNAPSHOT_DONE"}

\* signalAPIResult() is an answer.
LEMMA SignalAnswers ==
  ASSUME NEW evt \in Signalled, NEW enabled \in BOOLEAN,
         NEW status \in {"NO_ERROR", "INVALID_OPERATION", "ERROR"},
         Signal(evt, status, enabled)
  PROVE  Answer(evt)
<1> DEFINE r == [request_api |-> evt, status |-> status, enabled |-> enabled]
<1>1. r \in Result /\ r.request_api = evt
  BY DEF Result, Signalled
<1>2. m_apiResultList' = Append(m_apiResultList, r)
  BY DEF Signal
<1> HIDE DEF r
<1> QED
  BY <1>1, <1>2 DEF Answer

\* A handler that stays in its state and answers, or was owed no answer.
LEMMA StayContract ==
  ASSUME NEW cmd, Ctx, Stay, UNCHANGED evt_queue, m_evtResult' \in BOOLEAN,
         Answer(cmd.evt) \/ (cmd.evt \notin Owed /\ Silent)
  PROVE  Contract(cmd)
<1>1. m_state' = m_state /\ dev' = dev /\ (Preparing' <=> Preparing)
  BY DEF Stay, Preparing
<1>2. Fit(cmd, dev, m_state) /\ m_state' \in State
  BY <1>1 DEF Ctx, SMTypeOK, VideoIffRecording, isRecording, Recording, Same, Fit, Passes
<1>3. Answers(cmd)
  BY <1>1 DEF Answers
<1>4. Silent \/ \E r \in Result : m_apiResultList' = Append(m_apiResultList, r)
  BY DEF Answer
<1> QED
  BY <1>1, <1>2, <1>3, <1>4 DEF Contract

\* A handler that replies and does nothing else.
LEMMA RepliesContract ==
  ASSUME NEW cmd, Ctx, cmd.evt \in Signalled,
         Acknowledge(cmd) \/ Refuse(cmd) \/ \E b \in BOOLEAN : Report(cmd, b)
  PROVE  Contract(cmd)
<1>1. Stay /\ UNCHANGED evt_queue /\ m_evtResult' = m_evtResult /\ Answer(cmd.evt)
  <2>1. CASE Acknowledge(cmd) \/ Refuse(cmd)
    BY <2>1, SignalAnswers DEF Acknowledge, Refuse, Reply
  <2>2. CASE \E b \in BOOLEAN : Report(cmd, b)
    BY <2>2, SignalAnswers DEF Report
  <2> QED
    BY <2>1, <2>2
<1>2. m_evtResult \in BOOLEAN
  BY DEF Ctx, SMTypeOK
<1> QED
  BY <1>1, <1>2, StayContract

\* A handler that reports whether a thing is enabled.
LEMMA EnabledContract ==
  ASSUME NEW cmd, Ctx, NEW p \in BOOLEAN, NEW r \in BOOLEAN, DoEnabled(cmd, p, r)
  PROVE  Contract(cmd)
<1>1. cmd.evt \in Signalled /\ \E b \in BOOLEAN : Report(cmd, b)
  BY DEF DoEnabled, Signalled, ApiEvent, NoArgOps
<1> QED
  BY <1>1, RepliesContract

\* A handler that answers one of several commands alike.
LEMMA OneOfContract ==
  ASSUME NEW cmd, Ctx, NEW evts \in SUBSET Signalled,
         AcknowledgeOneOf(cmd, evts) \/ RefuseOneOf(cmd, evts)
  PROVE  Contract(cmd)
<1>1. cmd.evt \in Signalled /\ (Acknowledge(cmd) \/ Refuse(cmd))
  BY DEF AcknowledgeOneOf, RefuseOneOf
<1> QED
  BY <1>1, RepliesContract

\* A handler that drops an event, which nobody is owed an answer to.
LEMMA IgnoreContract ==
  ASSUME NEW cmd, Ctx, cmd.evt \notin Owed, Ignore \/ (Stay /\ EvtReply)
  PROVE  Contract(cmd)
<1>1. Stay /\ UNCHANGED evt_queue /\ m_evtResult' \in BOOLEAN /\ Silent
  BY DEF Ignore, NoReply, EvtReply, Ctx, SMTypeOK, Silent
<1> QED
  BY <1>1, StayContract

\* The events of the machine, and what the postprocessor posts, are not owed.
LEMMA EventsNotOwed ==
  {"FOCUS_UPDATE", "PREP_SNAPSHOT_DONE", "READY_FOR_SNAPSHOT", "EVT_NOTIFY", "JPEG_EVT_NOTIFY",
   "SNAPSHOT_DONE", "STOP_CAPTURE_CHANNEL", "REG_FACE_IMAGE", "STOP_AUTO_FOCUS"} \cap Owed = {}
  BY DEF Owed, ApiEvent, NoArgOps, PlainOps

\* The events a state ignores.
LEMMA IgnoredEventsContract ==
  ASSUME NEW cmd, Ctx,
         \/ DoEvtNotify(cmd) \/ DoSnapshotDoneIgnored(cmd)
         \/ IgnoreOneOf(cmd, {"FOCUS_UPDATE", "PREP_SNAPSHOT_DONE", "READY_FOR_SNAPSHOT",
                              "JPEG_EVT_NOTIFY", "STOP_CAPTURE_CHANNEL", "REG_FACE_IMAGE"})
  PROVE  Contract(cmd)
<1>1. /\ cmd.evt \in {"FOCUS_UPDATE", "PREP_SNAPSHOT_DONE", "READY_FOR_SNAPSHOT", "EVT_NOTIFY",
                      "JPEG_EVT_NOTIFY", "SNAPSHOT_DONE", "STOP_CAPTURE_CHANNEL", "REG_FACE_IMAGE"}
      /\ Ignore \/ (Stay /\ EvtReply)
  BY DEF DoEvtNotify, DoSnapshotDoneIgnored, IgnoreOneOf
<1> QED
  BY <1>1, EventsNotOwed, IgnoreContract

\* A handler that answers and moves to another state.
LEMMA MoveContract ==
  ASSUME NEW cmd, Ctx, NEW next \in State \ {"PREPARE_SNAPSHOT"}, ~Preparing,
         Fit(cmd, dev', next), m_state' = next,
         evt_queue' \in {evt_queue, Append(evt_queue, Cmd("SNAPSHOT_DONE"))},
         m_evtResult' \in BOOLEAN, 
         Answer(cmd.evt) \/ (cmd.evt \notin Owed /\ (Silent \/ \E evt : evt \notin Owed /\ Answer(evt)))
  PROVE  Contract(cmd)
<1>1. Preparing' <=> Preparing
  BY DEF Preparing
<1>2. Answers(cmd)
  BY <1>1 DEF Answers
<1>3. Silent \/ \E r \in Result : m_apiResultList' = Append(m_apiResultList, r)
  BY DEF Answer
<1> QED
  BY <1>2, <1>3 DEF Contract

\* A reply is an answer and posts nothing.
LEMMA ReplyAnswers ==
  ASSUME NEW evt \in Signalled, NEW status \in {"NO_ERROR", "INVALID_OPERATION", "ERROR"},
         Ctx, Reply(evt, status)
  PROVE  Answer(evt) /\ evt_queue' = evt_queue /\ m_evtResult' \in BOOLEAN
<1>1. Signal(evt, status, FALSE) /\ UNCHANGED <<evt_queue, m_evtResult>>
  BY DEF Reply
<1>2. Answer(evt)
  BY <1>1, SignalAnswers
<1> QED
  BY <1>1, <1>2 DEF Ctx, SMTypeOK

\* What the outcomes of an operation must be for a handler to keep the channels
\* and the state together.
Fits(cmd, outcomes, success, failure) ==
    \A o \in outcomes :
        o.ok \in BOOLEAN /\ Fit(cmd, o.dev, IF o.ok THEN success ELSE failure)

\* A handler that performs an operation and moves with its outcome.
LEMMA PerformContract ==
  ASSUME NEW cmd, Ctx, ~Preparing, cmd.evt \in Signalled, NEW outcomes,
         NEW success \in State \ {"PREPARE_SNAPSHOT"}, NEW failure \in State \ {"PREPARE_SNAPSHOT"},
         Fits(cmd, outcomes, success, failure), Perform(cmd, outcomes, success, failure)
  PROVE  Contract(cmd)
<1>1. PICK o \in outcomes :
        /\ dev' = o.dev
        /\ m_state' = IF o.ok THEN success ELSE failure
        /\ Reply(cmd.evt, Status(o.ok))
  BY DEF Perform
<1> DEFINE next == IF o.ok THEN success ELSE failure
<1>2. o.ok \in BOOLEAN /\ Fit(cmd, o.dev, next)
  BY <1>1 DEF Fits
<1>3. Status(o.ok) \in {"NO_ERROR", "INVALID_OPERATION", "ERROR"}
  BY DEF Status
<1>4. Answer(cmd.evt) /\ evt_queue' = evt_queue /\ m_evtResult' \in BOOLEAN
  BY <1>1, <1>3, ReplyAnswers
<1>5. next \in State \ {"PREPARE_SNAPSHOT"} /\ m_state' = next
  BY <1>1
<1> HIDE DEF next
<1> QED
  BY <1>1, <1>2, <1>4, <1>5, MoveContract

\* A handler whose operation has one outcome.
LEMMA FinishContract ==
  ASSUME NEW cmd, Ctx, ~Preparing, cmd.evt \in Signalled, NEW d,
         NEW next \in State \ {"PREPARE_SNAPSHOT"},
         Fit(cmd, d, next),
         Finish(cmd, d, next) \/ FinishStop(cmd, d, next)
  PROVE  Contract(cmd)
<1>1. /\ dev' = d /\ m_state' = next
      /\ \E status \in {"NO_ERROR", "ERROR"} : Reply(cmd.evt, status)
  BY DEF Finish, FinishStop
<1>2. Answer(cmd.evt) /\ evt_queue' = evt_queue /\ m_evtResult' \in BOOLEAN
  BY <1>1, ReplyAnswers
<1> QED
  BY <1>1, <1>2, MoveContract

\* A device without a new preview fits, if the state it is left in does not ask
\* for more than the one it was in.
LEMMA TameFit ==
  ASSUME NEW cmd, NEW e, Tame(dev, e), NEW s,
         Started(e, "VIDEO") <=> s \in Recording,
         s \in Off => m_state \in Off \/ Quiet(e),
         s = "PREVIEW_READY" => m_state = s \/ ~dev.mPreviewWindow,
         s \in Recording => m_state \in Recording
  PROVE  Fit(cmd, e, s)
<1>1. Same(dev, e) /\ e.mPreviewWindow = dev.mPreviewWindow
  BY DEF Tame, Modes
<1>2. (Settled(dev) => Settled(e)) /\ (Quiet(dev) => Quiet(e))
  BY TameSettles
<1>3. Passes(cmd, e, s)
  BY <1>1, <1>2 DEF Passes, Fine
<1> QED
  BY <1>1, <1>3 DEF Fit

\* One whose video channel is left alone fits the state it was in,
LEMMA HereFit ==
  ASSUME Ctx, NEW cmd, NEW e, Keeps(dev, e)
  PROVE  Fit(cmd, e, m_state)
<1>1. Tame(dev, e) /\ (Started(e, "VIDEO") <=> m_state \in Recording)
  BY DEF Keeps, Ctx, VideoIffRecording, isRecording, Recording
<1> QED
  BY <1>1, TameFit

\* and any state that records if that one does, and lets a preview stream.
LEMMA KeepsFit ==
  ASSUME Ctx, NEW cmd, NEW e, Keeps(dev, e), NEW s, s \notin Off,
         s \in Recording <=> m_state \in Recording
  PROVE  Fit(cmd, e, s)
<1>1. Tame(dev, e) /\ (Started(e, "VIDEO") <=> s \in Recording)
  BY DEF Keeps, Ctx, VideoIffRecording, isRecording, Recording
<1>2. s # "PREVIEW_READY"
  BY DEF Off
<1> QED
  BY <1>1, <1>2, TameFit

\* One without video and a preview fits each state that does not record.
LEMMA StoppedFit ==
  ASSUME NEW cmd, NEW e, Stops(dev, e), NEW s, s \notin Recording,
         s \notin Off \/ (s # "PREVIEW_READY" /\ Quiet(e))
  PROVE  Fit(cmd, e, s)
<1>1. Tame(dev, e) /\ ~Started(e, "VIDEO")
  BY DEF Stops
<1>2. s # "PREVIEW_READY"
  BY DEF Off
<1> QED
  BY <1>1, <1>2, TameFit

\* An operation of which something else is known fits by that.
LEMMA IdleFit ==
  ASSUME Ctx, m_state \notin Recording, NEW cmd, NEW e, DropsVideo(dev, e),
         NEW s, s \notin Recording, Suits(cmd) /\ Fine(dev, m_state) => Fine(e, s)
  PROVE  Fit(cmd, e, s)
  BY DEF Fit, Passes, DropsVideo, Ctx, VideoIffRecording, isRecording, Recording

\* An operation that leaves video alone may stay in the state.
LEMMA HereFits ==
  ASSUME Ctx, NEW cmd, NEW outcomes, AllKeep(dev, outcomes)
  PROVE  Fits(cmd, outcomes, m_state, m_state)
  BY HereFit DEF Fits, AllKeep

\* One that starts no video may leave a state that does not record for another,
\* if no preview streams before or one may afterwards.
LEMMA IdleFits ==
  ASSUME Ctx, m_state \notin Recording, NEW cmd, NEW outcomes, AllDrop(dev, outcomes),
         NEW success \in State \ Recording, NEW failure \in State \ Recording,
         m_state \in Off \/ (success \notin Off /\ failure \notin Off),
         success = "PREVIEW_READY" => m_state = success \/ ~dev.mPreviewWindow,
         failure = "PREVIEW_READY" => m_state = failure \/ ~dev.mPreviewWindow
  PROVE  Fits(cmd, outcomes, success, failure)
<1> SUFFICES ASSUME NEW o \in outcomes
             PROVE  o.ok \in BOOLEAN /\ Fit(cmd, o.dev, IF o.ok THEN success ELSE failure)
  BY DEF Fits
<1> DEFINE next == IF o.ok THEN success ELSE failure
<1>1. o.ok \in BOOLEAN /\ Tame(dev, o.dev) /\ ~Started(o.dev, "VIDEO")
  BY DEF AllDrop, Drops, Ctx, VideoIffRecording, isRecording, Recording
<1>2. /\ next \notin Recording /\ (next \in Off => m_state \in Off)
      /\ next = "PREVIEW_READY" => m_state = next \/ ~dev.mPreviewWindow
  OBVIOUS
<1> HIDE DEF next
<1>3. Fit(cmd, o.dev, next)
  BY <1>1, <1>2, TameFit
<1> QED
  BY <1>1, <1>3 DEF next

-----------------------------------------------------------------------------
(* The handlers that several states share. *)

\* Ctx, unfolded.
LEMMA CtxFacts ==
  ASSUME Ctx
  PROVE  /\ m_state \in State /\ dev \in Device /\ m_evtResult \in BOOLEAN
         /\ Started(dev, "VIDEO") <=> m_state \in Recording
         /\ Same(dev, dev) /\ Keeps(dev, dev)
  BY DEF Ctx, SMTypeOK, VideoIffRecording, isRecording, Recording, Same, Tame, Modes, Keeps

\* The handlers that several states share: auto_focus(),
LEMMA AutoFocusContract ==
  ASSUME NEW cmd, Ctx, ~Preparing, DoAutoFocus(cmd)
  PROVE  Contract(cmd)
<1>1. cmd.evt \in Signalled /\ Perform(cmd, AutoFocus(dev), m_state, m_state)
  BY DEF DoAutoFocus, Signalled, ApiEvent, NoArgOps
<1>2. m_state \in State \ {"PREPARE_SNAPSHOT"} /\ dev \in Device
  BY CtxFacts DEF Preparing
<1>3. Fits(cmd, AutoFocus(dev), m_state, m_state)
  BY <1>2, AutoFocusKeeps, HereFits
<1> QED
  BY <1>1, <1>2, <1>3, PerformContract

\* cancel_auto_focus(),
LEMMA CancelAutoFocusContract ==
  ASSUME NEW cmd, Ctx, ~Preparing, DoCancelAutoFocus(cmd)
  PROVE  Contract(cmd)
<1>0. cmd.evt \in Signalled /\ cmd.evt \notin Owed
  BY EventsNotOwed DEF DoCancelAutoFocus, Signalled, ApiEvent, NoArgOps
<1>1. PICK o \in CancelAutoFocus(dev) :
        /\ dev' = o.dev /\ m_state' = m_state
        /\ NoReply \/ Reply(cmd.evt, Status(o.ok))
  BY DEF DoCancelAutoFocus
<1>2. m_state \in State \ {"PREPARE_SNAPSHOT"} /\ Keeps(dev, o.dev)
  BY <1>1, CtxFacts, CancelAutoFocusKeeps DEF AllKeep, Preparing
<1>3. Fit(cmd, dev', m_state)
  BY <1>1, <1>2, HereFit
<1>4. Status(o.ok) \in {"NO_ERROR", "INVALID_OPERATION", "ERROR"}
  BY DEF Status
<1>5. CASE NoReply
  BY <1>0, <1>1, <1>2, <1>3, <1>5, CtxFacts, MoveContract DEF NoReply, Silent
<1>6. CASE Reply(cmd.evt, Status(o.ok))
  <2>1. Answer(cmd.evt) /\ evt_queue' = evt_queue /\ m_evtResult' \in BOOLEAN
    BY <1>0, <1>4, <1>6, ReplyAnswers
  <2> QED
    BY <1>1, <1>2, <1>3, <2>1, MoveContract
<1> QED
  BY <1>1, <1>5, <1>6

\* a report of the lens,
LEMMA FocusUpdateContract ==
  ASSUME NEW cmd \in Command, Ctx, DoFocusUpdate(cmd)
  PROVE  Contract(cmd)
<1>0. cmd.evt \notin Owed /\ "STOP_AUTO_FOCUS" \notin Owed /\ "STOP_AUTO_FOCUS" \in Signalled
  BY EventsNotOwed DEF DoFocusUpdate, Signalled, ApiEvent, NoArgOps
<1>1. cmd.arg \in FocusState
  BY DEF DoFocusUpdate, Command, ApiCommand, Event, StopCaptureCommand, Cmd, NoArgOps, PlainOps
<1>2. Keeps(dev, dev') /\ m_state' = m_state
  BY <1>1, CtxFacts DEF DoFocusUpdate, Keeps, Same, Tame, Modes, Device, Started
<1>3. m_state' \in State /\ Fit(cmd, dev', m_state') /\ (Preparing' <=> Preparing)
  BY <1>2, CtxFacts, HereFit DEF Preparing
<1>4. NoReply \/ Reply("STOP_AUTO_FOCUS", "NO_ERROR")
  BY DEF DoFocusUpdate
<1>5. CASE NoReply
  <2>1. Silent /\ evt_queue' = evt_queue /\ m_evtResult' \in BOOLEAN
    BY <1>5, CtxFacts DEF NoReply, Silent
  <2> QED
    BY <1>0, <1>3, <2>1 DEF Contract, Answers
<1>6. CASE Reply("STOP_AUTO_FOCUS", "NO_ERROR")
  <2>1. Answer("STOP_AUTO_FOCUS") /\ evt_queue' = evt_queue /\ m_evtResult' \in BOOLEAN
    BY <1>0, <1>6, ReplyAnswers
  <2>2. Answers(cmd)
    BY <1>0, <1>3, <2>1 DEF Answers
  <2>3. \E r \in Result : m_apiResultList' = Append(m_apiResultList, r)
    BY <2>1 DEF Answer
  <2> QED
    BY <1>3, <2>1, <2>2, <2>3 DEF Contract
<1> QED
  BY <1>4, <1>5, <1>6

\* the report of an encoded picture,
LEMMA JpegNotifyContract ==
  ASSUME NEW cmd, Ctx, ~Preparing, DoJpegNotify(cmd)
  PROVE  Contract(cmd)
<1>0. cmd.evt \notin Owed
  BY EventsNotOwed DEF DoJpegNotify
<1>1. Keeps(dev, dev') /\ m_state' = m_state
  BY CtxFacts DEF DoJpegNotify, Keeps, Same, Tame, Modes, Device, Shot, Started
<1>2. m_state \in State \ {"PREPARE_SNAPSHOT"} /\ Fit(cmd, dev', m_state)
  BY <1>1, CtxFacts, HereFit DEF Preparing
<1>3. Silent /\ evt_queue' = evt_queue /\ m_evtResult' \in BOOLEAN
  BY CtxFacts DEF DoJpegNotify, NoReply, Silent
<1> QED
  BY <1>0, <1>1, <1>2, <1>3, MoveContract

\* prepare_snapshot(), whose answer is put off unless it fails,
LEMMA PrepareContract ==
  ASSUME NEW cmd, Ctx, ~Preparing, m_state \notin Recording,
         NEW next \in State \ (Recording \cup Off),
         next = "PREPARE_SNAPSHOT" \/ dev.bRetroPicture,
         DoPrepareSnapshot(cmd, next)
  PROVE  Contract(cmd)
<1>0. cmd.evt = "PREPARE_SNAPSHOT" /\ cmd.evt \in Signalled
  BY DEF DoPrepareSnapshot, Signalled, ApiEvent, NoArgOps
<1>1. PICK o \in PrepareHardwareForSnapshot(dev) :
        /\ dev' = o.dev
        /\ m_state' = IF o.ok THEN next ELSE m_state
        /\ IF o.ok THEN NoReply ELSE Reply(cmd.evt, "ERROR")
  BY DEF DoPrepareSnapshot
<1>2. o.ok \in BOOLEAN /\ Keeps(dev, o.dev)
  BY <1>1, CtxFacts, PrepareHardwareKeeps DEF AllKeep
<1>3. Fit(cmd, dev', next) /\ Fit(cmd, dev', m_state)
  BY <1>1, <1>2, HereFit, KeepsFit DEF Off
<1>4. CASE o.ok
  <2>1. m_state' = next /\ Silent /\ evt_queue' = evt_queue /\ m_evtResult' \in BOOLEAN
    BY <1>1, <1>4, CtxFacts DEF NoReply, Silent
  <2>2. dev.bRetroPicture \/ Answers(cmd)
    BY <1>0, <2>1 DEF Answers, Preparing
  <2> QED
    BY <1>3, <2>1, <2>2 DEF Contract
<1>5. CASE ~o.ok
  <2>1. Answer(cmd.evt) /\ evt_queue' = evt_queue /\ m_evtResult' \in BOOLEAN
    BY <1>0, <1>1, <1>5, ReplyAnswers
  <2>2. m_state' = m_state /\ m_state \in State \ {"PREPARE_SNAPSHOT"}
    BY <1>1, <1>5, CtxFacts DEF Preparing
  <2> QED
    BY <1>3, <2>1, <2>2, MoveContract
<1> QED
  BY <1>2, <1>4, <1>5

\* send_command(),
LEMMA SendCommandContract ==
  ASSUME NEW cmd, Ctx, ~Preparing,
         NEW next \in State \ {"PREPARE_SNAPSHOT"}, next \in Recording <=> m_state \in Recording,
         next = m_state \/ next \notin Off,
         DoSendCommand(cmd, next)
  PROVE  Contract(cmd)
<1>0. cmd.evt \in Signalled
  BY DEF DoSendCommand, Signalled, ApiEvent
<1>1. m_state \in State \ {"PREPARE_SNAPSHOT"}
  BY CtxFacts DEF Preparing
<1>2. \A b \in BOOLEAN : Keeps(dev, [dev EXCEPT !.mLongshotEnabled = b])
  BY CtxFacts DEF Keeps, Same, Tame, Modes, Device, Started
<1>3. CASE LongshotOn(cmd)
  <2>1. dev' \in {dev, [dev EXCEPT !.mLongshotEnabled = TRUE]} /\ m_state' = m_state
        /\ \E status \in {"NO_ERROR", "ERROR"} : Reply(cmd.evt, status)
    BY <1>3 DEF LongshotOn
  <2>2. Answer(cmd.evt) /\ evt_queue' = evt_queue /\ m_evtResult' \in BOOLEAN
    BY <1>0, <2>1, ReplyAnswers
  <2>3. Keeps(dev, dev')
    BY <1>2, <2>1, CtxFacts
  <2>4. Fit(cmd, dev', m_state)
    BY <2>3, HereFit
  <2> QED
    BY <1>1, <2>1, <2>2, <2>4, MoveContract
<1>4. CASE LongshotOff(cmd, next)
  <2>1. m_state' = next /\ Answer(cmd.evt) /\ m_evtResult' \in BOOLEAN
    BY <1>0, <1>4, SignalAnswers, CtxFacts DEF LongshotOff
  <2>2. evt_queue' \in {evt_queue, Append(evt_queue, Cmd("SNAPSHOT_DONE"))}
    BY <1>4 DEF LongshotOff
  <2>3. \/ dev' = [CancelPicture(dev) EXCEPT !.mLongshotEnabled = FALSE]
        \/ dev' = [dev EXCEPT !.mLongshotEnabled = FALSE]
    BY <1>4 DEF LongshotOff
  <2>4. Keeps(dev, CancelPicture(dev)) /\ CancelPicture(dev) \in Device
    BY CtxFacts, CancelPictureKeeps DEF Keeps, Same, Tame, Modes
  <2>5. Keeps(CancelPicture(dev), [CancelPicture(dev) EXCEPT !.mLongshotEnabled = FALSE])
    BY <2>4 DEF Keeps, Same, Tame, Modes, Device, Started
  <2>6. Keeps(dev, dev')
    BY <1>2, <2>3, <2>4, <2>5 DEF Keeps, Same, Tame, Modes
  <2>7. Fit(cmd, dev', next)
    BY <2>6, HereFit, KeepsFit DEF Off
  <2> QED
    BY <2>1, <2>2, <2>7, MoveContract
<1>5. CASE Acknowledge(cmd)
  BY <1>0, <1>5, RepliesContract
<1> QED
  BY <1>3, <1>4, <1>5 DEF DoSendCommand

\* A SET_PARAMS command carries one of the changes.
LEMMA ParamsArgument ==
  ASSUME NEW cmd \in Command, cmd.evt = "SET_PARAMS"
  PROVE  cmd.arg \in ParamChange /\ cmd.evt \in Signalled
  BY DEF Command, ApiCommand, Event, StopCaptureCommand, Cmd, NoArgOps, PlainOps, Signalled, ApiEvent

\* get_parameters() and put_parameters(),
LEMMA ParamsContract ==
  ASSUME NEW cmd \in Command, Ctx, ~Preparing, cmd.evt = "SET_PARAMS",
         \/ ParamsRejected(cmd)
         \/ /\ m_state \in {"PREVIEW_STOPPED", "PIC_TAKING"} \/ ~NeedRestart(dev, cmd.arg)
            /\ ParamsCommitted(cmd)
  PROVE  Contract(cmd)
<1>0. cmd.arg \in ParamChange /\ cmd.evt \in Signalled
  BY ParamsArgument
<1>1. m_state \in State \ {"PREPARE_SNAPSHOT"} /\ dev \in Device
      /\ (Started(dev, "VIDEO") <=> m_state \in Recording)
  BY CtxFacts DEF Preparing
<1> DEFINE changes == cmd.arg \in ZslChange /\ NeedRestart(dev, cmd.arg)
<1>2. PICK u \in UpdateParameters(dev, cmd.arg) :
        \/ ~u.ok /\ dev' = u.dev /\ m_state' = m_state /\ Reply(cmd.evt, "ERROR")
        \/ /\ Perform(cmd, Commit(u.dev), m_state, m_state)
           /\ changes => m_state \in {"PREVIEW_STOPPED", "PIC_TAKING"}
  BY DEF ParamsRejected, ParamsCommitted
<1>3. /\ KeepsVideo(dev, u.dev) /\ SameStreams(dev, u.dev) /\ u.dev \in Device
      /\ ~changes => Keeps(dev, u.dev)
      /\ changes /\ Suits(cmd) => ~Faults
      /\ ~Faults => u.ok
  BY <1>0, <1>1, UpdateParametersKeeps DEF KeepsVideo, Same, Suits
<1> HIDE DEF changes
<1>4. CASE ~u.ok /\ dev' = u.dev /\ m_state' = m_state /\ Reply(cmd.evt, "ERROR")
  <2>1. Answer(cmd.evt) /\ evt_queue' = evt_queue /\ m_evtResult' \in BOOLEAN
    BY <1>0, <1>4, ReplyAnswers
  <2>2. Fit(cmd, u.dev, m_state)
    <3>1. CASE changes
      BY <1>1, <1>3, <1>4, <3>1 DEF Fit, Passes, KeepsVideo
    <3>2. CASE ~changes
      BY <1>3, <3>2, HereFit
    <3> QED
      BY <3>1, <3>2
  <2> QED
    BY <1>1, <1>4, <2>1, <2>2, MoveContract
<1>5. CASE /\ Perform(cmd, Commit(u.dev), m_state, m_state)
           /\ changes => m_state \in {"PREVIEW_STOPPED", "PIC_TAKING"}
  <2>1. ASSUME NEW c \in Commit(u.dev)
        PROVE  c.ok \in BOOLEAN /\ Fit(cmd, c.dev, m_state)
    <3>1. c.ok \in BOOLEAN /\ KeepsVideo(u.dev, c.dev)
      BY <1>3, <2>1, CommitKeeps DEF AllKeepVideo
    <3>2. Same(dev, c.dev) /\ (Started(c.dev, "VIDEO") <=> m_state \in Recording)
      BY <1>1, <1>3, <3>1 DEF KeepsVideo, Same
    <3>3. ASSUME Suits(cmd), Fine(dev, m_state)
          PROVE  Fine(c.dev, m_state)
      <4>1. Agreed(u.dev) \/ ~Faults
        BY <1>3, <3>3, TameSettles DEF Keeps, Fine, Settled
      <4>2. Agreed(c.dev) /\ SameStreams(u.dev, c.dev)
            /\ (Agreed(u.dev) => c.dev.m_bZslMode = u.dev.m_bZslMode)
        BY <1>3, <2>1, <4>1, CommitAgrees
      <4>3. SameStreams(dev, c.dev)
        BY <1>3, <4>2 DEF SameStreams
      <4>4. Quiet(dev) => Quiet(c.dev)
        BY <4>2, <4>3, SameStreamsSettle
      <4>5. Settled(c.dev)
        <5>1. CASE changes
          <6>1. Quiet(dev)
            BY <1>5, <3>3, <5>1 DEF Fine, Off
          <6> QED
            BY <4>2, <4>3, <6>1, SameStreamsSettle
        <5>2. CASE ~changes
          <6>1. Settled(u.dev) /\ Agreed(u.dev)
            BY <1>3, <3>3, <5>2, TameSettles DEF Keeps, Fine, Settled
          <6> QED
            BY <4>2, <6>1, SameStreamsSettle
        <5> QED
          BY <5>1, <5>2
      <4> QED
        BY <3>3, <4>3, <4>4, <4>5 DEF Fine, SameStreams
    <3> QED
      BY <3>1, <3>2, <3>3 DEF Fit, Passes
  <2>2. Fits(cmd, Commit(u.dev), m_state, m_state)
    BY <2>1 DEF Fits
  <2> QED
    BY <1>0, <1>1, <1>5, <2>2, PerformContract
<1> QED
  BY <1>2, <1>4, <1>5

\* set_parameters() outside of recording,
LEMMA SetParamsContract ==
  ASSUME NEW cmd \in Command, Ctx, ~Preparing, NEW restarted,
         NEW failed \in State \ {"PREPARE_SNAPSHOT"},
         Fits(cmd, restarted, m_state, failed), SetParams(cmd, restarted, failed)
  PROVE  Contract(cmd)
<1>1. cmd.evt = "SET_PARAMS" /\ cmd.evt \in Signalled
  BY ParamsArgument DEF SetParams
<1>2. m_state \in State \ {"PREPARE_SNAPSHOT"}
  BY CtxFacts DEF Preparing
<1>3. \/ ParamsRejected(cmd)
      \/ ~NeedRestart(dev, cmd.arg) /\ ParamsCommitted(cmd)
      \/ Perform(cmd, restarted, m_state, failed)
  BY DEF SetParams
<1> QED
  BY <1>1, <1>2, <1>3, ParamsContract, PerformContract

\* and in it, where a restart is not tried,
LEMMA SetParamsRecordingContract ==
  ASSUME NEW cmd \in Command, Ctx, m_state \in Recording, SetParamsRecording(cmd)
  PROVE  Contract(cmd)
<1>1. cmd.evt = "SET_PARAMS" /\ cmd.evt \in Signalled /\ cmd.arg \in ParamChange
  BY ParamsArgument DEF SetParamsRecording
<1>2. m_state \in State \ {"PREPARE_SNAPSHOT"} /\ ~Preparing
  BY CtxFacts DEF Preparing, Recording
<1>3. CASE ParamsRejected(cmd) \/ (~NeedRestart(dev, cmd.arg) /\ ParamsCommitted(cmd))
  BY <1>1, <1>2, <1>3, ParamsContract
<1>4. CASE dev' = Staged(dev, cmd.arg) /\ m_state' = m_state /\ Reply(cmd.evt, "ERROR")
  <2>1. Answer(cmd.evt) /\ evt_queue' = evt_queue /\ m_evtResult' \in BOOLEAN
    BY <1>1, <1>4, ReplyAnswers
  <2>2. KeepsVideo(dev, dev') /\ (cmd.arg \notin ZslChange => Keeps(dev, dev'))
    BY <1>1, <1>4, CtxFacts, StagedKeeps
  <2>3. Fit(cmd, dev', m_state)
    <3>1. CASE cmd.arg \notin ZslChange
      BY <2>2, <3>1, HereFit
    <3>2. CASE cmd.arg \in ZslChange
      <4>1. Passes(cmd, dev', m_state)
        BY <1>1, <3>2 DEF Passes, Suits, Fine
      <4> QED
        BY <2>2, <4>1, CtxFacts DEF Fit, KeepsVideo
    <3> QED
      BY <3>1, <3>2
  <2> QED
    BY <1>2, <1>4, <2>1, <2>3, MoveContract
<1> QED
  BY <1>3, <1>4 DEF SetParamsRecording

\* A restart of the preview, for any device the update may have left.
LEMMA RestartFits ==
  ASSUME NEW cmd \in Command, Ctx, cmd.evt = "SET_PARAMS", m_state \notin Recording,
         NEW failed \in {"PREVIEW_STOPPED", "PIC_TAKING"}
  PROVE  /\ m_state \notin Off =>
              Fits(cmd, UNION {RestartPreview(d) : d \in UpdatedDevices(cmd)}, m_state, failed)
         /\ m_state = "PREVIEW_READY" =>
              Fits(cmd, UNION {Reprepare(d) : d \in UpdatedDevices(cmd)}, m_state, failed)
<1>0. cmd.arg \in ParamChange /\ dev \in Device /\ failed \notin Recording /\ failed # "PREVIEW_READY"
  BY ParamsArgument, CtxFacts DEF Recording
<1>1. ASSUME NEW d \in UpdatedDevices(cmd)
      PROVE  /\ KeepsVideo(dev, d) /\ SameStreams(dev, d) /\ d \in Device
             /\ Suits(cmd) /\ Fine(dev, m_state) => Agreed(d) \/ ~Faults
  <2>1. PICK u \in UpdateParameters(dev, cmd.arg) : d = u.dev
    BY <1>1 DEF UpdatedDevices
  <2>2. KeepsVideo(dev, d) /\ SameStreams(dev, d) /\ (cmd.arg \notin ZslChange => Keeps(dev, d))
    BY <1>0, <2>1, UpdateParametersKeeps
  <2>3. CASE cmd.arg \notin ZslChange
    BY <2>2, <2>3, TameSettles DEF Keeps, Fine, Settled, KeepsVideo, Same
  <2>4. CASE cmd.arg \in ZslChange
    BY <2>2, <2>4 DEF Suits, KeepsVideo, Same
  <2> QED
    BY <2>3, <2>4
<1>2. ASSUME m_state \notin Off, NEW d \in UpdatedDevices(cmd), NEW o \in RestartPreview(d)
      PROVE  o.ok \in BOOLEAN /\ Fit(cmd, o.dev, IF o.ok THEN m_state ELSE failed)
  <2> DEFINE next == IF o.ok THEN m_state ELSE failed
  <2>1. d \in Device /\ AllDropVideo(dev, RestartPreview(d))
    BY <1>1, RestartsDrop, AllChain DEF KeepsVideo, DropsVideo
  <2>2. o.ok \in BOOLEAN /\ DropsVideo(dev, o.dev) /\ next \notin Recording
        /\ next # "PREVIEW_READY" /\ (next \in Off => ~o.ok)
    BY <1>0, <1>2, <2>1 DEF AllDropVideo, Off
  <2>3. Suits(cmd) /\ Fine(dev, m_state) => Settled(o.dev) /\ (~o.ok => Quiet(o.dev))
    BY <1>1, <1>2, <2>1, RestartSettles
  <2> HIDE DEF next
  <2>4. Suits(cmd) /\ Fine(dev, m_state) => Fine(o.dev, next)
    BY <2>2, <2>3 DEF Fine
  <2>5. Fit(cmd, o.dev, next)
    BY <2>2, <2>4, IdleFit
  <2> QED
    BY <2>2, <2>5 DEF next
<1>3. ASSUME m_state = "PREVIEW_READY", NEW d \in UpdatedDevices(cmd), NEW o \in Reprepare(d)
      PROVE  o.ok \in BOOLEAN /\ Fit(cmd, o.dev, IF o.ok THEN m_state ELSE failed)
  <2> DEFINE next == IF o.ok THEN m_state ELSE failed
  <2>1. d \in Device /\ AllDropVideo(dev, Reprepare(d)) /\ SameStreams(dev, d)
    BY <1>1, RestartsDrop, AllChain DEF KeepsVideo, DropsVideo
  <2>2. o.ok \in BOOLEAN /\ DropsVideo(dev, o.dev) /\ next \notin Recording
    BY <1>0, <1>3, <2>1 DEF AllDropVideo
  <2>3. Suits(cmd) /\ Fine(dev, m_state) =>
            Settled(o.dev) /\ Quiet(o.dev) /\ o.dev.mPreviewWindow = dev.mPreviewWindow
    BY <1>1, <1>3, <2>1, ReprepareSettles DEF SameStreams
  <2> HIDE DEF next
  <2>4. Suits(cmd) /\ Fine(dev, m_state) => Fine(o.dev, next)
    BY <1>3, <2>2, <2>3 DEF Fine
  <2>5. Fit(cmd, o.dev, next)
    BY <2>2, <2>4, IdleFit
  <2> QED
    BY <2>2, <2>5 DEF next
<1> QED
  BY <1>2, <1>3 DEF Fits

\* start_recording() records only where the mode is fixed, and leaves the preview to itself.
LEMMA StartRecordingFits ==
  ASSUME NEW cmd, Ctx, cmd.evt = "START_RECORDING", m_state \notin Recording \cup Off,
         NEW success \in Recording
  PROVE  Fits(cmd, StartRecording(dev), success, m_state)
<1> SUFFICES ASSUME NEW o \in StartRecording(dev)
             PROVE  o.ok \in BOOLEAN /\ Fit(cmd, o.dev, IF o.ok THEN success ELSE m_state)
  BY DEF Fits
<1> DEFINE next == IF o.ok THEN success ELSE m_state
<1>1. /\ o.ok \in BOOLEAN /\ Same(dev, o.dev) /\ next \notin Off
      /\ Started(o.dev, "VIDEO") <=> next \in Recording
  BY CtxFacts, StartRecordingVideo DEF DropsVideo, Recording, Off
<1>2. Fine(dev, m_state) => Settled(o.dev)
  BY CtxFacts, StartRecordingSettles DEF Fine
<1> HIDE DEF next
<1>3. Suits(cmd) /\ Fine(dev, m_state) => Fine(o.dev, next)
  BY <1>1, <1>2 DEF Suits, Fine, Off
<1>4. Fit(cmd, o.dev, next)
  BY <1>1, <1>3 DEF Fit, Passes
<1> QED
  BY <1>1, <1>4 DEF next

\* and the commands of a longshot.
LEMMA LongShotContract ==
  ASSUME NEW cmd, Ctx, ~Preparing, LongShotOrRefuse(cmd)
  PROVE  Contract(cmd)
<1>1. cmd.evt \in Signalled /\ (Refuse(cmd) \/ Perform(cmd, LongShot(dev), m_state, m_state))
  BY DEF LongShotOrRefuse, Signalled, ApiEvent, NoArgOps
<1>2. m_state \in State \ {"PREPARE_SNAPSHOT"} /\ Fits(cmd, LongShot(dev), m_state, m_state)
  BY CtxFacts, LongShotKeeps, HereFits DEF Preparing
<1> QED
  BY <1>1, <1>2, RepliesContract, PerformContract

-----------------------------------------------------------------------------
(* The handler of each state. *)

\* The names the handlers use are commands' names.
LEMMA Names ==
  /\ ApiEvent \subseteq Signalled
  /\ PlainOps \subseteq Signalled
  /\ {"SET_PREVIEW_WINDOW", "SET_PARAMS", "SEND_COMMAND", "REG_FACE_IMAGE", "START_PREVIEW",
      "START_NODISPLAY_PREVIEW", "STOP_PREVIEW", "PREVIEW_ENABLED", "START_RECORDING",
      "STOP_RECORDING", "RECORDING_ENABLED", "RELEASE_RECORDING_FRAME", "PREPARE_SNAPSHOT",
      "TAKE_PICTURE", "CANCEL_PICTURE", "START_AUTO_FOCUS", "STOP_AUTO_FOCUS", "RELEASE",
      "STOP_CAPTURE_CHANNEL"} \subseteq Signalled
  BY DEF Signalled, ApiEvent, NoArgOps

\* procEvtPreviewStoppedState() keeps the contract, case by case, and so does
\* each of the functions for the other states.
LEMMA PreviewStoppedContract ==
  ASSUME NEW cmd \in Command, Ctx, m_state = "PREVIEW_STOPPED", procEvtPreviewStoppedState(cmd)
  PROVE  Contract(cmd)
<1>0. /\ ~Preparing /\ m_state \notin Recording /\ m_state \in Off /\ m_state \in State \ Recording
      /\ m_state \in State \ {"PREPARE_SNAPSHOT"} /\ ~Started(dev, "VIDEO") /\ dev \in Device
      /\ {"PREVIEWING", "PREVIEW_READY"} \subseteq State \ Recording
      /\ {"PREVIEWING", "PREVIEW_READY"} \subseteq State \ {"PREPARE_SNAPSHOT"}
  BY CtxFacts DEF Preparing, Recording, State, Off
<1>1. CASE PreviewStoppedPreview(cmd)
  <2>1. CASE /\ cmd.evt = "SET_PREVIEW_WINDOW"
             /\ Finish(cmd, [dev EXCEPT !.mPreviewWindow = (cmd.arg = "window")], m_state)
    <3> DEFINE d == [dev EXCEPT !.mPreviewWindow = (cmd.arg = "window")]
    <3>1. /\ DropsVideo(dev, d) /\ (Settled(dev) => Settled(d)) /\ (Quiet(dev) => Quiet(d))
      BY <1>0 DEF DropsVideo, Same, Device, Started, Settled, Agreed, Quiet
    <3> HIDE DEF d
    <3>2. Fine(dev, m_state) => Fine(d, m_state)
      BY <1>0, <3>1 DEF Fine
    <3>3. Fit(cmd, d, m_state)
      BY <1>0, <3>1, <3>2, IdleFit
    <3> QED
      BY <1>0, <2>1, <3>3, Names, FinishContract DEF d
  <2>2. CASE cmd.evt = "SET_PARAMS" /\ (ParamsRejected(cmd) \/ ParamsCommitted(cmd))
    BY <1>0, <2>2, ParamsContract
  <2>3. CASE /\ cmd.evt \in {"START_PREVIEW", "START_NODISPLAY_PREVIEW"}
             /\ Perform(cmd, PrepareAndStartPreview(dev), "PREVIEWING", m_state)
    <3>1. ASSUME NEW o \in PrepareAndStartPreview(dev)
          PROVE  o.ok \in BOOLEAN /\ Fit(cmd, o.dev, IF o.ok THEN "PREVIEWING" ELSE m_state)
      <4> DEFINE next == IF o.ok THEN "PREVIEWING" ELSE m_state
      <4>1. o.ok \in BOOLEAN /\ DropsVideo(dev, o.dev)
        BY <1>0, <3>1, PrepareAndStartPreviewDrops DEF AllDropVideo
      <4>2. next \notin Recording /\ next # "PREVIEW_READY" /\ (next \in Off => ~o.ok)
        BY <1>0 DEF Off
      <4>3. Fine(dev, m_state) => Settled(o.dev) /\ (~o.ok => Quiet(o.dev))
        BY <1>0, <3>1, PrepareAndStartSettles DEF Fine
      <4> HIDE DEF next
      <4>4. Fine(dev, m_state) => Fine(o.dev, next)
        BY <4>2, <4>3 DEF Fine
      <4>5. Fit(cmd, o.dev, next)
        BY <1>0, <4>1, <4>2, <4>4, IdleFit
      <4> QED
        BY <4>1, <4>5 DEF next
    <3>2. Fits(cmd, PrepareAndStartPreview(dev), "PREVIEWING", m_state)
      BY <3>1 DEF Fits
    <3> QED
      BY <1>0, <2>3, <3>2, Names, PerformContract
  <2>4. CASE /\ cmd.evt = "START_PREVIEW"
             /\ ~dev.mPreviewWindow
             /\ Perform(cmd, PreparePreview(dev), "PREVIEW_READY", m_state)
    <3>1. Fits(cmd, PreparePreview(dev), "PREVIEW_READY", m_state)
      BY <1>0, <2>4, PreparePreviewDrops, IdleFits
    <3> QED
      BY <1>0, <2>4, <3>1, Names, PerformContract
  <2>5. CASE AcknowledgeOneOf(cmd, {"STOP_PREVIEW"})
    BY <2>5, Names, OneOfContract
  <2> QED
    BY <1>1, <2>1, <2>2, <2>3, <2>4, <2>5 DEF PreviewStoppedPreview
<1>2. CASE PreviewStoppedOther(cmd)
  <2>1. CASE AcknowledgeOneOf(cmd, PlainOps \cup {"REG_FACE_IMAGE", "START_AUTO_FOCUS",
                                                  "CANCEL_PICTURE"})
    BY <2>1, Names, OneOfContract
  <2>2. CASE DoEnabled(cmd, FALSE, FALSE)
    BY <2>2, EnabledContract
  <2>3. CASE cmd.evt = "RELEASE" /\ FinishStop(cmd, Release(dev), m_state)
    <3>1. Stops(dev, Release(dev)) /\ ~Started(dev, "VIDEO")
      BY <1>0, ReleaseStops
    <3>2. Fit(cmd, Release(dev), m_state)
      BY <1>0, <3>1, HereFit DEF Stops, Keeps
    <3> QED
      BY <1>0, <2>3, <3>2, Names, FinishContract
  <2>4. CASE DoSendCommand(cmd, m_state)
    BY <1>0, <2>4, SendCommandContract
  <2>5. CASE RefuseOneOf(cmd, {"START_RECORDING", "STOP_RECORDING", "RELEASE_RECORDING_FRAME",
                               "PREPARE_SNAPSHOT", "TAKE_PICTURE"})
    BY <2>5, Names, OneOfContract
  <2>6. CASE DoCancelAutoFocus(cmd)
    BY <1>0, <2>6, CancelAutoFocusContract
  <2> QED
    BY <1>2, <2>1, <2>2, <2>3, <2>4, <2>5, <2>6 DEF PreviewStoppedOther
<1>3. CASE PreviewStoppedEvent(cmd)
  BY <1>3, IgnoredEventsContract DEF PreviewStoppedEvent, IgnoreOneOf
<1> QED
  BY <1>1, <1>2, <1>3 DEF procEvtPreviewStoppedState

\* procEvtPreviewReadyState().
LEMMA PreviewReadyContract ==
  ASSUME NEW cmd \in Command, Ctx, m_state = "PREVIEW_READY", procEvtPreviewReadyState(cmd)
  PROVE  Contract(cmd)
<1>0. /\ ~Preparing /\ m_state \notin Recording /\ m_state \in State \ Recording
      /\ m_state \in State \ {"PREPARE_SNAPSHOT"} /\ ~Started(dev, "VIDEO") /\ dev \in Device
      /\ "PREVIEWING" \notin Off /\ m_state \in Off
      /\ {"PREVIEWING", "PREVIEW_STOPPED"} \subseteq State \ Recording
      /\ {"PREVIEWING", "PREVIEW_STOPPED"} \subseteq State \ {"PREPARE_SNAPSHOT"}
  BY CtxFacts DEF Preparing, Recording, State, Off
<1>1. CASE PreviewReadyPreview(cmd)
  <2>1. CASE cmd.evt = "SET_PREVIEW_WINDOW" /\ cmd.arg = "window"
    <3> DEFINE d == [dev EXCEPT !.mPreviewWindow = TRUE]
               outcomes == OrElse(StartPreview(d), UnpreparePreview)
    <3>1. KeepsVideo(dev, d) /\ d \in Device /\ (Settled(dev) => Settled(d))
      BY <1>0 DEF KeepsVideo, Same, Device, Started, Settled, Agreed
    <3>2. Perform(cmd, outcomes, "PREVIEWING", "PREVIEW_STOPPED")
      BY <1>1, <2>1 DEF PreviewReadyPreview, SetParams
    <3> HIDE DEF d
    <3>3. ASSUME NEW o \in outcomes
          PROVE  o.ok \in BOOLEAN
                 /\ Fit(cmd, o.dev, IF o.ok THEN "PREVIEWING" ELSE "PREVIEW_STOPPED")
      <4>1. PICK a \in StartPreview(d) : (a.ok /\ o = a) \/ o = Fail(UnpreparePreview(a.dev))
        BY <3>3 DEF OrElse
      <4>2. a.ok \in BOOLEAN /\ KeepsVideo(d, a.dev) /\ a.dev \in Device
            /\ (Settled(d) => Settled(a.dev))
        BY <3>1, <4>1, StartPreviewKeeps, StartPreviewSettles DEF AllKeepVideo
      <4>3. Stops(a.dev, UnpreparePreview(a.dev)) /\ Quiet(UnpreparePreview(a.dev))
        BY <4>2, UnpreparePreviewStops
      <4>4. CASE a.ok /\ o = a
        <5>1. DropsVideo(dev, a.dev)
          BY <3>1, <4>2 DEF KeepsVideo, DropsVideo, Same
        <5>2. Fine(dev, m_state) => Fine(a.dev, "PREVIEWING")
          BY <1>0, <3>1, <4>2 DEF Fine
        <5>3. Fit(cmd, a.dev, "PREVIEWING")
          BY <1>0, <5>1, <5>2, IdleFit
        <5> QED
          BY <4>2, <4>4, <5>3
      <4>5. CASE o = Fail(UnpreparePreview(a.dev))
        <5> DEFINE e == UnpreparePreview(a.dev)
        <5>1. o.ok = FALSE /\ o.dev = e
          BY ONLY <4>5, DoneOrFail
        <5>2. DropsVideo(dev, e)
          BY <3>1, <4>2, <4>3 DEF KeepsVideo, DropsVideo, Stops, Tame, Same
        <5>3. Settled(a.dev) => Settled(e)
          BY <4>3, TameSettles DEF Stops
        <5>4. Quiet(e)
          BY <4>3
        <5> HIDE DEF e
        <5>5. Fine(dev, m_state) => Fine(e, "PREVIEW_STOPPED")
          BY <1>0, <3>1, <4>2, <5>3, <5>4 DEF Fine
        <5>6. Fit(cmd, e, "PREVIEW_STOPPED")
          BY <1>0, <5>2, <5>5, IdleFit
        <5> QED
          BY <5>1, <5>6
      <4> QED
        BY <4>1, <4>4, <4>5
    <3>5. Fits(cmd, outcomes, "PREVIEWING", "PREVIEW_STOPPED")
      BY <3>3 DEF Fits
    <3> HIDE DEF outcomes
    <3> QED
      BY <1>0, <2>1, <3>2, <3>5, Names, PerformContract
  <2>2. CASE cmd.evt = "SET_PREVIEW_WINDOW" /\ cmd.arg # "window"
    <3> DEFINE d == [dev EXCEPT !.mPreviewWindow = FALSE]
    <3>1. /\ DropsVideo(dev, d) /\ (Settled(dev) => Settled(d)) /\ (Quiet(dev) => Quiet(d))
          /\ ~d.mPreviewWindow
      BY <1>0 DEF DropsVideo, Same, Device, Started, Settled, Agreed, Quiet
    <3>2. Finish(cmd, d, m_state)
      BY <1>1, <2>2 DEF PreviewReadyPreview, SetParams
    <3> HIDE DEF d
    <3>3. Fine(dev, m_state) => Fine(d, m_state)
      BY <1>0, <3>1 DEF Fine
    <3>4. Fit(cmd, d, m_state)
      BY <1>0, <3>1, <3>3, IdleFit
    <3> QED
      BY <1>0, <2>2, <3>4, <3>2, Names, FinishContract
  <2>3. CASE SetParams(cmd, UNION {Reprepare(d) : d \in UpdatedDevices(cmd)}, "PREVIEW_STOPPED")
    <3>1. cmd.evt = "SET_PARAMS"
      BY <2>3 DEF SetParams
    <3> QED
      BY <1>0, <2>3, <3>1, RestartFits, SetParamsContract
  <2>4. CASE cmd.evt = "STOP_PREVIEW" /\ Finish(cmd, UnpreparePreview(dev), "PREVIEW_STOPPED")
    BY <1>0, <2>4, Names, UnpreparePreviewStops, StoppedFit, FinishContract
  <2> QED
    BY <1>1, <2>1, <2>2, <2>3, <2>4 DEF PreviewReadyPreview
<1>2. CASE PreviewReadyOther(cmd)
  <2>1. CASE AcknowledgeOneOf(cmd, PlainOps \cup {"REG_FACE_IMAGE", "START_PREVIEW"})
    BY <2>1, Names, OneOfContract
  <2>2. CASE DoEnabled(cmd, TRUE, FALSE)
    BY <2>2, EnabledContract
  <2>3. CASE DoAutoFocus(cmd) \/ DoCancelAutoFocus(cmd)
    BY <1>0, <2>3, AutoFocusContract, CancelAutoFocusContract
  <2>4. CASE DoSendCommand(cmd, m_state)
    BY <1>0, <2>4, SendCommandContract
  <2>5. CASE RefuseOneOf(cmd, {"START_NODISPLAY_PREVIEW", "START_RECORDING", "STOP_RECORDING",
                               "PREPARE_SNAPSHOT", "TAKE_PICTURE", "CANCEL_PICTURE",
                               "RELEASE_RECORDING_FRAME", "RELEASE"})
    BY <2>5, Names, OneOfContract
  <2> QED
    BY <1>2, <2>1, <2>2, <2>3, <2>4, <2>5 DEF PreviewReadyOther
<1>3. CASE PreviewReadyEvent(cmd)
  BY <1>3, IgnoredEventsContract DEF PreviewReadyEvent, IgnoreOneOf
<1> QED
  BY <1>1, <1>2, <1>3 DEF procEvtPreviewReadyState

\* procEvtPreviewingState().
LEMMA PreviewingContract ==
  ASSUME NEW cmd \in Command, Ctx, m_state = "PREVIEWING", procEvtPreviewingState(cmd)
  PROVE  Contract(cmd)
<1>0. /\ ~Preparing /\ m_state \notin Recording /\ m_state \in State \ Recording
      /\ m_state \in State \ {"PREPARE_SNAPSHOT"} /\ ~Started(dev, "VIDEO") /\ dev \in Device
      /\ {"PREVIEWING", "PREVIEW_STOPPED", "PIC_TAKING", "PREVIEW_PIC_TAKING",
          "PREPARE_SNAPSHOT"} \subseteq State \ Recording
      /\ {"PREVIEWING", "PREVIEW_PIC_TAKING", "PREPARE_SNAPSHOT"} \subseteq
            State \ (Recording \cup Off)
      /\ m_state \notin Off
      /\ {"PREVIEWING", "PREVIEW_STOPPED", "PIC_TAKING", "PREVIEW_PIC_TAKING", "RECORDING"}
           \subseteq State \ {"PREPARE_SNAPSHOT"}
      /\ "RECORDING" \in Recording
  BY CtxFacts DEF Preparing, Recording, State, Off
<1>1. CASE PreviewingPreview(cmd)
  <2>1. CASE RefuseOneOf(cmd, {"SET_PREVIEW_WINDOW"})
             \/ AcknowledgeOneOf(cmd, {"START_PREVIEW", "START_NODISPLAY_PREVIEW"})
    BY <2>1, Names, OneOfContract
  <2>2. CASE SetParams(cmd, UNION {RestartPreview(d) : d \in UpdatedDevices(cmd)},
                       "PREVIEW_STOPPED")
    <3>1. cmd.evt = "SET_PARAMS"
      BY <2>2 DEF SetParams
    <3> QED
      BY <1>0, <2>2, <3>1, RestartFits, SetParamsContract
  <2>3. CASE cmd.evt = "STOP_PREVIEW" /\ Finish(cmd, StopPreview(dev), "PREVIEW_STOPPED")
    BY <1>0, <2>3, Names, UnpreparePreviewStops, StoppedFit, FinishContract
  <2> QED
    BY <1>1, <2>1, <2>2, <2>3 DEF PreviewingPreview
<1>2. CASE PreviewingCapture(cmd)
  <2>1. CASE cmd.evt = "START_RECORDING" /\ Perform(cmd, StartRecording(dev), "RECORDING", m_state)
    <3>1. Fits(cmd, StartRecording(dev), "RECORDING", m_state)
      BY <1>0, <2>1, StartRecordingFits
    <3> QED
      BY <1>0, <2>1, <3>1, Names, PerformContract
  <2>2. CASE DoPrepareSnapshot(cmd, "PREPARE_SNAPSHOT")
    BY <1>0, <2>2, PrepareContract
  <2>3. CASE PreviewingTakePicture(cmd)
    <3>0. cmd.evt \in Signalled
      BY <2>3, Names DEF PreviewingTakePicture
    <3>1. CASE Perform(cmd, TakeLiveSnapshot(dev), "PREVIEW_PIC_TAKING", "PREVIEWING")
      <4>1. AllDrop(dev, TakeLiveSnapshot(dev))
        BY <1>0, LiveSnapshotKeeps, AllChain
      <4>2. Fits(cmd, TakeLiveSnapshot(dev), "PREVIEW_PIC_TAKING", "PREVIEWING")
        BY <1>0, <4>1, IdleFits
      <4> QED
        BY <1>0, <3>0, <3>1, <4>2, PerformContract
    <3>2. CASE /\ ~dev.m_bZslMode
               /\ Perform(cmd, TakePicture(dev), "PIC_TAKING", "PREVIEW_STOPPED")
      <4>1. Fits(cmd, TakePicture(dev), "PIC_TAKING", "PREVIEW_STOPPED")
        <5> SUFFICES ASSUME NEW o \in TakePicture(dev)
                     PROVE  /\ o.ok \in BOOLEAN
                            /\ Fit(cmd, o.dev, IF o.ok THEN "PIC_TAKING" ELSE "PREVIEW_STOPPED")
          BY DEF Fits
        <5> DEFINE next == IF o.ok THEN "PIC_TAKING" ELSE "PREVIEW_STOPPED"
        <5>1. o.ok \in BOOLEAN /\ Tame(dev, o.dev) /\ DropsVideo(dev, o.dev)
          BY <1>0, TakePictureDrops DEF AllDrop, Drops, DropsVideo, Tame
        <5>2. next \notin Recording /\ next # "PREVIEW_READY"
          BY <1>0
        <5>3. Fine(dev, m_state) => Settled(o.dev) /\ Quiet(o.dev)
          BY <1>0, <3>2, <5>1, TakePictureQuiets, TameSettles DEF Fine
        <5> HIDE DEF next
        <5>4. Fine(dev, m_state) => Fine(o.dev, next)
          BY <5>2, <5>3 DEF Fine
        <5>5. Fit(cmd, o.dev, next)
          BY <1>0, <5>1, <5>2, <5>4, IdleFit
        <5> QED
          BY <5>1, <5>5 DEF next
      <4> QED
        BY <1>0, <3>0, <3>2, <4>1, PerformContract
    <3>3. CASE \E o \in TakePicture(dev) :
                 /\ dev' = o.dev
                 /\ m_state' = IF o.ok THEN "PREVIEW_PIC_TAKING" ELSE "PREVIEWING"
                 /\ IF dev.bRetroPicture /\ o.ok THEN NoReply ELSE Reply(cmd.evt, Status(o.ok))
      <4>1. PICK o \in TakePicture(dev) :
                 /\ dev' = o.dev
                 /\ m_state' = IF o.ok THEN "PREVIEW_PIC_TAKING" ELSE "PREVIEWING"
                 /\ IF dev.bRetroPicture /\ o.ok THEN NoReply ELSE Reply(cmd.evt, Status(o.ok))
        BY <3>3
      <4>2. o.ok \in BOOLEAN /\ Drops(dev, o.dev)
        BY <1>0, TakePictureDrops DEF AllDrop
      <4>6. m_state' \in State \ {"PREPARE_SNAPSHOT"} /\ m_state' \notin (Recording \cup Off)
        BY <1>0, <4>1
      <4>7. m_state' # "PREVIEW_READY"
        BY <4>6 DEF Off
      <4>8. Tame(dev, dev') /\ ~Started(dev', "VIDEO")
        BY <1>0, <4>1, <4>2 DEF Drops
      <4>3. Fit(cmd, dev', m_state') /\ m_state' \in State \ {"PREPARE_SNAPSHOT"}
        BY <4>6, <4>7, <4>8, TameFit
      <4>4. CASE dev.bRetroPicture /\ o.ok
        <5>1. Silent /\ evt_queue' = evt_queue /\ m_evtResult' \in BOOLEAN
          BY <4>1, <4>4, CtxFacts DEF NoReply, Silent
        <5> QED
          BY <4>3, <4>4, <5>1 DEF Contract
      <4>5. CASE ~(dev.bRetroPicture /\ o.ok)
        <5>1. Status(o.ok) \in {"NO_ERROR", "INVALID_OPERATION", "ERROR"}
          BY DEF Status
        <5>2. Answer(cmd.evt) /\ evt_queue' = evt_queue /\ m_evtResult' \in BOOLEAN
          BY <3>0, <4>1, <4>5, <5>1, ReplyAnswers
        <5> QED
          BY <1>0, <4>3, <5>2, MoveContract
      <4> QED
        BY <4>4, <4>5
    <3> QED
      BY <2>3, <3>1, <3>2, <3>3 DEF PreviewingTakePicture
  <2> QED
    BY <1>2, <2>1, <2>2, <2>3 DEF PreviewingCapture
<1>3. CASE PreviewingOther(cmd)
  <2>1. CASE AcknowledgeOneOf(cmd, PlainOps \cup {"REG_FACE_IMAGE"})
             \/ RefuseOneOf(cmd, {"CANCEL_PICTURE", "STOP_RECORDING", "RELEASE_RECORDING_FRAME",
                                  "RELEASE"})
    BY <2>1, Names, OneOfContract
  <2>2. CASE DoEnabled(cmd, TRUE, FALSE)
    BY <2>2, EnabledContract
  <2>3. CASE DoAutoFocus(cmd) \/ DoCancelAutoFocus(cmd)
    BY <1>0, <2>3, AutoFocusContract, CancelAutoFocusContract
  <2>4. CASE DoSendCommand(cmd, m_state)
    BY <1>0, <2>4, SendCommandContract
  <2> QED
    BY <1>3, <2>1, <2>2, <2>3, <2>4 DEF PreviewingOther
<1>4. CASE PreviewingEvent(cmd)
  BY <1>4, FocusUpdateContract, IgnoredEventsContract DEF PreviewingEvent, IgnoreOneOf
<1> QED
  BY <1>1, <1>2, <1>3, <1>4 DEF procEvtPreviewingState

\* procEvtPrepareSnapshotState(), the one that holds an answer back.
LEMMA PrepareSnapshotContract ==
  ASSUME NEW cmd \in Command, Ctx, m_state = "PREPARE_SNAPSHOT", procEvtPrepareSnapshotState(cmd)
  PROVE  Contract(cmd)
<1>1. CASE RefuseOneOf(cmd, ApiEvent \ {"REG_FACE_IMAGE"})
  BY <1>1, Names, OneOfContract
<1>2. CASE DoFocusUpdate(cmd)
  BY <1>2, FocusUpdateContract
<1>3. CASE PrepareSnapshotDone(cmd)
  <2>1. "PREPARE_SNAPSHOT" \in Signalled
    BY Names
  <2>2. Answer("PREPARE_SNAPSHOT") /\ evt_queue' = evt_queue /\ m_evtResult' \in BOOLEAN
    BY <1>3, <2>1, ReplyAnswers DEF PrepareSnapshotDone
  <2>3. Answers(cmd)
    BY <1>3, <2>2 DEF PrepareSnapshotDone, Answers, Preparing
  <2>4. m_state' \in State /\ m_state' \notin (Recording \cup Off) /\ m_state \notin Recording
        /\ Keeps(dev, dev')
    BY <1>3, CtxFacts DEF PrepareSnapshotDone, State, Recording, Off
  <2>6. Fit(cmd, dev', m_state')
    BY <2>4, KeepsFit
  <2>5. \E r \in Result : m_apiResultList' = Append(m_apiResultList, r)
    BY <2>2 DEF Answer
  <2> QED
    BY <2>2, <2>3, <2>4, <2>5, <2>6 DEF Contract
<1>4. CASE \/ DoEvtNotify(cmd) \/ DoSnapshotDoneIgnored(cmd)
           \/ IgnoreOneOf(cmd, {"REG_FACE_IMAGE", "STOP_CAPTURE_CHANNEL", "READY_FOR_SNAPSHOT",
                                "JPEG_EVT_NOTIFY"})
  BY <1>4, IgnoredEventsContract DEF IgnoreOneOf
<1> QED
  BY <1>1, <1>2, <1>3, <1>4 DEF procEvtPrepareSnapshotState

\* SNAPSHOT_DONE ends the picture, wakes the callback thread and is not owed
\* an answer.
LEMMA SnapshotDoneContract ==
  ASSUME NEW cmd, Ctx, ~Preparing, cmd.evt = "SNAPSHOT_DONE",
         NEW next \in State \ {"PREPARE_SNAPSHOT"}, next \in Recording <=> m_state \in Recording,
         next \notin Off \/ (next # "PREVIEW_READY" /\ m_state \in Off),
         Keeps(dev, dev'), m_state' = next, m_evtResult' = TRUE, UNCHANGED evt_queue,
         Silent \/ \E evt : evt \notin Owed /\ Answer(evt)
  PROVE  Contract(cmd)
<1>1. Fit(cmd, dev', next)
  <2>1. Tame(dev, dev') /\ (Started(dev', "VIDEO") <=> next \in Recording)
    BY CtxFacts DEF Keeps
  <2>2. next # "PREVIEW_READY"
    BY DEF Off
  <2> QED
    BY <2>1, <2>2, TameFit
<1>2. cmd.evt \notin Owed
  BY EventsNotOwed
<1> QED
  BY <1>1, <1>2, MoveContract

\* procEvtPicTakingState().
LEMMA PicTakingContract ==
  ASSUME NEW cmd \in Command, Ctx, m_state = "PIC_TAKING", procEvtPicTakingState(cmd)
  PROVE  Contract(cmd)
<1>0. /\ ~Preparing /\ m_state \notin Recording /\ m_state \in State \ Recording
      /\ m_state \in State \ {"PREPARE_SNAPSHOT"} /\ ~Started(dev, "VIDEO") /\ dev \in Device
      /\ m_state \in Off /\ "PREVIEWING" \notin Off
      /\ {"PREVIEWING", "PREVIEW_STOPPED"} \subseteq State \ Recording
      /\ {"PREVIEWING", "PREVIEW_STOPPED"} \subseteq State \ {"PREPARE_SNAPSHOT"}
  BY CtxFacts DEF Preparing, Recording, State, Off
<1>1. CASE PicTakingPreview(cmd)
  <2>1. CASE RefuseOneOf(cmd, {"SET_PREVIEW_WINDOW"})
    BY <2>1, Names, OneOfContract
  <2>2. CASE cmd.evt = "SET_PARAMS" /\ (ParamsRejected(cmd) \/ ParamsCommitted(cmd))
    BY <1>0, <2>2, ParamsContract
  <2>3. CASE /\ cmd.evt \in {"STOP_PREVIEW", "CANCEL_PICTURE"}
             /\ Finish(cmd, CancelPicture(dev), "PREVIEW_STOPPED")
    <3>1. Tame(dev, CancelPicture(dev)) /\ ~Started(CancelPicture(dev), "VIDEO")
      BY <1>0, CancelPictureKeeps DEF Keeps
    <3>2. Fit(cmd, CancelPicture(dev), "PREVIEW_STOPPED")
      BY <1>0, <3>1, TameFit
    <3> QED
      BY <1>0, <2>3, <3>2, Names, FinishContract
  <2> QED
    BY <1>1, <2>1, <2>2, <2>3 DEF PicTakingPreview
<1>2. CASE PicTakingOther(cmd)
  <2>1. CASE AcknowledgeOneOf(cmd, PlainOps \cup {"REG_FACE_IMAGE"})
             \/ RefuseOneOf(cmd, {"PREPARE_SNAPSHOT", "START_RECORDING", "STOP_RECORDING",
                                  "RELEASE_RECORDING_FRAME", "START_PREVIEW",
                                  "START_NODISPLAY_PREVIEW", "RELEASE"})
    BY <2>1, Names, OneOfContract
  <2>2. CASE DoEnabled(cmd, FALSE, FALSE)
    BY <2>2, EnabledContract
  <2>3. CASE DoAutoFocus(cmd) \/ DoCancelAutoFocus(cmd) \/ LongShotOrRefuse(cmd)
    BY <1>0, <2>3, AutoFocusContract, CancelAutoFocusContract, LongShotContract
  <2>4. CASE DoSendCommand(cmd, "PREVIEWING")
    BY <1>0, <2>4, SendCommandContract
  <2> QED
    BY <1>2, <2>1, <2>2, <2>3, <2>4 DEF PicTakingOther
<1>3. CASE PicTakingEvent(cmd)
  <2>1. CASE DoFocusUpdate(cmd) \/ DoJpegNotify(cmd)
    BY <1>0, <2>1, FocusUpdateContract, JpegNotifyContract
  <2>2. CASE DoEvtNotify(cmd) \/ IgnoreOneOf(cmd, {"PREP_SNAPSHOT_DONE", "READY_FOR_SNAPSHOT"})
    BY <2>2, IgnoredEventsContract DEF IgnoreOneOf
  <2>3. CASE DoStopCaptureChannel(cmd)
    <3> DEFINE stopped == StopCaptureChannel(dev, PreviewRestartEnabled)
               outcomes == IF PreviewRestartEnabled
                           THEN AndThen(PreparePreview(stopped), StartPreview)
                           ELSE {Done(stopped)}
    <3>1. cmd.evt \in Signalled /\ Perform(cmd, outcomes, m_state, m_state)
      BY <2>3, Names DEF DoStopCaptureChannel, StopCaptureCommand, Cmd
    <3>2. Keeps(dev, stopped) /\ stopped \in Device
      BY <1>0, RestartAssumption, StopCaptureChannelKeeps DEF Keeps, Same, Tame, Modes
    <3> HIDE DEF stopped
    <3>3. ASSUME NEW o \in outcomes
          PROVE  o.ok \in BOOLEAN /\ Fit(cmd, o.dev, m_state)
      <4>1. CASE o = Done(stopped)
        BY <3>2, <4>1, DoneOrFail, HereFit
      <4>2. CASE PreviewRestartEnabled /\ o \in AndThen(PreparePreview(stopped), StartPreview)
        <5>1. PICK a \in PreparePreview(stopped) : o = a \/ o \in StartPreview(a.dev)
          BY <4>2 DEF AndThen
        <5>2. a.ok \in BOOLEAN /\ Drops(stopped, a.dev) /\ a.dev \in Device
          BY <3>2, PreparePreviewDrops DEF AllDrop, Drops, Same, Tame, Modes
        <5>3. ASSUME o \in StartPreview(a.dev)
              PROVE  o.ok \in BOOLEAN /\ DropsVideo(dev, o.dev)
          <6>1. o.ok \in BOOLEAN /\ KeepsVideo(a.dev, o.dev)
            BY <5>2, <5>3, StartPreviewKeeps DEF AllKeepVideo
          <6> QED
            BY <3>2, <5>2, <6>1 DEF Keeps, Drops, KeepsVideo, DropsVideo, Same, Tame
        <5>4. ASSUME o = a
              PROVE  o.ok \in BOOLEAN /\ DropsVideo(dev, o.dev)
          BY <3>2, <5>2, <5>4 DEF Keeps, Drops, DropsVideo, Same, Tame
        <5>5. o.ok \in BOOLEAN /\ DropsVideo(dev, o.dev)
          BY <5>1, <5>3, <5>4
        <5>6. ~Suits(cmd)
          BY <4>2 DEF Suits
        <5> QED
          BY <1>0, <5>5, <5>6, IdleFit
      <4> QED
        BY <3>3, <4>1, <4>2
    <3>5. Fits(cmd, outcomes, m_state, m_state)
      BY <3>3 DEF Fits
    <3> HIDE DEF outcomes
    <3> QED
      BY <1>0, <3>1, <3>5, PerformContract
  <2>4. CASE /\ cmd.evt = "SNAPSHOT_DONE"
             /\ dev' = CancelPicture(dev)
             /\ m_state' = IF PreviewRestartEnabled THEN "PREVIEWING" ELSE "PREVIEW_STOPPED"
             /\ EvtReply
    <3>1. Keeps(dev, dev')
      BY <1>0, <2>4, CancelPictureKeeps
    <3>2. m_state' \in State \ Recording /\ m_state' \in State \ {"PREPARE_SNAPSHOT"}
          /\ m_state' # "PREVIEW_READY"
      BY <1>0, <2>4
    <3>3. Silent /\ m_evtResult' = TRUE /\ UNCHANGED evt_queue
      BY <2>4 DEF EvtReply, Silent
    <3> QED
      BY <1>0, <2>4, <3>1, <3>2, <3>3, SnapshotDoneContract
  <2> QED
    BY <1>3, <2>1, <2>2, <2>3, <2>4 DEF PicTakingEvent
<1> QED
  BY <1>1, <1>2, <1>3 DEF procEvtPicTakingState

\* procEvtRecordingState().
LEMMA RecordingContract ==
  ASSUME NEW cmd \in Command, Ctx, m_state = "RECORDING", procEvtRecordingState(cmd)
  PROVE  Contract(cmd)
<1>0. /\ ~Preparing /\ m_state \in Recording /\ m_state \in State \ {"PREPARE_SNAPSHOT"}
      /\ Started(dev, "VIDEO") /\ dev \in Device
      /\ {"PREVIEWING", "PREVIEW_STOPPED"} \cap Recording = {}
      /\ {"RECORDING", "VIDEO_PIC_TAKING"} \subseteq Recording
      /\ {"PREVIEWING", "PREVIEW_STOPPED", "RECORDING", "VIDEO_PIC_TAKING"}
           \subseteq State \ {"PREPARE_SNAPSHOT"}
      /\ {"PREVIEWING", "RECORDING", "VIDEO_PIC_TAKING"} \cap Off = {}
  BY CtxFacts DEF Preparing, Recording, State, Off
<1>1. CASE RecordingPreview(cmd)
  <2>1. CASE AcknowledgeOneOf(cmd, {"START_PREVIEW", "SET_PREVIEW_WINDOW"})
    BY <2>1, Names, OneOfContract
  <2> QED
    BY <1>0, <1>1, <2>1, SetParamsRecordingContract, EnabledContract DEF RecordingPreview
<1>2. CASE RecordingOther(cmd)
  <2>1. CASE AcknowledgeOneOf(cmd, PlainOps \cup {"REG_FACE_IMAGE", "START_RECORDING",
                                           "RELEASE_RECORDING_FRAME", "PREPARE_SNAPSHOT"})
             \/ RefuseOneOf(cmd, {"CANCEL_PICTURE", "START_NODISPLAY_PREVIEW", "RELEASE"})
    BY <2>1, Names, OneOfContract
  <2>2. CASE DoAutoFocus(cmd) \/ DoCancelAutoFocus(cmd)
    BY <1>0, <2>2, AutoFocusContract, CancelAutoFocusContract
  <2>3. CASE DoSendCommand(cmd, m_state)
    BY <1>0, <2>3, SendCommandContract
  <2>4. CASE /\ cmd.evt = "TAKE_PICTURE"
             /\ Perform(cmd, TakeLiveSnapshot(dev), "VIDEO_PIC_TAKING", "RECORDING")
    <3>1. Fits(cmd, TakeLiveSnapshot(dev), "VIDEO_PIC_TAKING", "RECORDING")
      BY <1>0, LiveSnapshotKeeps, KeepsFit DEF Fits, AllKeep
    <3> QED
      BY <1>0, <2>4, <3>1, Names, PerformContract
  <2>5. CASE cmd.evt = "STOP_RECORDING" /\ FinishStop(cmd, StopRecording(dev), "PREVIEWING")
    BY <1>0, <2>5, Names, StopRecordingStops, StoppedFit, FinishContract
  <2>6. CASE /\ cmd.evt = "STOP_PREVIEW"
             /\ Finish(cmd, StopPreview(StopRecording(dev)), "PREVIEW_STOPPED")
    <3>1. Stops(dev, StopRecording(dev)) /\ StopRecording(dev) \in Device
      BY <1>0, StopRecordingStops DEF Stops, Same, Tame, Modes
    <3>2. Stops(StopRecording(dev), StopPreview(StopRecording(dev)))
          /\ Quiet(StopPreview(StopRecording(dev)))
      BY <3>1, UnpreparePreviewStops
    <3>4. Stops(dev, StopPreview(StopRecording(dev)))
      BY <3>1, <3>2 DEF Stops, Same, Tame, Modes
    <3>3. Fit(cmd, StopPreview(StopRecording(dev)), "PREVIEW_STOPPED")
      BY <1>0, <3>2, <3>4, StoppedFit
    <3> QED
      BY <1>0, <2>6, <3>3, Names, FinishContract
  <2> QED
    BY <1>2, <2>1, <2>2, <2>3, <2>4, <2>5, <2>6 DEF RecordingOther
<1>3. CASE RecordingEvent(cmd)
  BY <1>3, FocusUpdateContract, IgnoredEventsContract DEF RecordingEvent, IgnoreOneOf
<1> QED
  BY <1>1, <1>2, <1>3 DEF procEvtRecordingState

\* procEvtVideoPicTakingState().
LEMMA VideoPicTakingContract ==
  ASSUME NEW cmd \in Command, Ctx, m_state = "VIDEO_PIC_TAKING", procEvtVideoPicTakingState(cmd)
  PROVE  Contract(cmd)
<1>0. /\ ~Preparing /\ m_state \in Recording /\ m_state \in State \ {"PREPARE_SNAPSHOT"}
      /\ Started(dev, "VIDEO") /\ dev \in Device
      /\ {"PREVIEWING", "PREVIEW_STOPPED"} \cap Recording = {}
      /\ {"RECORDING", "VIDEO_PIC_TAKING"} \subseteq Recording
      /\ {"PREVIEWING", "PREVIEW_STOPPED", "RECORDING", "VIDEO_PIC_TAKING"}
           \subseteq State \ {"PREPARE_SNAPSHOT"}
      /\ {"PREVIEWING", "RECORDING", "VIDEO_PIC_TAKING"} \cap Off = {}
  BY CtxFacts DEF Preparing, Recording, State, Off
<1> DEFINE cancelled == CancelLiveSnapshot(dev)
<1>1. Keeps(dev, cancelled) /\ Same(dev, cancelled) /\ cancelled \in Device
      /\ Started(cancelled, "VIDEO")
  BY <1>0, LiveSnapshotKeeps DEF Keeps, Same, Tame, Modes
<1>2. CASE VideoPicTakingPreview(cmd)
  <2>1. CASE RefuseOneOf(cmd, {"SET_PREVIEW_WINDOW"})
    BY <2>1, Names, OneOfContract
  <2> QED
    BY <1>0, <1>2, <2>1, SetParamsRecordingContract, EnabledContract DEF VideoPicTakingPreview
<1>3. CASE VideoPicTakingCancel(cmd)
  <2>0. \/ cmd.evt = "STOP_RECORDING" /\ FinishStop(cmd, StopRecording(cancelled), "PREVIEWING")
        \/ cmd.evt = "CANCEL_PICTURE" /\ FinishStop(cmd, cancelled, "RECORDING")
        \/ /\ cmd.evt = "STOP_PREVIEW"
           /\ Finish(cmd, StopPreview(StopRecording(cancelled)), "PREVIEW_STOPPED")
    BY <1>3 DEF VideoPicTakingCancel
  <2> HIDE DEF cancelled
  <2>1. Stops(cancelled, StopRecording(cancelled)) /\ StopRecording(cancelled) \in Device
    BY <1>1, StopRecordingStops DEF Stops, Same, Tame, Modes
  <2>2. Stops(StopRecording(cancelled), StopPreview(StopRecording(cancelled)))
        /\ Quiet(StopPreview(StopRecording(cancelled)))
    BY <2>1, UnpreparePreviewStops
  <2>3. /\ Stops(dev, StopRecording(cancelled))
        /\ Stops(dev, StopPreview(StopRecording(cancelled)))
    BY <1>1, <2>1, <2>2 DEF Keeps, Stops, Same, Tame, Modes
  <2>4. CASE cmd.evt = "STOP_RECORDING" /\ FinishStop(cmd, StopRecording(cancelled), "PREVIEWING")
    BY <1>0, <2>3, <2>4, Names, StoppedFit, FinishContract
  <2>5. CASE cmd.evt = "CANCEL_PICTURE" /\ FinishStop(cmd, cancelled, "RECORDING")
    BY <1>0, <1>1, <2>5, Names, KeepsFit, FinishContract
  <2>6. CASE /\ cmd.evt = "STOP_PREVIEW"
             /\ Finish(cmd, StopPreview(StopRecording(cancelled)), "PREVIEW_STOPPED")
    BY <1>0, <2>2, <2>3, <2>6, Names, StoppedFit, FinishContract
  <2> QED
    BY <2>0, <2>4, <2>5, <2>6
<1>4. CASE VideoPicTakingOther(cmd)
  <2>1. CASE AcknowledgeOneOf(cmd, PlainOps \cup {"REG_FACE_IMAGE", "RELEASE_RECORDING_FRAME"})
             \/ RefuseOneOf(cmd, {"START_RECORDING", "START_PREVIEW", "START_NODISPLAY_PREVIEW",
                                  "PREPARE_SNAPSHOT", "TAKE_PICTURE", "RELEASE"})
    BY <2>1, Names, OneOfContract
  <2>2. CASE DoAutoFocus(cmd) \/ DoCancelAutoFocus(cmd)
    BY <1>0, <2>2, AutoFocusContract, CancelAutoFocusContract
  <2>3. CASE DoSendCommand(cmd, m_state)
    BY <1>0, <2>3, SendCommandContract
  <2> QED
    BY <1>4, <2>1, <2>2, <2>3 DEF VideoPicTakingOther
<1>5. CASE VideoPicTakingEvent(cmd)
  <2>1. CASE DoFocusUpdate(cmd) \/ DoJpegNotify(cmd)
    BY <1>0, <2>1, FocusUpdateContract, JpegNotifyContract
  <2>2. CASE DoEvtNotify(cmd) \/ IgnoreOneOf(cmd, {"PREP_SNAPSHOT_DONE", "READY_FOR_SNAPSHOT",
                                                   "STOP_CAPTURE_CHANNEL"})
    BY <2>2, IgnoredEventsContract DEF IgnoreOneOf
  <2>3. CASE cmd.evt = "SNAPSHOT_DONE" /\ dev' = cancelled /\ m_state' = "RECORDING" /\ EvtReply
    <3>1. Silent /\ m_evtResult' = TRUE /\ UNCHANGED evt_queue
      BY <2>3 DEF EvtReply, Silent
    <3> HIDE DEF cancelled
    <3> QED
      BY <1>0, <1>1, <2>3, <3>1, SnapshotDoneContract
  <2> QED
    BY <1>5, <2>1, <2>2, <2>3 DEF VideoPicTakingEvent
<1> QED
  BY <1>2, <1>3, <1>4, <1>5 DEF procEvtVideoPicTakingState

\* cancelPicture() of a picture taken while previewing.
LEMMA CancelPreviewPicKeeps ==
  ASSUME NEW d \in Device
  PROVE  Keeps(d, CancelPreviewPic(d))
  BY CancelPictureKeeps, LiveSnapshotKeeps DEF CancelPreviewPic

\* procEvtPreviewPicTakingState().
LEMMA PreviewPicTakingContract ==
  ASSUME NEW cmd \in Command, Ctx, m_state = "PREVIEW_PIC_TAKING", procEvtPreviewPicTakingState(cmd)
  PROVE  Contract(cmd)
<1>0. /\ ~Preparing /\ m_state \notin Recording /\ m_state \in State \ Recording
      /\ m_state \in State \ {"PREPARE_SNAPSHOT"} /\ ~Started(dev, "VIDEO") /\ dev \in Device
      /\ {"PREVIEWING", "PREVIEW_PIC_TAKING", "VIDEO_PIC_TAKING"} \cap Off = {} /\ m_state \notin Off
      /\ {"PREVIEWING", "PREVIEW_STOPPED", "PIC_TAKING"} \subseteq State \ Recording
      /\ {"PREVIEWING", "PREVIEW_STOPPED", "PIC_TAKING", "VIDEO_PIC_TAKING"}
           \subseteq State \ {"PREPARE_SNAPSHOT"}
      /\ "VIDEO_PIC_TAKING" \in Recording
  BY CtxFacts DEF Preparing, Recording, State, Off
<1> DEFINE cancelled == CancelPreviewPic(dev)
<1>c. Keeps(dev, cancelled) /\ Same(dev, cancelled) /\ cancelled \in Device
      /\ ~Started(cancelled, "VIDEO")
  BY <1>0, CancelPreviewPicKeeps DEF Keeps, Same, Tame, Modes
<1>1. CASE PreviewPicTakingPreview(cmd)
  <2>1. CASE SetParams(cmd, UNION {RestartPreview(d) : d \in UpdatedDevices(cmd)}, "PIC_TAKING")
    <3>1. cmd.evt = "SET_PARAMS"
      BY <2>1 DEF SetParams
    <3> QED
      BY <1>0, <2>1, <3>1, RestartFits, SetParamsContract
  <2>2. CASE DoEnabled(cmd, TRUE, FALSE)
    BY <2>2, EnabledContract
  <2>3. CASE /\ cmd.evt = "STOP_PREVIEW"
             /\ \/ Finish(cmd, UnpreparePreview(cancelled), "PREVIEW_STOPPED")
                \/ FinishStop(cmd, UnpreparePreview(cancelled), "PREVIEW_STOPPED")
    <3> HIDE DEF cancelled
    <3>1. Stops(cancelled, UnpreparePreview(cancelled)) /\ Quiet(UnpreparePreview(cancelled))
      BY <1>c, UnpreparePreviewStops
    <3>3. Stops(dev, UnpreparePreview(cancelled))
      BY <1>c, <3>1 DEF Keeps, Stops, Same, Tame, Modes
    <3>2. Fit(cmd, UnpreparePreview(cancelled), "PREVIEW_STOPPED")
      BY <1>0, <3>1, <3>3, StoppedFit
    <3> QED
      BY <1>0, <2>3, <3>2, Names, FinishContract
  <2> QED
    BY <1>1, <2>1, <2>2, <2>3 DEF PreviewPicTakingPreview
<1>2. CASE PreviewPicTakingCapture(cmd)
  <2>1. CASE DoSendCommand(cmd, "PREVIEWING")
    BY <1>0, <2>1, SendCommandContract
  <2>2. CASE cmd.evt = "CANCEL_PICTURE" /\ FinishStop(cmd, cancelled, "PREVIEWING")
    <3> HIDE DEF cancelled
    <3> QED
      BY <1>0, <1>c, <2>2, Names, KeepsFit, FinishContract
  <2>3. CASE cmd.evt \in {"START_RECORDING", "PREPARE_SNAPSHOT"} /\ Refuse(cmd)
    BY <2>3, Names, RepliesContract
  <2>4. CASE /\ cmd.evt = "START_RECORDING"
             /\ Perform(cmd, StartRecording(dev), "VIDEO_PIC_TAKING", m_state)
    <3>1. Fits(cmd, StartRecording(dev), "VIDEO_PIC_TAKING", m_state)
      BY <1>0, <2>4, StartRecordingFits
    <3> QED
      BY <1>0, <2>4, <3>1, Names, PerformContract
  <2>5. CASE LongShotOrRefuse(cmd)
    BY <1>0, <2>5, LongShotContract
  <2>6. CASE dev.bRetroPicture /\ DoPrepareSnapshot(cmd, m_state)
    BY <1>0, <2>6, PrepareContract
  <2> QED
    BY <1>2, <2>1, <2>2, <2>3, <2>4, <2>5, <2>6 DEF PreviewPicTakingCapture
<1>3. CASE PreviewPicTakingOther(cmd)
  <2>1. CASE AcknowledgeOneOf(cmd, PlainOps \cup {"REG_FACE_IMAGE", "RELEASE_RECORDING_FRAME"})
             \/ RefuseOneOf(cmd, {"STOP_RECORDING", "START_PREVIEW", "START_NODISPLAY_PREVIEW",
                                  "SET_PREVIEW_WINDOW", "RELEASE"})
    BY <2>1, Names, OneOfContract
  <2>2. CASE DoAutoFocus(cmd) \/ DoCancelAutoFocus(cmd)
    BY <1>0, <2>2, AutoFocusContract, CancelAutoFocusContract
  <2> QED
    BY <1>3, <2>1, <2>2 DEF PreviewPicTakingOther
<1>4. CASE PreviewPicTakingEvent(cmd)
  <2>1. CASE DoFocusUpdate(cmd) \/ DoJpegNotify(cmd)
    BY <1>0, <2>1, FocusUpdateContract, JpegNotifyContract
  <2>2. CASE DoEvtNotify(cmd) \/ IgnoreOneOf(cmd, {"STOP_CAPTURE_CHANNEL"})
    BY <2>2, IgnoredEventsContract DEF IgnoreOneOf
  <2>3. CASE /\ cmd.evt \in {"PREP_SNAPSHOT_DONE", "READY_FOR_SNAPSHOT"} /\ Stay
             /\ IF dev.bRetroPicture
                THEN Reply(IF cmd.evt = "READY_FOR_SNAPSHOT" THEN "TAKE_PICTURE"
                           ELSE "PREPARE_SNAPSHOT", "NO_ERROR")
                ELSE NoReply
    <3>1. Fit(cmd, dev', m_state') /\ m_state' \in State
      BY <1>0, <2>3, CtxFacts, HereFit DEF Stay
    <3>2. CASE dev.bRetroPicture
      <4>1. PICK evt \in {"TAKE_PICTURE", "PREPARE_SNAPSHOT"} : Reply(evt, "NO_ERROR")
        BY <2>3, <3>2
      <4>2. evt \in Signalled
        BY Names
      <4>3. Answer(evt) /\ evt_queue' = evt_queue /\ m_evtResult' \in BOOLEAN
        BY <4>1, <4>2, ReplyAnswers
      <4>4. \E r \in Result : m_apiResultList' = Append(m_apiResultList, r)
        BY <4>3 DEF Answer
      <4> QED
        BY <3>1, <3>2, <4>3, <4>4 DEF Contract
    <3>3. CASE ~dev.bRetroPicture
      <4>1. Ignore /\ cmd.evt \notin Owed
        BY <2>3, <3>3, EventsNotOwed DEF Ignore
      <4> QED
        BY <4>1, IgnoreContract
    <3> QED
      BY <3>2, <3>3
  <2>4. CASE /\ cmd.evt = "SNAPSHOT_DONE" /\ dev' = cancelled /\ m_state' = "PREVIEWING"
             /\ m_evtResult' = TRUE /\ UNCHANGED evt_queue
             /\ IF dev.bRetroPicture THEN Signal(cmd.evt, "NO_ERROR", FALSE)
                ELSE UNCHANGED m_apiResultList
    <3> HIDE DEF cancelled
    <3>1. cmd.evt \in Signalled /\ cmd.evt \notin Owed
      BY <2>4, EventsNotOwed DEF Signalled
    <3>2. Silent \/ Answer(cmd.evt)
      BY <2>4, <3>1, SignalAnswers DEF Silent
    <3> QED
      BY <1>0, <1>c, <2>4, <3>1, <3>2, SnapshotDoneContract
  <2> QED
    BY <1>4, <2>1, <2>2, <2>3, <2>4 DEF PreviewPicTakingEvent
<1> QED
  BY <1>1, <1>2, <1>3, <1>4 DEF procEvtPreviewPicTakingState

\* Every handler of every state keeps the contract.
LEMMA HandlerContract ==
  ASSUME NEW cmd \in Command, Ctx, stateMachine(cmd)
  PROVE  Contract(cmd)
  BY PreviewStoppedContract, PreviewReadyContract, PreviewingContract, PrepareSnapshotContract,
     PicTakingContract, RecordingContract, VideoPicTakingContract, PreviewPicTakingContract
     DEF stateMachine

\* take_picture() that waits for ever moves the machine and says nothing.
LEMMA StuckContract ==
  ASSUME NEW cmd, Ctx, TakePictureStuck(cmd)
  PROVE  /\ m_state' \in State \ {"PREPARE_SNAPSHOT"} /\ ~Preparing
         /\ Fit(cmd, dev', m_state')
         /\ evt_queue' = evt_queue /\ m_evtResult' \in BOOLEAN /\ Silent
         /\ cmd.evt = "TAKE_PICTURE"
<1>1. dev' = DelChannels(dev, {"PREVIEW", "CAPTURE"}) /\ m_state' = "PIC_TAKING" /\ NoReply
      /\ m_state = "PREVIEWING" /\ cmd.evt = "TAKE_PICTURE"
  BY DEF TakePictureStuck
<1>2. Drops(dev, dev') /\ ~Started(dev', "PREVIEW")
  BY <1>1, CtxFacts, DelChannelsVideo DEF ChannelType
<1>3. ~Started(dev, "VIDEO")
  BY <1>1, CtxFacts DEF Recording
<1>4. Fit(cmd, dev', m_state')
  <2>1. ~dev.m_bZslMode
    BY DEF TakePictureStuck, CaptureJobStuck
  <2>2. Fine(dev, m_state) => Settled(dev') /\ Quiet(dev')
    BY <1>2, <2>1, TameSettles DEF Fine, Settled, Drops, Tame, Quiet
  <2>3. Fine(dev, m_state) => Fine(dev', m_state')
    BY <1>1, <2>2 DEF Fine, Recording
  <2>4. DropsVideo(dev, dev') /\ m_state \notin Recording /\ m_state' \notin Recording
    BY <1>1, <1>2 DEF Drops, DropsVideo, Tame, Recording
  <2> QED
    BY <2>3, <2>4, IdleFit
<1> QED
  BY <1>1, <1>4, CtxFacts DEF State, Preparing, NoReply, Silent

-----------------------------------------------------------------------------
(* Counting commands and answers in sequences. *)

\* The indices of the commands for evt,
MarksOf(s, evt)   == {i \in DOMAIN s : s[i].evt = evt}
\* and of the answers to it.
AnswersOf(s, evt) == {i \in DOMAIN s : s[i].request_api = evt}

\* Counts one, if b.
One(b) == IF b THEN 1 ELSE 0

\* A set of indices is finite.
LEMMA FiniteMarks ==
  ASSUME NEW n \in Nat, NEW M \in SUBSET (1..n)
  PROVE  IsFiniteSet(M) /\ Cardinality(M) \in Nat
<1>1. IsFiniteSet(1..n)
  BY FS_Interval
<1>2. IsFiniteSet(M)
  BY <1>1, FS_Subset
<1> QED
  BY <1>2, FS_CardinalityType

\* An index more.
LEMMA OneMoreMark ==
  ASSUME NEW n \in Nat, NEW M \in SUBSET (1..n), NEW N, NEW b \in BOOLEAN,
         N = IF b THEN M \cup {n + 1} ELSE M
  PROVE  Cardinality(N) = Cardinality(M) + One(b)
<1>1. IsFiniteSet(M) /\ Cardinality(M) \in Nat
  BY FiniteMarks
<1>0. n + 1 \notin M
  OBVIOUS
<1>2. Cardinality(M \cup {n + 1}) = Cardinality(M) + 1
  BY <1>0, <1>1, FS_AddElement
<1> QED
  BY <1>1, <1>2 DEF One

\* Without index i the later indices move one down.
LEMMA OneMarkLess ==
  ASSUME NEW n \in Nat, NEW M \in SUBSET (1..n), NEW i \in 1..n, NEW R \in SUBSET (1..(n - 1)),
         \A j \in 1..(n - 1) : j \in R <=> (IF j < i THEN j ELSE j + 1) \in M
  PROVE  Cardinality(M) = IF i \in M THEN Cardinality(R) + 1 ELSE Cardinality(R)
<1> DEFINE f == [j \in R |-> IF j < i THEN j ELSE j + 1]
<1>1. IsFiniteSet(M) /\ IsFiniteSet(R) /\ Cardinality(M) \in Nat /\ Cardinality(R) \in Nat
  <2>1. n - 1 \in Nat
    OBVIOUS
  <2> QED
    BY <2>1, FiniteMarks
<1>2. f \in Bijection(R, M \ {i})
  <2>1. f \in [R -> M \ {i}]
    OBVIOUS
  <2>2. \A a, b \in R : f[a] = f[b] => a = b
    OBVIOUS
  <2>3. \A t \in M \ {i} : \E j \in R : f[j] = t
    <3> SUFFICES ASSUME NEW t \in M \ {i} PROVE \E j \in R : f[j] = t
      OBVIOUS
    <3>1. CASE t < i
      <4>1. t \in R
        BY <3>1
      <4> QED
        BY <3>1, <4>1
    <3>2. CASE t > i
      <4>1. t - 1 \in R /\ t - 1 \in Nat /\ t \in Nat /\ ~(t - 1 < i)
        BY <3>2
      <4>2. f[t - 1] = t
        BY <4>1
      <4> QED
        BY <4>1, <4>2
    <3> QED
      BY <3>1, <3>2
  <2> QED
    BY <2>1, <2>2, <2>3, Fun_IsBij
<1>3. Cardinality(R) = Cardinality(M \ {i})
  BY <1>1, <1>2, FS_Bijection DEF ExistsBijection
<1>4. Cardinality(M \ {i}) = IF i \in M THEN Cardinality(M) - 1 ELSE Cardinality(M)
  BY <1>1, FS_RemoveElement
<1> QED
  BY <1>1, <1>3, <1>4

\* Indices of a sequence.
LEMMA IndexFacts ==
  ASSUME NEW S, NEW s \in Seq(S), NEW evt
  PROVE  /\ Len(s) \in Nat /\ DOMAIN s = 1..Len(s)
         /\ MarksOf(s, evt) \in SUBSET (1..Len(s)) /\ Cardinality(MarksOf(s, evt)) \in Nat
         /\ AnswersOf(s, evt) \in SUBSET (1..Len(s)) /\ Cardinality(AnswersOf(s, evt)) \in Nat
<1>1. Len(s) \in Nat /\ DOMAIN s = 1..Len(s)
  OBVIOUS
<1>2. MarksOf(s, evt) \in SUBSET (1..Len(s)) /\ AnswersOf(s, evt) \in SUBSET (1..Len(s))
  BY <1>1 DEF MarksOf, AnswersOf
<1> QED
  BY <1>1, <1>2, FiniteMarks

\* An item more at the end of a sequence.
LEMMA AppendIndices ==
  ASSUME NEW S, NEW s \in Seq(S), NEW x \in S
  PROVE  /\ DOMAIN Append(s, x) = 1..(Len(s) + 1)
         /\ \A i \in 1..Len(s) : Append(s, x)[i] = s[i]
         /\ Append(s, x)[Len(s) + 1] = x
<1>1. Append(s, x) \in Seq(S) /\ Len(Append(s, x)) = Len(s) + 1
  BY AppendProperties
<1>2. DOMAIN Append(s, x) = 1..(Len(s) + 1)
  BY <1>1
<1> QED
  BY <1>2, AppendProperties

\* A command put on a queue counts one more if it is for evt,
LEMMA MarksAppend ==
  ASSUME NEW S, NEW s \in Seq(S), NEW x \in S, NEW evt
  PROVE  Cardinality(MarksOf(Append(s, x), evt)) = Cardinality(MarksOf(s, evt)) + One(x.evt = evt)
<1> DEFINE b == x.evt = evt
<1>1. MarksOf(Append(s, x), evt) = IF b THEN MarksOf(s, evt) \cup {Len(s) + 1} ELSE MarksOf(s, evt)
  BY AppendIndices, IndexFacts DEF MarksOf
<1>2. b \in BOOLEAN /\ Len(s) \in Nat /\ MarksOf(s, evt) \in SUBSET (1..Len(s))
  BY IndexFacts
<1> HIDE DEF b
<1>3. Cardinality(MarksOf(Append(s, x), evt)) = Cardinality(MarksOf(s, evt)) + One(b)
  BY <1>1, <1>2, OneMoreMark
<1> QED
  BY <1>3 DEF b

\* and so does a result put on the list;
LEMMA AnswersAppend ==
  ASSUME NEW S, NEW s \in Seq(S), NEW x \in S, NEW evt
  PROVE  Cardinality(AnswersOf(Append(s, x), evt))
           = Cardinality(AnswersOf(s, evt)) + One(x.request_api = evt)
<1> DEFINE b == x.request_api = evt
<1>1. AnswersOf(Append(s, x), evt)
        = IF b THEN AnswersOf(s, evt) \cup {Len(s) + 1} ELSE AnswersOf(s, evt)
  BY AppendIndices, IndexFacts DEF AnswersOf
<1>2. b \in BOOLEAN /\ Len(s) \in Nat /\ AnswersOf(s, evt) \in SUBSET (1..Len(s))
  BY IndexFacts
<1> HIDE DEF b
<1>3. Cardinality(AnswersOf(Append(s, x), evt)) = Cardinality(AnswersOf(s, evt)) + One(b)
  BY <1>1, <1>2, OneMoreMark
<1> QED
  BY <1>3 DEF b

\* the command taken from a queue counts one less,
LEMMA MarksTail ==
  ASSUME NEW S, NEW s \in Seq(S), s # <<>>, NEW evt
  PROVE  /\ Tail(s) \in Seq(S) /\ Head(s) \in S
         /\ Cardinality(MarksOf(s, evt)) = Cardinality(MarksOf(Tail(s), evt)) + One(Head(s).evt = evt)
<1> DEFINE n == Len(s)
<1>1. /\ n \in Nat /\ 1 \in 1..n /\ DOMAIN s = 1..n /\ Head(s) = s[1]
      /\ Tail(s) \in Seq(S) /\ Head(s) \in S /\ Len(Tail(s)) = n - 1 /\ DOMAIN Tail(s) = 1..(n - 1)
      /\ \A j \in 1..(n - 1) : Tail(s)[j] = s[j + 1]
  <2>1. n \in Nat /\ n # 0 /\ DOMAIN s = 1..n /\ Head(s) = s[1]
    OBVIOUS
  <2>2. Tail(s) \in Seq(S) /\ Head(s) \in S /\ Len(Tail(s)) = n - 1
    BY HeadTailProperties
  <2>3. DOMAIN Tail(s) = 1..(n - 1)
    BY <2>2
  <2>4. \A j \in 1..(n - 1) : Tail(s)[j] = s[j + 1]
    BY <2>1, <2>2, HeadTailProperties
  <2> QED
    BY <2>1, <2>2, <2>3, <2>4
<1> DEFINE M == MarksOf(s, evt)
           R == MarksOf(Tail(s), evt)
<1>2. \A j \in 1..(n - 1) : j \in R <=> (IF j < 1 THEN j ELSE j + 1) \in M
  BY <1>1 DEF MarksOf
<1>3. M \in SUBSET (1..n) /\ R \in SUBSET (1..(n - 1)) /\ (1 \in M <=> Head(s).evt = evt)
  BY <1>1 DEF MarksOf
<1> HIDE DEF M, R, n
<1>4. Cardinality(M) = IF 1 \in M THEN Cardinality(R) + 1 ELSE Cardinality(R)
  BY <1>1, <1>2, <1>3, OneMarkLess
<1>5. Cardinality(R) \in Nat
  BY <1>1, IndexFacts DEF R
<1> QED
  BY <1>1, <1>3, <1>4, <1>5 DEF M, R, One

\* and so does the result that a caller takes from the middle of the list.
LEMMA WithoutOne ==
  ASSUME NEW S, NEW s \in Seq(S), NEW i \in DOMAIN s, NEW evt
  PROVE  /\ Without(s, i) \in Seq(S)
         /\ Cardinality(AnswersOf(s, evt))
              = Cardinality(AnswersOf(Without(s, i), evt)) + One(s[i].request_api = evt)
<1> DEFINE n == Len(s)
           before == SubSeq(s, 1, i - 1)
           after  == SubSeq(s, i + 1, n)
<1>1. n \in Nat /\ DOMAIN s = 1..n /\ i \in 1..n /\ \A j \in 1..n : s[j] \in S
  OBVIOUS
<1>2. before \in Seq(S) /\ Len(before) = i - 1 /\ \A j \in 1..(i - 1) : before[j] = s[j]
  <2>1. 1 \in Int /\ i - 1 \in Int /\ \A j \in 1..(i - 1) : s[j] \in S
    BY <1>1
  <2>2. /\ before \in Seq(S) /\ Len(before) = IF 1 <= i - 1 THEN (i - 1) - 1 + 1 ELSE 0
        /\ \A j \in 1..((i - 1) - 1 + 1) : before[j] = s[1 + j - 1]
    BY <2>1, SubSeqProperties
  <2>3. Len(before) = i - 1 /\ (i - 1) - 1 + 1 = i - 1
    BY ONLY <1>1, <2>2
  <2>4. \A j \in 1..(i - 1) : before[j] = s[1 + j - 1] /\ 1 + j - 1 = j
    BY ONLY <1>1, <2>2, <2>3
  <2> QED
    BY <2>2, <2>3, <2>4
<1>3. after \in Seq(S) /\ Len(after) = n - i /\ \A j \in 1..(n - i) : after[j] = s[i + j]
  <2>1. i + 1 \in Int /\ n \in Int /\ \A j \in (i + 1)..n : s[j] \in S
    BY <1>1
  <2>2. /\ after \in Seq(S) /\ Len(after) = IF i + 1 <= n THEN n - (i + 1) + 1 ELSE 0
        /\ \A j \in 1..(n - (i + 1) + 1) : after[j] = s[(i + 1) + j - 1]
    BY <2>1, SubSeqProperties
  <2>3. Len(after) = n - i /\ n - (i + 1) + 1 = n - i
    BY ONLY <1>1, <2>2
  <2>4. \A j \in 1..(n - i) : after[j] = s[(i + 1) + j - 1]
    BY ONLY <2>2, <2>3
  <2>5. \A j \in 1..(n - i) : (i + 1) + j - 1 = i + j
    BY ONLY <1>1
  <2> QED
    BY <2>2, <2>3, <2>4, <2>5
<1>4. Without(s, i) = before \o after
  BY DEF Without
<1> HIDE DEF before, after, n
<1>5. /\ Without(s, i) \in Seq(S) /\ Len(Without(s, i)) = n - 1
      /\ \A j \in 1..(n - 1) : Without(s, i)[j] = IF j <= i - 1 THEN before[j] ELSE after[j - (i - 1)]
  <2>1. /\ before \o after \in Seq(S) /\ Len(before \o after) = Len(before) + Len(after)
        /\ \A j \in 1..(Len(before) + Len(after)) :
              (before \o after)[j] = IF j <= Len(before) THEN before[j] ELSE after[j - Len(before)]
    BY <1>2, <1>3, ConcatProperties
  <2>2. Len(before) + Len(after) = n - 1
    BY <1>1, <1>2, <1>3
  <2> QED
    BY <1>2, <1>4, <2>1, <2>2
<1>6. \A j \in 1..(n - 1) : Without(s, i)[j] = s[IF j < i THEN j ELSE j + 1]
  <2> SUFFICES ASSUME NEW j \in 1..(n - 1)
               PROVE  Without(s, i)[j] = s[IF j < i THEN j ELSE j + 1]
    OBVIOUS
  <2>1. CASE j < i
    <3>1. j \in 1..(i - 1) /\ j <= i - 1
      BY <1>1, <2>1
    <3> QED
      BY <1>2, <1>5, <2>1, <3>1
  <2>2. CASE ~(j < i)
    <3>1. j - (i - 1) \in 1..(n - i) /\ ~(j <= i - 1) /\ i + (j - (i - 1)) = j + 1
      BY <1>1, <2>2
    <3> QED
      BY <1>3, <1>5, <2>2, <3>1
  <2> QED
    BY <2>1, <2>2
<1> DEFINE M == AnswersOf(s, evt)
           R == AnswersOf(Without(s, i), evt)
<1>7. DOMAIN Without(s, i) = 1..(n - 1)
  BY <1>5
<1>8. \A j \in 1..(n - 1) : j \in R <=> (IF j < i THEN j ELSE j + 1) \in M
  BY <1>1, <1>6, <1>7 DEF AnswersOf
<1>9. M \in SUBSET (1..n) /\ R \in SUBSET (1..(n - 1)) /\ (i \in M <=> s[i].request_api = evt)
  BY <1>1, <1>7 DEF AnswersOf
<1>0. n \in Nat /\ i \in 1..n
  BY <1>1
<1> HIDE DEF M, R
<1>10. Cardinality(M) = IF i \in M THEN Cardinality(R) + 1 ELSE Cardinality(R)
  BY ONLY <1>0, <1>8, <1>9, OneMarkLess
<1>11. Cardinality(R) \in Nat
  BY <1>5, IndexFacts DEF R
<1> QED
  BY <1>5, <1>9, <1>10, <1>11 DEF M, R, One

-----------------------------------------------------------------------------
(* The invariant, action by action. *)

\* The types and the video channel, an inductive invariant together.
HWIInv == TypeOK /\ VideoIffRecording

\* The invariant is what a handler relies on.
LEMMA InvCtx == HWIInv => Ctx
  BY DEF HWIInv, TypeOK, Ctx

\* Which commands there are, and the events they carry.
LEMMA CommandNames ==
  /\ \A evt \in NoArgOps : Cmd(evt) \in ApiCommand /\ Cmd(evt).evt = evt
  /\ \A cmd \in ApiCommand : cmd.evt \in ApiEvent
  /\ {Cmd("PREP_SNAPSHOT_DONE"), Cmd("READY_FOR_SNAPSHOT"), Cmd("EVT_NOTIFY"),
      Cmd("JPEG_EVT_NOTIFY"), Cmd("SNAPSHOT_DONE")} \subseteq Event
  /\ \A s \in {"SCANNING", "FOCUSED", "NOT_FOCUSED"} : CmdWith("FOCUS_UPDATE", s) \in Event
  /\ {"TAKE_PICTURE", "PREPARE_SNAPSHOT", "CANCEL_PICTURE"} \subseteq NoArgOps
  /\ \A e : Cmd(e).evt = e
<1>1. \A evt \in NoArgOps : Cmd(evt) \in ApiCommand /\ Cmd(evt).evt = evt
  BY DEF Cmd, ApiCommand
<1>2. \A cmd \in ApiCommand : cmd.evt \in ApiEvent
  BY DEF ApiCommand, ApiEvent
<1>3. {Cmd("PREP_SNAPSHOT_DONE"), Cmd("READY_FOR_SNAPSHOT"), Cmd("EVT_NOTIFY"),
      Cmd("JPEG_EVT_NOTIFY"), Cmd("SNAPSHOT_DONE")} \subseteq Event
  BY DEF Cmd, Event
<1>4. \A s \in {"SCANNING", "FOCUSED", "NOT_FOCUSED"} : CmdWith("FOCUS_UPDATE", s) \in Event
  BY DEF CmdWith, Event, FocusState
<1>5. {"TAKE_PICTURE", "PREPARE_SNAPSHOT", "CANCEL_PICTURE"} \subseteq NoArgOps
  BY DEF NoArgOps
<1>6. \A e : Cmd(e).evt = e
  BY DEF Cmd
<1> QED
  BY <1>1, <1>2, <1>3, <1>4, <1>5, <1>6

\* The initial states satisfy it, and no picture is retro-active.
LEMMA InitInv == Init => HWIInv /\ ~dev.bRetroPicture
<1> SUFFICES ASSUME Init PROVE HWIInv /\ ~dev.bRetroPicture
  OBVIOUS
<1>1. OpenedDevice \in Device /\ ~Started(OpenedDevice, "VIDEO") /\ ~OpenedDevice.bRetroPicture
  <2>1. 0 \in 0..MaxLive /\ DefaultZsl \in BOOLEAN
    BY DeviceAssumption
  <2> QED
    BY <2>1 DEF OpenedDevice, Device, ChannelType, ChannelState, HintKey, FocusMode, FocusState,
                Shot, Started
<1>2. m_state = "PREVIEW_STOPPED" /\ dev = OpenedDevice /\ evt_queue = <<>>
      /\ m_apiResultList = <<>> /\ m_evtResult = FALSE
  BY DEF Init, SMInit
<1>4. SMTypeOK
  <2>1. m_state \in State /\ m_evtResult \in BOOLEAN
    BY <1>2 DEF State
  <2>2. evt_queue \in Seq(Event) /\ m_apiResultList \in Seq(Result)
    BY <1>2
  <2> QED
    BY <1>1, <1>2, <2>1, <2>2 DEF SMTypeOK
<1>5. VideoIffRecording /\ ~dev.bRetroPicture
  BY <1>1, <1>2 DEF VideoIffRecording, isRecording
<1>3. TypeOK
  BY <1>4 DEF Init, TypeOK
<1> QED
  BY <1>3, <1>5 DEF HWIInv

\* An action that leaves the machine where it is and the video channel alone.
LEMMA DeviceStep ==
  ASSUME HWIInv, Keeps(dev, dev'), UNCHANGED m_state
  PROVE  dev' \in Device /\ VideoIffRecording' /\ dev'.bRetroPicture = dev.bRetroPicture
  BY DEF HWIInv, Keeps, Same, Tame, Modes, VideoIffRecording, isRecording

\* A new command keeps the types of the queue and of the caller.
LEMMA IssueTypes ==
  ASSUME HWIInv, NEW c \in Clients, NEW cmd \in ApiCommand, Issue(c, cmd)
  PROVE  /\ api_queue' \in Seq(ApiCommand \cup {StopCaptureCommand})
         /\ awaits' \in [Clients -> ApiEvent \cup {"none"}]
<1>1. cmd.evt \in ApiEvent
  BY CommandNames
<1>2. awaits' \in [Clients -> ApiEvent \cup {"none"}]
  BY <1>1 DEF Issue, HWIInv, TypeOK
<1> QED
  BY <1>2, AppendProperties DEF Issue, HWIInv, TypeOK

\* Each action of a caller keeps the invariant: a call,
LEMMA CallInv ==
  ASSUME HWIInv, NEW c \in Clients, Call(c)
  PROVE  HWIInv' /\ dev' = dev
<1>1. PICK cmd \in Calls : Issue(c, cmd)
  BY DEF Call
<1>2. /\ api_queue' \in Seq(ApiCommand \cup {StopCaptureCommand})
      /\ awaits' \in [Clients -> ApiEvent \cup {"none"}]
  BY <1>1, HWIAssumption, IssueTypes
<1> QED
  BY <1>2 DEF Call, HWIInv, TypeOK, SMTypeOK, VideoIffRecording, isRecording, smVars

\* take_picture(), which writes the retro flag before its command is queued,
LEMMA TakePictureCallInv ==
  ASSUME HWIInv, NEW c \in Clients, TakePictureCall(c)
  PROVE  HWIInv' /\ (~RetroSnapshots => ~dev'.bRetroPicture)
<1>1. dev' = [dev EXCEPT !.bRetroPicture = IsRetro] /\ IsRetro \in BOOLEAN
      /\ (~RetroSnapshots => ~IsRetro)
  BY DEF TakePictureCall, IsRetro
<1>2. /\ dev' \in Device /\ dev'.bRetroPicture = IsRetro
      /\ Started(dev', "VIDEO") <=> Started(dev, "VIDEO")
  BY <1>1 DEF HWIInv, TypeOK, SMTypeOK, Device, Started
<1>3. PICK evt \in {"TAKE_PICTURE", "PREPARE_SNAPSHOT"},
           after \in {"TAKE_PICTURE", "PREPARE_SNAPSHOT", "none"} :
             Issue(c, Cmd(evt)) /\ followUp' = [followUp EXCEPT ![c] = after]
  BY DEF TakePictureCall
<1>4. Cmd(evt) \in ApiCommand
  BY CommandNames
<1>5. /\ api_queue' \in Seq(ApiCommand \cup {StopCaptureCommand})
      /\ awaits' \in [Clients -> ApiEvent \cup {"none"}]
  BY <1>3, <1>4, IssueTypes
<1>6. followUp' \in [Clients -> {"TAKE_PICTURE", "PREPARE_SNAPSHOT", "none"}]
  BY <1>3 DEF HWIInv, TypeOK
<1>7. UNCHANGED <<m_state, evt_queue, m_apiResultList, m_evtResult, smCmd, notifier, daemon>>
  BY DEF TakePictureCall
<1>8. TypeOK' /\ VideoIffRecording'
  BY <1>2, <1>5, <1>6, <1>7 DEF HWIInv, TypeOK, SMTypeOK, VideoIffRecording, isRecording
<1> QED
  BY <1>1, <1>2, <1>8 DEF HWIInv

\* The first result of evt is there if any is, since indices are well founded.
LEMMA FirstResultIndex ==
  ASSUME NEW evt, HasResult(evt), m_apiResultList \in Seq(Result)
  PROVE  /\ FirstResult(evt) \in DOMAIN m_apiResultList
         /\ m_apiResultList[FirstResult(evt)].request_api = evt
<1> DEFINE I == {i \in DOMAIN m_apiResultList : m_apiResultList[i].request_api = evt}
<1>1. I # {} /\ I \in SUBSET Nat
  BY DEF HasResult
<1> HIDE DEF I
<1>2. PICK i \in I : \A j \in I : i <= j
  <2>1. PICK i \in I : \A j \in I : ~(<<j, i>> \in OpToRel(<, Nat))
    BY <1>1, NatLessThanWellFounded, WFMin
  <2>2. ASSUME NEW j \in I, ~(i <= j)
        PROVE  FALSE
    <3>1. OpToRel(<, Nat) = {ss \in Nat \X Nat : ss[1] < ss[2]}
      BY DEF OpToRel
    <3>2. <<j, i>> \in {ss \in Nat \X Nat : ss[1] < ss[2]}
      BY <1>1, <2>2
    <3> QED
      BY <2>1, <3>1, <3>2
  <2> QED
    BY <2>2
<1> USE DEF I
<1>3. \A j \in 1..(i - 1) : m_apiResultList[j].request_api # evt
  <2> SUFFICES ASSUME NEW j \in 1..(i - 1) PROVE j \notin I /\ j \in DOMAIN m_apiResultList
    OBVIOUS
  <2>1. i \in 1..Len(m_apiResultList) /\ Len(m_apiResultList) \in Nat
    OBVIOUS
  <2> QED
    BY <1>2, <2>1
<1> QED
  BY <1>3 DEF FirstResult

\* and a caller that takes its answer.
LEMMA ReturnInv ==
  ASSUME HWIInv, NEW c \in Clients, Return(c)
  PROVE  HWIInv' /\ dev' = dev
<1>1. m_apiResultList \in Seq(Result) /\ HasResult(awaits[c])
  BY DEF HWIInv, TypeOK, SMTypeOK, Return
<1>2. m_apiResultList' \in Seq(Result)
  BY <1>1, FirstResultIndex, WithoutOne DEF Return
<1>3. followUp' \in [Clients -> {"TAKE_PICTURE", "PREPARE_SNAPSHOT", "none"}]
  BY DEF Return, HWIInv, TypeOK
<1>4. /\ api_queue' \in Seq(ApiCommand \cup {StopCaptureCommand})
      /\ awaits' \in [Clients -> ApiEvent \cup {"none"}]
  <2>1. CASE followUp[c] = "none"
    BY <2>1 DEF Return, HWIInv, TypeOK
  <2>2. CASE followUp[c] # "none"
    <3>1. Cmd(followUp[c]) \in ApiCommand /\ Issue(c, Cmd(followUp[c]))
      BY <2>2, CommandNames DEF Return, HWIInv, TypeOK
    <3> QED
      BY <3>1, IssueTypes
  <2> QED
    BY <2>1, <2>2
<1>5. UNCHANGED <<m_state, dev, evt_queue, m_evtResult, smCmd, notifier, daemon>>
  BY DEF Return
<1> QED
  BY <1>2, <1>3, <1>4, <1>5 DEF HWIInv, TypeOK, SMTypeOK, VideoIffRecording, isRecording

\* So do the steps of the machine's thread, which takes a command
LEMMA DequeueInv ==
  ASSUME HWIInv, Dequeue
  PROVE  HWIInv' /\ dev' = dev
<1>1. /\ api_queue \in Seq(ApiCommand \cup {StopCaptureCommand}) /\ evt_queue \in Seq(Event)
  BY DEF HWIInv, TypeOK, SMTypeOK
<1>2. /\ api_queue' \in Seq(ApiCommand \cup {StopCaptureCommand}) /\ evt_queue' \in Seq(Event)
      /\ smCmd' \in Command
  <2>1. CASE api_queue # <<>>
    BY <1>1, <2>1, HeadTailProperties DEF Dequeue, Command
  <2>2. CASE api_queue = <<>>
    BY <1>1, <2>2, HeadTailProperties DEF Dequeue, Command
  <2> QED
    BY <2>1, <2>2
<1>3. UNCHANGED <<m_state, dev, m_apiResultList, m_evtResult, awaits, followUp, notifier, daemon>>
  BY DEF Dequeue
<1> QED
  BY <1>2, <1>3 DEF HWIInv, TypeOK, SMTypeOK, VideoIffRecording, isRecording

\* and handles it: that a handler keeps its contract is all that is used of it.
LEMMA HandleInv ==
  ASSUME HWIInv, Handle
  PROVE  HWIInv' /\ dev'.bRetroPicture = dev.bRetroPicture
<1>0. Ctx /\ evt_queue \in Seq(Event) /\ m_apiResultList \in Seq(Result)
  BY InvCtx DEF HWIInv, TypeOK, SMTypeOK
<1>1. /\ m_state' \in State /\ Same(dev, dev') /\ (Started(dev', "VIDEO") <=> m_state' \in Recording)
      /\ evt_queue' \in Seq(Event) /\ m_apiResultList' \in Seq(Result) /\ m_evtResult' \in BOOLEAN
      /\ smCmd' \in {NoCmd, Hung}
  <2>1. CASE stateMachine(smCmd) /\ smCmd' = NoCmd
    <3>1. Contract(smCmd)
      BY <1>0, <2>1, HandlerContract DEF Handle
    <3>2. evt_queue' \in Seq(Event)
      <4>1. Cmd("SNAPSHOT_DONE") \in Event
        BY CommandNames
      <4>2. Append(evt_queue, Cmd("SNAPSHOT_DONE")) \in Seq(Event)
        BY <1>0, <4>1, AppendProperties
      <4> QED
        BY <1>0, <3>1, <4>2 DEF Contract
    <3>3. m_apiResultList' \in Seq(Result)
      BY <1>0, <3>1, AppendProperties DEF Contract, Silent
    <3> QED
      BY <2>1, <3>1, <3>2, <3>3 DEF Contract, Fit
  <2>2. CASE TakePictureStuck(smCmd) /\ smCmd' = Hung
    BY <1>0, <2>2, StuckContract DEF Silent, Fit
  <2> QED
    BY <2>1, <2>2 DEF Handle
<1>2. UNCHANGED <<api_queue, awaits, followUp, notifier, daemon>>
  BY DEF Handle
<1> QED
  BY <1>1, <1>2 DEF HWIInv, TypeOK, SMTypeOK, VideoIffRecording, isRecording, Recording, Same, Tame, Modes

\* What a thread other than the callers and the state machine may do: change
\* the device but not its video channel, and post one command or event.
Background ==
    /\ Keeps(dev, dev')
    /\ UNCHANGED <<m_state, m_apiResultList, smCmd, awaits, followUp>>
    /\ m_evtResult' \in BOOLEAN /\ daemon' \in BOOLEAN
    /\ notifier' \in {"idle", "sending", "waiting"}
    /\ \/ UNCHANGED <<api_queue, evt_queue>>
       \/ /\ api_queue' \in {Append(api_queue, StopCaptureCommand),
                             Append(api_queue, Cmd("CANCEL_PICTURE"))}
          /\ UNCHANGED evt_queue
       \/ /\ \E e \in Event : evt_queue' = Append(evt_queue, e)
          /\ UNCHANGED api_queue

\* The steps of those threads, and of the camera and jpeg stacks.
Helpers ==
    \/ ReprocJobRuns \/ LiveSnapshotRuns
    \/ DeliverPicture \/ PostSnapshotDone \/ SnapshotDoneReturns
    \/ Stack \/ DaemonDies

\* HWIInv, unfolded.
LEMMA InvFacts ==
  ASSUME HWIInv
  PROVE  /\ dev \in Device /\ Keeps(dev, dev) /\ m_evtResult \in BOOLEAN /\ daemon \in BOOLEAN
         /\ notifier \in {"idle", "sending", "waiting"}
  BY DEF HWIInv, TypeOK, SMTypeOK, Keeps, Same, Tame, Modes

\* The device updates of the stacks and workers keep video alone.
LEMMA DeviceUpdates ==
  ASSUME NEW d \in Device
  PROVE  /\ \A s \in Shot : Keeps(d, [d EXCEPT !.shot = s])
         /\ \A b \in BOOLEAN : Keeps(d, [d EXCEPT !.preparing = b])
         /\ \A b \in BOOLEAN : Keeps(d, [d EXCEPT !.retroReady = b])
         /\ \A l \in {"idle", "scanning", "cancelling"} : Keeps(d, [d EXCEPT !.lens = l])
  BY DEF Keeps, Same, Tame, Modes, Device, Started

\* Each of them is such a step: a deferred job and a live snapshot thread,
LEMMA WorkersBackground ==
  ASSUME HWIInv, ReprocJobRuns \/ LiveSnapshotRuns
  PROVE  Background
<1>1. CASE ReprocJobRuns
  <2>1. PICK o \in RunReprocJob(dev) : dev' = o.dev /\ dev.reprocJobs > 0
    BY <1>1 DEF ReprocJobRuns
  <2>2. Keeps(dev, dev')
    BY <2>1, InvFacts, RunReprocJobKeeps DEF AllKeep
  <2> QED
    BY <1>1, <2>2, InvFacts DEF ReprocJobRuns, Background
<1>2. CASE LiveSnapshotRuns
  <2>1. PICK t \in dev.liveThreads : \E o \in RunLiveSnapshot(dev, t) :
          /\ dev' = o.dev
          /\ api_queue' = IF o.ok THEN api_queue ELSE Append(api_queue, Cmd("CANCEL_PICTURE"))
    BY <1>2 DEF LiveSnapshotRuns
  <2>2. Keeps(dev, dev')
    BY <2>1, InvFacts, LiveSnapshotKeeps DEF AllKeep
  <2> QED
    BY <1>2, <2>1, <2>2, InvFacts DEF LiveSnapshotRuns, Background
<1> QED
  BY <1>1, <1>2

\* the callback thread,
LEMMA CallbacksBackground ==
  ASSUME HWIInv, DeliverPicture \/ PostSnapshotDone \/ SnapshotDoneReturns
  PROVE  Background
<1>1. CASE DeliverPicture
  <2>1. Keeps(dev, dev')
    <3>1. "armed" \in Shot /\ "done" \in Shot
      BY DEF Shot
    <3> QED
      BY <1>1, <3>1, InvFacts, DeviceUpdates DEF DeliverPicture
  <2> QED
    BY <1>1, <2>1, InvFacts DEF DeliverPicture, Background
<1>2. CASE PostSnapshotDone
  <2>1. Cmd("SNAPSHOT_DONE") \in Event
    BY CommandNames
  <2>2. dev' = dev
    BY <1>2 DEF PostSnapshotDone
  <2> QED
    BY <1>2, <2>1, <2>2, InvFacts DEF PostSnapshotDone, Background
<1>3. CASE SnapshotDoneReturns
  <2>1. dev' = dev
    BY <1>3 DEF SnapshotDoneReturns, smVars
  <2> QED
    BY <1>3, <2>1, InvFacts DEF SnapshotDoneReturns, smVars, Background
<1> QED
  BY <1>1, <1>2, <1>3

\* the stacks and the death of the daemon.
LEMMA StackBackground ==
  ASSUME HWIInv, Stack \/ DaemonDies
  PROVE  Background
<1> USE DEF UnchangedByStack, Background, PostEvt
<1>1. CASE LensReports
  <2>1. PICK s \in {"SCANNING", "FOCUSED", "NOT_FOCUSED"} :
          /\ evt_queue' = Append(evt_queue, CmdWith("FOCUS_UPDATE", s))
          /\ dev' = [dev EXCEPT !.lens = IF s = "SCANNING" THEN @ ELSE "idle"]
    BY <1>1 DEF LensReports
  <2>2. CmdWith("FOCUS_UPDATE", s) \in Event
    BY CommandNames
  <2>3. Keeps(dev, dev')
    BY <2>1, InvFacts DEF Keeps, Same, Tame, Modes, Device, Started
  <2> QED
    BY <1>1, <2>1, <2>2, <2>3, InvFacts DEF LensReports
<1>2. CASE PrepareDone
  BY <1>2, CommandNames, InvFacts, DeviceUpdates DEF PrepareDone
<1>3. CASE RetroFramesReady
  BY <1>3, CommandNames, InvFacts, DeviceUpdates DEF RetroFramesReady
<1>4. CASE FrameArrives
  <2>1. Keeps(dev, dev')
    <3>1. "frame" \in Shot
      BY DEF Shot
    <3> QED
      BY <1>4, <3>1, InvFacts, DeviceUpdates DEF FrameArrives
  <2> QED
    BY <1>4, <2>1, InvFacts DEF FrameArrives
<1>5. CASE JpegDone
  <2>1. Keeps(dev, dev')
    <3>1. "ready" \in Shot /\ "encoded" \in Shot
      BY DEF Shot
    <3> QED
      BY <1>5, <3>1, InvFacts, DeviceUpdates DEF JpegDone
  <2>2. Cmd("JPEG_EVT_NOTIFY") \in Event
    BY CommandNames
  <2> QED
    BY <1>5, <2>1, <2>2, InvFacts DEF JpegDone
<1>6. CASE DaemonDies
  <2>1. Cmd("EVT_NOTIFY") \in Event
    BY CommandNames
  <2>2. dev' = dev
    BY <1>6 DEF DaemonDies
  <2> QED
    BY <1>6, <2>1, <2>2, InvFacts DEF DaemonDies
<1> QED
  BY <1>1, <1>2, <1>3, <1>4, <1>5, <1>6 DEF Stack

\* So they all are.
LEMMA HelpersBackground == HWIInv /\ Helpers => Background
  BY WorkersBackground, CallbacksBackground, StackBackground DEF Helpers

\* The steps of the system: a caller's, the machine's, another thread's.
LEMMA NextSplits ==
  ASSUME [Next]_vars
  PROVE  \/ \E c \in Clients : Call(c) \/ TakePictureCall(c) \/ Return(c)
         \/ Dequeue \/ Handle \/ Helpers \/ UNCHANGED vars
  BY DEF Next, Machine, Helpers

\* Such a step keeps the invariant.
LEMMA BackgroundInv ==
  ASSUME HWIInv, Background
  PROVE  HWIInv' /\ dev'.bRetroPicture = dev.bRetroPicture
<1>1. dev' \in Device /\ VideoIffRecording' /\ dev'.bRetroPicture = dev.bRetroPicture
  BY DeviceStep DEF Background
<1>2. /\ api_queue \in Seq(ApiCommand \cup {StopCaptureCommand}) /\ evt_queue \in Seq(Event)
  BY DEF HWIInv, TypeOK, SMTypeOK
<1>3. api_queue' \in Seq(ApiCommand \cup {StopCaptureCommand})
  <2>1. Cmd("CANCEL_PICTURE") \in ApiCommand
    BY CommandNames
  <2>2. /\ Append(api_queue, StopCaptureCommand) \in Seq(ApiCommand \cup {StopCaptureCommand})
        /\ Append(api_queue, Cmd("CANCEL_PICTURE")) \in Seq(ApiCommand \cup {StopCaptureCommand})
    BY ONLY <1>2, <2>1, AppendProperties
  <2> QED
    BY <1>2, <2>2 DEF Background
<1>4. evt_queue' \in Seq(Event)
  BY <1>2, AppendProperties DEF Background
<1> QED
  BY <1>1, <1>3, <1>4 DEF HWIInv, TypeOK, SMTypeOK, Background

\* Every step keeps the invariant; the retro flag stays off if no one asks for it.
LEMMA NextInv ==
  ASSUME HWIInv, [Next]_vars
  PROVE  HWIInv' /\ (~RetroSnapshots /\ ~dev.bRetroPicture => ~dev'.bRetroPicture)
<1>1. ASSUME NEW c \in Clients, Call(c) \/ TakePictureCall(c) \/ Return(c)
      PROVE  HWIInv' /\ (~RetroSnapshots /\ ~dev.bRetroPicture => ~dev'.bRetroPicture)
  BY <1>1, CallInv, TakePictureCallInv, ReturnInv
<1>2. CASE Dequeue \/ Handle
  BY <1>2, DequeueInv, HandleInv
<1>3. CASE Helpers
  BY <1>3, HelpersBackground, BackgroundInv
<1>4. CASE UNCHANGED vars
  BY <1>4 DEF vars, smVars, HWIInv, TypeOK, SMTypeOK, VideoIffRecording, isRecording
<1> QED
  BY <1>1, <1>2, <1>3, <1>4, NextSplits

\* The invariant holds in every reachable state.
LEMMA InvAlways == Spec => []HWIInv
<1>1. Init => HWIInv
  BY InitInv
<1>2. HWIInv /\ [Next]_vars => HWIInv'
  BY NextInv
<1> QED
  BY <1>1, <1>2, PTL DEF Spec

\* Every variable of the composed system keeps its type: no handler, in any
\* state, builds a device or a result outside of them.
THEOREM TypeCorrect == Spec => []TypeOK
<1>1. HWIInv => TypeOK
  BY DEF HWIInv
<1> QED
  BY <1>1, InvAlways, PTL

\* The video channel streams exactly while the machine says it records,
\* whatever path led into recording or out of it.
THEOREM VideoCorrect == Spec => []VideoIffRecording
<1>1. HWIInv => VideoIffRecording
  BY DEF HWIInv
<1> QED
  BY <1>1, InvAlways, PTL

\* The two values of smCmd that are no command are told from every command.
LEMMA CommandsApart ==
  /\ NoCmd \notin Command /\ Hung \notin Command /\ NoCmd # Hung /\ NoCmd # Cmd("TAKE_PICTURE")
  /\ \A cmd \in Command : cmd.evt = "TAKE_PICTURE" => cmd = Cmd("TAKE_PICTURE")
<1>1. NoCmd # Hung /\ NoCmd # Cmd("TAKE_PICTURE")
  BY DEF NoCmd, Hung, Cmd
<1>2. \A cmd \in Command : cmd.evt \notin {"none", "hung"}
  BY DEF Command, ApiCommand, Event, StopCaptureCommand, Cmd, NoArgOps, PlainOps
<1>3. NoCmd.evt = "none" /\ Hung.evt = "hung"
  BY DEF NoCmd, Hung, Cmd
<1>4. \A cmd \in Command : cmd.evt = "TAKE_PICTURE" => cmd = Cmd("TAKE_PICTURE")
  BY DEF Command, ApiCommand, Event, StopCaptureCommand, Cmd, NoArgOps, PlainOps
<1> QED
  BY <1>1, <1>2, <1>3, <1>4

\* Each step of the system is a step of CommandQueues or leaves it alone.
LEMMA StepQueues ==
  ASSUME HWIInv, [Next]_vars
  PROVE  [Q!Next]_(Q!vars)
<1> USE DEF Q!vars, Q!Next, Q!PostApi, Q!PostEvt, Q!Take, Q!Finish
<1>1. ASSUME NEW c \in Clients, Call(c) \/ TakePictureCall(c) \/ Return(c)
      PROVE  [Q!Next]_(Q!vars)
  <2>1. smCmd' = smCmd /\ evt_queue' = evt_queue
    BY <1>1 DEF Call, TakePictureCall, Return, smVars
  <2>2. api_queue' = api_queue \/ \E cmd \in ApiCommand : api_queue' = Append(api_queue, cmd)
    <3>1. CASE Call(c)
      BY <3>1, HWIAssumption DEF Call, Issue
    <3>2. CASE TakePictureCall(c)
      <4>1. Cmd("TAKE_PICTURE") \in ApiCommand /\ Cmd("PREPARE_SNAPSHOT") \in ApiCommand
        BY CommandNames
      <4> QED
        BY <3>2, <4>1 DEF TakePictureCall, Issue
    <3>3. CASE Return(c)
      <4>1. followUp[c] # "none" => Cmd(followUp[c]) \in ApiCommand
        BY CommandNames DEF HWIInv, TypeOK
      <4> QED
        BY <3>3, <4>1 DEF Return, Issue
    <3> QED
      BY <1>1, <3>1, <3>2, <3>3
  <2> QED
    BY <2>1, <2>2
<1>2. CASE Dequeue
  <2>1. smCmd' \in Command
    BY <1>2, HeadTailProperties DEF Dequeue, Command, HWIInv, TypeOK, SMTypeOK
  <2>2. smCmd = NoCmd /\ smCmd' # Hung /\ smCmd # Hung
    BY <1>2, <2>1, CommandsApart DEF Dequeue
  <2> QED
    BY <1>2, <2>2 DEF Dequeue
<1>3. CASE Handle
  <2>1. smCmd \in Command /\ smCmd # Hung /\ smCmd # NoCmd /\ NoCmd # Hung /\ api_queue' = api_queue
    BY <1>3, CommandsApart DEF Handle
  <2>2. CASE stateMachine(smCmd) /\ smCmd' = NoCmd
    <3>1. Contract(smCmd)
      BY <2>1, <2>2, InvCtx, HandlerContract
    <3>2. evt_queue' = evt_queue \/ \E cmd \in Event : evt_queue' = Append(evt_queue, cmd)
      BY <3>1, CommandNames DEF Contract
    <3> QED
      BY <2>1, <2>2, <3>2
  <2>3. CASE TakePictureStuck(smCmd) /\ smCmd' = Hung
    <3>1. smCmd.evt = "TAKE_PICTURE" /\ evt_queue' = evt_queue
      BY <2>3, InvCtx, StuckContract
    <3>2. smCmd = Cmd("TAKE_PICTURE")
      BY <2>1, <3>1, CommandsApart
    <3> QED
      BY <2>1, <2>3, <3>1, <3>2
  <2> QED
    BY <1>3, <2>2, <2>3 DEF Handle
<1>4. CASE Helpers
  <2>1. Background
    BY <1>4, HelpersBackground
  <2>2. Cmd("CANCEL_PICTURE") \in ApiCommand
    BY CommandNames
  <2> QED
    BY <2>1, <2>2 DEF Background
<1>5. CASE UNCHANGED vars
  BY <1>5 DEF vars, smVars
<1> QED
  BY <1>1, <1>2, <1>3, <1>4, <1>5, NextSplits

\* The composed system goes through its queues as CommandQueues says: no
\* command is lost, handled twice, or handled out of turn.
THEOREM ImplementsCommandQueues == Spec => QueuesSpec
<1>1. Init => Q!Init
  BY CommandsApart DEF Init, SMInit, Q!Init
<1>2. HWIInv /\ [Next]_vars => [Q!Next]_(Q!vars)
  BY StepQueues
<1> QED
  BY <1>1, <1>2, InvAlways, PTL DEF Spec, QueuesSpec, Q!Spec

-----------------------------------------------------------------------------
(* Every answer has its caller. *)

\* The callers of evt.
Waiting(w, evt) == {c \in Clients : w[c] = evt}

\* The machine's thread has evt in hand, or hangs on it.
Handling(evt) == smCmd.evt = evt \/ (smCmd = Hung /\ evt = "TAKE_PICTURE")

\* The answer for evt waits for the flash.
PutOff(evt) == evt = "PREPARE_SNAPSHOT" /\ m_state = "PREPARE_SNAPSHOT"

\* What is in progress for evt, part by part,
LEMMA InProgressSum ==
  ASSUME NEW evt
  PROVE  InProgress(evt) = Cardinality(MarksOf(api_queue, evt)) + One(Handling(evt))
                             + Cardinality(AnswersOf(m_apiResultList, evt)) + One(PutOff(evt))
  BY DEF InProgress, CountSeq, MarksOf, AnswersOf, One, Handling, PutOff

\* and after the step.
LEMMA InProgressSumPrimed ==
  ASSUME NEW evt
  PROVE  InProgress(evt)' = Cardinality(MarksOf(api_queue', evt)) + One(Handling(evt)')
                             + Cardinality(AnswersOf(m_apiResultList', evt)) + One(PutOff(evt)')
  BY DEF InProgress, CountSeq, MarksOf, AnswersOf, One, Handling, PutOff

\* One(b) is a natural number.
LEMMA OneType == \A b : One(b) \in Nat
  BY DEF One

\* The callers of an event are finitely many.
LEMMA WaitingType ==
  ASSUME IsFiniteSet(Clients), NEW w, NEW evt
  PROVE  IsFiniteSet(Waiting(w, evt)) /\ Cardinality(Waiting(w, evt)) \in Nat
<1>1. Waiting(w, evt) \in SUBSET Clients
  BY DEF Waiting
<1> QED
  BY <1>1, FS_Subset, FS_CardinalityType

\* One caller changes what it waits for: it joins those that wait for an
\* event, or leaves them, or neither.
LEMMA WaitingMore ==
  ASSUME IsFiniteSet(Clients), NEW c \in Clients, NEW evt,
         awaits \in [Clients -> ApiEvent \cup {"none"}], awaits' = [awaits EXCEPT ![c] = evt],
         awaits[c] # evt
  PROVE  Cardinality(Waiting(awaits', evt)) = Cardinality(Waiting(awaits, evt)) + 1
<1>1. c \notin Waiting(awaits, evt) /\ Waiting(awaits', evt) = Waiting(awaits, evt) \cup {c}
  BY DEF Waiting
<1>2. IsFiniteSet(Waiting(awaits, evt))
  BY WaitingType
<1> QED
  BY <1>1, <1>2, FS_AddElement

\* It leaves them.
LEMMA WaitingLess ==
  ASSUME IsFiniteSet(Clients), NEW c \in Clients, NEW new, NEW evt,
         awaits \in [Clients -> ApiEvent \cup {"none"}], awaits' = [awaits EXCEPT ![c] = new],
         awaits[c] = evt, new # evt
  PROVE  Cardinality(Waiting(awaits', evt)) + 1 = Cardinality(Waiting(awaits, evt))
<1>1. /\ c \notin Waiting(awaits', evt)
      /\ Waiting(awaits, evt) = Waiting(awaits', evt) \cup {c}
  BY DEF Waiting
<1>2. IsFiniteSet(Waiting(awaits', evt))
  BY WaitingType
<1>3. Cardinality(Waiting(awaits', evt)) \in Nat
  BY WaitingType
<1>4. Cardinality(Waiting(awaits', evt) \cup {c}) = Cardinality(Waiting(awaits', evt)) + 1
  BY <1>1, <1>2, FS_AddElement
<1> QED
  BY <1>1, <1>3, <1>4

\* It does neither.
LEMMA WaitingSame ==
  ASSUME NEW c \in Clients, NEW new, NEW evt,
         awaits \in [Clients -> ApiEvent \cup {"none"}], awaits' = [awaits EXCEPT ![c] = new],
         awaits[c] = evt <=> new = evt
  PROVE  Cardinality(Waiting(awaits', evt)) = Cardinality(Waiting(awaits, evt))
<1>1. Waiting(awaits', evt) = Waiting(awaits, evt)
  BY DEF Waiting
<1> QED
  BY <1>1

\* A caller that waited for one event and now waits for `new`, in the count.
Moved(c, new, evt) ==
    /\ Cardinality(Waiting(awaits, evt)) \in Nat /\ Cardinality(Waiting(awaits', evt)) \in Nat
    /\ Cardinality(Waiting(awaits', evt)) + One(awaits[c] = evt)
         = Cardinality(Waiting(awaits, evt)) + One(new = evt)

\* The three cases together.
LEMMA AwaitsMoved ==
  ASSUME IsFiniteSet(Clients), NEW c \in Clients, NEW new, NEW evt,
         awaits \in [Clients -> ApiEvent \cup {"none"}], awaits' = [awaits EXCEPT ![c] = new]
  PROVE  Moved(c, new, evt)
<1>1. Cardinality(Waiting(awaits, evt)) \in Nat /\ Cardinality(Waiting(awaits', evt)) \in Nat
  BY WaitingType
<1>2. CASE awaits[c] # evt /\ new = evt
  <2>1. Cardinality(Waiting(awaits', evt)) = Cardinality(Waiting(awaits, evt)) + 1
    BY <1>2, WaitingMore
  <2> QED
    BY <1>1, <1>2, <2>1 DEF Moved, One
<1>3. CASE awaits[c] = evt /\ new # evt
  <2>1. Cardinality(Waiting(awaits', evt)) + 1 = Cardinality(Waiting(awaits, evt))
    BY <1>3, WaitingLess
  <2> QED
    BY <1>1, <1>3, <2>1 DEF Moved, One
<1>4. CASE awaits[c] = evt <=> new = evt
  <2>1. Cardinality(Waiting(awaits', evt)) = Cardinality(Waiting(awaits, evt))
    BY <1>4, WaitingSame
  <2> QED
    BY <1>1, <1>4, <2>1 DEF Moved, One
<1> QED
  BY <1>2, <1>3, <1>4

\* The types of what is counted.
LEMMA CountTypes ==
  ASSUME HWIInv, NEW evt
  PROVE  /\ api_queue \in Seq(ApiCommand \cup {StopCaptureCommand})
         /\ evt_queue \in Seq(Event) /\ m_apiResultList \in Seq(Result)
         /\ awaits \in [Clients -> ApiEvent \cup {"none"}]
         /\ followUp \in [Clients -> {"TAKE_PICTURE", "PREPARE_SNAPSHOT", "none"}]
         /\ Cardinality(MarksOf(api_queue, evt)) \in Nat
         /\ Cardinality(AnswersOf(m_apiResultList, evt)) \in Nat
<1>1. /\ api_queue \in Seq(ApiCommand \cup {StopCaptureCommand})
      /\ evt_queue \in Seq(Event) /\ m_apiResultList \in Seq(Result)
      /\ awaits \in [Clients -> ApiEvent \cup {"none"}]
      /\ followUp \in [Clients -> {"TAKE_PICTURE", "PREPARE_SNAPSHOT", "none"}]
  BY DEF HWIInv, TypeOK, SMTypeOK
<1> QED
  BY <1>1, IndexFacts

\* What one step does to the callers of an event and to what is in progress
\* for it.
Balanced(evt) ==
    \/ Cardinality(Waiting(awaits', evt)) + InProgress(evt) = Cardinality(Waiting(awaits, evt)) + InProgress(evt)'
    \/ /\ evt = "CANCEL_PICTURE"
       /\ Cardinality(Waiting(awaits', evt)) = Cardinality(Waiting(awaits, evt))
       /\ InProgress(evt)' = InProgress(evt) + 1

\* A new command: one caller more, one command more.
LEMMA IssueMarks ==
  ASSUME HWIInv, NEW c, NEW cmd \in ApiCommand, NEW evt, Issue(c, cmd)
  PROVE  Cardinality(MarksOf(api_queue', evt))
           = Cardinality(MarksOf(api_queue, evt)) + One(cmd.evt = evt)
<1>1. api_queue \in Seq(ApiCommand \cup {StopCaptureCommand})
  BY CountTypes
<1>2. api_queue' = Append(api_queue, cmd) /\ cmd \in ApiCommand \cup {StopCaptureCommand}
  BY DEF Issue
<1> QED
  BY <1>1, <1>2, MarksAppend

\* Every step balances callers and commands in progress: a new call, ...
LEMMA CallBalanced ==
  ASSUME HWIInv, IsFiniteSet(Clients), NEW evt \in Owed, NEW c \in Clients,
         Call(c) \/ TakePictureCall(c)
  PROVE  Balanced(evt)
<1>1. PICK cmd \in ApiCommand : Issue(c, cmd)
  <2>1. Cmd("TAKE_PICTURE") \in ApiCommand /\ Cmd("PREPARE_SNAPSHOT") \in ApiCommand
    BY CommandNames
  <2> QED
    BY <2>1, HWIAssumption DEF Call, TakePictureCall
<1>2. /\ awaits[c] = "none" /\ awaits' = [awaits EXCEPT ![c] = cmd.evt]
      /\ UNCHANGED <<m_state, m_apiResultList, smCmd>>
  BY <1>1 DEF Call, TakePictureCall, CanCall, Issue, smVars
<1>3. One("none" = evt) = 0
  BY DEF One, Owed, ApiEvent, NoArgOps, PlainOps
<1>4. /\ Cardinality(Waiting(awaits, evt)) \in Nat /\ Cardinality(Waiting(awaits', evt)) \in Nat
      /\ Cardinality(Waiting(awaits', evt)) + One("none" = evt)
           = Cardinality(Waiting(awaits, evt)) + One(cmd.evt = evt)
  <2>1. awaits \in [Clients -> ApiEvent \cup {"none"}]
    BY CountTypes
  <2>2. /\ Cardinality(Waiting(awaits, evt)) \in Nat /\ Cardinality(Waiting(awaits', evt)) \in Nat
        /\ Cardinality(Waiting(awaits', evt)) + One(awaits[c] = evt)
             = Cardinality(Waiting(awaits, evt)) + One(cmd.evt = evt)
    <3>1. Moved(c, cmd.evt, evt)
      BY <1>2, <2>1, AwaitsMoved
    <3> QED
      BY <3>1 DEF Moved
  <2> QED
    BY <1>2, <2>2
<1>5. Cardinality(MarksOf(api_queue', evt))
        = Cardinality(MarksOf(api_queue, evt)) + One(cmd.evt = evt)
  BY <1>1, IssueMarks
<1>6. (Handling(evt)' <=> Handling(evt)) /\ (PutOff(evt)' <=> PutOff(evt))
  BY <1>2 DEF Handling, PutOff
<1>7. One(Handling(evt)') = One(Handling(evt)) /\ One(PutOff(evt)') = One(PutOff(evt))
  BY <1>6 DEF One
<1>8. InProgress(evt)' = InProgress(evt) + One(cmd.evt = evt)
      /\ InProgress(evt) \in Nat /\ One(cmd.evt = evt) \in Nat
  <2>1. /\ Cardinality(MarksOf(api_queue, evt)) \in Nat
        /\ Cardinality(AnswersOf(m_apiResultList, evt)) \in Nat
    BY CountTypes
  <2>2. m_apiResultList' = m_apiResultList
    BY <1>2
  <2> QED
    BY <1>5, <1>7, <2>1, <2>2, InProgressSum, InProgressSumPrimed, OneType
<1> QED
  BY <1>3, <1>4, <1>8 DEF Balanced

\* A caller that takes an answer: one caller less, one answer less, and its
\* second command, if it has one.
LEMMA ReturnBalanced ==
  ASSUME HWIInv, IsFiniteSet(Clients), NEW evt \in Owed, NEW c \in Clients, Return(c)
  PROVE  Balanced(evt)
<1> DEFINE i == FirstResult(awaits[c])
<1>1. i \in DOMAIN m_apiResultList /\ m_apiResultList[i].request_api = awaits[c]
      /\ m_apiResultList' = Without(m_apiResultList, i)
  BY CountTypes, FirstResultIndex DEF Return
<1> HIDE DEF i
<1>2. /\ Cardinality(AnswersOf(m_apiResultList, evt))
           = Cardinality(AnswersOf(m_apiResultList', evt)) + One(awaits[c] = evt)
      /\ m_apiResultList' \in Seq(Result)
  BY <1>1, CountTypes, WithoutOne
<1>3. Cardinality(AnswersOf(m_apiResultList', evt)) \in Nat
  BY <1>2, IndexFacts
<1>4. UNCHANGED <<m_state, smCmd>>
  BY DEF Return
<1>5. (Handling(evt)' <=> Handling(evt)) /\ (PutOff(evt)' <=> PutOff(evt))
  BY <1>4 DEF Handling, PutOff
<1>6. One(Handling(evt)') = One(Handling(evt)) /\ One(PutOff(evt)') = One(PutOff(evt))
  BY <1>5 DEF One
<1>7. \E new :
        /\ awaits' = [awaits EXCEPT ![c] = new]
        /\ Cardinality(MarksOf(api_queue', evt))
             = Cardinality(MarksOf(api_queue, evt)) + One(new = evt)
  <2>1. CASE followUp[c] = "none"
    <3>1. One("none" = evt) = 0
      BY DEF One, Owed, ApiEvent, NoArgOps, PlainOps
    <3>2. awaits' = [awaits EXCEPT ![c] = "none"] /\ api_queue' = api_queue
      BY <2>1 DEF Return
    <3>3. Cardinality(MarksOf(api_queue, evt)) \in Nat
      BY CountTypes
    <3>4. Cardinality(MarksOf(api_queue', evt))
            = Cardinality(MarksOf(api_queue, evt)) + One("none" = evt)
      BY <3>1, <3>2, <3>3
    <3> QED
      BY <3>2, <3>4
  <2>2. CASE followUp[c] # "none"
    <3> DEFINE cmd == Cmd(followUp[c])
    <3>1. cmd \in ApiCommand /\ Issue(c, cmd)
      BY <2>2, CountTypes, CommandNames DEF Return
    <3> HIDE DEF cmd
    <3>2. awaits' = [awaits EXCEPT ![c] = cmd.evt]
      BY <3>1 DEF Issue
    <3>3. Cardinality(MarksOf(api_queue', evt))
             = Cardinality(MarksOf(api_queue, evt)) + One(cmd.evt = evt)
      BY <3>1, IssueMarks
    <3> QED
      BY <3>2, <3>3
  <2> QED
    BY <2>1, <2>2
<1>8. PICK new :
        /\ awaits' = [awaits EXCEPT ![c] = new]
        /\ Cardinality(MarksOf(api_queue', evt))
             = Cardinality(MarksOf(api_queue, evt)) + One(new = evt)
  BY <1>7
<1>9. /\ Cardinality(Waiting(awaits, evt)) \in Nat /\ Cardinality(Waiting(awaits', evt)) \in Nat
      /\ Cardinality(Waiting(awaits', evt)) + One(awaits[c] = evt)
           = Cardinality(Waiting(awaits, evt)) + One(new = evt)
  <2>1. awaits \in [Clients -> ApiEvent \cup {"none"}]
    BY CountTypes
  <2> QED
    <3>1. Moved(c, new, evt)
      BY <1>8, <2>1, AwaitsMoved
    <3> QED
      BY <3>1 DEF Moved
<1>10. /\ InProgress(evt)' + One(awaits[c] = evt) = InProgress(evt) + One(new = evt)
       /\ InProgress(evt) \in Nat /\ InProgress(evt)' \in Nat
  <2>1. Cardinality(MarksOf(api_queue, evt)) \in Nat
    BY CountTypes
  <2> QED
    BY <1>2, <1>3, <1>6, <1>8, <2>1, InProgressSum, InProgressSumPrimed, OneType
<1> QED
  BY <1>9, <1>10, OneType DEF Balanced

\* A command taken off a queue is in hand instead.
LEMMA DequeueBalanced ==
  ASSUME HWIInv, IsFiniteSet(Clients), NEW evt \in Owed, Dequeue
  PROVE  Balanced(evt)
<1>1. UNCHANGED <<m_state, m_apiResultList, awaits>> /\ smCmd = NoCmd
  BY DEF Dequeue
<1>2. One(PutOff(evt)') = One(PutOff(evt)) /\ Cardinality(Waiting(awaits', evt)) = Cardinality(Waiting(awaits, evt))
  BY <1>1 DEF PutOff
<1>3. evt # "none"
  BY DEF Owed, ApiEvent, NoArgOps, PlainOps
<1>4. One(Handling(evt)) = 0
  BY <1>1, <1>3, CommandsApart, CommandNames DEF Handling, One, NoCmd
<1>5. Cardinality(MarksOf(api_queue', evt)) + One(Handling(evt)')
        = Cardinality(MarksOf(api_queue, evt))
  <2>1. CASE api_queue # <<>>
    <3>1. smCmd' = Head(api_queue) /\ api_queue' = Tail(api_queue)
      BY <2>1 DEF Dequeue
    <3>2. /\ Head(api_queue) \in ApiCommand \cup {StopCaptureCommand}
          /\ Cardinality(MarksOf(api_queue, evt))
               = Cardinality(MarksOf(Tail(api_queue), evt)) + One(Head(api_queue).evt = evt)
          /\ Tail(api_queue) \in Seq(ApiCommand \cup {StopCaptureCommand})
      BY <2>1, CountTypes, MarksTail
    <3>3. smCmd' # Hung
      BY <3>1, <3>2, CommandsApart DEF Command
    <3>4. One(Handling(evt)') = One(Head(api_queue).evt = evt)
      BY <3>1, <3>3 DEF Handling, One
    <3>5. Cardinality(MarksOf(Tail(api_queue), evt)) \in Nat
      BY <3>2, IndexFacts
    <3> QED
      BY <3>1, <3>2, <3>4, <3>5, OneType
  <2>2. CASE api_queue = <<>>
    <3>1. smCmd' \in Event /\ api_queue' = api_queue
      BY <2>2, CountTypes, HeadTailProperties DEF Dequeue
    <3>2. smCmd'.evt # evt
      BY <3>1, EventsNotOwed DEF Event, Owed, ApiEvent, NoArgOps, PlainOps
    <3>3. smCmd' # Hung
      BY <3>1, CommandsApart DEF Command
    <3>4. One(Handling(evt)') = 0
      BY <3>2, <3>3 DEF Handling, One
    <3>5. Cardinality(MarksOf(api_queue, evt)) \in Nat
      BY CountTypes
    <3> QED
      BY <3>1, <3>4, <3>5
  <2> QED
    BY <2>1, <2>2
<1>6. InProgress(evt)' = InProgress(evt)
  <2>1. m_apiResultList' = m_apiResultList
    BY <1>1
  <2>2. InProgress(evt)' = (Cardinality(MarksOf(api_queue', evt)) + One(Handling(evt)'))
                             + Cardinality(AnswersOf(m_apiResultList', evt)) + One(PutOff(evt)')
    BY InProgressSumPrimed
  <2>3. Cardinality(MarksOf(api_queue, evt)) \in Nat
    BY CountTypes
  <2>4. InProgress(evt) = Cardinality(MarksOf(api_queue, evt))
                             + Cardinality(AnswersOf(m_apiResultList, evt)) + One(PutOff(evt))
    BY <1>4, <2>3, InProgressSum
  <2> QED
    BY <1>2, <1>5, <2>1, <2>2, <2>4
<1> QED
  BY <1>2, <1>6 DEF Balanced

\* One answer more on the result list.
Answered(e, evt) ==
    Cardinality(AnswersOf(m_apiResultList', evt))
      = Cardinality(AnswersOf(m_apiResultList, evt)) + One(e = evt)

\* An answer to e is counted for e and for no other event.
LEMMA AnswerCounts ==
  ASSUME m_apiResultList \in Seq(Result), NEW e, NEW evt, Answer(e)
  PROVE  Answered(e, evt)
<1>1. PICK r \in Result : r.request_api = e /\ m_apiResultList' = Append(m_apiResultList, r)
  BY DEF Answer
<1>2. Cardinality(AnswersOf(Append(m_apiResultList, r), evt))
        = Cardinality(AnswersOf(m_apiResultList, evt)) + One(r.request_api = evt)
  BY AnswersAppend
<1> QED
  BY <1>1, <1>2 DEF Answered

\* A handler that keeps the contract turns the command in hand into an answer,
\* or puts it off, or gives the answer put off.
LEMMA ContractBalances ==
  ASSUME HWIInv, NEW evt \in Owed, NEW cmd, Answers(cmd)
  PROVE  Cardinality(AnswersOf(m_apiResultList', evt)) + One(PutOff(evt)')
           = Cardinality(AnswersOf(m_apiResultList, evt)) + One(PutOff(evt)) + One(cmd.evt = evt)
<1>1. m_apiResultList \in Seq(Result) /\ Cardinality(AnswersOf(m_apiResultList, evt)) \in Nat
  BY CountTypes
<1>2. CASE Answer(cmd.evt) /\ (Preparing' <=> Preparing)
  <2>1. Answered(cmd.evt, evt)
    BY <1>1, <1>2, AnswerCounts
  <2>2. PutOff(evt)' <=> PutOff(evt)
    BY <1>2 DEF PutOff, Preparing
  <2> QED
    BY <1>1, <2>1, <2>2 DEF Answered, One
<1>3. CASE /\ cmd.evt \notin Owed
           /\ Silent \/ \E e : e \notin Owed /\ Answer(e)
           /\ Preparing' <=> Preparing
  <2>1. Cardinality(AnswersOf(m_apiResultList', evt)) = Cardinality(AnswersOf(m_apiResultList, evt))
    <3>1. CASE Silent
      BY <3>1 DEF Silent
    <3>2. ASSUME NEW e, e \notin Owed, Answer(e)
          PROVE  Cardinality(AnswersOf(m_apiResultList', evt))
                   = Cardinality(AnswersOf(m_apiResultList, evt))
      <4>1. Answered(e, evt) /\ e # evt
        BY <1>1, <3>2, AnswerCounts
      <4> QED
        BY <1>1, <4>1 DEF Answered, One
    <3> QED
      BY <1>3, <3>1, <3>2
  <2>2. (PutOff(evt)' <=> PutOff(evt)) /\ cmd.evt # evt
    BY <1>3 DEF PutOff, Preparing
  <2> QED
    BY <1>1, <2>1, <2>2 DEF One
<1>4. CASE cmd.evt = "PREPARE_SNAPSHOT" /\ Silent /\ ~Preparing /\ Preparing'
  <2>1. m_apiResultList' = m_apiResultList
    BY <1>4 DEF Silent
  <2> QED
    BY <1>1, <1>4, <2>1 DEF PutOff, Preparing, One
<1>5. CASE cmd.evt = "PREP_SNAPSHOT_DONE" /\ Answer("PREPARE_SNAPSHOT") /\ Preparing /\ ~Preparing'
  <2>1. Answered("PREPARE_SNAPSHOT", evt) /\ cmd.evt # evt
    BY <1>1, <1>5, AnswerCounts, EventsNotOwed
  <2> QED
    BY <1>1, <1>5, <2>1 DEF Answered, PutOff, Preparing, One
<1> QED
  BY <1>2, <1>3, <1>4, <1>5 DEF Answers

\* So handling a command leaves as many in progress, hung on it or not.
LEMMA HandleBalanced ==
  ASSUME HWIInv, ~dev.bRetroPicture, NEW evt \in Owed, Handle
  PROVE  Balanced(evt)
<1>1. smCmd \in Command /\ smCmd # Hung /\ UNCHANGED <<api_queue, awaits>> /\ Ctx
  BY CommandsApart, InvCtx DEF Handle
<1>2. One(Handling(evt)) = One(smCmd.evt = evt)
  BY <1>1 DEF Handling
<1>3. evt # "none" /\ evt # "hung"
  BY DEF Owed, ApiEvent, NoArgOps, PlainOps
<1>4. /\ Cardinality(AnswersOf(m_apiResultList, evt)) \in Nat
      /\ Cardinality(MarksOf(api_queue, evt)) \in Nat
  BY CountTypes
<1>5. Cardinality(AnswersOf(m_apiResultList', evt)) + One(PutOff(evt)') + One(Handling(evt)')
        = Cardinality(AnswersOf(m_apiResultList, evt)) + One(PutOff(evt)) + One(Handling(evt))
      /\ Cardinality(AnswersOf(m_apiResultList', evt)) \in Nat
  <2>1. CASE stateMachine(smCmd) /\ smCmd' = NoCmd
    <3>1. Answers(smCmd)
      BY <1>1, <2>1, HandlerContract DEF Contract
    <3>2. Cardinality(AnswersOf(m_apiResultList', evt)) + One(PutOff(evt)')
            = Cardinality(AnswersOf(m_apiResultList, evt)) + One(PutOff(evt)) + One(smCmd.evt = evt)
      BY <3>1, ContractBalances
    <3>3. One(Handling(evt)') = 0
      BY <1>3, <2>1, CommandsApart, CommandNames DEF Handling, One, NoCmd
    <3>4. Cardinality(AnswersOf(m_apiResultList', evt)) \in Nat
      BY HandleInv, IndexFacts DEF HWIInv, TypeOK, SMTypeOK
    <3> QED
      BY <1>2, <1>4, <3>2, <3>3, <3>4, OneType
  <2>2. CASE TakePictureStuck(smCmd) /\ smCmd' = Hung
    <3>1. m_state' # "PREPARE_SNAPSHOT" /\ ~Preparing /\ Silent /\ smCmd.evt = "TAKE_PICTURE"
      BY <1>1, <2>2, StuckContract
    <3>2. One(PutOff(evt)') = One(PutOff(evt))
      BY <3>1 DEF PutOff, Preparing
    <3>3. One(Handling(evt)') = One(Handling(evt))
      <4>1. Hung.evt = "hung"
        BY CommandNames DEF Hung
      <4>2. Handling(evt)' <=> evt = "TAKE_PICTURE"
        BY <1>3, <2>2, <4>1 DEF Handling
      <4>3. Handling(evt) <=> evt = "TAKE_PICTURE"
        BY <1>1, <3>1 DEF Handling
      <4> QED
        BY <4>2, <4>3 DEF One
    <3>4. m_apiResultList' = m_apiResultList
      BY <3>1 DEF Silent
    <3> QED
      BY <1>4, <3>2, <3>3, <3>4
  <2> QED
    BY <2>1, <2>2 DEF Handle
<1>6. InProgress(evt)' = InProgress(evt)
  <2>1. Cardinality(MarksOf(api_queue', evt)) = Cardinality(MarksOf(api_queue, evt))
    BY <1>1
  <2> QED
    BY <1>4, <1>5, <2>1, InProgressSum, InProgressSumPrimed, OneType
<1>7. Cardinality(Waiting(awaits', evt)) = Cardinality(Waiting(awaits, evt))
  BY <1>1
<1> QED
  BY <1>6, <1>7 DEF Balanced

\* Another thread adds nothing that is owed but a second cancel.
LEMMA BackgroundBalanced ==
  ASSUME HWIInv, NEW evt \in Owed, Background
  PROVE  Balanced(evt)
<1>1. UNCHANGED <<m_state, m_apiResultList, smCmd, awaits>>
  BY DEF Background
<1>2. (Handling(evt)' <=> Handling(evt)) /\ (PutOff(evt)' <=> PutOff(evt))
  BY <1>1 DEF Handling, PutOff
<1>3. One(Handling(evt)') = One(Handling(evt)) /\ One(PutOff(evt)') = One(PutOff(evt))
  BY <1>2 DEF One
<1>4. /\ api_queue \in Seq(ApiCommand \cup {StopCaptureCommand})
      /\ Cardinality(MarksOf(api_queue, evt)) \in Nat
      /\ Cardinality(AnswersOf(m_apiResultList, evt)) \in Nat
  BY CountTypes
<1>5. \/ Cardinality(MarksOf(api_queue', evt)) = Cardinality(MarksOf(api_queue, evt))
      \/ /\ evt = "CANCEL_PICTURE"
         /\ Cardinality(MarksOf(api_queue', evt)) = Cardinality(MarksOf(api_queue, evt)) + 1
  <2>1. CASE api_queue' = api_queue
    BY <2>1
  <2>2. CASE api_queue' = Append(api_queue, StopCaptureCommand)
    <3>1. Cardinality(MarksOf(Append(api_queue, StopCaptureCommand), evt))
            = Cardinality(MarksOf(api_queue, evt)) + One(StopCaptureCommand.evt = evt)
      BY <1>4, MarksAppend
    <3>2. StopCaptureCommand.evt # evt
      BY EventsNotOwed DEF StopCaptureCommand, Cmd
    <3> QED
      BY <1>4, <2>2, <3>1, <3>2 DEF One
  <2>3. CASE api_queue' = Append(api_queue, Cmd("CANCEL_PICTURE"))
    <3>1. Cmd("CANCEL_PICTURE") \in ApiCommand /\ Cmd("CANCEL_PICTURE").evt = "CANCEL_PICTURE"
      BY CommandNames
    <3>2. Cardinality(MarksOf(Append(api_queue, Cmd("CANCEL_PICTURE")), evt))
            = Cardinality(MarksOf(api_queue, evt)) + One(Cmd("CANCEL_PICTURE").evt = evt)
      BY <1>4, <3>1, MarksAppend
    <3> QED
      BY <1>4, <2>3, <3>1, <3>2 DEF One
  <2> QED
    BY <2>1, <2>2, <2>3 DEF Background
<1>6. /\ m_apiResultList' = m_apiResultList
      /\ Cardinality(Waiting(awaits', evt)) = Cardinality(Waiting(awaits, evt))
  BY <1>1
<1>7. \/ InProgress(evt)' = InProgress(evt)
      \/ evt = "CANCEL_PICTURE" /\ InProgress(evt)' = InProgress(evt) + 1
  BY <1>3, <1>4, <1>5, <1>6, InProgressSum, InProgressSumPrimed, OneType
<1> QED
  BY <1>6, <1>7 DEF Balanced

\* Every step of the system keeps the balance.
LEMMA StepBalanced ==
  ASSUME HWIInv, ~dev.bRetroPicture, IsFiniteSet(Clients), [Next]_vars, NEW evt \in Owed
  PROVE  Balanced(evt)
<1>1. CASE \E c \in Clients : Call(c) \/ TakePictureCall(c) \/ Return(c)
  BY <1>1, CallBalanced, ReturnBalanced
<1>2. CASE Dequeue \/ Handle
  BY <1>2, DequeueBalanced, HandleBalanced
<1>3. CASE Helpers
  BY <1>3, HelpersBackground, BackgroundBalanced
<1>4. CASE UNCHANGED vars
  <2>1. UNCHANGED <<m_state, m_apiResultList, api_queue, smCmd, awaits>>
    BY <1>4 DEF vars, smVars
  <2>2. (Handling(evt)' <=> Handling(evt)) /\ (PutOff(evt)' <=> PutOff(evt))
    BY <2>1 DEF Handling, PutOff
  <2>3. InProgress(evt)' = InProgress(evt)
    BY <2>1, <2>2, InProgressSum, InProgressSumPrimed DEF One
  <2> QED
    BY <2>1, <2>3 DEF Balanced
<1> QED
  BY <1>1, <1>2, <1>3, <1>4, NextSplits

\* What is compared are numbers.
LEMMA CountsAreNaturals ==
  ASSUME HWIInv, IsFiniteSet(Clients), NEW evt
  PROVE  Cardinality(Waiting(awaits, evt)) \in Nat /\ InProgress(evt) \in Nat
BY CountTypes, WaitingType, InProgressSum, OneType

\* One event's part of AnswersMatchCalls.
Matched(evt) ==
    IF evt = "CANCEL_PICTURE" THEN Cardinality(Waiting(awaits, evt)) <= InProgress(evt)
    ELSE Cardinality(Waiting(awaits, evt)) = InProgress(evt)

\* AnswersMatchCalls, event by event.
LEMMA MatchedForEach == AnswersMatchCalls <=> \A evt \in Owed : Matched(evt)
  BY DEF AnswersMatchCalls, Matched, Waiting, Owed

\* At first nobody waits and nothing is in progress.
LEMMA MatchedInit ==
  ASSUME Init, IsFiniteSet(Clients), NEW evt \in Owed
  PROVE  Matched(evt)
<1>1. HWIInv
  BY InitInv
<1>2. evt # "none"
  BY DEF Owed, ApiEvent, NoArgOps, PlainOps
<1>3. Waiting(awaits, evt) = {}
  BY <1>2 DEF Init, Waiting
<1>4. MarksOf(api_queue, evt) = {} /\ AnswersOf(m_apiResultList, evt) = {}
  BY DEF Init, SMInit, MarksOf, AnswersOf
<1>5. One(Handling(evt)) = 0
  BY <1>2, CommandsApart, CommandNames DEF Init, Handling, One, NoCmd
<1>6. One(PutOff(evt)) = 0
  BY DEF Init, SMInit, PutOff, One
<1>7. Cardinality({}) = 0
  BY FS_EmptySet
<1>8. InProgress(evt) = 0
  BY <1>4, <1>5, <1>6, <1>7, InProgressSum
<1> QED
  BY <1>3, <1>7, <1>8 DEF Matched

\* A step that keeps the balance keeps the match.
LEMMA MatchedStep ==
  ASSUME HWIInv, ~dev.bRetroPicture, IsFiniteSet(Clients), [Next]_vars,
         NEW evt \in Owed, Matched(evt)
  PROVE  Matched(evt)'
<1>1. Balanced(evt)
  BY StepBalanced
<1>2. HWIInv'
  BY NextInv
<1>3. Cardinality(Waiting(awaits, evt)) \in Nat /\ InProgress(evt) \in Nat
  BY CountsAreNaturals
<1>4. Cardinality(Waiting(awaits', evt)) \in Nat /\ InProgress(evt)' \in Nat
  <2>1. /\ api_queue' \in Seq(ApiCommand \cup {StopCaptureCommand})
        /\ m_apiResultList' \in Seq(Result)
    BY <1>2 DEF HWIInv, TypeOK, SMTypeOK
  <2>2. /\ Cardinality(MarksOf(api_queue', evt)) \in Nat
        /\ Cardinality(AnswersOf(m_apiResultList', evt)) \in Nat
    BY <2>1, IndexFacts
  <2> QED
    BY <2>2, WaitingType, InProgressSumPrimed, OneType
<1>5. Matched(evt)' <=> IF evt = "CANCEL_PICTURE"
                        THEN Cardinality(Waiting(awaits', evt)) <= InProgress(evt)'
                        ELSE Cardinality(Waiting(awaits', evt)) = InProgress(evt)'
  BY DEF Matched
<1> QED
  BY <1>1, <1>3, <1>4, <1>5 DEF Balanced, Matched

\* For every number of callers and every set of calls: as long as no picture is
\* retro-active, the callers of each event are as many as the commands and
\* answers in progress for it, so that no answer is lost and none is left over.
THEOREM AnswersMatch ==
  ASSUME ~RetroSnapshots
  PROVE  Spec => []AnswersMatchCalls
<1>0. IsFiniteSet(Clients)
  BY HWIAssumption
<1> DEFINE Inv == HWIInv /\ ~dev.bRetroPicture /\ AnswersMatchCalls
<1>1. Init => Inv
  BY <1>0, InitInv, MatchedInit, MatchedForEach
<1>2. Inv /\ [Next]_vars => Inv'
  <2> SUFFICES ASSUME Inv, [Next]_vars PROVE Inv'
    OBVIOUS
  <2>1. HWIInv' /\ ~dev'.bRetroPicture
    BY NextInv
  <2>2. \A evt \in Owed : Matched(evt)'
    BY <1>0, MatchedForEach, MatchedStep
  <2>3. AnswersMatchCalls'
    BY <2>2 DEF AnswersMatchCalls, Matched, Waiting, Owed
  <2> QED
    BY <2>1, <2>3
<1>3. Inv => AnswersMatchCalls
  OBVIOUS
<1> QED
  BY <1>1, <1>2, <1>3, PTL DEF Spec

-----------------------------------------------------------------------------
(* The preview streams only in the states that have one. *)

\* The settings under which it does so: no preview is restarted behind a picture,
\* and either the mode never changes or nothing is recorded and nothing fails.
Steady ==
    /\ ~PreviewRestartEnabled
    /\ Fixed \/ (~Faults /\ Cmd("START_RECORDING") \notin Calls)

\* The commands that reach the API queue, the application's and the HAL's own.
Allowed ==
    Calls \cup {StopCaptureCommand}
      \cup {Cmd("TAKE_PICTURE"), Cmd("PREPARE_SNAPSHOT"), Cmd("CANCEL_PICTURE")}

\* The device is as the state says, and no other command is on its way.
WindowInv ==
    /\ HWIInv
    /\ Fine(dev, m_state)
    /\ api_queue \in Seq(Allowed)
    /\ smCmd \in Allowed \cup Event \cup {NoCmd, Hung}

\* With such settings each command on its way leaves the device as the state says.
LEMMA AllowedSuits ==
  ASSUME Steady, NEW cmd \in Command, cmd \in Allowed \cup Event
  PROVE  Suits(cmd)
<1>1. ASSUME cmd.evt = "START_RECORDING" PROVE Fixed
  <2>1. cmd = Cmd("START_RECORDING")
    BY <1>1 DEF Command, ApiCommand, Event, Cmd, StopCaptureCommand
  <2>2. cmd \in Calls
    BY <1>1 DEF Allowed, Event, Cmd, StopCaptureCommand
  <2> QED
    BY <2>1, <2>2 DEF Steady
<1>2. ASSUME cmd.evt = "SET_PARAMS", cmd.arg \in ZslChange PROVE ~Fixed /\ ~Faults
  <2>1. cmd = CmdWith("SET_PARAMS", cmd.arg)
    BY <1>2 DEF Command, ApiCommand, NoArgOps, PlainOps, Event, Cmd, CmdWith, StopCaptureCommand
  <2>2. cmd \in Calls
    BY <1>2 DEF Allowed, Event, Cmd, StopCaptureCommand
  <2>3. ~Fixed
    BY <1>2, <2>1, <2>2 DEF Fixed
  <2> QED
    BY <2>3 DEF Steady
<1>3. ~PreviewRestartEnabled
  BY DEF Steady
<1> QED
  BY <1>1, <1>2, <1>3 DEF Suits

\* The device is opened without a preview, in the mode it is told to be in.
LEMMA WindowInit ==
  ASSUME Init
  PROVE  WindowInv
<1>1. m_state = "PREVIEW_STOPPED" /\ dev = OpenedDevice /\ api_queue = <<>> /\ smCmd = NoCmd
  BY DEF Init, SMInit
<1>2. Settled(dev) /\ Quiet(dev)
  BY <1>1 DEF OpenedDevice, Settled, Agreed, Quiet, Started, ChannelType
<1>3. Fine(dev, m_state)
  BY <1>1, <1>2 DEF Fine, Recording
<1> QED
  BY <1>1, <1>3, InitInv DEF WindowInv

\* A call changes nothing of a preview, the retro flag included,
LEMMA CallWindow ==
  ASSUME WindowInv, NEW c \in Clients, Call(c) \/ TakePictureCall(c) \/ Return(c)
  PROVE  Fine(dev', m_state') /\ api_queue' \in Seq(Allowed) /\ smCmd' = smCmd
<1>1. UNCHANGED <<m_state, smCmd>>
  BY DEF Call, TakePictureCall, Return, smVars
<1>2. Fine(dev', m_state)
  <2>1. CASE dev' = dev
    BY <2>1 DEF WindowInv
  <2>2. CASE \E b : dev' = [dev EXCEPT !.bRetroPicture = b]
    <3>1. /\ dev'.m_bZslMode = dev.m_bZslMode /\ dev'.m_bZslMode_new = dev.m_bZslMode_new
          /\ dev'.mPreviewWindow = dev.mPreviewWindow /\ dev'.m_channels = dev.m_channels
      BY <2>2 DEF WindowInv, HWIInv, TypeOK, SMTypeOK, Device
    <3> QED
      BY <3>1 DEF WindowInv, Fine, Settled, Agreed, Quiet, Started
  <2> QED
    BY <2>1, <2>2 DEF Call, TakePictureCall, Return, smVars
<1>3. UNCHANGED api_queue \/ \E cmd \in Allowed : api_queue' = Append(api_queue, cmd)
  <2>1. CASE Call(c)
    BY <2>1 DEF Call, Issue, Allowed
  <2>2. CASE TakePictureCall(c)
    BY <2>2 DEF TakePictureCall, Issue, Allowed
  <2>3. CASE Return(c)
    <3>1. followUp[c] \in {"TAKE_PICTURE", "PREPARE_SNAPSHOT", "none"}
      BY DEF WindowInv, HWIInv, TypeOK
    <3> QED
      BY <2>3, <3>1 DEF Return, Issue, Allowed
  <2> QED
    BY <2>1, <2>2, <2>3
<1> QED
  BY <1>1, <1>2, <1>3, AppendProperties DEF WindowInv

\* nor does the machine's thread when it takes a command,
LEMMA DequeueWindow ==
  ASSUME WindowInv, Dequeue
  PROVE  /\ Fine(dev', m_state') /\ api_queue' \in Seq(Allowed)
         /\ smCmd' \in Allowed \cup Event
<1>1. api_queue \in Seq(Allowed) /\ evt_queue \in Seq(Event)
  BY DEF WindowInv, HWIInv, TypeOK, SMTypeOK
<1>2. api_queue' \in Seq(Allowed) /\ smCmd' \in Allowed \cup Event
  <2>1. CASE api_queue # <<>>
    BY <1>1, <2>1, HeadTailProperties DEF Dequeue
  <2>2. CASE api_queue = <<>>
    BY <1>1, <2>2, HeadTailProperties DEF Dequeue
  <2> QED
    BY <2>1, <2>2
<1> QED
  BY <1>2 DEF WindowInv, Dequeue

\* while handling it leaves the device as the state says, by the contract;
LEMMA HandleWindow ==
  ASSUME Steady, WindowInv, Handle
  PROVE  Fine(dev', m_state') /\ api_queue' = api_queue /\ smCmd' \in {NoCmd, Hung}
<1>1. Ctx /\ smCmd \in Command
  BY InvCtx DEF WindowInv, Handle
<1>2. smCmd \in Allowed \cup Event
  <2>1. \A cmd \in Command : cmd # NoCmd /\ cmd # Hung
    BY DEF Command, ApiCommand, NoArgOps, PlainOps, Event, Cmd, StopCaptureCommand, NoCmd, Hung
  <2> QED
    BY <1>1, <2>1 DEF WindowInv
<1>3. Fit(smCmd, dev', m_state')
  BY <1>1, HandlerContract, StuckContract DEF Handle, Contract
<1>4. Fine(dev', m_state')
  BY <1>1, <1>2, <1>3, AllowedSuits DEF Fit, Passes, WindowInv
<1> QED
  BY <1>4 DEF Handle

\* and the other threads start no preview.
LEMMA BackgroundWindow ==
  ASSUME WindowInv, Background
  PROVE  Fine(dev', m_state') /\ api_queue' \in Seq(Allowed) /\ smCmd' = smCmd
<1>1. Tame(dev, dev') /\ UNCHANGED <<m_state, smCmd>>
  BY DEF Background, Keeps
<1>2. Fine(dev', m_state')
  BY <1>1, TameSettles DEF WindowInv, Fine, Tame, Modes
<1>3. UNCHANGED api_queue \/ \E cmd \in Allowed : api_queue' = Append(api_queue, cmd)
  BY DEF Background, Allowed
<1> QED
  BY <1>1, <1>2, <1>3, AppendProperties DEF WindowInv

\* Every step keeps the invariant.
LEMMA WindowStep ==
  ASSUME Steady, WindowInv, [Next]_vars
  PROVE  WindowInv'
<1>1. HWIInv'
  BY NextInv DEF WindowInv
<1>2. /\ Fine(dev, m_state)' /\ (api_queue \in Seq(Allowed))'
      /\ (smCmd \in Allowed \cup Event \cup {NoCmd, Hung})'
  <2>1. ASSUME NEW c \in Clients, Call(c) \/ TakePictureCall(c) \/ Return(c)
        PROVE  Fine(dev', m_state') /\ api_queue' \in Seq(Allowed) /\ smCmd' = smCmd
    BY <2>1, CallWindow
  <2>2. CASE Dequeue
    BY <2>2, DequeueWindow DEF Fine
  <2>3. CASE Handle
    BY <2>3, HandleWindow DEF WindowInv, Fine
  <2>4. ASSUME Helpers
        PROVE  Fine(dev', m_state') /\ api_queue' \in Seq(Allowed) /\ smCmd' = smCmd
    BY <2>4, HelpersBackground, BackgroundWindow DEF WindowInv
  <2>5. CASE UNCHANGED vars
    BY <2>5 DEF vars, smVars, WindowInv
  <2> QED
    BY <2>1, <2>2, <2>3, <2>4, <2>5, NextSplits DEF WindowInv
<1> QED
  BY <1>1, <1>2 DEF WindowInv

\* So it holds in every reachable state.
LEMMA WindowAlways ==
  ASSUME Steady
  PROVE  Spec => []WindowInv
<1>1. Init => WindowInv
  BY WindowInit
<1>2. WindowInv /\ [Next]_vars => WindowInv'
  BY WindowStep
<1> QED
  BY <1>1, <1>2, PTL DEF Spec

\* With steady settings nothing streams to the application's window in
\* PREVIEW_STOPPED, for any number of callers and any calls: each way into that
\* state, a failed start and a cancelled picture included, stops the preview.
THEOREM StoppedIsStopped ==
  ASSUME Steady
  PROVE  Spec => []StoppedMeansStopped
<1>1. WindowInv => StoppedMeansStopped
  BY DEF WindowInv, Fine, Off, Quiet, StoppedMeansStopped
<1> QED
  BY <1>1, WindowAlways, PTL

\* And in PREVIEW_READY, where the preview is prepared, there is no window yet
\* and nothing streams, however the window came and went before.
THEOREM ReadyIsWaiting ==
  ASSUME Steady
  PROVE  Spec => []ReadyMeansWaiting
<1>1. WindowInv => ReadyMeansWaiting
  BY DEF WindowInv, Fine, Off, Quiet, ReadyMeansWaiting
<1> QED
  BY <1>1, WindowAlways, PTL

=============================================================================
