----------------------------- MODULE QCamera3Config -----------------------------
(***************************************************************************)
(* The stream configuration of the second camera HAL (QCamera3HWI.cpp and   *)
(* the life of the channels of QCamera3Channel.cpp): configureStreams()     *)
(* checks the list, deletes the old channels and makes new ones; the first  *)
(* request tells the daemon the sizes, initialises every channel and starts *)
(* them; flush() stops and starts them again; the destructor deletes all.   *)
(*                                                                         *)
(* Streams stand for their kind.  A channel is "new" when constructed,      *)
(* "ready" with its stream and "active" when started.                       *)
(***************************************************************************)
EXTENDS Naturals, Sequences, SequencesExt, FiniteSets

CONSTANTS
    Configs,    \* the stream lists the framework may ask for
    Big,        \* streams larger than the viewfinder
    Odd,        \* streams of a size or rotation that is not supported
    FourK,      \* is the video stream a 4K one?
    RawDump,    \* mEnableRawDump
    Faults,     \* may the daemon refuse a step?
    EarlyFlush  \* may flush() come before the first request?

None == "none"
Streams == {"preview", "video", "yuv", "zsl", "zsl2", "jpeg", "hugeJpeg", "raw", "input"}
Kind(s) == CASE s \in {"zsl", "zsl2"} -> "zsl" [] s \in {"jpeg", "hugeJpeg"} -> "blob" [] OTHER -> s

ConfigAssumption ==
    /\ Configs \subseteq Seq(Streams) /\ <<>> \notin Configs
    /\ Big \subseteq Streams /\ Odd \subseteq Streams
    /\ {FourK, RawDump, Faults, EarlyFlush} \subseteq BOOLEAN

VARIABLES
    h,          \* the object: its streams, channels and settings
    event       \* history: the last call, what it returned and the step that failed

vars == <<h, event>>

Init ==
    /\ h = [info |-> <<>>,                          \* mStreamInfo
            chan |-> [s \in Streams |-> None], bufs |-> {},  \* with registered buffers
            meta |-> None, support |-> None, rawDump |-> None,
            picture |-> None,                       \* the stream mPictureChannel was made for
            sizes |-> <<>>, told |-> <<>>,          \* mStreamConfigInfo, and the daemon's
            first |-> FALSE, asked |-> <<>>,        \* the configuration in force
            broken |-> FALSE, wild |-> None, rc |-> "ok"]
    /\ event = [call |-> "open", rc |-> "ok", fault |-> <<None, None>>]

Outputs(cfg) == SelectSeq(cfg, LAMBDA s : s # "input")
Dangling(o) == o.picture # None /\ o.chan[o.picture] = None
--------------------------------------------------------------------------------
\* What a list must be like.

IsZsl(cfg) == \E s \in ToSet(cfg) : Kind(s) \in {"zsl", "input"}
Is4K(cfg) == FourK /\ "video" \in ToSet(cfg)
Count(cfg, kinds) == Cardinality({s \in ToSet(cfg) : Kind(s) \in kinds})
Processed == {"preview", "video", "yuv", "zsl"}

validateStreamDimensions(cfg) == ToSet(cfg) \cap Odd = {} /\ Count(cfg, {"input"}) <= 1
Accepts(cfg) ==
    /\ Count(cfg, {"blob"}) <= 1 /\ Count(cfg, {"raw"}) <= 1 /\ Count(cfg, Processed) <= 3
    /\ ~(IsZsl(cfg) /\ "video" \in ToSet(cfg))
    /\ Cardinality({s \in ToSet(cfg) \cap Big : Kind(s) \in Processed \cup {"blob"}}) <= 2
    /\ ~(Is4K(cfg) /\ "hugeJpeg" \in ToSet(cfg))
    /\ validateStreamDimensions(cfg)

\* The stream whose buffers come back for reprocessing: one the framework marks, or
\* with an input stream the YUV stream of its size.
MayBeZsl(cfg, s) == Kind(s) = "zsl" \/ (s = "yuv" /\ "input" \in ToSet(cfg))
SecondZsl(cfg) == {i \in DOMAIN cfg : /\ Kind(cfg[i]) = "zsl"
                                      /\ \E j \in 1..(i - 1) : MayBeZsl(cfg, cfg[j])}
NoZsl(cfg) == IsZsl(cfg) /\ \A s \in ToSet(cfg) : ~MayBeZsl(cfg, s)

Superset(cfg, s) ==
    \/ s \in {"preview", "video", "yuv"}
    \/ Kind(s) = "zsl" /\ Count(cfg, {"blob"}) = 0
    \/ Kind(s) = "blob" /\ \/ Is4K(cfg) /\ ~IsZsl(cfg)
                           \/ s \in Big /\ Big \cap ToSet(cfg) \cap {"preview", "video", "yuv"} # {}
isSupportChannelNeeded(cfg) ==
    \/ \A s \in ToSet(cfg) : ~Superset(cfg, s)
    \/ \A s \in ToSet(cfg) : Kind(s) \in {"raw", "blob"}
--------------------------------------------------------------------------------
\* configureStreams().

Halt(c) == IF c = "active" THEN "ready" ELSE c
\* stop() gives a channel's buffers back.
StopAll(o) ==
    [o EXCEPT !.chan = [s \in Streams |-> Halt(o.chan[s])],
              !.bufs = {s \in @ : o.chan[s] # "active"},
              !.meta = Halt(@), !.support = Halt(@), !.rawDump = Halt(@)]
Delete(gone, o) ==
    [o EXCEPT !.chan = [s \in Streams |-> IF s \in gone THEN None ELSE @[s]], !.bufs = @ \ gone]

\* The streams of the list up to n lose their channels; new ones are added.
Revalidate(cfg, n, o) ==
    LET seen == Outputs(SubSeq(cfg, 1, n))
    IN  [Delete(ToSet(seen), o) EXCEPT
            !.info = @ \o SelectSeq(seen, LAMBDA s : s \notin ToSet(o.info))]
cleanAndSortStreamInfo(cfg, o) ==
    [Delete(ToSet(o.info) \ ToSet(cfg), o) EXCEPT
        !.info = SelectSeq(@, LAMBDA s : s \in ToSet(cfg) /\ s # "raw") \o
                 SelectSeq(@, LAMBDA s : s \in ToSet(cfg) /\ s = "raw")]

\* New channels for the streams of the list up to n.
MakeChannels(cfg, n, o) ==
    LET made == ToSet(Outputs(SubSeq(cfg, 1, n)))
        blobs == {s \in made : Kind(s) = "blob"}
    IN  [o EXCEPT !.chan = [s \in Streams |-> IF s \in made THEN "new" ELSE @[s]],
                  !.picture = IF blobs = {} THEN @ ELSE CHOOSE s \in blobs : TRUE]
Override(cfg, o) ==     \* overrideYuvSize() of whatever mPictureChannel points to
    IF (IsZsl(cfg) \/ Is4K(cfg)) /\ Dangling(o) THEN [o EXCEPT !.wild = "freed"] ELSE o
Finish(cfg, o) ==
    [o EXCEPT !.support = IF isSupportChannelNeeded(cfg) THEN "new" ELSE None,
              !.rawDump = IF RawDump /\ "raw" \notin ToSet(cfg) THEN "new" ELSE None,
              !.sizes = Outputs(cfg), !.first = TRUE, !.asked = cfg, !.broken = FALSE]

Refuse(rc, o) == [o EXCEPT !.rc = rc, !.asked = <<>>]
configureStreams(cfg, metaOk, o) ==
    LET s == [StopAll(o) EXCEPT !.rawDump = None]
        marked == IF SecondZsl(cfg) = {} THEN Len(cfg) ELSE CHOOSE i \in SecondZsl(cfg) :
                                                \A j \in SecondZsl(cfg) : i <= j
        old == Revalidate(cfg, marked, s)
        clean == [cleanAndSortStreamInfo(cfg, old) EXCEPT !.meta = "ready", !.support = None]
        blob == {i \in DOMAIN cfg : Kind(cfg[i]) = "blob"}
    IN  IF ~Accepts(cfg) THEN Refuse("einval", s)
        ELSE IF SecondZsl(cfg) # {} THEN Refuse("einval", old)
        ELSE IF ~metaOk THEN Refuse("error", [clean EXCEPT !.meta = None])
        ELSE IF NoZsl(cfg) THEN
            Refuse("einval", MakeChannels(cfg,
                       IF blob = {} THEN Len(cfg) ELSE (CHOOSE i \in blob : TRUE) - 1, clean))
        ELSE Finish(cfg, Override(cfg, MakeChannels(cfg, Len(cfg), clean)))

Quiet == h.wild = None

\* A stream left without a channel is called through NULL.
Configure ==
    /\ Quiet /\ ~(event.call = "configure" /\ event.rc = "error")      \* which is fatal
    /\ \E cfg \in Configs, metaOk \in IF Faults THEN BOOLEAN ELSE {TRUE} :
          LET o == [h EXCEPT !.rc = "ok"]
              t == IF \E s \in ToSet(h.info) : h.chan[s] = None
                   THEN [o EXCEPT !.wild = "null"] ELSE configureStreams(cfg, metaOk, o)
          IN  h' = t /\ event' = [call |-> "configure", rc |-> t.rc,
                                  fault |-> IF metaOk THEN <<None, None>> ELSE <<"meta", None>>]
--------------------------------------------------------------------------------
\* The steps of the first request, of flush() and of a later request.

Starts(o, s) == Kind(s) = "blob" \/ s \in o.bufs     \* without buffers start() does nothing
\* Support and raw dump channels are initialised once; a channel without a stream
\* does not start.
Refuses(o, st) ==
    \/ st[1] = "initSupport" /\ o.support # "new"
    \/ st[1] = "initRawDump" /\ o.rawDump # "new"
    \/ st[1] = "startSupport" /\ o.support = "new"
    \/ st[1] = "startRawDump" /\ o.rawDump = "new"
    \/ st[1] = "start" /\ Starts(o, st[2]) /\ o.chan[st[2]] = "new"
    \/ st[1] = "active" /\ o.chan[st[2]] # "active"

Step(o, st) ==
    LET s == st[2]
        Ready(c) == IF c = "new" THEN "ready" ELSE c
    IN  CASE st[1] = "tell" -> [o EXCEPT !.told = o.sizes]
          [] st[1] = "register" -> [o EXCEPT !.chan[s] = Ready(@), !.bufs = @ \cup {s}]
          [] st[1] = "init" -> [o EXCEPT !.chan[s] = Ready(@)]
          [] st[1] = "start" -> IF Starts(o, s) THEN [o EXCEPT !.chan[s] = "active"] ELSE o
          [] st[1] = "initSupport" -> [o EXCEPT !.support = "ready"]
          [] st[1] = "initRawDump" -> [o EXCEPT !.rawDump = "ready"]
          [] st[1] = "startMeta" -> [o EXCEPT !.meta = "active"]
          [] st[1] = "startSupport" -> [o EXCEPT !.support = "active"]
          [] st[1] = "startRawDump" -> [o EXCEPT !.rawDump = "active"]
          [] OTHER -> o
\* What the first request undoes when a channel does not start.
Undo(st, o) ==
    CASE st[1] = "startSupport" -> [o EXCEPT !.meta = Halt(@)]
      [] st[1] = "startRawDump" -> StopAll(o)
      [] OTHER -> o

Run(plan, fault, undo, o) ==
    FoldLeft(LAMBDA u, st : IF u.rc # "ok" THEN u
                            ELSE IF st = fault \/ Refuses(u, st)
                            THEN [(IF undo THEN Undo(st, u) ELSE u) EXCEPT !.rc = "error"]
                            ELSE Step(u, st), [o EXCEPT !.rc = "ok"], plan)

For(name, seq) == [i \in DOMAIN seq |-> <<name, seq[i]>>]
IfAny(name, c) == IF c = None THEN <<>> ELSE <<<<name, None>>>>
Regular(seq) == SelectSeq(seq, LAMBDA s : Kind(s) # "blob")
FirstPlan(outs) ==
    <<<<"tell", None>>>> \o For("register", Regular(outs)) \o For("init", h.info)
    \o IfAny("initRawDump", h.rawDump) \o IfAny("initSupport", h.support)
    \o <<<<"startMeta", None>>>> \o IfAny("startSupport", h.support)
    \o For("start", h.info) \o IfAny("startRawDump", h.rawDump)
\* Mutant: the metadata is forgotten.
FlushWithoutMeta ==
    For("start", h.info) \o IfAny("startSupport", h.support) \o IfAny("startRawDump", h.rawDump)
FlushPlan ==
    IfAny("startMeta", h.meta) \o For("start", h.info)
    \o IfAny("startSupport", h.support) \o IfAny("startRawDump", h.rawDump)
\* A channel that flush() left stopped gets its buffer and starts.
LaterPlan(outs) ==
    LET stopped == SelectSeq(Regular(outs), LAMBDA s : h.chan[s] # "active")
    IN  For("register", stopped) \o For("start", stopped)
        \o For("active", SelectSeq(outs, LAMBDA s : Kind(s) = "blob"))

Faulty(plan) == {<<None, None>>} \cup (IF Faults THEN ToSet(plan) \ {<<"tell", None>>} ELSE {})

\* A request for some of the streams of the configuration.
Request ==
    /\ Quiet /\ h.asked # <<>>
    /\ \E want \in SUBSET ToSet(h.info) \ {{}} :
          LET outs == SelectSeq(h.info, LAMBDA s : s \in want)
              plan == IF h.first THEN FirstPlan(outs) ELSE LaterPlan(outs)
          IN  \E fault \in Faulty(plan) :
                 LET t == Run(plan, fault, h.first, h)
                 IN  /\ h' = [t EXCEPT !.first = @ /\ t.rc # "ok"]
                     /\ event' = [call |-> "request", rc |-> t.rc, fault |-> fault]
Flush ==
    /\ Quiet /\ h.asked # <<>> /\ (EarlyFlush \/ ~h.first)
    /\ \E fault \in Faulty(FlushPlan) :
          LET t == Run(FlushPlan, fault, FALSE, StopAll(h))
          IN  /\ h' = [t EXCEPT !.broken = @ \/ t.rc # "ok"]
              /\ event' = [call |-> "flush", rc |-> t.rc, fault |-> fault]
\* The destructor goes by the channels it noted itself; a new object follows.
Close ==
    /\ Quiet
    /\ h' = [Delete(ToSet(h.info), StopAll(h)) EXCEPT
                !.info = <<>>, !.meta = None, !.support = None, !.rawDump = None, !.picture = None,
                !.first = FALSE, !.asked = <<>>, !.broken = FALSE, !.sizes = <<>>, !.told = <<>>,
                !.rc = "ok"]
    /\ event' = [call |-> "close", rc |-> "ok", fault |-> <<None, None>>]

Next == Configure \/ Request \/ Flush \/ Close
Spec == Init /\ [][Next]_vars
--------------------------------------------------------------------------------
States == {None, "new", "ready", "active"}

\* Channels are where their streams are, and buffers where a channel has a stream.
TypeOK ==
    /\ h.info \in Seq(Streams \ {"input"}) /\ h.chan \in [Streams -> States]
    /\ {h.meta, h.support, h.rawDump} \subseteq States
    /\ \A s \in h.bufs : h.chan[s] \in {"ready", "active"}

\* configureStreams(): after it exactly the streams it was given have channels.
NoLeftovers ==
    h.asked # <<>> =>
        /\ {s \in Streams : h.chan[s] # None} = ToSet(Outputs(h.asked))
        /\ ToSet(h.info) = ToSet(Outputs(h.asked)) /\ IsInjective(h.info)
        /\ h.meta # None

\* cleanAndSortStreamInfo(): "such that raw stream is at the end of the list".
RawLast == \A i \in DOMAIN h.info : h.info[i] = "raw" => i = Len(h.info) \/ h.asked = <<>>

\* Between an accepted first request and the next configuration the metadata, support
\* and picture channels run, whatever is flushed.
RunTogether ==
    (h.asked # <<>> /\ ~h.first /\ ~h.broken) =>
        /\ h.meta = "active" /\ h.support \in {None, "active"} /\ h.told = h.sizes
        /\ \A s \in ToSet(h.info) : Kind(s) = "blob" => h.chan[s] = "active"

\* "For first capture request, send capture intent, and stream on all streams": nothing
\* runs before the daemon has the sizes of the configuration.
ToldFirst ==
    (h.asked # <<>> /\ h.told # h.sizes) =>
        h.meta # "active" /\ \A s \in Streams : h.chan[s] # "active"

\* What the daemon does not refuse the HAL carries out, after failed attempts too.
RetryWorks ==
    (event.call = "request" /\ event.fault = <<None, None>> /\ ~h.broken) => event.rc = "ok"

\* "Failure: -EINVAL (if stream configuration is invalid)": no call goes through NULL.
NoNullCall == h.wild # "null"

\* "Reset HAL camera device processing pipeline and set up new input and output streams."
NoFreedCall == h.wild # "freed"
================================================================================
