---------------------------- MODULE MediaPipeline ----------------------------
(***************************************************************************)
(* From a submitted file to its variants.  A new post is stored only if    *)
(* the validator accepts all of its files; what is added to a post is      *)
(* stored without the files that are refused.  Every stored file becomes a *)
(* job: the processor of its type looks at the original anew, plans        *)
(* outputs and has sharp or ffmpeg make them one by one; all of them are   *)
(* published, or the job fails.  How files are stored is the subject of    *)
(* PostUploads; retries, leases and crashes of a job are that of           *)
(* MediaProcessing; here a job is one execution.                           *)
(***************************************************************************)
EXTENDS MediaValidation

VARIABLES
    command,    \* what the request asks for
    job,        \* per file: "none", "making", "published" or "failed"
    plan,       \* per file: the outputs still to be made
    made        \* per file: the variants made

jobVars == <<job, plan, made>>
allVars == <<vars, command, jobVars>>

Command == {"CREATE_POST", "ADD_POST_MEDIA"}

\* image-processor.service.ts takes no limit from the configuration.
maxInputPixels == 40000000

Least(a, b) == IF a < b THEN a ELSE b
Rounded(a, b) == (2 * a + b) \div (2 * b)

Display(s) == IF s.turned THEN [w |-> s.height, h |-> s.width]
                          ELSE [w |-> s.width,  h |-> s.height]

MainStream(f, type) == f.probe.streams[Min(StreamsOf(f.probe, type))]

----------------------------------------------------------------------------
(* Sizes.                                                                   *)

\* sharp: fit inside a square, without enlargement.
Inside(size, edge) ==
    LET long == Max({size.w, size.h})
    IN  IF long <= edge THEN size
        ELSE [w |-> Max({1, Rounded(size.w * edge, long)}),
              h |-> Max({1, Rounded(size.h * edge, long)})]

Even(n) == Max({2, 2 * (n \div 2)})

\* target / short is a double without error only if it is dyadic; otherwise a
\* product that should be whole may come out just below.
Dyadic(target, short) == \E k \in 0..12 : (target * 2^k) % short = 0

EvenScaled(n, target, short) ==
    LET whole == (n * target) \div short
        exact == (n * target) % short = 0
    IN  {Even(whole)} \cup
        IF exact /\ ~Dyadic(target, short) THEN {Even(whole - 1)} ELSE {}

ShortEdge(size) == Least(size.w, size.h)

\* Slip: a step needs more than its edge.
LadderFromAbove(size) ==
    LET short == ShortEdge(size)
    IN  CASE short <= 360                  -> <<"source">>
          [] 360 < short /\ short <= 720  -> <<"360p">>
          [] 720 < short /\ short <= 1080 -> <<"360p", "720p">>
          [] OTHER                         -> <<"360p", "720p", "1080p">>

planVideoRenditions(size) ==
    LET short == ShortEdge(size)
    IN  CASE short < 360                  -> <<"source">>
          [] 360 <= short /\ short < 720  -> <<"360p">>
          [] 720 <= short /\ short < 1080 -> <<"360p", "720p">>
          [] OTHER                        -> <<"360p", "720p", "1080p">>

TargetShort == [l \in {"360p", "720p", "1080p"} |->
                   CASE l = "360p" -> 360 [] l = "720p" -> 720 [] l = "1080p" -> 1080]

\* The boxes the planner may ask for.
Boxes(label, size) ==
    IF label = "source" THEN {[w |-> Even(size.w), h |-> Even(size.h)]}
    ELSE [w : EvenScaled(size.w, TargetShort[label], ShortEdge(size)),
          h : EvenScaled(size.h, TargetShort[label], ShortEdge(size))]

\* ffmpeg: scale=w:h:force_original_aspect_ratio=decrease.
Frame(box, size) ==
    [w |-> Least(box.w, Rounded(box.h * size.w, size.h)),
     h |-> Least(box.h, Rounded(box.w * size.h, size.w))]

\* H.264 with yuv420p has no odd edges.
Encodable(size) == size.w % 2 = 0 /\ size.h % 2 = 0

\* The rates libmp3lame encodes.
mp3Rates == {8000, 11025, 12000, 16000, 22050, 24000, 32000, 44100, 48000}

normalizedRate(s) == Least(IF s.rate = NaN THEN 48000 ELSE s.rate, 48000)

\* The thumbnail is the first frame from a tenth of the duration on.
thumbnailExists(f) ==
    LET s == MainStream(f, "video")
        duration == CASE f.probe.duration # NaN -> f.probe.duration
                      [] f.probe.duration = NaN -> Max({s.duration, 0})
    IN  duration <= 10 * s.last

----------------------------------------------------------------------------
(* The jobs.                                                                *)

\* Slip: a new post is stored without the files that are refused.
StoredInPart(i) == Answered /\ verdict[i] = "ok"

NoneRefused == \A j \in Index : verdict[j] = "ok"

\* The file is stored and its dispatch created.
Stored(i) ==
    /\ Answered /\ verdict[i] = "ok"
    /\ command = "CREATE_POST" => NoneRefused

Type(i) == mediaTypeOf(format(files[i]))

PipelineInit ==
    /\ Init
    /\ command \in Command
    /\ job = [i \in Index |-> "none"]
    /\ plan = [i \in Index |-> <<>>]
    /\ made = [i \in Index |-> {}]

Fail(i) ==
    /\ job' = [job EXCEPT ![i] = "failed"]
    /\ UNCHANGED <<plan, made>>

Begin(i, outputs) ==
    /\ job' = [job EXCEPT ![i] = "making"]
    /\ plan' = [plan EXCEPT ![i] = outputs]
    /\ UNCHANGED made

Add(i, out) ==
    /\ made' = [made EXCEPT ![i] = @ \cup {out}]
    /\ plan' = [plan EXCEPT ![i] = Tail(@)]
    /\ UNCHANGED job

StartImage(i) ==
    LET p == files[i].picture
    IN  /\ Type(i) = "IMAGE"
        /\ IF p.pages > 1 \/ p.width * p.height > maxInputPixels \/ ~p.decodes
           THEN Fail(i)
           ELSE Begin(i, <<"optimized", "thumbnail">>)

StartAudio(i) ==
    /\ Type(i) = "AUDIO"
    /\ IF Streams(files[i].probe, "audio") = {} THEN Fail(i)
       ELSE Begin(i, <<"mp3">>)

StartVideo(i) ==
    /\ Type(i) = "VIDEO"
    /\ IF \/ Streams(files[i].probe, "video") = {}
          \/ ~validDimensions(MainStream(files[i], "video"))
       THEN Fail(i)
       ELSE Begin(i, planVideoRenditions(Display(MainStream(files[i], "video")))
                         \o <<"thumbnail">>)

StartJob(i) ==
    /\ Stored(i) /\ job[i] = "none"
    /\ StartImage(i) \/ StartAudio(i) \/ StartVideo(i)

Making(i, type) == Stored(i) /\ job[i] = "making" /\ plan[i] # <<>> /\ Type(i) = type

MakeImage(i) ==
    /\ Making(i, "IMAGE")
    /\ Add(i, [label |-> Head(plan[i]),
               size |-> Inside(Display(files[i].picture),
                               IF Head(plan[i]) = "optimized" THEN 1920 ELSE 400)])

MakeAudio(i) ==
    LET s == MainStream(files[i], "audio")
    IN  /\ Making(i, "AUDIO")
        /\ IF normalizedRate(s) \in mp3Rates
           THEN Add(i, [label |-> "mp3", rate |-> normalizedRate(s),
                        channels |-> Least(Max({s.channels, 1}), 2)])
           ELSE Fail(i)

MakeRendition(i) ==
    LET size == Display(MainStream(files[i], "video"))
    IN  /\ Making(i, "VIDEO")
        /\ Head(plan[i]) # "thumbnail"
        /\ \E box \in Boxes(Head(plan[i]), size) :
              IF Encodable(Frame(box, size))
              THEN Add(i, [label |-> Head(plan[i]), size |-> Frame(box, size),
                           sound |-> Streams(files[i].probe, "audio") # {}])
              ELSE Fail(i)

MakeThumbnail(i) ==
    /\ Making(i, "VIDEO")
    /\ Head(plan[i]) = "thumbnail"
    /\ IF thumbnailExists(files[i])
       THEN Add(i, [label |-> "thumbnail",
                    size |-> Display(MainStream(files[i], "video"))])
       ELSE Fail(i)

Make(i) == MakeImage(i) \/ MakeAudio(i) \/ MakeRendition(i) \/ MakeThumbnail(i)

ToolFails(i) ==
    /\ "io" \in Faults
    /\ Stored(i) /\ job[i] \in {"none", "making"}
    /\ Fail(i)
    /\ struck' = struck \cup {i}
    /\ UNCHANGED <<files, stats, verdict, at, step>>

Publish(i) ==
    /\ job[i] = "making" /\ plan[i] = <<>>
    /\ job' = [job EXCEPT ![i] = "published"]
    /\ UNCHANGED <<plan, made>>

PipelineNext ==
    /\ UNCHANGED command
    /\ \/ Next /\ UNCHANGED jobVars
       \/ \E i \in Index :
             \/ (StartJob(i) \/ Make(i) \/ Publish(i)) /\ UNCHANGED vars
             \/ ToolFails(i)

\* Every read, decode and encode comes to an end; a probe is timed.
PipelineSpec == PipelineInit /\ [][PipelineNext]_allVars /\ WF_allVars(PipelineNext)

----------------------------------------------------------------------------
(* What a file is, whatever it is called and however it is inspected.       *)

\* The formats the header is evidence for.
NamedBy(h) ==
    IF h.magic \in PlainFormat THEN {h.magic}
    ELSE IF ~h.complete THEN {}
    ELSE IF h.magic = "ebml"
    THEN {f \in {"webm", "mkv"} : h.docType = [webm |-> "webm", mkv |-> "matroska"][f]}
    ELSE IF h.magic = "ftyp"
    THEN IF "qt" \in h.brands THEN {"mov"}
         ELSE IF "M4A" \in h.brands THEN {"m4a"}
         ELSE IF "shared" \in h.brands THEN {"m4a", "mp4"} ELSE {}
    ELSE {}

SoundPicture(p, f) ==
    /\ p.format = f /\ p.decodes /\ p.pages = 1
    /\ p.width \in 1..Limits.maxImagePixels
    /\ p.height \in 1..(Limits.maxImagePixels \div p.width)

\* Only streams that can be decoded; sound in audio, pictures in video; and a
\* length and a frame within the limits.
SoundStreams(doc, f) ==
    LET all  == {doc.streams[k] : k \in DOMAIN doc.streams}
        type == mediaTypeOf(f)
        own  == {s \in all : s.type = (IF type = "AUDIO" THEN "audio" ELSE "video")}
        length == IF doc.duration # NaN THEN {doc.duration} ELSE {s.duration : s \in own}
    IN  /\ doc.ends = "document" /\ doc.container = Container(f)
        /\ own # {} /\ Len(doc.streams) <= Limits.maxMediaStreams
        /\ \A s \in all : /\ s.type = "audio" => s.codec \in audioCodecs
                          /\ s.type = "video" => s.codec \in videoCodecs
                          /\ s.type = "video" => type = "VIDEO"
        /\ type = "VIDEO" =>
              \A s \in own : /\ s.width \in 1..Limits.maxVideoWidth
                             /\ s.height \in 1..Limits.maxVideoHeight
        /\ NaN \notin length
        /\ \E d \in length : d > 0
        /\ \A d \in length : d <= Limits.maxDuration[type]

Genuine(c, f) ==
    /\ f \in NamedBy(c.header)
    /\ c.size \in 1..Limits.maxSize[mediaTypeOf(f)]
    /\ IF f \in ImageFormat THEN SoundPicture(c.picture, f)
                            ELSE SoundStreams(c.probe, f)

HonestName(c) ==
    /\ c.name \in DOMAIN policies
    /\ c.mime \in {"octet", policies[c.name]}

\* The sizes of the files up to the i-th that could be read.
Uploaded(i) ==
    SumFunctionOnSet(sizes,
        {j \in 1..i : j <= Limits.maxFilesPerRequest /\ stats[j] # "failed"})

Accepted == {i \in Index : verdict[i] = "ok"}

----------------------------------------------------------------------------
(* Properties.                                                              *)

\* Every variable has its type; only accepted files have jobs, and the files of a
\* new post only if they all are accepted.
PipelineTypeOK ==
    /\ files \in Requests
    /\ stats \in [Index -> {"pending", "known", "failed"}]
    /\ at \in 0..(Len(files) + 1)
    /\ step \in {"turn", "header", "image", "probe", "document", "checksum"}
    /\ struck \subseteq Index
    /\ command \in Command
    /\ job \in [Index -> {"none", "making", "published", "failed"}]
    /\ {i \in Index : job[i] # "none"} \subseteq Accepted
    /\ command = "CREATE_POST" /\ Accepted # Index => \A i \in Index : job[i] = "none"

\* An accepted file is what its extension says, by its header and by what sharp
\* or ffprobe find in it, whatever MIME type the client declared.
AcceptedIsGenuine ==
    \A i \in Accepted : HonestName(files[i]) /\ Genuine(files[i], format(files[i]))

\* A refused file that no I/O error or timeout struck has a fault of its own, or
\* is beyond the number or the total size a request may have; the order in which
\* the sizes become known makes no difference.
RefusalIsDeserved ==
    \A i \in Index :
        (at > i /\ verdict[i] # "ok" /\ i \notin struck) =>
            \/ i > Limits.maxFilesPerRequest
            \/ Uploaded(i) > Limits.maxTotalUploadSize
            \/ ~HonestName(files[i])
            \/ ~Genuine(files[i], format(files[i]))

\* What is accepted stays below the limits of the request, also when some sizes
\* could not be read and when an oversized file came first.
AcceptedFitsRequest ==
    /\ Cardinality(Accepted) <= Limits.maxFilesPerRequest
    /\ SumFunctionOnSet(sizes, Accepted) <= Limits.maxTotalUploadSize

\* The four kinds of sound files that the processors cannot handle: a picture beyond
\* their own limit, which a configuration may let the validator exceed; a rate that
\* MP3 does not have; a frame that the aspect ratio leaves with an odd edge; no frame
\* after the first tenth.
BeyondTheProcessors(c) ==
    LET type == mediaTypeOf(format(c))
    IN  \/ type = "IMAGE" /\ c.picture.width * c.picture.height > maxInputPixels
        \/ type = "AUDIO" /\ normalizedRate(MainStream(c, "audio")) \notin mp3Rates
        \/ /\ type = "VIDEO"
           /\ LET size == Display(MainStream(c, "video"))
                  plans == {planVideoRenditions(size)[k] :
                                k \in DOMAIN planVideoRenditions(size)}
              IN  \/ ~thumbnailExists(c)
                  \/ \E l \in plans : \E box \in Boxes(l, size) :
                        ~Encodable(Frame(box, size))

\* What the validator accepts the processors can process: a job that no tool
\* fault strikes fails only for one of those four reasons.  The validator and
\* the processors inspect a file separately, with different tools and limits.
AcceptedIsProcessable ==
    \A i \in Index :
        (job[i] = "failed" /\ i \notin struck) => BeyondTheProcessors(files[i])

\* The edges a video of this size is published with.
Ladder(size) == LET within == {n \in {360, 720, 1080} : n <= ShortEdge(size)}
                IN  IF within = {} THEN {ShortEdge(size)} ELSE within

\* The long edge of the plan's "Resolution bounds", 16:9 in either orientation.
TargetLong == [l \in {"360p", "720p", "1080p"} |->
                  CASE l = "360p" -> 640 [] l = "720p" -> 1280 [] l = "1080p" -> 1920]

\* Longer than 16:9.
Elongated(size) == 9 * Max({size.w, size.h}) > 16 * ShortEdge(size)

\* A published video has one rendition per step of the ladder that it reaches, each
\* within two pixels of its step and within one pixel of the aspect ratio, as the
\* viewer sees it, and a thumbnail; no edge grows, but that of one pixel to two, the
\* least even size.  The long edge stays within the plan's bound unless the video is
\* longer than 16:9: then only the ratio bounds it, and 571x1142 becomes 360x720.
\* Images and sound have their two variants and one.
PublishedIsComplete ==
    \A i \in {j \in Index : job[j] = "published"} :
        CASE Type(i) = "IMAGE" ->
                LET size == Display(files[i].picture)
                IN  /\ {v.label : v \in made[i]} = {"optimized", "thumbnail"}
                    /\ \A v \in made[i] :
                          LET edge == IF v.label = "optimized" THEN 1920 ELSE 400
                          IN  Max({v.size.w, v.size.h}) = Least(edge, Max({size.w, size.h}))
          [] Type(i) = "AUDIO" ->
                /\ Cardinality(made[i]) = 1
                /\ \A v \in made[i] : v.channels \in 1..2 /\ v.rate \in mp3Rates
          [] Type(i) = "VIDEO" ->
                LET size   == Display(MainStream(files[i], "video"))
                    frames == {v \in made[i] : v.label # "thumbnail"}
                IN  /\ Cardinality(frames) = Cardinality(Ladder(size))
                    /\ Cardinality(made[i]) = Cardinality(frames) + 1
                    /\ \A n \in Ladder(size) : \E v \in frames :
                          ShortEdge(v.size) \in Max({1, n - 2})..Max({2, n})
                    /\ \A v \in frames :
                          /\ v.size.w <= Max({2, size.w}) /\ v.size.h <= Max({2, size.h})
                          /\ (v.label # "source" /\ ~Elongated(size))
                                => Max({v.size.w, v.size.h}) <= TargetLong[v.label]
                          /\ v.size.w * size.h - v.size.h * size.w
                                \in -Max({size.w, size.h})..Max({size.w, size.h})

\* Every request is answered, and every job of a stored file ends, also when
\* ffprobe hangs and when other files of the request are refused.
EveryFileSettles ==
    <>(Answered /\ \A i \in Index : Stored(i) => job[i] \in {"published", "failed"})
=============================================================================
