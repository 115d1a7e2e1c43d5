--------------------------- MODULE MCMediaPipeline ---------------------------
(***************************************************************************)
(* Requests for TLC: files of every kind under every name, and files with  *)
(* one property varied at a time.                                          *)
(***************************************************************************)
EXTENDS MediaPipeline

InstanceLimits ==
    [maxFilesPerRequest |-> 2, maxTotalUploadSize |-> 5,
     maxSize |-> [IMAGE |-> 2, AUDIO |-> 3, VIDEO |-> 4],
     maxImagePixels |-> 50000000, maxMediaStreams |-> 2,
     maxDuration |-> [AUDIO |-> 60, VIDEO |-> 30],
     maxVideoWidth |-> 7680, maxVideoHeight |-> 4320]

AllFaults == {"io", "probe"}

----------------------------------------------------------------------------
Header(magic) == [magic |-> magic, brands |-> {}, docType |-> "none", complete |-> TRUE]
Iso(brands) == [Header("ftyp") EXCEPT !.brands = brands]
Ebml(docType) == [Header("ebml") EXCEPT !.docType = docType]

HeaderOf(f) == CASE f = "m4a"  -> Iso({"M4A", "shared"})
                 [] f = "mp4"  -> Iso({"shared"})
                 [] f = "mov"  -> Iso({"qt"})
                 [] f = "webm" -> Ebml("webm")
                 [] f = "mkv"  -> Ebml("matroska")
                 [] OTHER      -> Header(f)

Video(w, h) == [type |-> "video", codec |-> "h264", width |-> w, height |-> h,
                turned |-> FALSE, duration |-> 20, last |-> 19]
Sound == [type |-> "audio", codec |-> "aac", duration |-> 20, rate |-> 44100,
          channels |-> 2]
Subtitles == [type |-> "other", codec |-> "subrip"]

Document(f) ==
    [ends |-> "document", container |-> Container(f), duration |-> 20,
     streams |-> IF f \in VideoFormat THEN <<Video(640, 360), Sound>> ELSE <<Sound>>]
NoDocument == [ends |-> "fails", container |-> "none", duration |-> NaN, streams |-> <<>>]

Picture(f) == [format |-> f, width |-> 2000, height |-> 1000, pages |-> 1,
               decodes |-> TRUE, turned |-> FALSE]
NoPicture == [Picture("none") EXCEPT !.decodes = FALSE]

\* A sound file of a format, named and declared as such.
File(f) ==
    [name |-> f, mime |-> f, size |-> 1, header |-> HeaderOf(f),
     probe |-> IF f \in ImageFormat THEN NoDocument ELSE Document(f),
     picture |-> IF f \in ImageFormat THEN Picture(f) ELSE NoPicture]

----------------------------------------------------------------------------
Names == DOMAIN policies \cup {"blank", "bare", "exe"}

\* Every content under every name, declared as one or the other or not at all.
Renamed == {[File(f) EXCEPT !.name = n, !.mime = m] :
               f \in Format, n \in Names, m \in {"octet", "unsupported", "mp4", "jpeg"}}
           \cup {[File(f) EXCEPT !.header = Header("unknown")] : f \in Format}

\* Containers whose brands, DocType and streams disagree.
Containers ==
    {[File(f) EXCEPT !.header = [h EXCEPT !.complete = c], !.probe.streams = s] :
        f \in {"m4a", "mp4", "mov", "webm", "mkv"},
        h \in {Iso(b) : b \in SUBSET {"qt", "M4A", "shared"}}
              \cup {Ebml(d) : d \in {"webm", "matroska", "none"}},
        c \in BOOLEAN,
        s \in {<<Sound>>, <<Video(640, 360)>>, <<Sound, Video(640, 360)>>, <<>>}}

\* Numbers at and beyond their limits, codecs and documents that are not supported.
Sizes == {[File(f) EXCEPT !.size = n] : f \in {"png", "mp3", "mov"}, n \in 0..5}

Documents ==
    {[File(f) EXCEPT !.probe.ends = e] : f \in {"mp3", "mp4"}, e \in {"fails", "hangs"}}
    \cup {[File(f) EXCEPT !.probe.container = "other"] : f \in {"mp3", "mp4"}}
    \cup {[File(f) EXCEPT !.probe.duration = d, !.probe.streams[1].duration = e] :
             f \in {"mp3", "webm"}, d \in {NaN, 0, 30, 31, 61}, e \in {NaN, 0, 20, 61}}
    \cup {[File(f) EXCEPT !.probe.streams[k].codec = c] :
             f \in {"mp4"}, k \in 1..2, c \in {"aac", "vp9", "pcm", "mjpeg", "ac3", "none"}}
    \cup {[File(f) EXCEPT !.probe.streams = <<Sound, [Sound EXCEPT !.codec = c]>>] :
             f \in {"ogg"}, c \in {"ac3", "none", "opus"}}
    \cup {[File(f) EXCEPT !.probe.streams = @ \o <<Sound>>] : f \in {"flac", "mkv"}}
    \cup {[File("mkv") EXCEPT !.probe.streams = <<Subtitles>> \o s] :
             s \in {<<Video(640, 360)>>, <<Sound>>, <<Video(640, 360), Sound>>}}
    \cup {[File("aac") EXCEPT !.probe.streams[1].rate = r, !.probe.streams[1].channels = n] :
             r \in {NaN, 8000, 37000, 96000}, n \in {0, 1, 6}}
    \cup {[File("mp4") EXCEPT !.probe.streams[1].last = n] : n \in {0, 1, 2}}

Frames == {<<0, 360>>, <<1, 1>>, <<7681, 4320>>, <<7680, 4320>>, <<320, 240>>, <<639, 360>>,
           <<640, 719>>, <<1280, 720>>, <<1918, 1080>>, <<1920, 1080>>, <<1080, 1920>>,
           <<1142, 2000>>, <<571, 1142>>}

Videos == {[File("mp4") EXCEPT !.probe.streams[1].width = s[1],
                               !.probe.streams[1].height = s[2],
                               !.probe.streams[1].turned = t] : s \in Frames, t \in BOOLEAN}

Pictures ==
    {[File("webp") EXCEPT !.picture.width = s[1], !.picture.height = s[2],
                          !.picture.turned = t] :
        s \in {<<0, 5>>, <<1, 5000>>, <<300, 200>>, <<8000, 5000>>, <<8000, 5001>>,
              <<8000, 6250>>, <<8000, 6251>>},
        t \in BOOLEAN}
    \cup {[File("png") EXCEPT !.picture.pages = n] : n \in 1..2}
    \cup {[File("jpeg") EXCEPT !.picture.decodes = b] : b \in BOOLEAN}

Single == {<<f>> : f \in Renamed \cup Containers \cup Sizes \cup Documents
                              \cup Videos \cup Pictures}

\* Two and three files whose sizes add up to less than, to and to more than the total.
Sized(a) == [File("mov") EXCEPT !.size = a]
Several == {<<Sized(a), Sized(b)>> : a \in 1..4, b \in 1..4}
           \cup {<<Sized(1), Sized(1), Sized(1)>>, <<File("png"), File("mp3")>>,
                 <<Sized(4), [File("png") EXCEPT !.size = 2], File("mp3")>>}

InstanceRequests == Single \cup Several
=============================================================================
