---------------------------- MODULE MediaFormats ----------------------------
(***************************************************************************)
(* What the validator and the workers are told about a file, and what the  *)
(* validator concludes from it.  A file is                                 *)
(*   name     its extension, or "blank" / "bare" when the name is invalid  *)
(*            or has no extension                                          *)
(*   mime     the format its declared MIME type is an alias of, or "octet" *)
(*   size     in units of the limits                                       *)
(*   header   what its first 4096 bytes say                                *)
(*   probe    what ffprobe answers                                         *)
(*   picture  what sharp answers                                           *)
(***************************************************************************)
EXTENDS Integers, Sequences, FiniteSetsExt

ImageFormat == {"jpeg", "png", "webp"}
AudioFormat == {"mp3", "wav", "m4a", "aac", "flac", "ogg"}
VideoFormat == {"mp4", "mov", "webm", "mkv"}
Format == ImageFormat \cup AudioFormat \cup VideoFormat

mediaTypeOf(f) == CASE f \in ImageFormat -> "IMAGE"
                    [] f \in AudioFormat -> "AUDIO"
                    [] f \in VideoFormat -> "VIDEO"

\* The format an extension promises.
policies == [jpg |-> "jpeg", jpeg |-> "jpeg", png |-> "png", webp |-> "webp",
             mp3 |-> "mp3", wav |-> "wav", m4a |-> "m4a", aac |-> "aac",
             flac |-> "flac", ogg |-> "ogg", oga |-> "ogg",
             mp4 |-> "mp4", mov |-> "mov", webm |-> "webm", mkv |-> "mkv"]

isDeclaredMimeCompatible(format, mime) == mime \in {"octet", format}

----------------------------------------------------------------------------
(* What is known of a file.                                                 *)

\* A duration or a rate that ffprobe does not report.  A width or a height that is
\* not reported is 0, and so is a duration that is not above 0.
NaN == -1
MaybeNat == Nat \cup {NaN}

FileHeader == [magic : STRING, brands : SUBSET STRING, docType : STRING,
               complete : BOOLEAN]

\* `last' is the time of the last frame, `turned' a rotation by 90 degrees.
ProbeStream ==
    [type : {"video"}, codec : STRING, width : Nat, height : Nat, turned : BOOLEAN,
     duration : MaybeNat, last : Nat]
    \cup [type : {"audio"}, codec : STRING, duration : MaybeNat, rate : MaybeNat,
          channels : Nat]
    \cup [type : {"other"}, codec : STRING]

ProbeDocument == [ends : {"document", "fails", "hangs"}, container : STRING,
                  duration : MaybeNat, streams : Seq(ProbeStream)]

SharpMetadata == [format : STRING, width : Nat, height : Nat, pages : Nat,
                  decodes : BOOLEAN, turned : BOOLEAN]

UploadedFile == [name : STRING, mime : STRING, size : Nat, header : FileHeader,
                 probe : ProbeDocument, picture : SharpMetadata]

----------------------------------------------------------------------------
(* The signature.  Formats with a magic number of their own name themselves;*)
(* an ISO file names a variant by its brands, an EBML file by its DocType,  *)
(* when the box or the element is complete in the header.                   *)

PlainFormat == ImageFormat \cup (AudioFormat \ {"m4a"})

isoVariant(h) ==
    IF ~h.complete THEN "none"
    ELSE CASE "qt" \in h.brands -> "mov"
           [] "M4A" \in h.brands /\ "qt" \notin h.brands -> "m4a"
           [] OTHER             -> "none"

sharedIso(h) == /\ h.magic = "ftyp" /\ h.complete
                /\ "shared" \in h.brands /\ h.brands \cap {"qt", "M4A"} = {}

ebmlDocType(h) == IF ~h.complete THEN "none"
                  ELSE CASE h.docType = "webm"     -> "webm"
                         [] h.docType = "matroska" -> "mkv"
                         [] OTHER                  -> "none"

Recognized(h) == h.magic \in PlainFormat \cup {"ftyp", "ebml"}

variant(h) == CASE h.magic = "ftyp" -> isoVariant(h)
                [] h.magic = "ebml" -> ebmlDocType(h)
                [] OTHER            -> h.magic

\* Slip: a container must name its variant.
NamesVariant(h, format) == variant(h) = format

signatureMatchesPolicy(h, format) ==
    CASE h.magic = "ftyp" -> /\ format \in {"m4a", "mp4", "mov"}
                             /\ variant(h) \in {"none", format}
      [] h.magic = "ebml" -> format \in {"webm", "mkv"} /\ variant(h) = format
      [] OTHER            -> h.magic = format

----------------------------------------------------------------------------
(* The ffprobe document.                                                    *)

audioCodecs == {"aac", "flac", "mp3", "opus", "vorbis", "pcm"}
videoCodecs == {"av1", "h264", "hevc", "vp8", "vp9"}

StreamsOf(doc, type) == {k \in DOMAIN doc.streams : doc.streams[k].type = type}
Streams(doc, type) == {doc.streams[k] : k \in StreamsOf(doc, type)}

Container(format) == CASE format \in {"m4a", "mp4", "mov"} -> "iso"
                       [] format \in {"webm", "mkv"}       -> "ebml"
                       [] OTHER                            -> format

deriveFormat(h, doc) ==
    CASE h.magic = "ftyp" /\ variant(h) # "none" -> variant(h)
      [] h.magic = "ftyp" /\ variant(h) = "none" ->
            CASE ~sharedIso(h)                -> "none"
              [] sharedIso(h) /\ Streams(doc, "video") # {} -> "mp4"
              [] sharedIso(h) /\ Streams(doc, "video") = {}
                              /\ Streams(doc, "audio") # {} -> "m4a"
              [] OTHER                        -> "none"
      [] OTHER -> variant(h)

\* Slip: only the stream that is needed is looked for.
HasOwnStream(format, doc) ==
    Streams(doc, IF format \in AudioFormat THEN "audio" ELSE "video") # {}

streamContractMatches(format, doc) ==
    IF format \in AudioFormat
    THEN Streams(doc, "audio") # {} /\ Streams(doc, "video") = {}
    ELSE Streams(doc, "video") # {}

\* A maximum over durations one of which is NaN is NaN.
mediaDuration(doc, required) ==
    CASE doc.duration # NaN -> doc.duration
      [] doc.duration = NaN /\ \E s \in required : s.duration = NaN -> NaN
      [] OTHER -> Max({s.duration : s \in required} \cup {NaN})

validDimensions(s) == s.width > 0 /\ s.height > 0

----------------------------------------------------------------------------
\* A check, as the code it refuses with or "none".
Check(holds, code) == IF holds THEN "none" ELSE code

\* The outcome of checks in order: the first that is not "none".
FirstOf(checks) ==
    LET failing == {k \in DOMAIN checks : checks[k] # "none"}
    IN  IF failing = {} THEN "none" ELSE checks[Min(failing)]

\* The first stream of a type whose codec is not supported, or not reported.
codecFault(doc, type, supported, code) ==
    LET bad == {k \in StreamsOf(doc, type) : doc.streams[k].codec \notin supported}
    IN  IF bad = {} THEN "none"
        ELSE IF doc.streams[Min(bad)].codec = "none" THEN "CORRUPTED_FILE" ELSE code

validateDocument(h, doc, format) ==
    LET required == Streams(doc, IF format \in AudioFormat THEN "audio" ELSE "video")
    IN  FirstOf(<<
          Check(deriveFormat(h, doc) = format /\ doc.container = Container(format),
                "FILE_SIGNATURE_MISMATCH"),
          Check(required # {}, "MEDIA_STREAM_NOT_FOUND"),
          Check(streamContractMatches(format, doc), "FILE_SIGNATURE_MISMATCH"),
          codecFault(doc, "audio", audioCodecs, "UNSUPPORTED_AUDIO_CODEC"),
          codecFault(doc, "video", videoCodecs, "UNSUPPORTED_VIDEO_CODEC"),
          Check(mediaDuration(doc, required) > 0, "CORRUPTED_FILE"),
          Check(format \in VideoFormat =>
                    \A s \in Streams(doc, "video") : validDimensions(s),
                "CORRUPTED_FILE") >>)

\* Slip: the metadata is that of the first page.
FirstPageOnly(p, maxPixels) ==
    FirstOf(<<
      Check(p.format \in ImageFormat /\ p.width > 0 /\ p.height > 0, "CORRUPTED_FILE"),
      Check(p.width * p.height <= maxPixels, "IMAGE_PIXEL_LIMIT_EXCEEDED"),
      Check(p.decodes, "CORRUPTED_FILE") >>)

\* sharp: metadata of all pages first, then a decode of the first.
inspectImage(p, maxPixels) ==
    FirstOf(<<
      Check(p.format \in ImageFormat /\ p.width > 0 /\ p.height > 0, "CORRUPTED_FILE"),
      Check(p.pages = 1, "ANIMATED_IMAGE_NOT_SUPPORTED"),
      Check(p.width * p.height <= maxPixels, "IMAGE_PIXEL_LIMIT_EXCEEDED"),
      Check(p.decodes, "CORRUPTED_FILE") >>)
=============================================================================
