--------------------------- MODULE MediaValidation ---------------------------
(***************************************************************************)
(* MediaValidationService.validateFiles: the preflight of one request and  *)
(* then its files, one after the other, each with a read of its header, an *)
(* inspection by sharp or ffprobe, a second read of the header (audio and  *)
(* video) and a checksum.  Any read may fail and any probe may run into    *)
(* its timeout; such a file is `struck'.  The workspace files themselves   *)
(* do not change.                                                          *)
(***************************************************************************)
EXTENDS MediaFormats

CONSTANTS
    Requests,           \* the requests considered, sequences of files
    Limits,             \* EnvironmentConfiguration['upload']
    Faults              \* what may go wrong: "io", "probe"

ASSUME LimitsAssumption ==
    /\ {Limits.maxFilesPerRequest, Limits.maxTotalUploadSize, Limits.maxImagePixels,
        Limits.maxMediaStreams, Limits.maxVideoWidth, Limits.maxVideoHeight}
           \subseteq Nat \ {0}
    /\ Limits.maxSize \in [{"IMAGE", "AUDIO", "VIDEO"} -> Nat \ {0}]
    /\ Limits.maxDuration \in [{"AUDIO", "VIDEO"} -> Nat \ {0}]
ASSUME RequestsAssumption == Requests \subseteq Seq(UploadedFile)
ASSUME FaultsAssumption == Faults \subseteq {"io", "probe"}

VARIABLES
    files,      \* the submitted files
    stats,      \* per file: "pending", "known" or "failed"
    verdict,    \* per file: "open", "ok", or the code it is refused with
    at,         \* the file whose turn it is; 0 during the preflight
    step,       \* the await it has come to
    struck      \* the files that an I/O error or a timeout has struck

vars == <<files, stats, verdict, at, step, struck>>

Index == DOMAIN files

Init ==
    /\ files \in Requests
    /\ stats = [i \in Index |-> "pending"]
    /\ verdict = [i \in Index |-> "open"]
    /\ at = 0
    /\ step = "turn"
    /\ struck = {}

----------------------------------------------------------------------------
(* The preflight.                                                           *)

Eligible == {i \in Index : i <= Limits.maxFilesPerRequest}

Stat(i) ==
    /\ at = 0 /\ i \in Eligible /\ stats[i] = "pending"
    /\ \/ stats' = [stats EXCEPT ![i] = "known"] /\ UNCHANGED struck
       \/ /\ "io" \in Faults
          /\ stats' = [stats EXCEPT ![i] = "failed"]
          /\ struck' = struck \cup {i}
    /\ UNCHANGED <<files, verdict, at, step>>

sizes == [i \in Index |-> files[i].size]

\* Slip: the sum before the file.
AggregateBefore(i) ==
    SumFunctionOnSet(sizes, {j \in Eligible : j < i /\ stats[j] = "known"})

\* The sum of the known sizes, refused files included.
aggregate(i) ==
    SumFunctionOnSet(sizes, {j \in Eligible : j <= i /\ stats[j] = "known"})

preflight(i) ==
    FirstOf(<< Check(i \in Eligible, "FILE_COUNT_EXCEEDED"),
               Check(stats[i] = "known", "CORRUPTED_FILE"),
               Check(aggregate(i) <= Limits.maxTotalUploadSize,
                     "TOTAL_UPLOAD_SIZE_EXCEEDED") >>)

EndPreflight ==
    /\ at = 0
    /\ \A i \in Eligible : stats[i] # "pending"
    /\ verdict' = [i \in Index |-> IF preflight(i) = "none" THEN "open"
                                                           ELSE preflight(i)]
    /\ at' = 1
    /\ UNCHANGED <<files, stats, step, struck>>

----------------------------------------------------------------------------
(* One file.                                                                *)

format(f) == policies[f.name]

\* What is checked before the header is read.
nameFault(f) ==
    FirstOf(<< Check(f.size > 0, "EMPTY_FILE"),
               Check(f.name # "blank", "INVALID_ORIGINAL_FILENAME"),
               Check(f.name # "bare", "MISSING_EXTENSION"),
               Check(f.name \in DOMAIN policies, "UNSUPPORTED_EXTENSION"),
               Check(f.mime # "unsupported", "UNSUPPORTED_MIME_TYPE") >>)

headerFault(f) ==
    FirstOf(<< Check(Recognized(f.header), "UNKNOWN_FILE_SIGNATURE"),
               Check(/\ signatureMatchesPolicy(f.header, format(f))
                     /\ isDeclaredMimeCompatible(format(f), f.mime),
                     "FILE_SIGNATURE_MISMATCH") >>)

sizeFault(f) ==
    Check(f.size <= Limits.maxSize[mediaTypeOf(format(f))], "FILE_SIZE_EXCEEDED")

imageFault(f) ==
    FirstOf(<< inspectImage(f.picture, Limits.maxImagePixels),
               Check(f.picture.format = format(f), "FILE_SIGNATURE_MISMATCH"),
               sizeFault(f) >>)

assertSafety(f) ==
    LET doc  == f.probe
        type == mediaTypeOf(format(f))
        main == Streams(doc, IF type = "AUDIO" THEN "audio" ELSE "video")
        safe == /\ Len(doc.streams) <= Limits.maxMediaStreams
                /\ mediaDuration(doc, main) <= Limits.maxDuration[type]
                /\ type = "VIDEO" =>
                     \A s \in main : /\ s.width <= Limits.maxVideoWidth
                                     /\ s.height <= Limits.maxVideoHeight
    IN  Check(safe, "FILE_SIZE_EXCEEDED")

avFault(f) ==
    FirstOf(<< validateDocument(f.header, f.probe, format(f)),
               sizeFault(f),
               assertSafety(f) >>)

----------------------------------------------------------------------------
At(s) == at \in Index /\ step = s /\ verdict[at] = "open"

Goto(s) == step' = s /\ UNCHANGED <<files, stats, verdict, at, struck>>

\* The file's outcome; the loop goes on with the next file.
Decide(outcome) ==
    /\ verdict' = [verdict EXCEPT ![at] = outcome]
    /\ at' = at + 1
    /\ step' = "turn"

Refuse(code) == Decide(code) /\ UNCHANGED <<files, stats, struck>>

PassOn(fault, next) == IF fault = "none" THEN Goto(next) ELSE Refuse(fault)

\* Files the preflight refused are passed over.
Skip ==
    /\ at \in Index /\ verdict[at] # "open"
    /\ at' = at + 1
    /\ UNCHANGED <<files, stats, verdict, step, struck>>

StartFile == At("turn") /\ PassOn(nameFault(files[at]), "header")

ReadHeader ==
    /\ At("header")
    /\ PassOn(headerFault(files[at]),
              IF format(files[at]) \in ImageFormat THEN "image" ELSE "probe")

InspectImage == At("image") /\ PassOn(imageFault(files[at]), "checksum")

\* ffprobe exits; one that hangs or writes too much is killed.
Probe ==
    /\ At("probe")
    /\ files[at].probe.ends # "hangs"
    /\ PassOn(IF files[at].probe.ends = "document" THEN "none" ELSE "CORRUPTED_FILE",
              "document")

\* Slip: only a probe that would end is timed.
LateProbe ==
    /\ At("probe")
    /\ files[at].probe.ends # "hangs" /\ "probe" \in Faults
    /\ Decide("MEDIA_VALIDATION_TIMEOUT")
    /\ struck' = struck \cup {at}
    /\ UNCHANGED <<files, stats>>

ProbeTimesOut ==
    /\ At("probe")
    /\ files[at].probe.ends = "hangs" \/ "probe" \in Faults
    /\ Decide("MEDIA_VALIDATION_TIMEOUT")
    /\ struck' = struck \cup {at}
    /\ UNCHANGED <<files, stats>>

ReadHeaderAgain == At("document") /\ PassOn(avFault(files[at]), "checksum")

Checksum == At("checksum") /\ Refuse("ok")

ReadFails ==
    /\ "io" \in Faults
    /\ \E s \in {"header", "image", "document", "checksum"} : At(s)
    /\ Decide(IF step = "checksum" THEN "CHECKSUM_CALCULATION_FAILED"
                                   ELSE "CORRUPTED_FILE")
    /\ struck' = struck \cup {at}
    /\ UNCHANGED <<files, stats>>

Answered == at > Len(files)

Next ==
    \/ \E i \in Index : Stat(i)
    \/ EndPreflight
    \/ Skip \/ StartFile \/ ReadHeader \/ InspectImage \/ Probe \/ ProbeTimesOut
    \/ ReadHeaderAgain \/ Checksum \/ ReadFails

Spec == Init /\ [][Next]_vars
=============================================================================
