------------------------ MODULE MediaPipeline_proofs ------------------------
(***************************************************************************)
(* The validator decides, file by file and await by await, what            *)
(* MediaContents_proofs says of a file's contents; and what it accepts the *)
(* processors start.                                                       *)
(***************************************************************************)
EXTENDS MediaContents_proofs

----------------------------------------------------------------------------
(* The invariant.                                                           *)

Steps == {"turn", "header", "image", "probe", "document", "checksum"}

\* The variables' types, and the functions' domains.
TypeInv ==
    /\ files \in Requests
    /\ stats \in [Index -> {"pending", "known", "failed"}]
    /\ DOMAIN verdict = Index
    /\ at \in 0..(Len(files) + 1)
    /\ step \in Steps
    /\ struck \subseteq Index
    /\ job \in [Index -> {"none", "making", "published", "failed"}]
    /\ DOMAIN plan = Index /\ DOMAIN made = Index

\* The preflight sets no verdict until every size it asks for is known or failed.
PreflightInv ==
    /\ \A i \in Index : i \notin Eligible => stats[i] = "pending"
    /\ \A i \in Index : stats[i] = "failed" => i \in struck
    /\ at = 0 => step = "turn"
    /\ at > 0 => \A i \in Eligible : stats[i] # "pending"

\* The files whose turn has not ended have the verdict of the preflight; one that
\* has come to an await is open.
TurnInv ==
    /\ \A i \in Index : (at = 0 \/ at <= i) =>
          verdict[i] = IF at = 0 \/ preflight(i) = "none" THEN "open" ELSE preflight(i)
    /\ step # "turn" => at \in Index /\ verdict[at] = "open"

\* What the file whose turn it is has passed, by the await it has come to.
StepInv ==
    /\ step # "turn" => nameFault(files[at]) = "none"
    /\ step \in Steps \ {"turn", "header"} => headerFault(files[at]) = "none"
    /\ step = "image" => format(files[at]) \in ImageFormat
    /\ step \in {"probe", "document"} => format(files[at]) \notin ImageFormat
    /\ step = "document" => files[at].probe.ends = "document"
    /\ step = "checksum" => Passed(files[at])

\* A verdict is that of the preflight and the checks, unless a fault has struck.
VerdictInv ==
    \A i \in Index : i < at =>
        /\ verdict[i] = "ok" => preflight(i) = "none" /\ Passed(files[i])
        /\ verdict[i] # "ok" /\ i \notin struck => preflight(i) # "none" \/ ~Passed(files[i])

\* The outputs that are planned for a file.
PlannedLabels(size) ==
    {planVideoRenditions(size)[k] : k \in DOMAIN planVideoRenditions(size)}

Outputs(f) ==
    LET type == mediaTypeOf(format(f))
    IN  CASE type = "IMAGE" -> {"optimized", "thumbnail"}
          [] type = "AUDIO" -> {"mp3"}
          [] type = "VIDEO" -> PlannedLabels(Display(MainStream(f, "video"))) \cup {"thumbnail"}

\* A variant of the file: what the processor of its type makes of it.
IsVariant(f, v) ==
    LET type  == mediaTypeOf(format(f))
        size  == Display(MainStream(f, "video"))
        sound == MainStream(f, "audio")
    IN  /\ v.label \in Outputs(f)
        /\ type = "IMAGE" =>
              v.size = Inside(Display(f.picture), IF v.label = "optimized" THEN 1920 ELSE 400)
        /\ type = "AUDIO" =>
              /\ v.rate = normalizedRate(sound) /\ v.rate \in mp3Rates
              /\ v.channels = Least(Max({sound.channels, 1}), 2)
        /\ type = "VIDEO" /\ v.label # "thumbnail" =>
              \E box \in Boxes(v.label, size) : v.size = Frame(box, size)

\* Every output of the file is either still planned, once, or made, once.
Progress(f, outputs, variants) ==
    LET planned == {outputs[k] : k \in DOMAIN outputs}
    IN  /\ outputs \in Seq(Outputs(f))
        /\ \A j, k \in DOMAIN outputs : outputs[j] = outputs[k] => j = k
        /\ Outputs(f) = planned \cup {v.label : v \in variants}
        /\ \A v \in variants :
              /\ IsVariant(f, v) /\ v.label \notin planned
              /\ \A w \in variants : w.label = v.label => w = v

\* Jobs exist for stored files only, make what is planned for the file, and fail
\* for the reasons that are known.
JobInv ==
    \A i \in Index :
        /\ job[i] # "none" => Stored(i)
        /\ job[i] = "none" => made[i] = {}
        /\ job[i] \in {"making", "published"} => Progress(files[i], plan[i], made[i])
        /\ job[i] = "published" => plan[i] = <<>>
        /\ job[i] = "failed" /\ i \notin struck => BeyondTheProcessors(files[i])

PInv == TypeInv /\ PreflightInv /\ TurnInv /\ StepInv /\ VerdictInv /\ JobInv

----------------------------------------------------------------------------
LEMMA FileIsUploaded ==
  ASSUME files \in Requests, NEW i \in Index
  PROVE  /\ files[i] \in UploadedFile /\ i \in Nat \ {0} /\ i <= Len(files)
         /\ Len(files) \in Nat /\ Index = 1..Len(files)
<1>1. files \in Seq(UploadedFile)
  BY RequestsAssumption
<1>2. QED
  BY <1>1 DEF Index

LEMMA IndexFacts ==
  ASSUME files \in Requests
  PROVE  Len(files) \in Nat /\ Index = 1..Len(files) /\ IsFiniteSet(Index)
<1>1. files \in Seq(UploadedFile)
  BY RequestsAssumption
<1>2. QED
  BY <1>1, IndicesFinite DEF Index

LEMMA PreflightChecks ==
  ASSUME NEW i
  PROVE  /\ preflight(i) \notin {"ok", "open"}
         /\ preflight(i) = "none" <=>
              /\ i \in Eligible /\ stats[i] = "known"
              /\ aggregate(i) <= Limits.maxTotalUploadSize
<1> DEFINE a == Check(i \in Eligible, "FILE_COUNT_EXCEEDED")
           b == Check(stats[i] = "known", "CORRUPTED_FILE")
           c == Check(aggregate(i) <= Limits.maxTotalUploadSize,
                      "TOTAL_UPLOAD_SIZE_EXCEEDED")
<1>1. preflight(i) = FirstOf(<<a, b, c>>)
  BY DEF preflight
<1>2. /\ a \in {"none", "FILE_COUNT_EXCEEDED"} /\ (a = "none" <=> i \in Eligible)
      /\ b \in {"none", "CORRUPTED_FILE"} /\ (b = "none" <=> stats[i] = "known")
      /\ c \in {"none", "TOTAL_UPLOAD_SIZE_EXCEEDED"}
      /\ (c = "none" <=> aggregate(i) <= Limits.maxTotalUploadSize)
  BY DEF Check
<1> HIDE DEF a, b, c
<1>3. QED
  BY <1>1, <1>2, FirstOfThree

\* What depends on the files and their sizes only.
LEMMA PreflightStays ==
  ASSUME UNCHANGED <<files, stats>>
  PROVE  /\ Index' = Index /\ Eligible' = Eligible
         /\ \A i : preflight(i)' = preflight(i)
         /\ \A i : Type(i)' = Type(i)
<1>1. Index' = Index /\ Eligible' = Eligible /\ sizes' = sizes
  BY DEF Index, Eligible, sizes
<1>2. \A i : aggregate(i)' = aggregate(i)
  BY <1>1 DEF aggregate
<1>3. QED
  BY <1>1, <1>2 DEF preflight, Type

----------------------------------------------------------------------------
LEMMA PInvInit == PipelineInit => PInv
<1> SUFFICES ASSUME PipelineInit PROVE PInv
  OBVIOUS
<1>1. TypeInv
  <2>1. Len(files) \in Nat
    BY IndexFacts DEF PipelineInit, Init
  <2>2. QED
    BY <2>1 DEF TypeInv, PipelineInit, Init, Steps
<1>2. QED
  BY <1>1 DEF PInv, PreflightInv, TurnInv, StepInv, VerdictInv, JobInv, TypeInv, Index,
     PipelineInit, Init, Steps

\* While the validator works there are no jobs.
LEMMA NoJobsYet ==
  ASSUME PInv, Next
  PROVE  \A i \in Index : job[i] = "none"
<1>1. Len(files) \in Nat /\ Index = 1..Len(files) /\ at \in 0..(Len(files) + 1)
  BY IndexFacts DEF PInv, TypeInv
<1>2. ~ Answered
  BY <1>1 DEF Next, Answered, At, Stat, EndPreflight, Skip, StartFile, ReadHeader,
     InspectImage, Probe, ProbeTimesOut, ReadHeaderAgain, Checksum, ReadFails
<1>3. QED
  BY <1>2 DEF PInv, JobInv, Stored

LEMMA JobsWait ==
  ASSUME PInv, Next, UNCHANGED jobVars, UNCHANGED files
  PROVE  JobInv'
<1>1. Index' = Index
  BY DEF Index
<1>2. \A i \in Index : job'[i] = "none" /\ made'[i] = {}
  BY NoJobsYet DEF PInv, JobInv, jobVars
<1>3. QED
  BY <1>1, <1>2 DEF JobInv

----------------------------------------------------------------------------
(* The preflight.                                                           *)

LEMMA StatStep ==
  ASSUME PInv, NEW i \in Index, Stat(i), UNCHANGED jobVars
  PROVE  PInv'
<1>1. at = 0 /\ at' = 0 /\ step' = step /\ files' = files /\ verdict' = verdict
  BY DEF Stat
<1>2. Index' = Index /\ Eligible' = Eligible
  BY <1>1 DEF Index, Eligible
<1>3. /\ i \in Eligible /\ struck \subseteq struck'
      /\ \/ stats' = [stats EXCEPT ![i] = "known"] /\ struck' = struck
         \/ stats' = [stats EXCEPT ![i] = "failed"] /\ struck' = struck \cup {i}
  BY DEF Stat
<1>4. TypeInv /\ PreflightInv /\ TurnInv
  BY DEF PInv
<1>5. TypeInv'
  <2>1. /\ files' \in Requests /\ DOMAIN verdict' = Index' /\ at' \in 0..(Len(files') + 1)
        /\ step' \in Steps /\ job' \in [Index' -> {"none", "making", "published", "failed"}]
        /\ DOMAIN plan' = Index' /\ DOMAIN made' = Index'
    BY <1>1, <1>2, <1>4 DEF TypeInv, jobVars
  <2>2. stats' \in [Index' -> {"pending", "known", "failed"}] /\ struck' \subseteq Index'
    BY <1>2, <1>3, <1>4 DEF TypeInv
  <2>3. QED
    BY <2>1, <2>2 DEF TypeInv
<1>6. PreflightInv'
  <2>1. \A j \in Index : j \notin Eligible => stats'[j] = "pending"
    BY <1>3, <1>4 DEF TypeInv, PreflightInv
  <2>2. \A j \in Index : stats'[j] = "failed" => j \in struck'
    BY <1>3, <1>4 DEF TypeInv, PreflightInv
  <2>3. QED
    BY <1>1, <1>2, <1>4, <2>1, <2>2 DEF PreflightInv
<1>7. TurnInv'
  BY <1>1, <1>2, <1>4 DEF TurnInv, PreflightInv
<1>8. StepInv'
  BY <1>1, <1>4 DEF StepInv, PreflightInv, Steps
<1>9. VerdictInv'
  <2>1. \A j \in Index : ~ (j < 0)
    BY <1>4, IndexFacts DEF TypeInv
  <2>2. QED
    BY <1>1, <1>2, <2>1 DEF VerdictInv
<1>10. JobInv'
  BY <1>1, JobsWait DEF Next
<1>11. QED
  BY <1>5, <1>6, <1>7, <1>8, <1>9, <1>10 DEF PInv

LEMMA EndPreflightStep ==
  ASSUME PInv, EndPreflight, UNCHANGED jobVars
  PROVE  PInv'
<1>1. /\ at = 0 /\ at' = 1 /\ files' = files /\ stats' = stats /\ step' = step
      /\ struck' = struck /\ \A i \in Eligible : stats[i] # "pending"
      /\ verdict' = [i \in Index |-> IF preflight(i) = "none" THEN "open" ELSE preflight(i)]
  BY DEF EndPreflight
<1>2. Index' = Index /\ Eligible' = Eligible /\ \A i : preflight(i)' = preflight(i)
  BY <1>1, PreflightStays
<1>3. TypeInv /\ PreflightInv
  BY DEF PInv
<1>4. Len(files) \in Nat /\ Index = 1..Len(files)
  BY <1>3, IndexFacts DEF TypeInv
<1>5. TypeInv'
  BY <1>1, <1>2, <1>3, <1>4 DEF TypeInv, jobVars
<1>6. PreflightInv'
  BY <1>1, <1>2, <1>3 DEF PreflightInv
<1>7. TurnInv'
  BY <1>1, <1>2, <1>3 DEF TurnInv, PreflightInv
<1>8. StepInv'
  BY <1>1, <1>3 DEF StepInv, PreflightInv, Steps
<1>9. VerdictInv'
  <2>1. \A j \in Index : ~ (j < 1)
    BY <1>4
  <2>2. QED
    BY <1>1, <1>2, <2>1 DEF VerdictInv
<1>10. JobInv'
  BY <1>1, JobsWait DEF Next
<1>11. QED
  BY <1>5, <1>6, <1>7, <1>8, <1>9, <1>10 DEF PInv

----------------------------------------------------------------------------
(* The files' turns.                                                        *)

\* A file whose turn has come to an await passed the preflight.
LEMMA OpenPassedPreflight ==
  ASSUME PInv, at \in Index, verdict[at] = "open"
  PROVE  at > 0 /\ preflight(at) = "none"
<1>1. Len(files) \in Nat /\ Index = 1..Len(files) /\ at \in 0..(Len(files) + 1)
  BY IndexFacts DEF PInv, TypeInv
<1>2. verdict[at] = IF preflight(at) = "none" THEN "open" ELSE preflight(at)
  BY <1>1 DEF PInv, TurnInv
<1>3. QED
  BY <1>1, <1>2, PreflightChecks

LEMMA SkipStep ==
  ASSUME PInv, Skip, UNCHANGED jobVars
  PROVE  PInv'
<1>1. /\ at \in Index /\ verdict[at] # "open" /\ at' = at + 1
      /\ files' = files /\ stats' = stats /\ verdict' = verdict
      /\ step' = step /\ struck' = struck
  BY DEF Skip
<1>2. Index' = Index /\ Eligible' = Eligible /\ \A i : preflight(i)' = preflight(i)
  BY <1>1, PreflightStays
<1>3. TypeInv /\ PreflightInv /\ TurnInv /\ VerdictInv
  BY DEF PInv
<1>4. Len(files) \in Nat /\ Index = 1..Len(files) /\ at \in 1..Len(files)
  BY <1>1, <1>3, IndexFacts DEF TypeInv
<1>5. step = "turn"
  BY <1>1, <1>3 DEF TurnInv
<1>6. verdict[at] = preflight(at) /\ preflight(at) # "none" /\ verdict[at] # "ok"
  <2>1. verdict[at] = IF preflight(at) = "none" THEN "open" ELSE preflight(at)
    BY <1>3, <1>4 DEF TurnInv
  <2>2. QED
    BY <1>1, <2>1, PreflightChecks
<1>7. TypeInv'
  BY <1>1, <1>2, <1>3, <1>4 DEF TypeInv, jobVars
<1>8. PreflightInv'
  BY <1>1, <1>2, <1>3, <1>4 DEF PreflightInv
<1>9. TurnInv'
  BY <1>1, <1>2, <1>3, <1>4, <1>5 DEF TurnInv
<1>10. StepInv'
  BY <1>1, <1>5 DEF StepInv, Steps
<1>11. VerdictInv'
  <2>1. \A i \in Index : i < at + 1 => i < at \/ i = at
    BY <1>4
  <2>2. \A i \in Index : Passed(files[i])' <=> Passed(files[i])
    BY <1>1 DEF Passed, nameFault, headerFault, imageFault, avFault, sizeFault,
       assertSafety, format
  <2>3. QED
    BY <1>1, <1>2, <1>3, <1>6, <2>1, <2>2 DEF VerdictInv
<1>12. JobInv'
  BY <1>1, JobsWait DEF Next
<1>13. QED
  BY <1>7, <1>8, <1>9, <1>10, <1>11, <1>12 DEF PInv

\* The file goes on to its next await.
LEMMA GotoStep ==
  ASSUME PInv, Next, at \in Index, verdict[at] = "open", NEW s \in Steps \ {"turn"},
         Goto(s), UNCHANGED jobVars, StepInv'
  PROVE  PInv'
<1>1. /\ step' = s /\ files' = files /\ stats' = stats /\ verdict' = verdict
      /\ at' = at /\ struck' = struck
  BY DEF Goto
<1>2. Index' = Index /\ Eligible' = Eligible /\ \A i : preflight(i)' = preflight(i)
  BY <1>1, PreflightStays
<1>3. TypeInv /\ PreflightInv /\ TurnInv /\ VerdictInv
  BY DEF PInv
<1>4. at > 0
  BY OpenPassedPreflight
<1>5. TypeInv'
  BY <1>1, <1>2, <1>3 DEF TypeInv, jobVars
<1>6. PreflightInv'
  BY <1>1, <1>2, <1>3, <1>4 DEF PreflightInv, TypeInv
<1>7. TurnInv'
  BY <1>1, <1>2, <1>3 DEF TurnInv
<1>8. VerdictInv'
  <2>1. \A i \in Index : Passed(files[i])' <=> Passed(files[i])
    BY <1>1 DEF Passed, nameFault, headerFault, imageFault, avFault, sizeFault,
       assertSafety, format
  <2>2. QED
    BY <1>1, <1>2, <1>3, <2>1 DEF VerdictInv
<1>9. JobInv'
  BY <1>1, JobsWait
<1>10. QED
  BY <1>5, <1>6, <1>7, <1>8, <1>9 DEF PInv

\* The file's turn ends: it has passed, it has not, or a fault strikes it.
LEMMA DecideStep ==
  ASSUME PInv, Next, at \in Index, verdict[at] = "open", NEW outcome, Decide(outcome),
         UNCHANGED <<files, stats>>, UNCHANGED jobVars, struck' \in {struck, struck \cup {at}},
         outcome = "ok" => Passed(files[at]),
         outcome # "ok" => at \in struck' \/ ~ Passed(files[at])
  PROVE  PInv'
<1>1. /\ files' = files /\ stats' = stats /\ at' = at + 1 /\ step' = "turn"
      /\ verdict' = [verdict EXCEPT ![at] = outcome]
  BY DEF Decide
<1>2. Index' = Index /\ Eligible' = Eligible /\ \A i : preflight(i)' = preflight(i)
  BY <1>1, PreflightStays
<1>3. TypeInv /\ PreflightInv /\ TurnInv /\ VerdictInv
  BY DEF PInv
<1>4. Len(files) \in Nat /\ Index = 1..Len(files) /\ at \in 1..Len(files)
  BY <1>3, IndexFacts DEF TypeInv
<1>5. preflight(at) = "none"
  BY OpenPassedPreflight
<1>6. /\ verdict'[at] = outcome /\ DOMAIN verdict' = Index
      /\ \A i \in Index : i # at => verdict'[i] = verdict[i]
  BY <1>1, <1>3 DEF TypeInv
<1>7. struck \subseteq struck' /\ struck' \subseteq Index
  BY <1>3 DEF TypeInv
<1>8. TypeInv'
  BY <1>1, <1>2, <1>3, <1>4, <1>6, <1>7 DEF TypeInv, jobVars, Steps
<1>9. PreflightInv'
  BY <1>1, <1>2, <1>3, <1>4, <1>7 DEF PreflightInv
<1>10. TurnInv'
  BY <1>1, <1>2, <1>3, <1>4, <1>6 DEF TurnInv
<1>11. StepInv'
  BY <1>1 DEF StepInv, Steps
<1>12. VerdictInv'
  <2>1. \A i \in Index : i < at + 1 => i < at \/ i = at
    BY <1>4
  <2>2. \A i \in Index : i < at => i # at
    BY <1>4
  <2>3. \A i \in Index : Passed(files[i])' <=> Passed(files[i])
    BY <1>1 DEF Passed, nameFault, headerFault, imageFault, avFault, sizeFault,
       assertSafety, format
  <2>4. QED
    BY <1>1, <1>2, <1>3, <1>5, <1>6, <1>7, <2>1, <2>2, <2>3 DEF VerdictInv
<1>13. JobInv'
  BY <1>1, JobsWait
<1>14. QED
  BY <1>8, <1>9, <1>10, <1>11, <1>12, <1>13 DEF PInv

LEMMA FaultsAreNotOk ==
  ASSUME NEW f \in UploadedFile
  PROVE  /\ nameFault(f) # "ok" /\ headerFault(f) # "ok"
         /\ f.name \in DOMAIN policies =>
              IF format(f) \in ImageFormat THEN imageFault(f) # "ok" ELSE avFault(f) # "ok"
<1>1. nameFault(f) # "ok" /\ headerFault(f) # "ok"
  BY NameChecks, HeaderChecks
<1>2. f.name \in DOMAIN policies =>
        format(f) \in ImageFormat \/ format(f) \in AudioFormat \cup VideoFormat
  BY PolicyFormats DEF format, Format
<1>3. QED
  BY <1>1, <1>2, ImageChecks, AvChecks

LEMMA TurnSteps ==
  ASSUME PInv, Next, UNCHANGED jobVars,
         StartFile \/ ReadHeader \/ InspectImage \/ Probe \/ ProbeTimesOut
         \/ ReadHeaderAgain \/ Checksum \/ ReadFails
  PROVE  PInv'
<1> DEFINE f == files[at]
<1>1. at \in Index /\ verdict[at] = "open"
  BY DEF StartFile, ReadHeader, InspectImage, Probe, ProbeTimesOut, ReadHeaderAgain,
     Checksum, ReadFails, At
<1>2. f \in UploadedFile
  BY <1>1, FileIsUploaded DEF PInv, TypeInv
<1>3. nameFault(f) = "none" => f.name \in DOMAIN policies
  BY <1>2, NameChecks
<1>4. StepInv
  BY DEF PInv
\* A check refuses the file, which therefore does not pass.
<1>5. ASSUME NEW fault, fault # "ok", Refuse(fault), ~ Passed(f)
      PROVE  PInv'
  <2>1. Decide(fault) /\ UNCHANGED <<files, stats, struck>>
    BY <1>5 DEF Refuse
  <2>2. QED
    BY <1>1, <1>5, <2>1, DecideStep
\* The file is passed on.
<1>6. ASSUME NEW s \in Steps \ {"turn"}, Goto(s),
             nameFault(f) = "none", s # "header" => headerFault(f) = "none",
             s = "image" => format(f) \in ImageFormat,
             s \in {"probe", "document"} => format(f) \notin ImageFormat,
             s = "document" => f.probe.ends = "document",
             s = "checksum" => Passed(f)
      PROVE  PInv'
  <2>1. files'[at'] = f /\ step' = s
    BY <1>6 DEF Goto
  <2>2. StepInv'
    BY <1>6, <2>1 DEF StepInv, Steps, Passed, nameFault, headerFault, imageFault, avFault,
       sizeFault, assertSafety, format
  <2>3. QED
    BY <1>1, <1>6, <2>2, GotoStep
\* A check of the file, one way or the other.
<1>7. ASSUME NEW fault, fault # "ok", NEW s \in Steps \ {"turn"}, PassOn(fault, s)
      PROVE  \/ fault = "none" /\ Goto(s)
             \/ fault # "none" /\ Refuse(fault)
  BY <1>7 DEF PassOn
<1>8. CASE StartFile
  <2>1. nameFault(f) # "ok" /\ PassOn(nameFault(f), "header")
    BY <1>2, <1>8, FaultsAreNotOk DEF StartFile
  <2>2. "header" \in Steps \ {"turn"}
    BY DEF Steps
  <2>3. nameFault(f) # "none" => ~ Passed(f)
    BY DEF Passed
  <2>4. QED
    BY <1>5, <1>6, <1>7, <2>1, <2>2, <2>3
<1>9. CASE ReadHeader
  <2>1. /\ step = "header" /\ headerFault(f) # "ok"
        /\ PassOn(headerFault(f), IF format(f) \in ImageFormat THEN "image" ELSE "probe")
    BY <1>2, <1>9, FaultsAreNotOk DEF ReadHeader, At
  <2>2. nameFault(f) = "none"
    BY <1>4, <2>1 DEF StepInv
  <2>3. headerFault(f) # "none" => ~ Passed(f)
    BY DEF Passed
  <2> DEFINE s == IF format(f) \in ImageFormat THEN "image" ELSE "probe"
  <2>4. /\ s \in Steps \ {"turn", "header", "document", "checksum"}
        /\ s = "image" => format(f) \in ImageFormat
        /\ s = "probe" => format(f) \notin ImageFormat
    BY DEF Steps
  <2> HIDE DEF s
  <2>5. PassOn(headerFault(f), s)
    BY <2>1 DEF s
  <2>6. QED
    BY <1>5, <1>6, <1>7, <2>1, <2>2, <2>3, <2>4, <2>5
<1>10. CASE InspectImage
  <2>1. step = "image" /\ PassOn(imageFault(f), "checksum")
    BY <1>10 DEF InspectImage, At
  <2>2. /\ nameFault(f) = "none" /\ headerFault(f) = "none" /\ format(f) \in ImageFormat
    BY <1>4, <2>1 DEF StepInv, Steps
  <2>3. imageFault(f) # "ok" /\ (imageFault(f) = "none" <=> Passed(f))
    BY <1>2, <1>3, <2>2, FaultsAreNotOk DEF Passed
  <2>4. "checksum" \in Steps \ {"turn"}
    BY DEF Steps
  <2>5. QED
    BY <1>5, <1>6, <1>7, <2>1, <2>2, <2>3, <2>4
<1>11. CASE Probe
  <2> DEFINE fault == IF f.probe.ends = "document" THEN "none" ELSE "CORRUPTED_FILE"
  <2>1. step = "probe" /\ PassOn(fault, "document")
    BY <1>11 DEF Probe, At
  <2>2. /\ nameFault(f) = "none" /\ headerFault(f) = "none"
        /\ format(f) \notin ImageFormat
    BY <1>4, <2>1 DEF StepInv, Steps
  <2>3. /\ fault # "ok" /\ (fault = "none" <=> f.probe.ends = "document")
        /\ fault # "none" => ~ Passed(f)
    BY <2>2 DEF Passed
  <2>4. "document" \in Steps \ {"turn"}
    BY DEF Steps
  <2> HIDE DEF fault
  <2>5. QED
    BY <1>5, <1>6, <1>7, <2>1, <2>2, <2>3, <2>4
<1>12. CASE ProbeTimesOut
  BY <1>1, <1>12, DecideStep DEF ProbeTimesOut
<1>13. CASE ReadHeaderAgain
  <2>1. step = "document" /\ PassOn(avFault(f), "checksum")
    BY <1>13 DEF ReadHeaderAgain, At
  <2>2. /\ nameFault(f) = "none" /\ headerFault(f) = "none"
        /\ format(f) \notin ImageFormat /\ f.probe.ends = "document"
    BY <1>4, <2>1 DEF StepInv, Steps
  <2>3. avFault(f) # "ok" /\ (avFault(f) = "none" <=> Passed(f))
    BY <1>2, <1>3, <2>2, FaultsAreNotOk DEF Passed
  <2>4. "checksum" \in Steps \ {"turn"}
    BY DEF Steps
  <2>5. QED
    BY <1>5, <1>6, <1>7, <2>1, <2>2, <2>3, <2>4
<1>14. CASE Checksum
  <2>1. step = "checksum" /\ Decide("ok") /\ UNCHANGED <<files, stats, struck>>
    BY <1>14 DEF Checksum, At, Refuse
  <2>2. Passed(f)
    BY <1>4, <2>1 DEF StepInv
  <2>3. QED
    BY <1>1, <2>1, <2>2, DecideStep
<1>15. CASE ReadFails
  <2> DEFINE outcome == IF step = "checksum" THEN "CHECKSUM_CALCULATION_FAILED"
                                             ELSE "CORRUPTED_FILE"
  <2>1. Decide(outcome) /\ struck' = struck \cup {at} /\ UNCHANGED <<files, stats>>
    BY <1>15 DEF ReadFails
  <2>2. outcome # "ok"
    OBVIOUS
  <2> HIDE DEF outcome
  <2>3. QED
    BY <1>1, <2>1, <2>2, DecideStep
<1>16. QED
  BY <1>8, <1>9, <1>10, <1>11, <1>12, <1>13, <1>14, <1>15

----------------------------------------------------------------------------
(* The jobs.                                                                *)

LEMMA TailFacts ==
  ASSUME NEW S, NEW s \in Seq(S), s # <<>>
  PROVE  /\ Head(s) = s[1] /\ 1 \in DOMAIN s /\ Tail(s) \in Seq(S)
         /\ DOMAIN s = 1..Len(s) /\ Len(s) \in Nat \ {0}
         /\ DOMAIN Tail(s) = 1..(Len(s) - 1)
         /\ \A k \in 1..(Len(s) - 1) : Tail(s)[k] = s[k + 1]
OBVIOUS

LEMMA ProgressMade ==
  ASSUME NEW f, NEW p, NEW m, Progress(f, p, m), p # <<>>,
         NEW v, IsVariant(f, v), v.label = Head(p)
  PROVE  Progress(f, Tail(p), m \cup {v})
<1> DEFINE planned == {p[k] : k \in DOMAIN p}
           rest == {Tail(p)[k] : k \in DOMAIN Tail(p)}
<1>1. /\ p \in Seq(Outputs(f))
      /\ \A j, k \in DOMAIN p : p[j] = p[k] => j = k
      /\ Outputs(f) = planned \cup {w.label : w \in m}
      /\ \A w \in m : /\ IsVariant(f, w) /\ w.label \notin planned
                      /\ \A u \in m : u.label = w.label => u = w
  BY DEF Progress
<1>2. /\ Head(p) = p[1] /\ 1 \in DOMAIN p /\ Tail(p) \in Seq(Outputs(f))
      /\ DOMAIN p = 1..Len(p) /\ Len(p) \in Nat \ {0}
      /\ DOMAIN Tail(p) = 1..(Len(p) - 1)
      /\ \A k \in 1..(Len(p) - 1) : Tail(p)[k] = p[k + 1]
  BY <1>1, TailFacts
<1>3. \A k \in DOMAIN Tail(p) :
        k \in Int /\ k + 1 \in DOMAIN p /\ k + 1 # 1 /\ Tail(p)[k] = p[k + 1]
  BY <1>2
<1>4. \A j, k \in DOMAIN Tail(p) : Tail(p)[j] = Tail(p)[k] => j = k
  <2> SUFFICES ASSUME NEW j \in DOMAIN Tail(p), NEW k \in DOMAIN Tail(p),
                      Tail(p)[j] = Tail(p)[k]
               PROVE  j = k
    OBVIOUS
  <2>1. j + 1 = k + 1
    BY <1>1, <1>3
  <2>2. QED
    BY <1>3, <2>1
<1>5. rest = planned \ {Head(p)}
  <2>1. rest \subseteq planned
    BY <1>3
  <2>2. Head(p) \notin rest
    BY <1>1, <1>2, <1>3
  <2>3. ASSUME NEW x \in planned, x # Head(p) PROVE x \in rest
    <3>1. PICK k \in DOMAIN p : x = p[k]
      BY <2>3
    <3>2. k - 1 \in DOMAIN Tail(p) /\ Tail(p)[k - 1] = p[k]
      BY <1>2, <2>3, <3>1
    <3>3. QED
      BY <3>1, <3>2
  <2>4. QED
    BY <2>1, <2>2, <2>3
<1>6. Head(p) \in planned
  BY <1>2
<1> HIDE DEF planned, rest
<1>7. Outputs(f) = rest \cup {w.label : w \in m \cup {v}}
  BY <1>1, <1>5, <1>6
<1>8. \A w \in m \cup {v} :
         /\ IsVariant(f, w) /\ w.label \notin rest
         /\ \A u \in m \cup {v} : u.label = w.label => u = w
  BY <1>1, <1>5, <1>6
<1>9. QED
  BY <1>2, <1>4, <1>7, <1>8 DEF Progress, rest

LEMMA PlanFacts ==
  ASSUME NEW size
  PROVE  /\ planVideoRenditions(size) \in
              {<<"source">>, <<"360p">>, <<"360p", "720p">>, <<"360p", "720p", "1080p">>}
         /\ planVideoRenditions(size) \in Seq(PlannedLabels(size))
         /\ "thumbnail" \notin PlannedLabels(size)
         /\ \A j, k \in DOMAIN planVideoRenditions(size) :
              planVideoRenditions(size)[j] = planVideoRenditions(size)[k] => j = k
<1> DEFINE s == planVideoRenditions(size)
<1>1. s \in {<<"source">>, <<"360p">>, <<"360p", "720p">>, <<"360p", "720p", "1080p">>}
  BY DEF planVideoRenditions
<1>2. PlannedLabels(size) = {s[k] : k \in DOMAIN s}
  BY DEF PlannedLabels
<1> HIDE DEF s
<1>3. CASE s = <<"source">>
  BY <1>1, <1>2, <1>3 DEF s
<1>4. CASE s = <<"360p">>
  BY <1>1, <1>2, <1>4 DEF s
<1>5. CASE s = <<"360p", "720p">>
  BY <1>1, <1>2, <1>5 DEF s
<1>6. CASE s = <<"360p", "720p", "1080p">>
  BY <1>1, <1>2, <1>6 DEF s
<1>7. QED
  BY <1>1, <1>3, <1>4, <1>5, <1>6

LEMMA AppendFacts ==
  ASSUME NEW S, NEW s \in Seq(S), NEW x
  PROVE  /\ s \o <<x>> \in Seq(S \cup {x})
         /\ DOMAIN s = 1..Len(s) /\ Len(s) \in Nat
         /\ DOMAIN (s \o <<x>>) = 1..(Len(s) + 1)
         /\ \A k \in 1..Len(s) : (s \o <<x>>)[k] = s[k]
         /\ (s \o <<x>>)[Len(s) + 1] = x
<1>1. s \in Seq(S \cup {x}) /\ <<x>> \in Seq(S \cup {x}) /\ Len(<<x>>) = 1
  OBVIOUS
<1>2. QED
  BY <1>1

\* A plan to begin with.
LEMMA ProgressStart ==
  ASSUME NEW f, NEW p,
         LET type == mediaTypeOf(format(f))
         IN  \/ type = "IMAGE" /\ p = <<"optimized", "thumbnail">>
             \/ type = "AUDIO" /\ p = <<"mp3">>
             \/ /\ type = "VIDEO"
                /\ p = planVideoRenditions(Display(MainStream(f, "video"))) \o <<"thumbnail">>
  PROVE  Progress(f, p, {})
<1> DEFINE type == mediaTypeOf(format(f))
           planned == {p[k] : k \in DOMAIN p}
<1> SUFFICES /\ p \in Seq(Outputs(f))
             /\ \A j, k \in DOMAIN p : p[j] = p[k] => j = k
             /\ Outputs(f) = planned
  BY DEF Progress
<1>1. CASE type = "IMAGE" /\ p = <<"optimized", "thumbnail">>
  <2>1. Outputs(f) = {"optimized", "thumbnail"}
    BY <1>1 DEF Outputs
  <2>2. QED
    BY <1>1, <2>1
<1>2. CASE type = "AUDIO" /\ p = <<"mp3">>
  <2>1. Outputs(f) = {"mp3"}
    BY <1>2 DEF Outputs
  <2>2. QED
    BY <1>2, <2>1
<1>3. CASE /\ type = "VIDEO"
           /\ p = planVideoRenditions(Display(MainStream(f, "video"))) \o <<"thumbnail">>
  <2> DEFINE size == Display(MainStream(f, "video"))
             s == planVideoRenditions(size)
             labels == PlannedLabels(size)
  <2>1. Outputs(f) = labels \cup {"thumbnail"}
    BY <1>3 DEF Outputs
  <2>2. /\ s \in Seq(labels) /\ "thumbnail" \notin labels
        /\ \A j, k \in DOMAIN s : s[j] = s[k] => j = k
    BY PlanFacts
  <2>3. labels = {s[k] : k \in DOMAIN s} /\ p = s \o <<"thumbnail">>
    BY <1>3 DEF PlannedLabels
  <2> HIDE DEF s, labels
  <2>4. /\ p \in Seq(labels \cup {"thumbnail"})
        /\ DOMAIN s = 1..Len(s) /\ Len(s) \in Nat
        /\ DOMAIN p = 1..(Len(s) + 1)
        /\ \A k \in 1..Len(s) : p[k] = s[k]
        /\ p[Len(s) + 1] = "thumbnail"
    BY <2>2, <2>3, AppendFacts
  <2>5. DOMAIN p = DOMAIN s \cup {Len(s) + 1} /\ Len(s) + 1 \notin DOMAIN s
    BY <2>4
  <2>6. \A k \in DOMAIN s : p[k] = s[k] /\ s[k] \in labels
    BY <2>3, <2>4
  <2>7. planned = labels \cup {"thumbnail"}
    BY <2>3, <2>4, <2>5, <2>6, SMTT(30)
  <2>8. \A j, k \in DOMAIN p : p[j] = p[k] => j = k
    BY <2>2, <2>4, <2>5, <2>6
  <2>9. QED
    BY <2>1, <2>4, <2>7, <2>8
<1>4. QED
  BY <1>1, <1>2, <1>3

\* Only files that have passed are stored.
LEMMA StoredHavePassed ==
  ASSUME PInv, NEW i \in Index, Stored(i)
  PROVE  /\ files[i] \in UploadedFile /\ Passed(files[i])
         /\ files[i].name \in DOMAIN policies /\ format(files[i]) \in Format
<1>1. files[i] \in UploadedFile /\ i < at
  BY FileIsUploaded DEF PInv, TypeInv, Stored, Answered
<1>2. Passed(files[i])
  BY <1>1 DEF PInv, VerdictInv, Stored
<1>3. QED
  BY <1>1, <1>2, ProcessorsAccept

\* A change of one job leaves the others as they are.
LEMMA OneJob ==
  ASSUME PInv, NEW i \in Index, Stored(i),
         UNCHANGED <<files, stats, verdict, at, step, command>>,
         struck' \in {struck, struck \cup {i}},
         \E j \in {"none", "making", "published", "failed"} : job' = [job EXCEPT ![i] = j],
         plan' = plan \/ \E p : plan' = [plan EXCEPT ![i] = p],
         made' = made \/ \E m : made' = [made EXCEPT ![i] = m],
         /\ job'[i] = "none" => made'[i] = {}
         /\ job'[i] \in {"making", "published"} => Progress(files[i], plan'[i], made'[i])
         /\ job'[i] = "published" => plan'[i] = <<>>
         /\ job'[i] = "failed" /\ i \notin struck' => BeyondTheProcessors(files[i])
  PROVE  PInv'
<1>1. Index' = Index /\ Eligible' = Eligible /\ \A k : preflight(k)' = preflight(k)
  BY PreflightStays
<1>2. TypeInv /\ PreflightInv /\ TurnInv /\ StepInv /\ VerdictInv /\ JobInv
  BY DEF PInv
<1>3. struck \subseteq struck' /\ struck' \subseteq Index
  BY <1>2 DEF TypeInv
<1>4. TypeInv'
  <2>1. job' \in [Index -> {"none", "making", "published", "failed"}]
    BY <1>2 DEF TypeInv
  <2>2. DOMAIN plan' = Index /\ DOMAIN made' = Index
    BY <1>2 DEF TypeInv
  <2>3. QED
    BY <1>1, <1>2, <1>3, <2>1, <2>2 DEF TypeInv
<1>5. PreflightInv'
  BY <1>1, <1>2, <1>3 DEF PreflightInv
<1>6. TurnInv'
  BY <1>1, <1>2 DEF TurnInv
<1>7. \A k \in Index : Passed(files[k])' <=> Passed(files[k])
  BY DEF Passed, nameFault, headerFault, imageFault, avFault, sizeFault, assertSafety,
     format
<1>8. StepInv'
  <2>1. StepInv' <=> StepInv
    BY DEF StepInv, Passed, nameFault, headerFault, imageFault, avFault, sizeFault,
       assertSafety, format
  <2>2. QED
    BY <1>2, <2>1
<1>9. VerdictInv'
  BY <1>1, <1>2, <1>3, <1>7 DEF VerdictInv
<1>10. JobInv'
  <2>1. \A k \in Index : Stored(k)' <=> Stored(k)
    BY <1>1 DEF Stored, NoneRefused, Answered
  <2>2. ASSUME NEW k \in Index, k # i
        PROVE  /\ job'[k] = job[k] /\ plan'[k] = plan[k] /\ made'[k] = made[k]
               /\ k \in struck' <=> k \in struck
    BY <1>2, <2>2 DEF TypeInv
  <2>3. QED
    BY <1>1, <1>2, <2>1, <2>2 DEF JobInv
<1>11. QED
  BY <1>4, <1>5, <1>6, <1>8, <1>9, <1>10 DEF PInv

\* The ways a job moves on.
LEMMA BeginStep ==
  ASSUME PInv, NEW i \in Index, Stored(i), UNCHANGED <<vars, command>>, job[i] = "none",
         NEW p, Begin(i, p), Progress(files[i], p, {})
  PROVE  PInv'
<1>1. /\ job' = [job EXCEPT ![i] = "making"] /\ plan' = [plan EXCEPT ![i] = p]
      /\ made' = made
  BY DEF Begin
<1>2. job'[i] = "making" /\ plan'[i] = p /\ made'[i] = {}
  BY <1>1 DEF PInv, TypeInv, JobInv
<1>3. QED
  BY <1>1, <1>2, OneJob DEF vars

LEMMA AddStep ==
  ASSUME PInv, NEW i \in Index, Stored(i), UNCHANGED <<vars, command>>, job[i] = "making", plan[i] # <<>>,
         NEW v, Add(i, v), IsVariant(files[i], v), v.label = Head(plan[i])
  PROVE  PInv'
<1>1. /\ job' = job /\ plan' = [plan EXCEPT ![i] = Tail(plan[i])]
      /\ made' = [made EXCEPT ![i] = made[i] \cup {v}]
  BY DEF Add
<1>2. job' = [job EXCEPT ![i] = "making"]
  BY <1>1 DEF PInv, TypeInv
<1>3. plan'[i] = Tail(plan[i]) /\ made'[i] = made[i] \cup {v} /\ job'[i] = "making"
  BY <1>1 DEF PInv, TypeInv
<1>4. Progress(files[i], plan[i], made[i])
  BY DEF PInv, JobInv
<1>5. Progress(files[i], plan'[i], made'[i])
  BY <1>3, <1>4, ProgressMade
<1>6. QED
  BY <1>1, <1>2, <1>3, <1>5, OneJob DEF vars

LEMMA FailStep ==
  ASSUME PInv, NEW i \in Index, Stored(i), Fail(i),
         UNCHANGED <<files, stats, verdict, at, step, command>>,
         struck' \in {struck, struck \cup {i}},
         i \notin struck' => BeyondTheProcessors(files[i])
  PROVE  PInv'
<1>1. job' = [job EXCEPT ![i] = "failed"] /\ plan' = plan /\ made' = made
  BY DEF Fail
<1>2. job'[i] = "failed"
  BY <1>1 DEF PInv, TypeInv
<1>3. QED
  BY <1>1, <1>2, OneJob

----------------------------------------------------------------------------
LEMMA StartJobStep ==
  ASSUME PInv, NEW i \in Index, StartJob(i), UNCHANGED <<vars, command>>
  PROVE  PInv'
<1> DEFINE f == files[i]
<1>1. Stored(i) /\ job[i] = "none" /\ (StartImage(i) \/ StartAudio(i) \/ StartVideo(i))
  BY DEF StartJob
<1>2. f \in UploadedFile /\ Passed(f) /\ format(f) \in Format
  BY <1>1, StoredHavePassed
<1>3. Type(i) = mediaTypeOf(format(f))
  BY DEF Type
<1>4. CASE StartImage(i)
  <2>1. format(f) \in ImageFormat /\ Type(i) = "IMAGE"
    BY <1>2, <1>3, <1>4, KindsOfFormat DEF StartImage
  <2> DEFINE large == f.picture.width * f.picture.height > maxInputPixels
  <2>2. f.picture.pages = 1 /\ f.picture.decodes
    BY <1>2, <2>1, ProcessorsAccept
  <2> HIDE DEF f
  <2>3. CASE large
    <3>1. Fail(i)
      BY <1>4, <2>3 DEF StartImage, f
    <3>2. BeyondTheProcessors(f)
      BY <1>3, <2>1, <2>3 DEF BeyondTheProcessors
    <3>3. QED
      BY <1>1, <3>1, <3>2, FailStep DEF vars, f
  <2>4. CASE ~ large
    <3>1. Begin(i, <<"optimized", "thumbnail">>)
      BY <1>4, <2>2, <2>4 DEF StartImage, f
    <3>2. Progress(f, <<"optimized", "thumbnail">>, {})
      BY <1>3, <2>1, ProgressStart
    <3>3. QED
      BY <1>1, <3>1, <3>2, BeginStep DEF f
  <2>5. QED
    BY <2>3, <2>4
<1>5. CASE StartAudio(i)
  <2>1. format(f) \in AudioFormat /\ Type(i) = "AUDIO"
    BY <1>2, <1>3, <1>5, KindsOfFormat DEF StartAudio
  <2>2. Begin(i, <<"mp3">>)
    BY <1>2, <1>5, <2>1, ProcessorsAccept DEF StartAudio
  <2>3. Progress(f, <<"mp3">>, {})
    BY <1>3, <2>1, ProgressStart
  <2>4. QED
    BY <1>1, <2>2, <2>3, BeginStep
<1>6. CASE StartVideo(i)
  <2> DEFINE p == planVideoRenditions(Display(MainStream(f, "video"))) \o <<"thumbnail">>
  <2>1. format(f) \in VideoFormat /\ Type(i) = "VIDEO"
    BY <1>2, <1>3, <1>6, KindsOfFormat DEF StartVideo
  <2>2. Begin(i, p)
    BY <1>2, <1>6, <2>1, ProcessorsAccept DEF StartVideo
  <2>3. Progress(f, p, {})
    BY <1>3, <2>1, ProgressStart
  <2> HIDE DEF p
  <2>4. QED
    BY <1>1, <2>2, <2>3, BeginStep
<1>7. QED
  BY <1>1, <1>4, <1>5, <1>6

LEMMA MakeStep ==
  ASSUME PInv, NEW i \in Index, Make(i), UNCHANGED <<vars, command>>
  PROVE  PInv'
<1> DEFINE f == files[i]
           l == Head(plan[i])
           size == Display(MainStream(f, "video"))
           sound == MainStream(f, "audio")
           type == mediaTypeOf(format(f))
<1>1. Stored(i) /\ job[i] = "making" /\ plan[i] # <<>>
  BY DEF Make, MakeImage, MakeAudio, MakeRendition, MakeThumbnail, Making
<1>2. l \in Outputs(f)
  <2>1. plan[i] \in Seq(Outputs(f))
    BY <1>1 DEF PInv, JobInv, Progress
  <2>2. QED
    BY <1>1, <2>1, TailFacts
<1>3. Type(i) = type
  BY DEF Type
<1>4. CASE MakeImage(i)
  <2> DEFINE v == [label |-> l,
                   size |-> Inside(Display(f.picture), IF l = "optimized" THEN 1920 ELSE 400)]
  <2>1. type = "IMAGE" /\ Add(i, v)
    BY <1>3, <1>4 DEF MakeImage, Making
  <2>2. IsVariant(f, v) /\ v.label = l
    BY <1>2, <2>1 DEF IsVariant
  <2> HIDE DEF v
  <2>3. QED
    BY <1>1, <2>1, <2>2, AddStep
<1>5. CASE MakeAudio(i)
  <2> DEFINE v == [label |-> "mp3", rate |-> normalizedRate(sound),
                   channels |-> Least(Max({sound.channels, 1}), 2)]
  <2>1. type = "AUDIO"
    BY <1>3, <1>5 DEF MakeAudio, Making
  <2>2. l = "mp3"
    BY <1>2, <2>1 DEF Outputs
  <2>3. CASE normalizedRate(sound) \in mp3Rates
    <3>1. Add(i, v)
      BY <1>5, <2>3 DEF MakeAudio
    <3>2. IsVariant(f, v) /\ v.label = l
      BY <1>2, <2>1, <2>2, <2>3 DEF IsVariant
    <3> HIDE DEF v
    <3>3. QED
      BY <1>1, <3>1, <3>2, AddStep
  <2>4. CASE normalizedRate(sound) \notin mp3Rates
    <3>1. Fail(i)
      BY <1>5, <2>4 DEF MakeAudio
    <3>2. BeyondTheProcessors(f)
      BY <2>1, <2>4 DEF BeyondTheProcessors
    <3>3. QED
      BY <1>1, <3>1, <3>2, FailStep DEF vars
  <2>5. QED
    BY <2>3, <2>4
<1>6. CASE MakeRendition(i)
  <2>1. type = "VIDEO" /\ l # "thumbnail"
    BY <1>3, <1>6 DEF MakeRendition, Making
  <2>2. PICK box \in Boxes(l, size) :
          IF Encodable(Frame(box, size))
          THEN Add(i, [label |-> l, size |-> Frame(box, size),
                       sound |-> Streams(f.probe, "audio") # {}])
          ELSE Fail(i)
    BY <1>6 DEF MakeRendition
  <2>3. l \in PlannedLabels(size)
    BY <1>2, <2>1 DEF Outputs
  <2> DEFINE v == [label |-> l, size |-> Frame(box, size),
                   sound |-> Streams(f.probe, "audio") # {}]
  <2>4. CASE Encodable(Frame(box, size))
    <3>1. Add(i, v)
      BY <2>2, <2>4
    <3>2. IsVariant(f, v) /\ v.label = l
      BY <1>2, <2>1, <2>2 DEF IsVariant
    <3> HIDE DEF v
    <3>3. QED
      BY <1>1, <3>1, <3>2, AddStep
  <2>5. CASE ~ Encodable(Frame(box, size))
    <3>1. Fail(i)
      BY <2>2, <2>5
    <3>2. BeyondTheProcessors(f)
      BY <2>1, <2>2, <2>3, <2>5 DEF BeyondTheProcessors, PlannedLabels
    <3>3. QED
      BY <1>1, <3>1, <3>2, FailStep DEF vars
  <2>6. QED
    BY <2>4, <2>5
<1>7. CASE MakeThumbnail(i)
  <2> DEFINE v == [label |-> "thumbnail", size |-> size]
  <2>1. type = "VIDEO" /\ l = "thumbnail"
    BY <1>3, <1>7 DEF MakeThumbnail, Making
  <2>2. CASE thumbnailExists(f)
    <3>1. Add(i, v)
      BY <1>7, <2>2 DEF MakeThumbnail
    <3>2. IsVariant(f, v) /\ v.label = l
      BY <1>2, <2>1 DEF IsVariant
    <3> HIDE DEF v
    <3>3. QED
      BY <1>1, <3>1, <3>2, AddStep
  <2>3. CASE ~ thumbnailExists(f)
    <3>1. Fail(i)
      BY <1>7, <2>3 DEF MakeThumbnail
    <3>2. BeyondTheProcessors(f)
      BY <2>1, <2>3 DEF BeyondTheProcessors
    <3>3. QED
      BY <1>1, <3>1, <3>2, FailStep DEF vars
  <2>4. QED
    BY <2>2, <2>3
<1>8. QED
  BY <1>4, <1>5, <1>6, <1>7 DEF Make

LEMMA ToolFailsStep ==
  ASSUME PInv, NEW i \in Index, ToolFails(i), UNCHANGED command
  PROVE  PInv'
<1>1. /\ Stored(i) /\ Fail(i) /\ struck' = struck \cup {i}
      /\ UNCHANGED <<files, stats, verdict, at, step>>
  BY DEF ToolFails
<1>2. QED
  BY <1>1, FailStep

LEMMA PublishStep ==
  ASSUME PInv, NEW i \in Index, Publish(i), UNCHANGED <<vars, command>>
  PROVE  PInv'
<1>1. /\ job[i] = "making" /\ plan[i] = <<>> /\ plan' = plan /\ made' = made
      /\ job' = [job EXCEPT ![i] = "published"]
  BY DEF Publish
<1>2. Stored(i) /\ Progress(files[i], plan[i], made[i]) /\ job'[i] = "published"
  BY <1>1 DEF PInv, TypeInv, JobInv
<1>3. QED
  BY <1>1, <1>2, OneJob DEF vars

----------------------------------------------------------------------------
LEMMA PInvNext == PInv /\ [PipelineNext]_allVars => PInv'
<1> SUFFICES ASSUME PInv, [PipelineNext]_allVars PROVE PInv'
  OBVIOUS
<1>1. CASE Next /\ UNCHANGED jobVars
  <2>1. CASE \E i \in Index : Stat(i)
    BY <1>1, <2>1, StatStep
  <2>2. CASE EndPreflight
    BY <1>1, <2>2, EndPreflightStep
  <2>3. CASE Skip
    BY <1>1, <2>3, SkipStep
  <2>4. QED
    BY <1>1, <2>1, <2>2, <2>3, TurnSteps DEF Next
<1>2. CASE /\ \E i \in Index : (StartJob(i) \/ Make(i) \/ Publish(i)) /\ UNCHANGED vars
           /\ UNCHANGED command
  BY <1>2, StartJobStep, MakeStep, PublishStep
<1>3. CASE UNCHANGED command /\ \E i \in Index : ToolFails(i)
  BY <1>3, ToolFailsStep
<1>4. CASE UNCHANGED allVars
  <2>1. UNCHANGED <<files, stats, verdict, at, step, struck, command, job, plan, made>>
    BY <1>4 DEF allVars, vars, jobVars
  <2>2. Index' = Index /\ Eligible' = Eligible /\ \A k : preflight(k)' = preflight(k)
    BY <2>1, PreflightStays
  <2>3. TypeInv' /\ PreflightInv' /\ TurnInv'
    BY <2>1, <2>2 DEF PInv, TypeInv, PreflightInv, TurnInv
  <2>4. \A k : Passed(files[k])' <=> Passed(files[k])
    BY <2>1 DEF Passed, nameFault, headerFault, imageFault, avFault, sizeFault,
       assertSafety, format
  <2>5. StepInv'
    <3>1. StepInv' <=> StepInv
      BY <2>1 DEF StepInv, Passed, nameFault, headerFault, imageFault, avFault, sizeFault,
         assertSafety, format
    <3>2. QED
      BY <3>1 DEF PInv
  <2>6. VerdictInv'
    BY <2>1, <2>2, <2>4 DEF PInv, VerdictInv
  <2>7. JobInv'
    <3>1. \A k \in Index : Stored(k)' <=> Stored(k)
      BY <2>1, <2>2 DEF Stored, NoneRefused, Answered
    <3>2. QED
      BY <2>1, <2>2, <3>1 DEF PInv, JobInv
  <2>8. QED
    BY <2>3, <2>5, <2>6, <2>7 DEF PInv
<1>5. QED
  BY <1>1, <1>2, <1>3, <1>4 DEF PipelineNext

THEOREM PipelineInvariant == PipelineSpec => []PInv
<1>1. PipelineInit => PInv
  BY PInvInit
<1>2. PInv /\ [PipelineNext]_allVars => PInv'
  BY PInvNext
<1>3. QED
  BY <1>1, <1>2, PTL DEF PipelineSpec

----------------------------------------------------------------------------
(* What follows from it.                                                    *)

LEMMA AcceptedHavePassed ==
  ASSUME PInv, NEW i \in Accepted
  PROVE  /\ i \in Index /\ files[i] \in UploadedFile /\ at > 0
         /\ preflight(i) = "none" /\ Passed(files[i])
<1>1. i \in Index /\ verdict[i] = "ok"
  BY DEF Accepted
<1>2. /\ files[i] \in UploadedFile /\ i \in Nat \ {0} /\ Len(files) \in Nat
      /\ at \in 0..(Len(files) + 1)
  BY <1>1, FileIsUploaded DEF PInv, TypeInv
<1>3. at > 0 /\ i < at
  <2>1. ~ (at = 0 \/ at <= i)
    BY <1>1, PreflightChecks DEF PInv, TurnInv
  <2>2. QED
    BY <1>2, <2>1
<1>4. QED
  BY <1>1, <1>2, <1>3 DEF PInv, VerdictInv

LEMMA CommandStays == PipelineSpec => [](command \in Command)
<1>1. PipelineInit => command \in Command
  BY DEF PipelineInit
<1>2. command \in Command /\ [PipelineNext]_allVars => (command \in Command)'
  BY DEF PipelineNext, allVars
<1>3. QED
  BY <1>1, <1>2, PTL DEF PipelineSpec

\* Every variable keeps its type; only a file that the validator has accepted has a
\* job, and for a new post only if it has accepted all of its files.
THEOREM PipelineTypes == PipelineSpec => []PipelineTypeOK
<1>1. PInv /\ command \in Command => PipelineTypeOK
  <2> SUFFICES ASSUME PInv, command \in Command PROVE PipelineTypeOK
    OBVIOUS
  <2>1. {i \in Index : job[i] # "none"} \subseteq Accepted
    BY DEF PInv, JobInv, Stored, Accepted
  <2>2. ASSUME command = "CREATE_POST", NEW i \in Index, job[i] # "none"
        PROVE  Accepted = Index
    BY <2>2 DEF PInv, JobInv, Stored, NoneRefused, Accepted
  <2>3. QED
    BY <2>1, <2>2 DEF PInv, TypeInv, PipelineTypeOK, Steps
<1>2. QED
  BY <1>1, CommandStays, PipelineInvariant, PTL

\* A file that validateFiles accepts is what its extension says, by its header and
\* by what sharp or ffprobe find in it, whatever the client declared and whatever
\* order the reads and probes of the request ended in.
THEOREM AcceptedAreGenuine == PipelineSpec => []AcceptedIsGenuine
<1>1. PInv => AcceptedIsGenuine
  BY AcceptedHavePassed, ChecksDecideGenuineness DEF AcceptedIsGenuine
<1>2. QED
  BY <1>1, PipelineInvariant, PTL

LEMMA SizesFacts ==
  ASSUME PInv, NEW S, S \subseteq Index
  PROVE  IsFiniteSet(S) /\ \A j \in S : sizes[j] \in Nat
<1>1. IsFiniteSet(S)
  BY IndexFacts, FS_Subset DEF PInv, TypeInv
<1>2. \A j \in Index : sizes[j] \in Nat
  BY FileIsUploaded, FileFields DEF PInv, TypeInv, sizes
<1>3. QED
  BY <1>1, <1>2

\* A file that validateFiles refuses, without an I/O error or a timeout of its
\* own, is too late in the request, follows too many bytes, or has a fault of its
\* own: the aggregate at its turn is the sum over the files before it that could
\* be read, in whatever order their sizes became known.
THEOREM RefusalsAreDeserved == PipelineSpec => []RefusalIsDeserved
<1>1. PInv => RefusalIsDeserved
  <2> SUFFICES ASSUME PInv, NEW i \in Index, at > i, verdict[i] # "ok", i \notin struck
               PROVE  \/ i > Limits.maxFilesPerRequest
                      \/ Uploaded(i) > Limits.maxTotalUploadSize
                      \/ ~HonestName(files[i]) \/ ~Genuine(files[i], format(files[i]))
    BY DEF RefusalIsDeserved
  <2>1. /\ files[i] \in UploadedFile /\ i \in Nat \ {0} /\ i <= Len(files)
        /\ Len(files) \in Nat /\ Index = 1..Len(files) /\ at \in 0..(Len(files) + 1)
    BY FileIsUploaded DEF PInv, TypeInv
  <2>2. preflight(i) # "none" \/ ~Passed(files[i])
    BY <2>1 DEF PInv, VerdictInv
  <2>3. CASE ~Passed(files[i])
    BY <2>1, <2>3, ChecksDecideGenuineness
  <2>4. CASE preflight(i) # "none"
    <3>1. at > 0
      BY <2>1
    <3>2. \A j \in Eligible : stats[j] \in {"known", "failed"}
      BY <3>1 DEF PInv, TypeInv, PreflightInv, Eligible
    <3>3. CASE i \notin Eligible
      BY <2>1, <3>3, LimitsAssumption DEF Eligible
    <3>4. CASE i \in Eligible
      <4>1. stats[i] = "known"
        BY <3>2, <3>4 DEF PInv, PreflightInv
      <4>2. ~ (aggregate(i) <= Limits.maxTotalUploadSize)
        BY <2>4, <3>4, <4>1, PreflightChecks
      <4> DEFINE S == {j \in Eligible : j <= i /\ stats[j] = "known"}
                 R == {j \in 1..i : j <= Limits.maxFilesPerRequest /\ stats[j] # "failed"}
      <4>3. S = R
        <5>1. \A j \in 1..i : j \in Index /\ j <= i
          BY <2>1
        <5>2. \A j \in Index : j <= i => j \in 1..i
          BY <2>1
        <5>3. QED
          BY <3>2, <5>1, <5>2 DEF Eligible
      <4>4. aggregate(i) = Uploaded(i)
        BY <4>3 DEF aggregate, Uploaded
      <4>5. aggregate(i) \in Nat /\ Limits.maxTotalUploadSize \in Nat
        <5>1. S \subseteq Index
          BY DEF Eligible
        <5> HIDE DEF S
        <5>2. SumFunctionOnSet(sizes, S) \in Nat
          BY <5>1, SizesFacts, SumNat
        <5>3. QED
          BY <5>2, LimitsAssumption DEF aggregate, S
      <4>6. QED
        BY <4>2, <4>4, <4>5
    <3>5. QED
      BY <3>3, <3>4
  <2>5. QED
    BY <2>2, <2>3, <2>4
<1>2. QED
  BY <1>1, PipelineInvariant, PTL

\* What validateFiles accepts of one request is within the request's limits on the
\* number of files and on their sizes together, whatever could not be read.
THEOREM AcceptedFit == PipelineSpec => []AcceptedFitsRequest
<1>1. PInv => AcceptedFitsRequest
  <2> SUFFICES ASSUME PInv PROVE AcceptedFitsRequest
    OBVIOUS
  <2>1. /\ Len(files) \in Nat /\ Index = 1..Len(files) /\ IsFiniteSet(Index)
    BY IndexFacts DEF PInv, TypeInv
  <2>2. Limits.maxFilesPerRequest \in Nat \ {0} /\ Limits.maxTotalUploadSize \in Nat \ {0}
    BY LimitsAssumption
  <2>3. \A i \in Accepted : /\ i \in Eligible /\ stats[i] = "known"
                            /\ aggregate(i) <= Limits.maxTotalUploadSize
    BY AcceptedHavePassed, PreflightChecks
  <2>4. Accepted \subseteq Int /\ Accepted \subseteq Index /\ IsFiniteSet(Accepted)
    BY <2>1, FS_Subset DEF Accepted
  <2>5. Cardinality(Accepted) <= Limits.maxFilesPerRequest
    <3> DEFINE T == 1..Limits.maxFilesPerRequest
    <3>1. Accepted \subseteq T
      BY <2>1, <2>2, <2>3 DEF Eligible
    <3>2. IsFiniteSet(T) /\ Cardinality(T) = Limits.maxFilesPerRequest
      <4> DEFINE n == Limits.maxFilesPerRequest
      <4>1. n \in Int /\ n >= 1
        BY <2>2
      <4> HIDE DEF n
      <4>2. IsFiniteSet(1..n) /\ Cardinality(1..n) = n
        BY <4>1, FS_Interval
      <4>3. QED
        BY <4>2 DEF n
    <3> HIDE DEF T
    <3>3. Cardinality(Accepted) <= Cardinality(T)
      BY <3>1, <3>2, FS_Subset
    <3>4. QED
      BY <3>2, <3>3
  <2>6. SumFunctionOnSet(sizes, Accepted) <= Limits.maxTotalUploadSize
    <3>1. CASE Accepted = {}
      BY <2>2, <3>1, SumEmpty
    <3>2. CASE Accepted # {}
      <4> DEFINE last == Max(Accepted)
                 S == {j \in Eligible : j <= last /\ stats[j] = "known"}
      <4>1. last \in Accepted /\ \A j \in Accepted : last >= j
        BY <2>4, <3>2, MaxFacts
      <4>2. Accepted \subseteq S /\ S \subseteq Index
        BY <2>3, <2>4, <4>1 DEF Eligible
      <4>3. aggregate(last) = SumFunctionOnSet(sizes, S)
        BY DEF aggregate
      <4>4. aggregate(last) <= Limits.maxTotalUploadSize
        BY <2>3, <4>1
      <4> HIDE DEF S, last
      <4>5. IsFiniteSet(S) /\ \A j \in S : sizes[j] \in Nat
        BY <4>2, SizesFacts
      <4>6. SumFunctionOnSet(sizes, Accepted) <= SumFunctionOnSet(sizes, S)
        BY <4>2, <4>5, SumMonotonic
      <4>7. SumFunctionOnSet(sizes, S) \in Nat /\ SumFunctionOnSet(sizes, Accepted) \in Nat
        BY <4>2, <4>5, SizesFacts, SumNat, <2>4
      <4>8. QED
        BY <2>2, <4>3, <4>4, <4>6, <4>7
    <3>3. QED
      BY <3>1, <3>2
  <2>7. QED
    BY <2>5, <2>6 DEF AcceptedFitsRequest
<1>2. QED
  BY <1>1, PipelineInvariant, PTL

\* What the validator accepts the processors can process: although the two inspect
\* the file separately, a job no tool fault strikes fails only for a picture above
\* the processor's own limit, or for a rate, an aspect ratio or a length that is
\* beyond the processors.
THEOREM AcceptedAreProcessable == PipelineSpec => []AcceptedIsProcessable
<1>1. PInv => AcceptedIsProcessable
  BY DEF PInv, JobInv, AcceptedIsProcessable
<1>2. QED
  BY <1>1, PipelineInvariant, PTL

----------------------------------------------------------------------------
(* What is published.                                                       *)

\* The edge a rendition is named for.
EdgeOf(label, size) == IF label = "source" THEN ShortEdge(size) ELSE TargetShort[label]

LEMMA TargetShorts ==
  /\ DOMAIN TargetShort = {"360p", "720p", "1080p"}
  /\ TargetShort["360p"] = 360 /\ TargetShort["720p"] = 720 /\ TargetShort["1080p"] = 1080
BY DEF TargetShort

LEMMA FinitelyManySteps ==
  ASSUME NEW S, S \subseteq {360, 720, 1080}
  PROVE  IsFiniteSet(S)
<1> DEFINE a == 360
           b == 1080
           T == a..b
<1>1. a \in Int /\ b \in Int /\ S \subseteq T
  OBVIOUS
<1> HIDE DEF a, b
<1>2. IsFiniteSet(T)
  BY <1>1, FS_Interval
<1> HIDE DEF T
<1>3. S \subseteq T
  BY <1>1
<1>4. QED
  BY ONLY <1>2, <1>3, FS_Subset

LEMMA PlannedEdges ==
  ASSUME NEW size, ShortEdge(size) \in Nat \ {0}
  PROVE  LET short == ShortEdge(size)
         IN  /\ \A l \in PlannedLabels(size) :
                  IF short < 360 THEN l = "source"
                  ELSE /\ l # "source" /\ l \in {"360p", "720p", "1080p"}
                       /\ EdgeOf(l, size) \in {360, 720, 1080} /\ EdgeOf(l, size) <= short
             /\ {EdgeOf(l, size) : l \in PlannedLabels(size)} = Ladder(size)
             /\ \A l, m \in PlannedLabels(size) : EdgeOf(l, size) = EdgeOf(m, size) => l = m
             /\ IsFiniteSet(Ladder(size))
<1> DEFINE short == ShortEdge(size)
           steps == {n \in {360, 720, 1080} : n <= short}
<1>1. Ladder(size) = IF steps = {} THEN {short} ELSE steps
  BY DEF Ladder
<1>2. PlannedLabels(size) = {planVideoRenditions(size)[k] : k \in DOMAIN planVideoRenditions(size)}
  BY DEF PlannedLabels
<1>3. /\ EdgeOf("source", size) = short /\ EdgeOf("360p", size) = 360
      /\ EdgeOf("720p", size) = 720 /\ EdgeOf("1080p", size) = 1080
  BY TargetShorts DEF EdgeOf
<1> HIDE DEF short
<1>4. CASE short < 360
  <2>1. planVideoRenditions(size) = <<"source">>
    <3>1. ~ (360 <= short) /\ ~ (720 <= short)
      BY <1>4 DEF short
    <3>2. QED
      BY <1>4, <3>1 DEF planVideoRenditions, short
  <2>2. PlannedLabels(size) = {"source"}
    BY <1>2, <2>1
  <2>3. Ladder(size) = {short}
    BY <1>1, <1>4 DEF short
  <2>4. QED
    BY <1>3, <1>4, <2>2, <2>3, FS_Singleton, SMTT(30) DEF short
<1>5. CASE 360 <= short /\ short < 720
  <2>1. planVideoRenditions(size) = <<"360p">>
    <3>1. ~ (short < 360) /\ ~ (720 <= short)
      BY <1>5 DEF short
    <3>2. QED
      BY <1>5, <3>1 DEF planVideoRenditions, short
  <2>2. PlannedLabels(size) = {"360p"}
    BY <1>2, <2>1
  <2>3. Ladder(size) = {360}
    BY <1>1, <1>5 DEF short
  <2>4. QED
    BY <1>3, <1>5, <2>2, <2>3, FS_Singleton DEF short
<1>6. CASE 720 <= short /\ short < 1080
  <2>1. planVideoRenditions(size) = <<"360p", "720p">>
    <3>1. ~ (short < 360) /\ ~ (short < 720) /\ ~ (1080 <= short)
      BY <1>6 DEF short
    <3>2. QED
      BY <1>6, <3>1 DEF planVideoRenditions, short
  <2>2. PlannedLabels(size) = {"360p", "720p"}
    BY <1>2, <2>1
  <2>3. Ladder(size) = {360, 720}
    BY <1>1, <1>6 DEF short
  <2>4. IsFiniteSet(Ladder(size))
    BY <2>3, FinitelyManySteps
  <2>5. QED
    BY <1>3, <1>6, <2>2, <2>3, <2>4 DEF short
<1>7. CASE 1080 <= short
  <2>1. planVideoRenditions(size) = <<"360p", "720p", "1080p">>
    <3>1. ~ (short < 360) /\ ~ (short < 720) /\ ~ (short < 1080)
      BY <1>7 DEF short
    <3>2. QED
      BY <1>7, <3>1 DEF planVideoRenditions, short
  <2>2. PlannedLabels(size) = {"360p", "720p", "1080p"}
    BY <1>2, <2>1
  <2>3. Ladder(size) = {360, 720, 1080}
    BY <1>1, <1>7 DEF short
  <2>4. IsFiniteSet(Ladder(size))
    BY <2>3, FinitelyManySteps
  <2>5. QED
    BY <1>3, <1>7, <2>2, <2>3, <2>4 DEF short
<1>8. QED
  BY <1>4, <1>5, <1>6, <1>7 DEF short

\* A rendition's frame: within two pixels of its step of the ladder, not enlarged,
\* and within one pixel of the aspect ratio.
LEMMA RenditionFrame ==
  ASSUME NEW w \in Nat \ {0}, NEW h \in Nat \ {0},
         NEW label \in PlannedLabels([w |-> w, h |-> h]),
         NEW box \in Boxes(label, [w |-> w, h |-> h])
  PROVE  LET size == [w |-> w, h |-> h]
             r    == Frame(box, size)
             n    == EdgeOf(label, size)
         IN  /\ ShortEdge(r) \in Max({1, n - 2})..Max({2, n})
             /\ r.w <= Max({2, w}) /\ r.h <= Max({2, h})
             /\ r.w * h - r.h * w \in -Max({w, h})..Max({w, h})
<1> DEFINE size == [w |-> w, h |-> h]
           r == Frame(box, size)
           n == EdgeOf(label, size)
           short == ShortEdge(size)
           low == IF n - 2 >= 1 THEN n - 2 ELSE 1
           high == IF n >= 2 THEN n ELSE 2
<1>1. short = (IF w < h THEN w ELSE h) /\ short \in Nat \ {0}
  BY DEF ShortEdge, Least
<1>2. IF short < 360 THEN label = "source" /\ n = short
      ELSE /\ label # "source" /\ label \in {"360p", "720p", "1080p"}
           /\ n = TargetShort[label] /\ n \in {360, 720, 1080} /\ n <= short
  BY <1>1, PlannedEdges DEF EdgeOf
<1>3. n \in Nat \ {0}
  BY <1>1, <1>2
<1>4. Max({1, n - 2}) = low /\ Max({2, n}) = high
  <2> HIDE DEF n
  <2>1. n - 2 \in Int /\ n \in Int
    BY <1>3
  <2>2. /\ Max({1, n - 2}) = IF 1 >= n - 2 THEN 1 ELSE n - 2
        /\ Max({2, n}) = IF 2 >= n THEN 2 ELSE n
    BY <2>1, MaxOfPair
  <2>3. QED
    BY <1>3, <2>2
<1>5. PICK x, y : /\ box = [w |-> x, h |-> y]
                  /\ \/ w <= h /\ BoxFits(w, h, x, y, low, high)
                     \/ h <= w /\ BoxFits(h, w, y, x, low, high)
  <2>1. CASE short < 360
    <3>1. box = [w |-> Even(w), h |-> Even(h)]
      BY <1>2, <2>1 DEF Boxes
    <3>2. n = short
      BY <1>2, <2>1
    <3>3. CASE w < h
      <4>1. BoxFits(w, h, Even(w), Even(h), low, high)
        BY <1>1, <3>2, <3>3, SourceBox
      <4>2. QED
        BY <3>1, <3>3, <4>1
    <3>4. CASE ~ (w < h)
      <4>1. BoxFits(h, w, Even(h), Even(w), low, high)
        BY <1>1, <3>2, <3>4, SourceBox
      <4>2. QED
        BY <3>1, <3>4, <4>1
    <3>5. QED
      BY <3>3, <3>4
  <2>2. CASE ~ (short < 360)
    <3>1. n = TargetShort[label] /\ n \in {360, 720, 1080} /\ n <= short /\ label # "source"
      BY <1>2, <2>2
    <3>2. PICK x \in EvenScaled(w, n, short), y \in EvenScaled(h, n, short) :
            box = [w |-> x, h |-> y]
      BY <3>1 DEF Boxes
    <3>3. low = n - 2 /\ high = n
      BY <3>1
    <3> HIDE DEF n, low, high
    <3>4. CASE w < h
      <4>1. BoxFits(w, h, x, y, n - 2, n)
        BY <1>1, <3>1, <3>2, <3>4, LadderBox
      <4>2. QED
        BY <3>2, <3>3, <3>4, <4>1
    <3>5. CASE ~ (w < h)
      <4>1. BoxFits(h, w, y, x, n - 2, n)
        BY <1>1, <3>1, <3>2, <3>5, LadderBox
      <4>2. QED
        BY <3>2, <3>3, <3>5, <4>1
    <3>6. QED
      BY <3>4, <3>5
  <2>3. QED
    BY <2>1, <2>2
<1>6. low \in Int /\ high \in Int
  BY <1>3
<1> HIDE DEF n, low, high
<1>7. /\ ShortEdge(r) \in low..high
      /\ r.w <= Max({2, w}) /\ r.h <= Max({2, h})
      /\ r.w * h - r.h * w \in -Max({w, h})..Max({w, h})
  BY <1>5, <1>6, BoxedFrame
<1>8. QED
  BY <1>4, <1>7 DEF n

\* An edge that is not longer than 16:9 is scaled to one within the plan's bound.
LEMMA ScaledWithinPlan ==
  ASSUME NEW n \in Nat \ {0}, NEW short \in Nat \ {0}, 9 * n <= 16 * short,
         NEW t \in {360, 720, 1080}, NEW e \in EvenScaled(n, t, short)
  PROVE  e \in Nat /\ 9 * e <= 16 * t
<1>1. e \in Nat /\ (e = 2 \/ short * e <= n * t)
  BY EvenScaledFacts
<1>2. CASE e = 2
  BY <1>2
<1>3. CASE short * e <= n * t
  <2>1. t * (9 * n) <= t * (16 * short)
    BY TimesMonotonic
  <2>2. short * (9 * e) <= short * (16 * t)
    <3>1. short * (9 * e) = 9 * (short * e) /\ short * e \in Int
      BY <1>1
    <3>2. t * (9 * n) = 9 * (n * t) /\ n * t \in Int
      OBVIOUS
    <3>3. t * (16 * short) = short * (16 * t)
      OBVIOUS
    <3>4. QED
      BY <1>3, <2>1, <3>1, <3>2, <3>3
  <2>3. short * (16 * t + 1) = short * (16 * t) + short
    OBVIOUS
  <2>4. short * (9 * e) < short * (16 * t + 1)
    BY <1>1, <2>2, <2>3
  <2>5. 9 * e < 16 * t + 1
    BY <1>1, <2>4, TimesCancels
  <2>6. QED
    BY <1>1, <2>5
<1>4. QED
  BY <1>1, <1>2, <1>3

\* A video that is not longer than 16:9 stays within the plan's bounds.
LEMMA FrameWithinPlan ==
  ASSUME NEW w \in Nat \ {0}, NEW h \in Nat \ {0},
         NEW label \in PlannedLabels([w |-> w, h |-> h]), label # "source",
         NEW box \in Boxes(label, [w |-> w, h |-> h]), ~Elongated([w |-> w, h |-> h])
  PROVE  LET r == Frame(box, [w |-> w, h |-> h])
         IN  Max({r.w, r.h}) <= TargetLong[label]
<1> DEFINE size == [w |-> w, h |-> h]
           short == ShortEdge(size)
           t == TargetShort[label]
<1>1. short = (IF w < h THEN w ELSE h) /\ short \in Nat \ {0}
  BY DEF ShortEdge, Least
<1>2. 9 * w <= 16 * short /\ 9 * h <= 16 * short
  BY <1>1, MaxOfPair DEF Elongated
<1>3. label \in {"360p", "720p", "1080p"}
  BY <1>1, PlannedEdges
<1>4. t \in {360, 720, 1080} /\ TargetLong[label] \in Nat /\ 9 * TargetLong[label] = 16 * t
  BY <1>3, TargetShorts DEF TargetLong
<1>5. PICK x \in EvenScaled(w, t, short), y \in EvenScaled(h, t, short) :
         box = [w |-> x, h |-> y]
  BY DEF Boxes
<1>6. x \in Nat \ {0} /\ y \in Nat \ {0}
  BY <1>1, <1>4, <1>5, EvenScaledFacts
<1> HIDE DEF t, short
<1>7. 9 * x <= 16 * t /\ 9 * y <= 16 * t
  BY <1>1, <1>2, <1>4, <1>5, ScaledWithinPlan
<1> DEFINE r == Frame(box, size)
<1>8. r.w \in Nat /\ r.h \in Nat /\ r.w <= x /\ r.h <= y
  BY <1>5, <1>6, FrameFacts
<1> HIDE DEF r
<1>9. Max({r.w, r.h}) = IF r.w >= r.h THEN r.w ELSE r.h
  BY <1>8, MaxOfPair
<1>10. QED
  BY <1>4, <1>6, <1>7, <1>8, <1>9 DEF r

LEMMA NothingPlanned ==
  ASSUME NEW f, NEW m, Progress(f, <<>>, m)
  PROVE  /\ Outputs(f) = {v.label : v \in m}
         /\ \A v \in m : IsVariant(f, v) /\ \A w \in m : w.label = v.label => w = v
<1>1. {<<>>[k] : k \in DOMAIN <<>>} = {}
  OBVIOUS
<1>2. QED
  BY <1>1 DEF Progress

LEMMA VariantFacts ==
  ASSUME NEW f, NEW v, IsVariant(f, v)
  PROVE  /\ mediaTypeOf(format(f)) = "IMAGE" =>
              v.size = Inside(Display(f.picture), IF v.label = "optimized" THEN 1920 ELSE 400)
         /\ mediaTypeOf(format(f)) = "AUDIO" =>
              /\ v.rate \in mp3Rates
              /\ v.channels = Least(Max({MainStream(f, "audio").channels, 1}), 2)
         /\ mediaTypeOf(format(f)) = "VIDEO" /\ v.label # "thumbnail" =>
              \E box \in Boxes(v.label, Display(MainStream(f, "video"))) :
                 v.size = Frame(box, Display(MainStream(f, "video")))
BY DEF IsVariant

LEMMA PublishedImage ==
  ASSUME NEW f \in UploadedFile, Passed(f), mediaTypeOf(format(f)) = "IMAGE",
         NEW m, Progress(f, <<>>, m)
  PROVE  LET size == Display(f.picture)
         IN  /\ {v.label : v \in m} = {"optimized", "thumbnail"}
             /\ \A v \in m :
                   LET edge == IF v.label = "optimized" THEN 1920 ELSE 400
                   IN  Max({v.size.w, v.size.h}) = Least(edge, Max({size.w, size.h}))
<1>1. format(f) \in ImageFormat
  BY ProcessorsAccept, KindsOfFormat
<1>2. f.picture.width \in Nat \ {0} /\ f.picture.height \in Nat \ {0}
  BY <1>1, ProcessorsAccept
<1>3. PICK w \in Nat \ {0}, h \in Nat \ {0} : Display(f.picture) = [w |-> w, h |-> h]
  BY <1>2 DEF Display
<1>4. {v.label : v \in m} = {"optimized", "thumbnail"}
  BY NothingPlanned DEF Outputs
<1>5. ASSUME NEW v \in m, NEW edge \in Nat \ {0}, v.size = Inside(Display(f.picture), edge)
      PROVE  Max({v.size.w, v.size.h})
               = Least(edge, Max({Display(f.picture).w, Display(f.picture).h}))
  <2> DEFINE size == [w |-> w, h |-> h]
  <2>1. size.w = w /\ size.h = h
    OBVIOUS
  <2>2. Max({Inside(size, edge).w, Inside(size, edge).h}) = Least(edge, Max({w, h}))
    BY InsideFacts
  <2> HIDE DEF size
  <2>3. QED
    BY <1>3, <1>5, <2>1, <2>2 DEF size
<1>6. \A v \in m : v.size = Inside(Display(f.picture), IF v.label = "optimized" THEN 1920 ELSE 400)
  BY NothingPlanned, VariantFacts, ZenonT(30)
<1>7. ASSUME NEW v \in m
      PROVE  LET edge == IF v.label = "optimized" THEN 1920 ELSE 400
                 size == Display(f.picture)
             IN  Max({v.size.w, v.size.h}) = Least(edge, Max({size.w, size.h}))
  <2> DEFINE edge == IF v.label = "optimized" THEN 1920 ELSE 400
  <2>1. edge \in Nat \ {0}
    OBVIOUS
  <2>2. v.size = Inside(Display(f.picture), edge)
    BY <1>6
  <2> HIDE DEF edge
  <2>3. Max({v.size.w, v.size.h})
          = Least(edge, Max({Display(f.picture).w, Display(f.picture).h}))
    BY <1>5, <2>1, <2>2
  <2>4. QED
    BY <2>3 DEF edge
<1>8. QED
  BY <1>4, <1>7

LEMMA PublishedAudio ==
  ASSUME NEW f \in UploadedFile, Passed(f), mediaTypeOf(format(f)) = "AUDIO",
         NEW m, Progress(f, <<>>, m)
  PROVE  /\ Cardinality(m) = 1
         /\ \A v \in m : v.channels \in 1..2 /\ v.rate \in mp3Rates
<1> DEFINE sound == MainStream(f, "audio")
<1>1. format(f) \in AudioFormat
  BY ProcessorsAccept, KindsOfFormat
<1>2. sound \in Streams(f.probe, "audio")
  BY <1>1, ProcessorsAccept, MainStreamIsOne
<1>3. sound.channels \in Nat
  BY <1>2, FileFields, StreamsFacts, StreamFacts
<1>4. {v.label : v \in m} = {"mp3"}
  BY NothingPlanned DEF Outputs
<1>5. \A v \in m : /\ IsVariant(f, v) /\ v.label = "mp3"
                   /\ \A w \in m : w.label = v.label => w = v
  BY <1>4, NothingPlanned
<1>6. PICK v \in m : v.label = "mp3"
  BY <1>4
<1>7. Cardinality(m) = 1
  <2>1. m = {v}
    BY <1>5, <1>6
  <2>2. QED
    BY <2>1, FS_Singleton
<1>8. \A u \in m : u.rate \in mp3Rates /\ u.channels = Least(Max({sound.channels, 1}), 2)
  BY <1>5, VariantFacts
<1>9. Least(Max({sound.channels, 1}), 2) \in 1..2
  <2> HIDE DEF sound
  <2>1. Max({sound.channels, 1}) = IF sound.channels >= 1 THEN sound.channels ELSE 1
    BY <1>3, MaxOfPair
  <2>2. QED
    BY <1>3, <2>1 DEF Least
<1>10. QED
  BY <1>7, <1>8, <1>9

LEMMA PublishedVideo ==
  ASSUME NEW f \in UploadedFile, Passed(f), mediaTypeOf(format(f)) = "VIDEO",
         NEW m, Progress(f, <<>>, m)
  PROVE  LET size   == Display(MainStream(f, "video"))
             frames == {v \in m : v.label # "thumbnail"}
         IN  /\ Cardinality(frames) = Cardinality(Ladder(size))
             /\ Cardinality(m) = Cardinality(frames) + 1
             /\ \A n \in Ladder(size) : \E v \in frames :
                   ShortEdge(v.size) \in Max({1, n - 2})..Max({2, n})
             /\ \A v \in frames :
                   /\ v.size.w <= Max({2, size.w}) /\ v.size.h <= Max({2, size.h})
                   /\ (v.label # "source" /\ ~Elongated(size))
                         => Max({v.size.w, v.size.h}) <= TargetLong[v.label]
                   /\ v.size.w * size.h - v.size.h * size.w
                             \in -Max({size.w, size.h})..Max({size.w, size.h})
<1> DEFINE size == Display(MainStream(f, "video"))
           frames == {v \in m : v.label # "thumbnail"}
           g == [v \in m |-> EdgeOf(v.label, size)]
<1>1. format(f) \in VideoFormat
  BY ProcessorsAccept, KindsOfFormat
<1>2. PICK w \in Nat \ {0}, h \in Nat \ {0} : size = [w |-> w, h |-> h]
  <2> DEFINE s == MainStream(f, "video")
  <2>1. s \in Streams(f.probe, "video") /\ validDimensions(s)
    BY <1>1, ProcessorsAccept, MainStreamIsOne
  <2>2. s.width \in Nat /\ s.height \in Nat
    BY <2>1, FileFields, StreamsFacts, StreamFacts
  <2> HIDE DEF s
  <2>3. s.width \in Nat \ {0} /\ s.height \in Nat \ {0}
    BY <2>1, <2>2 DEF validDimensions
  <2>4. QED
    BY <2>3 DEF Display, s
<1>3. size.w = w /\ size.h = h /\ ShortEdge(size) \in Nat \ {0}
  BY <1>2 DEF ShortEdge, Least
<1>4. /\ {EdgeOf(l, size) : l \in PlannedLabels(size)} = Ladder(size)
      /\ \A l, k \in PlannedLabels(size) : EdgeOf(l, size) = EdgeOf(k, size) => l = k
      /\ IsFiniteSet(Ladder(size)) /\ "thumbnail" \notin PlannedLabels(size)
  BY <1>3, PlannedEdges, PlanFacts
<1>5. /\ PlannedLabels(size) \cup {"thumbnail"} = {v.label : v \in m}
      /\ \A v \in m : \A u \in m : u.label = v.label => u = v
  BY NothingPlanned DEF Outputs
<1>6. \A v \in frames : v.label \in PlannedLabels(size)
  BY <1>5
<1>7. \A v \in frames : \E box \in Boxes(v.label, size) : v.size = Frame(box, size)
  BY NothingPlanned, VariantFacts, ZenonT(30)
<1> HIDE DEF size
<1>8. \A n \in Ladder(size) : \E v \in frames : g[v] = n
  <2> SUFFICES ASSUME NEW n \in Ladder(size) PROVE \E v \in frames : g[v] = n
    OBVIOUS
  <2>1. PICK l \in PlannedLabels(size) : n = EdgeOf(l, size)
    BY <1>4
  <2>2. PICK v \in m : v.label = l
    BY <1>5
  <2>3. QED
    BY <1>4, <2>1, <2>2
<1>9. IsFiniteSet(frames) /\ Cardinality(frames) = Cardinality(Ladder(size))
  <2>1. \A v \in frames : g[v] \in Ladder(size)
    BY <1>4, <1>6
  <2>2. \A v, u \in frames : g[v] = g[u] => v = u
    BY <1>4, <1>5, <1>6
  <2> HIDE DEF frames, g
  <2>3. QED
    BY <1>4, <1>8, <2>1, <2>2, SameNumber
<1>10. Cardinality(m) = Cardinality(frames) + 1
  <2>1. PICK t \in m : t.label = "thumbnail"
    BY <1>5
  <2>2. m = frames \cup {t} /\ t \notin frames
    BY <1>5, <2>1
  <2> HIDE DEF frames
  <2>3. QED
    BY <1>9, <2>2, FS_AddElement
<1>11. ASSUME NEW v \in frames
       PROVE  /\ ShortEdge(v.size) \in Max({1, g[v] - 2})..Max({2, g[v]})
              /\ v.size.w <= Max({2, w}) /\ v.size.h <= Max({2, h})
              /\ v.size.w * h - v.size.h * w \in -Max({w, h})..Max({w, h})
              /\ (v.label # "source" /\ ~Elongated([w |-> w, h |-> h]))
                    => Max({v.size.w, v.size.h}) <= TargetLong[v.label]
  <2>1. v.label \in PlannedLabels([w |-> w, h |-> h]) /\ g[v] = EdgeOf(v.label, size)
    BY <1>2, <1>6
  <2>2. PICK box \in Boxes(v.label, [w |-> w, h |-> h]) : v.size = Frame(box, [w |-> w, h |-> h])
    BY <1>2, <1>7
  <2> HIDE DEF frames, g
  <2>3. (v.label # "source" /\ ~Elongated([w |-> w, h |-> h]))
            => Max({v.size.w, v.size.h}) <= TargetLong[v.label]
    BY <2>1, <2>2, FrameWithinPlan, ZenonT(30)
  <2>4. QED
    BY <1>2, <2>1, <2>2, <2>3, RenditionFrame, ZenonT(30)
<1> HIDE DEF frames, g
<1>12. \A n \in Ladder(size) : \E v \in frames :
           ShortEdge(v.size) \in Max({1, n - 2})..Max({2, n})
  BY <1>8, <1>11
<1>13. \A v \in frames : (v.label # "source" /\ ~Elongated(size))
                            => Max({v.size.w, v.size.h}) <= TargetLong[v.label]
  BY <1>2, <1>11, Zenon
<1>14. /\ Cardinality(frames) = Cardinality(Ladder(size))
       /\ Cardinality(m) = Cardinality(frames) + 1
       /\ \A v \in frames :
             /\ v.size.w <= Max({2, size.w}) /\ v.size.h <= Max({2, size.h})
             /\ v.size.w * size.h - v.size.h * size.w
                       \in -Max({size.w, size.h})..Max({size.w, size.h})
  BY <1>3, <1>9, <1>10, <1>11
<1>15. QED
  BY <1>12, <1>13, <1>14, Zenon DEF size, frames

\* What a job publishes is complete: every step of the ladder that the video reaches
\* has its rendition, which keeps its step and its aspect ratio, enlarges no edge but
\* that of one pixel and exceeds the plan's long edge only for a video longer than
\* 16:9, and there is one thumbnail; a picture has its two variants,
\* each with the edge it is made for, and a sound file its one.
THEOREM PublishedAreComplete == PipelineSpec => []PublishedIsComplete
<1>1. PInv => PublishedIsComplete
  <2> SUFFICES ASSUME PInv PROVE PublishedIsComplete
    OBVIOUS
  <2>1. ASSUME NEW i \in Index, job[i] = "published"
        PROVE  /\ files[i] \in UploadedFile /\ Passed(files[i])
               /\ Progress(files[i], <<>>, made[i])
               /\ Type(i) = mediaTypeOf(format(files[i]))
               /\ Type(i) \in {"IMAGE", "AUDIO", "VIDEO"}
    <3>1. Stored(i) /\ Progress(files[i], <<>>, made[i])
      BY <2>1 DEF PInv, JobInv
    <3>2. files[i] \in UploadedFile /\ Passed(files[i]) /\ format(files[i]) \in Format
      BY <2>1, <3>1, StoredHavePassed
    <3>3. QED
      BY <3>1, <3>2, KindsOfFormat DEF Type
  <2>2. QED
    BY <2>1, PublishedImage, PublishedAudio, PublishedVideo, ZenonT(30) DEF PublishedIsComplete
<1>2. QED
  BY <1>1, PipelineInvariant, PTL
=============================================================================
