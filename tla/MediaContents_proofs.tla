------------------------- MODULE MediaContents_proofs -------------------------
(* What the validator's checks of one file amount to: a file passes them if *)
(* and only if it is honestly named and genuine.                            *)
EXTENDS MediaPipeline, FiniteData_proofs

----------------------------------------------------------------------------
(* Checks in order.                                                         *)

LEMMA FirstOfChecks ==
  ASSUME NEW A, NEW checks \in Seq(A)
  PROVE  /\ FirstOf(checks) = "none" <=> \A k \in 1..Len(checks) : checks[k] = "none"
         /\ FirstOf(checks) # "none" =>
              \E k \in 1..Len(checks) : FirstOf(checks) = checks[k]
<1> DEFINE failing == {k \in DOMAIN checks : checks[k] # "none"}
<1>1. DOMAIN checks = 1..Len(checks) /\ IsFiniteSet(failing) /\ failing \subseteq Int
  <2>1. IsFiniteSet(DOMAIN checks) /\ DOMAIN checks \subseteq Nat \ {0}
    BY IndicesFinite
  <2>2. IsFiniteSet(failing)
    BY <2>1, FS_Subset
  <2>3. QED
    BY <2>1, <2>2
<1>2. CASE failing = {}
  BY <1>1, <1>2 DEF FirstOf
<1>3. CASE failing # {}
  <2>1. Min(failing) \in failing
    BY <1>1, <1>3, MinFacts
  <2>2. FirstOf(checks) = checks[Min(failing)]
    BY <1>3 DEF FirstOf
  <2>3. QED
    BY <1>1, <2>1, <2>2
<1>4. QED
  BY <1>2, <1>3

LEMMA CheckIs ==
  ASSUME NEW holds, NEW code
  PROVE  /\ Check(holds, code) \in {"none", code}
         /\ code # "none" => (Check(holds, code) = "none" <=> holds)
<1>1. CASE holds
  BY <1>1 DEF Check
<1>2. CASE ~holds
  BY <1>2 DEF Check
<1>3. QED
  BY <1>1, <1>2

LEMMA FirstOfTwo ==
  ASSUME NEW a, NEW b
  PROVE  /\ FirstOf(<<a, b>>) = "none" <=> a = "none" /\ b = "none"
         /\ FirstOf(<<a, b>>) \in {"none", a, b}
<1> DEFINE checks == <<a, b>>
<1>1. checks \in Seq({a, b})
  OBVIOUS
<1>2. Len(checks) = 2
  OBVIOUS
<1>3. checks[1] = a /\ checks[2] = b
  OBVIOUS
<1> HIDE DEF checks
<1>4. /\ FirstOf(checks) = "none" <=> \A k \in 1..2 : checks[k] = "none"
      /\ FirstOf(checks) # "none" => \E k \in 1..2 : FirstOf(checks) = checks[k]
  BY <1>1, <1>2, FirstOfChecks
<1>5. 1..2 = {1, 2}
  OBVIOUS
<1>6. /\ FirstOf(checks) = "none" <=> a = "none" /\ b = "none"
      /\ FirstOf(checks) \in {"none", a, b}
  BY <1>3, <1>4, <1>5
<1>7. QED
  BY <1>6 DEF checks

LEMMA FirstOfThree ==
  ASSUME NEW a, NEW b, NEW c
  PROVE  /\ FirstOf(<<a, b, c>>) = "none" <=>
              a = "none" /\ b = "none" /\ c = "none"
         /\ FirstOf(<<a, b, c>>) \in {"none"} \cup {a, b, c}
<1> DEFINE checks == <<a, b, c>>
<1>1. checks \in Seq({a, b, c})
  OBVIOUS
<1>2. Len(checks) = 3
  OBVIOUS
<1>3. checks[1] = a /\ checks[2] = b /\ checks[3] = c
  OBVIOUS
<1> HIDE DEF checks
<1>4. /\ FirstOf(checks) = "none" <=> \A k \in 1..3 : checks[k] = "none"
      /\ FirstOf(checks) # "none" => \E k \in 1..3 : FirstOf(checks) = checks[k]
  BY <1>1, <1>2, FirstOfChecks
<1>5. 1..3 = {1, 2, 3}
  OBVIOUS
<1>6. /\ FirstOf(checks) = "none" <=>
             a = "none" /\ b = "none" /\ c = "none"
      /\ FirstOf(checks) \in {"none"} \cup {a, b, c}
  BY <1>3, <1>4, <1>5
<1>7. QED
  BY <1>6 DEF checks

LEMMA FirstOfFour ==
  ASSUME NEW a, NEW b, NEW c, NEW d
  PROVE  /\ FirstOf(<<a, b, c, d>>) = "none" <=>
              a = "none" /\ b = "none" /\ c = "none" /\ d = "none"
         /\ FirstOf(<<a, b, c, d>>) \in {"none"} \cup {a, b, c, d}
<1> DEFINE checks == <<a, b, c, d>>
<1>1. checks \in Seq({a, b, c, d})
  OBVIOUS
<1>2. Len(checks) = 4
  OBVIOUS
<1>3. checks[1] = a /\ checks[2] = b /\ checks[3] = c /\ checks[4] = d
  OBVIOUS
<1> HIDE DEF checks
<1>4. /\ FirstOf(checks) = "none" <=> \A k \in 1..4 : checks[k] = "none"
      /\ FirstOf(checks) # "none" => \E k \in 1..4 : FirstOf(checks) = checks[k]
  BY <1>1, <1>2, FirstOfChecks
<1>5. 1..4 = {1, 2, 3, 4}
  OBVIOUS
<1>6. /\ FirstOf(checks) = "none" <=>
             a = "none" /\ b = "none" /\ c = "none" /\ d = "none"
      /\ FirstOf(checks) \in {"none"} \cup {a, b, c, d}
  BY <1>3, <1>4, <1>5
<1>7. QED
  BY <1>6 DEF checks

LEMMA FirstOfFive ==
  ASSUME NEW a, NEW b, NEW c, NEW d, NEW e
  PROVE  /\ FirstOf(<<a, b, c, d, e>>) = "none" <=>
              a = "none" /\ b = "none" /\ c = "none" /\ d = "none" /\ e = "none"
         /\ FirstOf(<<a, b, c, d, e>>) \in {"none"} \cup {a, b, c, d, e}
<1> DEFINE checks == <<a, b, c, d, e>>
<1>1. checks \in Seq({a, b, c, d, e})
  OBVIOUS
<1>2. Len(checks) = 5
  OBVIOUS
<1>3. /\ checks[1] = a /\ checks[2] = b /\ checks[3] = c /\ checks[4] = d
      /\ checks[5] = e
  OBVIOUS
<1> HIDE DEF checks
<1>4. /\ FirstOf(checks) = "none" <=> \A k \in 1..5 : checks[k] = "none"
      /\ FirstOf(checks) # "none" => \E k \in 1..5 : FirstOf(checks) = checks[k]
  BY <1>1, <1>2, FirstOfChecks
<1>5. 1..5 = {1, 2, 3, 4, 5}
  OBVIOUS
<1>6. /\ FirstOf(checks) = "none" <=>
             a = "none" /\ b = "none" /\ c = "none" /\ d = "none" /\ e = "none"
      /\ FirstOf(checks) \in {"none"} \cup {a, b, c, d, e}
  BY <1>3, <1>4, <1>5
<1>7. QED
  BY <1>6 DEF checks

LEMMA FirstOfSeven ==
  ASSUME NEW a, NEW b, NEW c, NEW d, NEW e, NEW f, NEW g
  PROVE  /\ FirstOf(<<a, b, c, d, e, f, g>>) = "none" <=>
              \A x \in {a, b, c, d, e, f, g} : x = "none"
         /\ FirstOf(<<a, b, c, d, e, f, g>>) \in {"none"} \cup {a, b, c, d, e, f, g}
<1> DEFINE checks == <<a, b, c, d, e, f, g>>
<1>1. checks \in Seq({a, b, c, d, e, f, g})
  OBVIOUS
<1>2. Len(checks) = 7
  OBVIOUS
<1>3. /\ checks[1] = a /\ checks[2] = b /\ checks[3] = c /\ checks[4] = d
      /\ checks[5] = e /\ checks[6] = f /\ checks[7] = g
  OBVIOUS
<1> HIDE DEF checks
<1>4. /\ FirstOf(checks) = "none" <=> \A k \in 1..7 : checks[k] = "none"
      /\ FirstOf(checks) # "none" => \E k \in 1..7 : FirstOf(checks) = checks[k]
  BY <1>1, <1>2, FirstOfChecks
<1>5. 1..7 = {1, 2, 3, 4, 5, 6, 7}
  OBVIOUS
<1>6. /\ FirstOf(checks) = "none" <=>
             \A x \in {a, b, c, d, e, f, g} : x = "none"
      /\ FirstOf(checks) \in {"none"} \cup {a, b, c, d, e, f, g}
  BY <1>3, <1>4, <1>5
<1>7. QED
  BY <1>6 DEF checks

LEMMA PolicyFormats ==
  ASSUME NEW n \in DOMAIN policies
  PROVE  policies[n] \in Format
BY DEF policies, Format, ImageFormat, AudioFormat, VideoFormat

LEMMA KindsOfFormat ==
  ASSUME NEW f \in Format
  PROVE  /\ f \in ImageFormat => mediaTypeOf(f) = "IMAGE" /\ f \notin AudioFormat
         /\ f \in AudioFormat => mediaTypeOf(f) = "AUDIO" /\ f \notin VideoFormat
         /\ f \in VideoFormat => mediaTypeOf(f) = "VIDEO" /\ f \notin AudioFormat
         /\ f \notin ImageFormat => f \in AudioFormat \/ f \in VideoFormat
BY DEF mediaTypeOf, Format, ImageFormat, AudioFormat, VideoFormat

LEMMA FileFields ==
  ASSUME NEW f \in UploadedFile
  PROVE  /\ f.size \in Nat
         /\ f.header \in FileHeader /\ f.probe \in ProbeDocument
         /\ f.picture \in SharpMetadata
BY DEF UploadedFile

----------------------------------------------------------------------------
(* The name, the header and the size.                                       *)

LEMMA NameChecks ==
  ASSUME NEW f \in UploadedFile
  PROVE  /\ nameFault(f) # "ok"
         /\ nameFault(f) = "none" <=>
              f.size > 0 /\ f.name \in DOMAIN policies /\ f.mime # "unsupported"
<1> DEFINE a == Check(f.size > 0, "EMPTY_FILE")
           b == Check(f.name # "blank", "INVALID_ORIGINAL_FILENAME")
           c == Check(f.name # "bare", "MISSING_EXTENSION")
           d == Check(f.name \in DOMAIN policies, "UNSUPPORTED_EXTENSION")
           e == Check(f.mime # "unsupported", "UNSUPPORTED_MIME_TYPE")
<1>1. nameFault(f) = FirstOf(<<a, b, c, d, e>>)
  BY DEF nameFault
<1>2. /\ a \in {"none", "EMPTY_FILE"} /\ (a = "none" <=> f.size > 0)
      /\ b \in {"none", "INVALID_ORIGINAL_FILENAME"} /\ (b = "none" <=> f.name # "blank")
      /\ c \in {"none", "MISSING_EXTENSION"} /\ (c = "none" <=> f.name # "bare")
      /\ d \in {"none", "UNSUPPORTED_EXTENSION"}
      /\ (d = "none" <=> f.name \in DOMAIN policies)
      /\ e \in {"none", "UNSUPPORTED_MIME_TYPE"} /\ (e = "none" <=> f.mime # "unsupported")
  BY DEF Check
<1>3. f.name \in DOMAIN policies => f.name # "blank" /\ f.name # "bare"
  BY DEF policies
<1> HIDE DEF a, b, c, d, e
<1>4. QED
  BY <1>1, <1>2, <1>3, FirstOfFive

LEMMA HeaderChecks ==
  ASSUME NEW f \in UploadedFile
  PROVE  /\ headerFault(f) # "ok"
         /\ headerFault(f) = "none" <=>
              /\ Recognized(f.header) /\ signatureMatchesPolicy(f.header, format(f))
              /\ f.mime \in {"octet", format(f)}
<1> DEFINE a == Check(Recognized(f.header), "UNKNOWN_FILE_SIGNATURE")
           b == Check(/\ signatureMatchesPolicy(f.header, format(f))
                      /\ isDeclaredMimeCompatible(format(f), f.mime),
                      "FILE_SIGNATURE_MISMATCH")
<1>1. headerFault(f) = FirstOf(<<a, b>>)
  BY DEF headerFault
<1>2. /\ a \in {"none", "UNKNOWN_FILE_SIGNATURE"} /\ (a = "none" <=> Recognized(f.header))
      /\ b \in {"none", "FILE_SIGNATURE_MISMATCH"}
      /\ (b = "none" <=> /\ signatureMatchesPolicy(f.header, format(f))
                         /\ f.mime \in {"octet", format(f)})
  BY DEF Check, isDeclaredMimeCompatible
<1> HIDE DEF a, b
<1>3. QED
  BY <1>1, <1>2, FirstOfTwo

LEMMA SizeChecks ==
  ASSUME NEW f \in UploadedFile
  PROVE  /\ sizeFault(f) \in {"none", "FILE_SIZE_EXCEEDED"}
         /\ sizeFault(f) = "none" <=> f.size <= Limits.maxSize[mediaTypeOf(format(f))]
BY DEF sizeFault, Check

\* An image's header names one format.
LEMMA ImageHeader ==
  ASSUME NEW h \in FileHeader, NEW f \in ImageFormat
  PROVE  Recognized(h) /\ signatureMatchesPolicy(h, f) <=> f \in NamedBy(h)
<1>1. f \in PlainFormat /\ f \notin {"m4a", "mp4", "mov", "webm", "mkv", "ftyp", "ebml"}
  BY DEF PlainFormat, ImageFormat
<1>2. "ftyp" \notin PlainFormat /\ "ebml" \notin PlainFormat
  BY DEF PlainFormat, ImageFormat, AudioFormat
<1>3. f \in NamedBy(h) <=> h.magic = f
  BY <1>1, <1>2 DEF NamedBy
<1>4. signatureMatchesPolicy(h, f) <=> h.magic = f
  BY <1>1 DEF signatureMatchesPolicy
<1>5. QED
  BY <1>1, <1>3, <1>4 DEF Recognized

----------------------------------------------------------------------------
(* Pictures.                                                                *)

LEMMA TimesMonotonic ==
  ASSUME NEW a \in Int, NEW b \in Int, NEW c \in Nat, a <= b
  PROVE  c * a <= c * b
<1>1. c * (b - a) >= 0
  OBVIOUS
<1>2. c * (b - a) = c * b - c * a
  OBVIOUS
<1>3. c * a \in Int /\ c * b \in Int
  OBVIOUS
<1>4. QED
  BY <1>1, <1>2, <1>3

LEMMA DivideFacts ==
  ASSUME NEW m \in Int, NEW n \in Nat \ {0}
  PROVE  /\ m \div n \in Int
         /\ n * (m \div n) <= m /\ m < n * (m \div n) + n
OBVIOUS

\* A product is within a bound if and only if a factor is within the quotient.
LEMMA QuotientBound ==
  ASSUME NEW a \in Nat \ {0}, NEW b \in Nat, NEW m \in Nat
  PROVE  a * b <= m <=> b <= m \div a
<1> DEFINE q == m \div a
<1>1. q \in Int /\ a * q <= m /\ m < a * q + a
  BY DivideFacts
<1>2. a * (q + 1) = a * q + a
  BY <1>1
<1> HIDE DEF q
<1>3. CASE b <= q
  <2>1. a * b <= a * q
    BY <1>1, <1>3, TimesMonotonic
  <2>2. QED
    BY <1>1, <1>3, <2>1 DEF q
<1>4. CASE q + 1 <= b
  <2>1. a * (q + 1) <= a * b
    BY <1>1, <1>4, TimesMonotonic
  <2>2. QED
    BY <1>1, <1>2, <1>4, <2>1 DEF q
<1>5. QED
  BY <1>1, <1>3, <1>4

LEMMA PictureChecks ==
  ASSUME NEW p \in SharpMetadata, NEW m \in Nat
  PROVE  /\ inspectImage(p, m) # "ok"
         /\ inspectImage(p, m) = "none" <=>
              /\ p.format \in ImageFormat /\ p.width > 0 /\ p.height > 0
              /\ p.pages = 1 /\ p.width * p.height <= m /\ p.decodes
<1> DEFINE a == Check(p.format \in ImageFormat /\ p.width > 0 /\ p.height > 0,
                      "CORRUPTED_FILE")
           b == Check(p.pages = 1, "ANIMATED_IMAGE_NOT_SUPPORTED")
           c == Check(p.width * p.height <= m, "IMAGE_PIXEL_LIMIT_EXCEEDED")
           d == Check(p.decodes, "CORRUPTED_FILE")
<1>1. inspectImage(p, m) = FirstOf(<<a, b, c, d>>)
  BY DEF inspectImage
<1>2. /\ a \in {"none", "CORRUPTED_FILE"}
      /\ (a = "none" <=> p.format \in ImageFormat /\ p.width > 0 /\ p.height > 0)
      /\ b \in {"none", "ANIMATED_IMAGE_NOT_SUPPORTED"} /\ (b = "none" <=> p.pages = 1)
      /\ c \in {"none", "IMAGE_PIXEL_LIMIT_EXCEEDED"}
      /\ (c = "none" <=> p.width * p.height <= m)
  BY DEF Check
<1>3. d \in {"none", "CORRUPTED_FILE"} /\ (d = "none" <=> p.decodes)
  BY DEF Check
<1> HIDE DEF a, b, c, d
<1>4. QED
  BY <1>1, <1>2, <1>3, FirstOfFour

LEMMA ImageChecks ==
  ASSUME NEW f \in UploadedFile, format(f) \in ImageFormat
  PROVE  /\ imageFault(f) # "ok"
         /\ imageFault(f) = "none" <=>
              /\ SoundPicture(f.picture, format(f))
              /\ f.size <= Limits.maxSize[mediaTypeOf(format(f))]
<1> DEFINE p == f.picture
           m == Limits.maxImagePixels
           a == inspectImage(p, m)
           b == Check(p.format = format(f), "FILE_SIGNATURE_MISMATCH")
           c == sizeFault(f)
<1>1. imageFault(f) = FirstOf(<<a, b, c>>)
  BY DEF imageFault
<1>2. p \in SharpMetadata /\ m \in Nat /\ p.width \in Nat /\ p.height \in Nat
  BY FileFields, LimitsAssumption DEF SharpMetadata
<1>3. b \in {"none", "FILE_SIGNATURE_MISMATCH"} /\ (b = "none" <=> p.format = format(f))
  BY DEF Check
<1>4. /\ a # "ok"
      /\ a = "none" <=> /\ p.format \in ImageFormat /\ p.width > 0 /\ p.height > 0
                        /\ p.pages = 1 /\ p.width * p.height <= m /\ p.decodes
  BY <1>2, PictureChecks
<1>5. /\ c \in {"none", "FILE_SIZE_EXCEEDED"}
      /\ c = "none" <=> f.size <= Limits.maxSize[mediaTypeOf(format(f))]
  BY SizeChecks
<1>6. SoundPicture(p, format(f)) <=>
        /\ p.format = format(f) /\ p.decodes /\ p.pages = 1
        /\ p.width > 0 /\ p.height > 0 /\ p.width * p.height <= m
  <2> DEFINE w == p.width
             h == p.height
  <2>1. w > 0 => (w * h <= m <=> h <= m \div w)
    <3>1. w \in Nat /\ h \in Nat /\ m \in Nat
      BY <1>2
    <3> HIDE DEF w, h, p, m
    <3>2. QED
      BY <3>1, QuotientBound
  <2>2. w > 0 => m \div w \in Int
    BY <1>2
  <2>3. w > 0 /\ h > 0 /\ w * h <= m => w <= m
    <3>1. SUFFICES ASSUME w > 0, h > 0, w * h <= m PROVE w <= m
      OBVIOUS
    <3>2. w * 1 <= w * h
      BY <1>2, <3>1, TimesMonotonic
    <3>3. QED
      BY <1>2, <3>1, <3>2
  <2>4. w \in 1..m /\ h \in 1..(m \div w) <=> w > 0 /\ h > 0 /\ w * h <= m
    BY <1>2, <2>1, <2>2, <2>3
  <2>5. SoundPicture(p, format(f)) <=>
          /\ p.format = format(f) /\ p.decodes /\ p.pages = 1
          /\ w \in 1..m /\ h \in 1..(m \div w)
    BY DEF SoundPicture
  <2> HIDE DEF w, h, p, m
  <2>6. QED
    BY <2>4, <2>5 DEF w, h
<1> HIDE DEF a, b, c
<1>7. QED
  BY <1>1, <1>3, <1>4, <1>5, <1>6, FirstOfThree

----------------------------------------------------------------------------
(* Streams.                                                                 *)

LEMMA DocumentFacts ==
  ASSUME NEW doc \in ProbeDocument
  PROVE  /\ doc.streams \in Seq(ProbeStream) /\ doc.duration \in MaybeNat
         /\ \A k \in DOMAIN doc.streams : doc.streams[k] \in ProbeStream
         /\ IsFiniteSet(DOMAIN doc.streams) /\ DOMAIN doc.streams \subseteq Nat \ {0}
         /\ Len(doc.streams) \in Nat
<1>1. doc.streams \in Seq(ProbeStream) /\ doc.duration \in MaybeNat
  BY DEF ProbeDocument
<1>2. QED
  BY <1>1, IndicesFinite

LEMMA StreamFacts ==
  ASSUME NEW s \in ProbeStream
  PROVE  /\ s.type \in {"audio", "video"} => s.duration \in MaybeNat
         /\ s.type = "video" => /\ s.width \in Nat /\ s.height \in Nat
                                /\ s.turned \in BOOLEAN /\ s.last \in Nat
         /\ s.type = "audio" => s.rate \in MaybeNat /\ s.channels \in Nat
<1>1. CASE s \in [type : {"video"}, codec : STRING, width : Nat, height : Nat,
                  turned : BOOLEAN, duration : MaybeNat, last : Nat]
  BY <1>1
<1>2. CASE s \in [type : {"audio"}, codec : STRING, duration : MaybeNat,
                  rate : MaybeNat, channels : Nat]
  BY <1>2
<1>3. CASE s \in [type : {"other"}, codec : STRING]
  BY <1>3
<1>4. QED
  BY <1>1, <1>2, <1>3 DEF ProbeStream

LEMMA StreamsFacts ==
  ASSUME NEW doc \in ProbeDocument, NEW type
  PROVE  /\ StreamsOf(doc, type) \subseteq DOMAIN doc.streams
         /\ IsFiniteSet(StreamsOf(doc, type)) /\ StreamsOf(doc, type) \subseteq Int
         /\ IsFiniteSet(Streams(doc, type))
         /\ Streams(doc, type) = {} <=> StreamsOf(doc, type) = {}
         /\ \A s \in Streams(doc, type) : s \in ProbeStream /\ s.type = type
<1>1. StreamsOf(doc, type) \subseteq DOMAIN doc.streams
  BY DEF StreamsOf
<1>2. IsFiniteSet(StreamsOf(doc, type)) /\ StreamsOf(doc, type) \subseteq Int
  BY <1>1, DocumentFacts, FS_Subset
<1>3. IsFiniteSet(Streams(doc, type))
  BY <1>2, ImageFinite DEF Streams
<1>4. QED
  BY <1>1, <1>2, <1>3, DocumentFacts DEF StreamsOf, Streams

LEMMA CodecChecks ==
  ASSUME NEW doc \in ProbeDocument, NEW type, NEW supported, NEW code,
         "none" \notin supported, code \notin {"none", "ok"}
  PROVE  /\ codecFault(doc, type, supported, code) # "ok"
         /\ codecFault(doc, type, supported, code) = "none" <=>
              \A k \in StreamsOf(doc, type) : doc.streams[k].codec \in supported
<1> DEFINE bad == {k \in StreamsOf(doc, type) : doc.streams[k].codec \notin supported}
<1>1. codecFault(doc, type, supported, code)
        = IF bad = {} THEN "none"
          ELSE IF doc.streams[Min(bad)].codec = "none" THEN "CORRUPTED_FILE" ELSE code
  BY DEF codecFault
<1>2. QED
  BY <1>1

\* The durations that decide, where a format needs streams of a type.
Lengths(doc, required) ==
    IF doc.duration # NaN THEN {doc.duration} ELSE {s.duration : s \in required}

LEMMA DurationFacts ==
  ASSUME NEW doc \in ProbeDocument, NEW type \in {"audio", "video"}
  PROVE  LET required == Streams(doc, type)
             length   == Lengths(doc, required)
             duration == mediaDuration(doc, required)
         IN  /\ duration \in Int
             /\ duration > 0 <=> NaN \notin length /\ \E d \in length : d > 0
             /\ \A m \in Nat : duration > 0 =>
                  (duration <= m <=> \A d \in length : d <= m)
<1> DEFINE required == Streams(doc, type)
           length   == Lengths(doc, required)
           duration == mediaDuration(doc, required)
           all == {s.duration : s \in required}
<1>1. doc.duration \in MaybeNat /\ NaN = -1 /\ MaybeNat \subseteq Int
  BY DocumentFacts DEF NaN, MaybeNat
<1>2. all \subseteq MaybeNat /\ IsFiniteSet(all)
  <2>1. \A s \in required : s.duration \in MaybeNat
    BY StreamsFacts, StreamFacts
  <2>2. IsFiniteSet(required)
    BY StreamsFacts
  <2> DEFINE g == [s \in required |-> s.duration]
  <2>3. IsFiniteSet({g[s] : s \in required})
    BY <2>2, ImageFinite
  <2>4. {g[s] : s \in required} = all
    OBVIOUS
  <2>5. QED
    BY <2>1, <2>3, <2>4
<1>3. CASE doc.duration # NaN
  <2>1. duration = doc.duration /\ length = {doc.duration}
    BY <1>3 DEF mediaDuration, Lengths
  <2>2. QED
    BY <1>1, <1>3, <2>1
<1>4. CASE doc.duration = NaN /\ NaN \in all
  <2>1. duration = NaN /\ length = all
    BY <1>4 DEF mediaDuration, Lengths
  <2>2. QED
    BY <1>1, <1>4, <2>1
<1>5. CASE doc.duration = NaN /\ NaN \notin all
  <2>1. duration = Max(all \cup {NaN}) /\ length = all
    BY <1>5 DEF mediaDuration, Lengths
  <2>2. all \cup {NaN} \subseteq Int /\ all \cup {NaN} # {}
    <3> HIDE DEF all
    <3>1. QED
      BY <1>1, <1>2
  <2>3. IsFiniteSet(all \cup {NaN})
    BY <1>2, FS_Singleton, FS_Union
  <2>4. duration \in all \cup {NaN} /\ \A d \in all \cup {NaN} : duration >= d
    BY <2>1, <2>2, <2>3, MaxFacts
  <2> HIDE DEF duration, length, all
  <2>5. /\ duration \in Int
        /\ duration > 0 <=> NaN \notin length /\ \E d \in length : d > 0
        /\ \A m \in Nat : duration > 0 => (duration <= m <=> \A d \in length : d <= m)
    BY <1>1, <1>2, <1>5, <2>1, <2>2, <2>4
  <2>6. QED
    BY <2>5 DEF duration, length
<1>6. QED
  BY <1>3, <1>4, <1>5

----------------------------------------------------------------------------
(* Audio and video.                                                         *)

OwnType(f) == IF f \in AudioFormat THEN "audio" ELSE "video"

\* A header and the streams that the format needs name the format together; the
\* header alone may leave two.
LEMMA ContainerHeader ==
  ASSUME NEW h \in FileHeader, NEW doc \in ProbeDocument,
         NEW f \in AudioFormat \cup VideoFormat, streamContractMatches(f, doc)
  PROVE  /\ Recognized(h) /\ signatureMatchesPolicy(h, f) /\ deriveFormat(h, doc) = f
         <=> f \in NamedBy(h)
<1>1. /\ f \in AudioFormat => Streams(doc, "audio") # {} /\ Streams(doc, "video") = {}
      /\ f \notin AudioFormat => Streams(doc, "video") # {}
  BY DEF streamContractMatches
<1>2. f # "none" /\ f # "ftyp" /\ f # "ebml" /\ h.complete \in BOOLEAN
  BY DEF AudioFormat, VideoFormat, FileHeader
<1>3. CASE h.magic = "ftyp"
  <2>1. /\ Recognized(h) /\ h.magic \notin PlainFormat
        /\ variant(h) = isoVariant(h)
        /\ signatureMatchesPolicy(h, f) <=>
             f \in {"m4a", "mp4", "mov"} /\ variant(h) \in {"none", f}
    BY <1>3 DEF Recognized, PlainFormat, ImageFormat, AudioFormat, variant,
                signatureMatchesPolicy
  <2>2. NamedBy(h) = IF ~h.complete THEN {}
                     ELSE IF "qt" \in h.brands THEN {"mov"}
                     ELSE IF "M4A" \in h.brands THEN {"m4a"}
                     ELSE IF "shared" \in h.brands THEN {"m4a", "mp4"} ELSE {}
    BY <1>3, <2>1 DEF NamedBy
  <2>3. isoVariant(h) = IF ~h.complete THEN "none"
                        ELSE IF "qt" \in h.brands THEN "mov"
                        ELSE IF "M4A" \in h.brands THEN "m4a" ELSE "none"
    <3>1. CASE ~h.complete
      BY <3>1 DEF isoVariant
    <3>2. CASE h.complete /\ "qt" \in h.brands
      BY <3>2 DEF isoVariant
    <3>3. CASE h.complete /\ "qt" \notin h.brands /\ "M4A" \in h.brands
      BY <3>3 DEF isoVariant
    <3>4. CASE h.complete /\ "qt" \notin h.brands /\ "M4A" \notin h.brands
      BY <3>4 DEF isoVariant
    <3>5. QED
      BY <3>1, <3>2, <3>3, <3>4
  <2>4. deriveFormat(h, doc) =
          IF variant(h) # "none" THEN variant(h)
          ELSE IF ~sharedIso(h) THEN "none"
          ELSE IF Streams(doc, "video") # {} THEN "mp4"
          ELSE IF Streams(doc, "audio") # {} THEN "m4a" ELSE "none"
    BY <1>3 DEF deriveFormat
  <2>5. sharedIso(h) <=> /\ h.complete /\ "shared" \in h.brands
                         /\ "qt" \notin h.brands /\ "M4A" \notin h.brands
    BY <1>3 DEF sharedIso
  <2>6. /\ "m4a" \in AudioFormat /\ "mp4" \notin AudioFormat /\ "mov" \notin AudioFormat
    BY DEF AudioFormat
  <2>7. QED
    BY <1>1, <1>2, <2>1, <2>2, <2>3, <2>4, <2>5, <2>6
<1>4. CASE h.magic = "ebml"
  <2>1. /\ Recognized(h) /\ h.magic \notin PlainFormat
        /\ variant(h) = ebmlDocType(h) /\ deriveFormat(h, doc) = variant(h)
        /\ signatureMatchesPolicy(h, f) <=> f \in {"webm", "mkv"} /\ variant(h) = f
    BY <1>4 DEF Recognized, PlainFormat, ImageFormat, AudioFormat, variant,
                deriveFormat, signatureMatchesPolicy
  <2>2. ebmlDocType(h) = IF ~h.complete THEN "none"
                         ELSE IF h.docType = "webm" THEN "webm"
                         ELSE IF h.docType = "matroska" THEN "mkv" ELSE "none"
    BY DEF ebmlDocType
  <2>3. f \in NamedBy(h) <=>
          h.complete /\ \/ h.docType = "webm" /\ f = "webm"
                        \/ h.docType = "matroska" /\ f = "mkv"
    BY <1>4, <2>1 DEF NamedBy
  <2>4. QED
    BY <1>2, <2>1, <2>2, <2>3
<1>5. CASE h.magic \notin {"ftyp", "ebml"}
  <2>1. /\ Recognized(h) <=> h.magic \in PlainFormat
        /\ signatureMatchesPolicy(h, f) <=> h.magic = f
        /\ deriveFormat(h, doc) = h.magic
    BY <1>5 DEF Recognized, signatureMatchesPolicy, deriveFormat, variant
  <2>2. f \in NamedBy(h) <=> h.magic \in PlainFormat /\ h.magic = f
    BY <1>5 DEF NamedBy
  <2>3. QED
    BY <2>1, <2>2
<1>6. QED
  BY <1>3, <1>4, <1>5

\* What the streams of an accepted file have in common.
StreamsFit(doc, f) ==
    /\ doc.container = Container(f)
    /\ StreamsOf(doc, OwnType(f)) # {}
    /\ f \in AudioFormat => StreamsOf(doc, "video") = {}
    /\ \A k \in StreamsOf(doc, "audio") : doc.streams[k].codec \in audioCodecs
    /\ \A k \in StreamsOf(doc, "video") : doc.streams[k].codec \in videoCodecs
    /\ f \in VideoFormat => \A s \in Streams(doc, "video") : validDimensions(s)

LEMMA StreamContract ==
  ASSUME NEW doc \in ProbeDocument, NEW f \in AudioFormat \cup VideoFormat
  PROVE  /\ OwnType(f) \in {"audio", "video"}
         /\ StreamsFit(doc, f) => streamContractMatches(f, doc)
         /\ streamContractMatches(f, doc) <=>
              /\ StreamsOf(doc, OwnType(f)) # {}
              /\ f \in AudioFormat => StreamsOf(doc, "video") = {}
BY StreamsFacts DEF streamContractMatches, OwnType, StreamsFit

LEMMA DocumentChecks ==
  ASSUME NEW h \in FileHeader, NEW doc \in ProbeDocument,
         NEW f \in AudioFormat \cup VideoFormat
  PROVE  /\ validateDocument(h, doc, f) # "ok"
         /\ validateDocument(h, doc, f) = "none" <=>
              /\ deriveFormat(h, doc) = f /\ StreamsFit(doc, f)
              /\ mediaDuration(doc, Streams(doc, OwnType(f))) > 0
<1> DEFINE required == Streams(doc, OwnType(f))
           a == Check(deriveFormat(h, doc) = f /\ doc.container = Container(f),
                      "FILE_SIGNATURE_MISMATCH")
           b == Check(required # {}, "MEDIA_STREAM_NOT_FOUND")
           c == Check(streamContractMatches(f, doc), "FILE_SIGNATURE_MISMATCH")
           d == codecFault(doc, "audio", audioCodecs, "UNSUPPORTED_AUDIO_CODEC")
           e == codecFault(doc, "video", videoCodecs, "UNSUPPORTED_VIDEO_CODEC")
           g == Check(mediaDuration(doc, required) > 0, "CORRUPTED_FILE")
           i == Check(f \in VideoFormat =>
                        \A s \in Streams(doc, "video") : validDimensions(s),
                      "CORRUPTED_FILE")
<1>1. validateDocument(h, doc, f) = FirstOf(<<a, b, c, d, e, g, i>>)
  BY DEF validateDocument, OwnType
<1>2. /\ a \in {"none", "FILE_SIGNATURE_MISMATCH"}
      /\ a = "none" <=> deriveFormat(h, doc) = f /\ doc.container = Container(f)
  BY DEF Check
<1>3. /\ b \in {"none", "MEDIA_STREAM_NOT_FOUND"}
      /\ b = "none" <=> StreamsOf(doc, OwnType(f)) # {}
  BY StreamsFacts DEF Check
<1>4. /\ c \in {"none", "FILE_SIGNATURE_MISMATCH"}
      /\ c = "none" <=> streamContractMatches(f, doc)
  BY DEF Check
<1>5. /\ d # "ok"
      /\ d = "none" <=>
           \A k \in StreamsOf(doc, "audio") : doc.streams[k].codec \in audioCodecs
  <2>1. "none" \notin audioCodecs
    BY DEF audioCodecs
  <2>2. QED
    BY <2>1, CodecChecks
<1>6. /\ e # "ok"
      /\ e = "none" <=>
           \A k \in StreamsOf(doc, "video") : doc.streams[k].codec \in videoCodecs
  <2>1. "none" \notin videoCodecs
    BY DEF videoCodecs
  <2>2. QED
    BY <2>1, CodecChecks
<1>7. /\ g \in {"none", "CORRUPTED_FILE"}
      /\ g = "none" <=> mediaDuration(doc, required) > 0
  BY DEF Check
<1>8. /\ i \in {"none", "CORRUPTED_FILE"}
      /\ i = "none" <=>
           (f \in VideoFormat => \A s \in Streams(doc, "video") : validDimensions(s))
  BY DEF Check
<1> HIDE DEF a, b, c, d, e, g, i
<1>9. /\ FirstOf(<<a, b, c, d, e, g, i>>) # "ok"
      /\ FirstOf(<<a, b, c, d, e, g, i>>) = "none" <=>
           \A x \in {a, b, c, d, e, g, i} : x = "none"
  BY <1>2, <1>3, <1>4, <1>5, <1>6, <1>7, <1>8, FirstOfSeven
<1>10. QED
  BY <1>1, <1>2, <1>3, <1>4, <1>5, <1>6, <1>7, <1>8, <1>9, StreamContract
     DEF StreamsFit

\* The limits on streams, lengths and frames.
StreamsSafe(doc, f) ==
    /\ Len(doc.streams) <= Limits.maxMediaStreams
    /\ mediaDuration(doc, Streams(doc, OwnType(f))) <= Limits.maxDuration[mediaTypeOf(f)]
    /\ f \in VideoFormat =>
         \A s \in Streams(doc, "video") : /\ s.width <= Limits.maxVideoWidth
                                          /\ s.height <= Limits.maxVideoHeight

LEMMA SafetyChecks ==
  ASSUME NEW f \in UploadedFile, format(f) \in AudioFormat \cup VideoFormat
  PROVE  /\ assertSafety(f) # "ok"
         /\ assertSafety(f) = "none" <=> StreamsSafe(f.probe, format(f))
<1> DEFINE fmt == format(f)
<1>1. /\ mediaTypeOf(fmt) = "AUDIO" <=> fmt \in AudioFormat
      /\ mediaTypeOf(fmt) = "VIDEO" <=> fmt \in VideoFormat
  BY KindsOfFormat DEF Format
<1>2. (IF mediaTypeOf(fmt) = "AUDIO" THEN "audio" ELSE "video") = OwnType(fmt)
  BY <1>1 DEF OwnType
<1>3. fmt \in VideoFormat => OwnType(fmt) = "video"
  BY DEF OwnType, AudioFormat, VideoFormat
<1> DEFINE doc == f.probe
           main == Streams(doc, OwnType(fmt))
           safe == /\ Len(doc.streams) <= Limits.maxMediaStreams
                   /\ mediaDuration(doc, main) <= Limits.maxDuration[mediaTypeOf(fmt)]
                   /\ mediaTypeOf(fmt) = "VIDEO" =>
                        \A s \in main : /\ s.width <= Limits.maxVideoWidth
                                        /\ s.height <= Limits.maxVideoHeight
<1>4. assertSafety(f) = Check(safe, "FILE_SIZE_EXCEEDED")
  BY <1>2 DEF assertSafety
<1>5. safe <=> StreamsSafe(doc, fmt)
  BY <1>1, <1>3 DEF StreamsSafe
<1> HIDE DEF safe
<1>6. QED
  BY <1>4, <1>5, CheckIs

LEMMA AvChecks ==
  ASSUME NEW f \in UploadedFile, format(f) \in AudioFormat \cup VideoFormat
  PROVE  /\ avFault(f) # "ok"
         /\ avFault(f) = "none" <=>
              /\ deriveFormat(f.header, f.probe) = format(f)
              /\ StreamsFit(f.probe, format(f)) /\ StreamsSafe(f.probe, format(f))
              /\ mediaDuration(f.probe, Streams(f.probe, OwnType(format(f)))) > 0
              /\ f.size <= Limits.maxSize[mediaTypeOf(format(f))]
<1> DEFINE a == validateDocument(f.header, f.probe, format(f))
           b == sizeFault(f)
           c == assertSafety(f)
<1>1. avFault(f) = FirstOf(<<a, b, c>>)
  BY DEF avFault
<1>2. /\ a # "ok"
      /\ a = "none" <=>
           /\ deriveFormat(f.header, f.probe) = format(f) /\ StreamsFit(f.probe, format(f))
           /\ mediaDuration(f.probe, Streams(f.probe, OwnType(format(f)))) > 0
  BY FileFields, DocumentChecks
<1>3. /\ b \in {"none", "FILE_SIZE_EXCEEDED"}
      /\ b = "none" <=> f.size <= Limits.maxSize[mediaTypeOf(format(f))]
  BY SizeChecks
<1>4. c # "ok" /\ (c = "none" <=> StreamsSafe(f.probe, format(f)))
  BY SafetyChecks
<1> HIDE DEF a, b, c
<1>5. QED
  BY <1>1, <1>2, <1>3, <1>4, FirstOfThree

\* The streams are sound if and only if they fit the format and are safe.
LEMMA SoundStreamsAre ==
  ASSUME NEW doc \in ProbeDocument, NEW f \in AudioFormat \cup VideoFormat
  PROVE  SoundStreams(doc, f) <=>
           /\ doc.ends = "document" /\ StreamsFit(doc, f) /\ StreamsSafe(doc, f)
           /\ mediaDuration(doc, Streams(doc, OwnType(f))) > 0
<1> DEFINE all  == {doc.streams[k] : k \in DOMAIN doc.streams}
           type == mediaTypeOf(f)
           own  == {s \in all : s.type = (IF type = "AUDIO" THEN "audio" ELSE "video")}
           length == IF doc.duration # NaN THEN {doc.duration}
                                           ELSE {s.duration : s \in own}
           max == Limits.maxDuration[type]
           duration == mediaDuration(doc, Streams(doc, OwnType(f)))
<1>1. /\ f \in AudioFormat => type = "AUDIO" /\ f \notin VideoFormat
      /\ f \notin AudioFormat => type = "VIDEO" /\ f \in VideoFormat
  BY KindsOfFormat DEF Format
<1>2. own = Streams(doc, OwnType(f))
  BY <1>1 DEF OwnType, Streams, StreamsOf
<1>3. length = Lengths(doc, Streams(doc, OwnType(f)))
  BY <1>2 DEF Lengths
<1>4. max \in Nat /\ Limits.maxVideoWidth \in Nat /\ Limits.maxVideoHeight \in Nat
  BY <1>1, LimitsAssumption
<1>5. /\ duration > 0 <=> NaN \notin length /\ \E d \in length : d > 0
      /\ duration > 0 => (duration <= max <=> \A d \in length : d <= max)
  BY <1>3, <1>4, StreamContract, DurationFacts
<1>6. own = {} <=> StreamsOf(doc, OwnType(f)) = {}
  BY <1>2, StreamsFacts
<1>7. (\A s \in all : /\ s.type = "audio" => s.codec \in audioCodecs
                      /\ s.type = "video" => s.codec \in videoCodecs
                      /\ s.type = "video" => type = "VIDEO")
      <=> /\ f \in AudioFormat => StreamsOf(doc, "video") = {}
          /\ \A k \in StreamsOf(doc, "audio") : doc.streams[k].codec \in audioCodecs
          /\ \A k \in StreamsOf(doc, "video") : doc.streams[k].codec \in videoCodecs
  BY <1>1 DEF StreamsOf
<1>8. (type = "VIDEO" => \A s \in own : /\ s.width \in 1..Limits.maxVideoWidth
                                        /\ s.height \in 1..Limits.maxVideoHeight)
      <=> /\ f \in VideoFormat => \A s \in Streams(doc, "video") : validDimensions(s)
          /\ f \in VideoFormat =>
               \A s \in Streams(doc, "video") : /\ s.width <= Limits.maxVideoWidth
                                                /\ s.height <= Limits.maxVideoHeight
  <2>1. CASE f \in AudioFormat
    BY <1>1, <2>1
  <2>2. CASE f \notin AudioFormat
    <3>1. own = Streams(doc, "video") /\ type = "VIDEO" /\ f \in VideoFormat
      BY <1>1, <1>2, <2>2 DEF OwnType
    <3>2. \A s \in Streams(doc, "video") : s.width \in Nat /\ s.height \in Nat
      BY StreamsFacts, StreamFacts
    <3> HIDE DEF own, type
    <3>3. QED
      BY <1>4, <3>1, <3>2 DEF validDimensions
  <2>3. QED
    BY <2>1, <2>2
<1>9. SoundStreams(doc, f) <=>
        /\ doc.ends = "document" /\ doc.container = Container(f)
        /\ own # {} /\ Len(doc.streams) <= Limits.maxMediaStreams
        /\ \A s \in all : /\ s.type = "audio" => s.codec \in audioCodecs
                          /\ s.type = "video" => s.codec \in videoCodecs
                          /\ s.type = "video" => type = "VIDEO"
        /\ type = "VIDEO" =>
              \A s \in own : /\ s.width \in 1..Limits.maxVideoWidth
                             /\ s.height \in 1..Limits.maxVideoHeight
        /\ NaN \notin length
        /\ \E d \in length : d > 0
        /\ \A d \in length : d <= max
  BY DEF SoundStreams
<1>10. StreamsFit(doc, f) /\ StreamsSafe(doc, f) <=>
        /\ doc.container = Container(f)
        /\ StreamsOf(doc, OwnType(f)) # {} /\ Len(doc.streams) <= Limits.maxMediaStreams
        /\ /\ f \in AudioFormat => StreamsOf(doc, "video") = {}
           /\ \A k \in StreamsOf(doc, "audio") : doc.streams[k].codec \in audioCodecs
           /\ \A k \in StreamsOf(doc, "video") : doc.streams[k].codec \in videoCodecs
        /\ /\ f \in VideoFormat => \A s \in Streams(doc, "video") : validDimensions(s)
           /\ f \in VideoFormat =>
               \A s \in Streams(doc, "video") : /\ s.width <= Limits.maxVideoWidth
                                                /\ s.height <= Limits.maxVideoHeight
        /\ duration <= max
  BY DEF StreamsFit, StreamsSafe
<1> HIDE DEF all, type, own, length, max, duration
<1>11. SoundStreams(doc, f) <=>
           doc.ends = "document" /\ StreamsFit(doc, f) /\ StreamsSafe(doc, f) /\ duration > 0
  BY <1>5, <1>6, <1>7, <1>8, <1>9, <1>10
<1>12. QED
  BY <1>11 DEF duration

----------------------------------------------------------------------------
(* A file passes all of its checks if and only if it is honestly named and  *)
(* genuine.                                                                 *)

Passed(f) ==
    /\ nameFault(f) = "none" /\ headerFault(f) = "none"
    /\ IF format(f) \in ImageFormat THEN imageFault(f) = "none"
       ELSE f.probe.ends = "document" /\ avFault(f) = "none"

\* MediaValidationService's checks of one file, in the order they are made,
\* accept exactly the files that are what their name says: the header, the
\* container and the streams name one format between them, and every number is
\* within its limit.
THEOREM ChecksDecideGenuineness ==
  ASSUME NEW f \in UploadedFile
  PROVE  Passed(f) <=> HonestName(f) /\ Genuine(f, format(f))
<1> DEFINE fmt == format(f)
           max == Limits.maxSize[mediaTypeOf(fmt)]
<1>1. f.size \in Nat /\ f.header \in FileHeader /\ f.probe \in ProbeDocument
  BY FileFields
<1>2. Passed(f) \/ HonestName(f) => f.name \in DOMAIN policies
  BY NameChecks DEF Passed, HonestName
<1> SUFFICES ASSUME f.name \in DOMAIN policies
             PROVE  Passed(f) <=> HonestName(f) /\ Genuine(f, fmt)
  BY <1>2
<1>3. fmt \in Format /\ fmt = policies[f.name]
  BY PolicyFormats DEF format
<1>4. fmt # "unsupported"
  BY <1>3 DEF Format, ImageFormat, AudioFormat, VideoFormat
<1>5. max \in Nat
  BY <1>3, KindsOfFormat, LimitsAssumption
<1>6. HonestName(f) <=> f.mime \in {"octet", fmt}
  BY <1>3 DEF HonestName
<1>7. nameFault(f) = "none" /\ headerFault(f) = "none" <=>
        /\ f.size > 0 /\ HonestName(f)
        /\ Recognized(f.header) /\ signatureMatchesPolicy(f.header, fmt)
  BY <1>4, <1>6, NameChecks, HeaderChecks
<1>8. f.size \in 1..max <=> f.size > 0 /\ f.size <= max
  BY <1>1, <1>5
<1>9. CASE fmt \in ImageFormat
  <2>1. imageFault(f) = "none" <=> SoundPicture(f.picture, fmt) /\ f.size <= max
    BY <1>9, ImageChecks
  <2>2. Recognized(f.header) /\ signatureMatchesPolicy(f.header, fmt)
        <=> fmt \in NamedBy(f.header)
    BY <1>1, <1>9, ImageHeader
  <2>3. Genuine(f, fmt) <=>
          fmt \in NamedBy(f.header) /\ f.size \in 1..max /\ SoundPicture(f.picture, fmt)
    BY <1>9 DEF Genuine
  <2>4. Passed(f) <=>
          nameFault(f) = "none" /\ headerFault(f) = "none" /\ imageFault(f) = "none"
    BY <1>9 DEF Passed
  <2> HIDE DEF fmt, max
  <2>5. QED
    BY <1>7, <1>8, <2>1, <2>2, <2>3, <2>4
<1>10. CASE fmt \notin ImageFormat
  <2>1. fmt \in AudioFormat \cup VideoFormat
    BY <1>3, <1>10 DEF Format
  <2> DEFINE duration == mediaDuration(f.probe, Streams(f.probe, OwnType(fmt)))
  <2>2. avFault(f) = "none" <=>
          /\ deriveFormat(f.header, f.probe) = fmt
          /\ StreamsFit(f.probe, fmt) /\ StreamsSafe(f.probe, fmt)
          /\ duration > 0 /\ f.size <= max
    BY <2>1, AvChecks
  <2>3. SoundStreams(f.probe, fmt) <=>
          /\ f.probe.ends = "document" /\ StreamsFit(f.probe, fmt)
          /\ StreamsSafe(f.probe, fmt) /\ duration > 0
    BY <1>1, <2>1, SoundStreamsAre
  <2>4. StreamsFit(f.probe, fmt) =>
          (/\ Recognized(f.header) /\ signatureMatchesPolicy(f.header, fmt)
           /\ deriveFormat(f.header, f.probe) = fmt
           <=> fmt \in NamedBy(f.header))
    BY <1>1, <2>1, StreamContract, ContainerHeader
  <2>5. Genuine(f, fmt) <=>
          fmt \in NamedBy(f.header) /\ f.size \in 1..max /\ SoundStreams(f.probe, fmt)
    BY <1>10 DEF Genuine
  <2>6. Passed(f) <=> /\ nameFault(f) = "none" /\ headerFault(f) = "none"
                      /\ f.probe.ends = "document" /\ avFault(f) = "none"
    BY <1>10 DEF Passed
  <2> HIDE DEF fmt, max, duration
  <2>7. QED
    BY <1>7, <1>8, <2>2, <2>3, <2>4, <2>5, <2>6
<1>11. QED
  BY <1>9, <1>10

----------------------------------------------------------------------------
(* The processors look at the file anew.                                    *)

LEMMA MainStreamIsOne ==
  ASSUME NEW f \in UploadedFile, NEW type, Streams(f.probe, type) # {}
  PROVE  MainStream(f, type) \in Streams(f.probe, type)
<1>1. /\ StreamsOf(f.probe, type) \subseteq Int /\ IsFiniteSet(StreamsOf(f.probe, type))
      /\ StreamsOf(f.probe, type) # {}
  BY FileFields, StreamsFacts
<1>2. Min(StreamsOf(f.probe, type)) \in StreamsOf(f.probe, type)
  BY <1>1, MinFacts
<1>3. QED
  BY <1>2 DEF MainStream, Streams

\* A processor's own look at a file that passed finds what it needs.
LEMMA ProcessorsAccept ==
  ASSUME NEW f \in UploadedFile, Passed(f)
  PROVE  /\ f.name \in DOMAIN policies /\ format(f) \in Format
         /\ format(f) \in ImageFormat =>
              /\ f.picture.pages = 1 /\ f.picture.decodes
              /\ f.picture.width \in Nat \ {0} /\ f.picture.height \in Nat \ {0}
         /\ format(f) \in AudioFormat => Streams(f.probe, "audio") # {}
         /\ format(f) \in VideoFormat =>
              /\ Streams(f.probe, "video") # {}
              /\ validDimensions(MainStream(f, "video"))
<1>1. f.name \in DOMAIN policies
  BY NameChecks DEF Passed
<1>2. format(f) \in Format
  BY <1>1, PolicyFormats DEF format
<1>3. ASSUME format(f) \in ImageFormat
      PROVE  /\ f.picture.pages = 1 /\ f.picture.decodes
             /\ f.picture.width \in Nat \ {0} /\ f.picture.height \in Nat \ {0}
  <2>1. SoundPicture(f.picture, format(f))
    BY <1>3, ImageChecks DEF Passed
  <2>2. f.picture.width \in Nat /\ f.picture.height \in Nat
    BY FileFields DEF SharpMetadata
  <2>3. f.picture.width # 0 /\ f.picture.height # 0
    BY <2>1, <2>2 DEF SoundPicture
  <2>4. QED
    BY <2>1, <2>2, <2>3 DEF SoundPicture
<1>4. ASSUME format(f) \in AudioFormat \cup VideoFormat
      PROVE  StreamsFit(f.probe, format(f))
  <2>1. format(f) \notin ImageFormat
    BY <1>4 DEF ImageFormat, AudioFormat, VideoFormat
  <2>2. QED
    BY <1>4, <2>1, AvChecks DEF Passed
<1>5. ASSUME format(f) \in AudioFormat PROVE Streams(f.probe, "audio") # {}
  BY <1>4, <1>5, FileFields, StreamsFacts DEF StreamsFit, OwnType
<1>6. ASSUME format(f) \in VideoFormat
      PROVE  Streams(f.probe, "video") # {} /\ validDimensions(MainStream(f, "video"))
  <2>1. format(f) \notin AudioFormat
    BY <1>6 DEF AudioFormat, VideoFormat
  <2>2. Streams(f.probe, "video") # {}
    BY <1>4, <1>6, <2>1, FileFields, StreamsFacts DEF StreamsFit, OwnType
  <2>3. QED
    BY <1>4, <1>6, <2>2, MainStreamIsOne DEF StreamsFit
<1>7. QED
  BY <1>1, <1>2, <1>3, <1>4, <1>5, <1>6

----------------------------------------------------------------------------
(* Scaled sizes.                                                            *)

LEMMA TimesCancels ==
  ASSUME NEW a \in Int, NEW b \in Int, NEW c \in Nat, c * a < c * b
  PROVE  a < b
<1>1. ~ (b <= a)
  <2> SUFFICES ASSUME b <= a PROVE FALSE
    OBVIOUS
  <2>1. c * b <= c * a
    BY TimesMonotonic
  <2>2. c * a \in Int /\ c * b \in Int
    OBVIOUS
  <2>3. QED
    BY <2>1, <2>2
<1>2. QED
  BY <1>1

LEMMA RoundedFacts ==
  ASSUME NEW a \in Nat, NEW b \in Nat \ {0}
  PROVE  LET r == Rounded(a, b)
         IN  /\ r \in Nat
             /\ 2 * (b * r) <= 2 * a + b /\ 2 * a < 2 * (b * r) + b
<1> DEFINE r == Rounded(a, b)
<1> DEFINE m == 2 * a + b
           n == 2 * b
<1>1. r = m \div n
  BY DEF Rounded
<1>2. m \in Nat /\ n \in Nat \ {0}
  OBVIOUS
<1> HIDE DEF r, m, n
<1>3. r \in Int /\ n * r <= m /\ m < n * r + n
  BY <1>1, <1>2, DivideFacts
<1>4. r >= 0
  BY <1>1, <1>2
<1>5. (2 * b) * r = 2 * (b * r) /\ b * r \in Int
  BY <1>3
<1>6. r \in Nat /\ 2 * (b * r) <= 2 * a + b /\ 2 * a < 2 * (b * r) + b
  BY <1>3, <1>4, <1>5 DEF m, n
<1>7. QED
  BY <1>6 DEF r

\* Rounding keeps the bounds that are whole, the lower one from half below.
LEMMA RoundedBounds ==
  ASSUME NEW a \in Nat, NEW b \in Nat \ {0}, NEW m \in Int
  PROVE  /\ 2 * (b * m) <= 2 * a + b => m <= Rounded(a, b)
         /\ a <= b * m => Rounded(a, b) <= m
<1> DEFINE r == Rounded(a, b)
<1>1. r \in Nat /\ 2 * (b * r) <= 2 * a + b /\ 2 * a < 2 * (b * r) + b
  BY RoundedFacts
<1> HIDE DEF r
<1>2. b * r \in Int /\ b * m \in Int /\ b * (r + 1) = b * r + b /\ b * (m + 1) = b * m + b
  BY <1>1
<1>3. ASSUME 2 * (b * m) <= 2 * a + b PROVE m <= r
  <2>1. b * m < b * (r + 1)
    BY <1>1, <1>2, <1>3
  <2>2. m < r + 1
    BY <1>1, <2>1, TimesCancels
  <2>3. QED
    BY <1>1, <2>2
<1>4. ASSUME a <= b * m PROVE r <= m
  <2>1. b * r < b * (m + 1)
    BY <1>1, <1>2, <1>4
  <2>2. r < m + 1
    BY <1>1, <2>1, TimesCancels
  <2>3. QED
    BY <1>1, <2>2
<1>5. QED
  BY <1>3, <1>4 DEF r

LEMMA EvenFacts ==
  ASSUME NEW n \in Int
  PROVE  /\ Even(n) \in Nat \ {0, 1} /\ Even(n) >= n - 1
         /\ Even(n) = 2 \/ Even(n) <= n
         /\ n >= 2 => Even(n) <= n
         /\ n % 2 = 0 /\ n >= 2 => Even(n) = n /\ Even(n - 1) >= n - 2
<1>1. Even(n) = IF 2 >= 2 * (n \div 2) THEN 2 ELSE 2 * (n \div 2)
  BY MaxOfPair DEF Even
<1>2. Even(n - 1) = IF 2 >= 2 * ((n - 1) \div 2) THEN 2 ELSE 2 * ((n - 1) \div 2)
  BY MaxOfPair DEF Even
<1>3. QED
  BY <1>1, <1>2

\* An edge scaled by target / short, up to the two units that the even grid and the
\* floating-point division cost.
LEMMA EvenScaledFacts ==
  ASSUME NEW n \in Nat \ {0}, NEW target \in Nat, NEW short \in Nat \ {0},
         NEW e \in EvenScaled(n, target, short)
  PROVE  /\ e \in Nat \ {0, 1}
         /\ n * target - 2 * short <= short * e
         /\ e = 2 \/ short * e <= n * target
<1> DEFINE whole == (n * target) \div short
           all == n * target
<1>1. all \in Nat
  OBVIOUS
<1>2. whole \in Int /\ short * whole <= all /\ all < short * whole + short
  BY <1>1, DivideFacts
<1>3. \/ e = Even(whole)
      \/ e = Even(whole - 1) /\ all % short = 0
  BY DEF EvenScaled
<1>4. all % short = 0 => short * whole = all
  BY <1>1
<1> HIDE DEF whole, all
<1>5. ASSUME NEW w \in Int, e = Even(w), short * w <= all, all <= short * w + short
      PROVE  /\ e \in Nat \ {0, 1} /\ all - 2 * short <= short * e
             /\ e = 2 \/ short * e <= all
  <2>1. e \in Nat \ {0, 1} /\ w - 1 <= e /\ (e = 2 \/ e <= w)
    BY <1>5, EvenFacts
  <2>2. short * (w - 1) <= short * e
    BY <2>1, TimesMonotonic
  <2>3. short * (w - 1) = short * w - short /\ short * w \in Int /\ short * e \in Int
    BY <2>1
  <2>4. all - 2 * short <= short * e
    BY <1>1, <1>5, <2>2, <2>3
  <2>5. e <= w => short * e <= short * w
    BY <2>1, TimesMonotonic
  <2>6. QED
    BY <1>1, <1>5, <2>1, <2>3, <2>4, <2>5
<1>6. CASE e = Even(whole)
  <2>1. short * whole \in Int
    BY <1>2
  <2>2. QED
    BY <1>1, <1>2, <1>5, <1>6, <2>1 DEF all
<1>7. CASE e = Even(whole - 1) /\ all % short = 0
  <2>1. short * (whole - 1) = short * whole - short /\ short * whole \in Int
    BY <1>2
  <2>2. QED
    BY <1>1, <1>2, <1>4, <1>5, <1>7, <2>1 DEF all
<1>8. QED
  BY <1>3, <1>6, <1>7

----------------------------------------------------------------------------
(* Frames and pictures.                                                     *)

\* ffmpeg's frame fits in its box, has the aspect ratio up to half a unit, and is
\* no smaller than what fits from half a unit below.
LEMMA FrameFacts ==
  ASSUME NEW x \in Nat \ {0}, NEW y \in Nat \ {0}, NEW w \in Nat \ {0}, NEW h \in Nat \ {0}
  PROVE  LET r == Frame([w |-> x, h |-> y], [w |-> w, h |-> h])
         IN  /\ r.w \in Nat /\ r.h \in Nat /\ r.w <= x /\ r.h <= y
             /\ \/ -h <= r.w * h - r.h * w /\ r.w * h - r.h * w <= h
                \/ -w <= r.w * h - r.h * w /\ r.w * h - r.h * w <= w
             /\ \A m \in Int :
                   (/\ m <= x /\ m <= y
                    /\ 2 * (h * m) <= 2 * (y * w) + h
                    /\ 2 * (w * m) <= 2 * (x * h) + w)
                   => m <= r.w /\ m <= r.h
<1> DEFINE r == Frame([w |-> x, h |-> y], [w |-> w, h |-> h])
           a == Rounded(y * w, h)
           b == Rounded(x * h, w)
<1>1. r.w = Least(x, a) /\ r.h = Least(y, b)
  BY DEF Frame
<1>2. y * w \in Nat /\ x * h \in Nat
  OBVIOUS
<1>3. /\ a \in Nat /\ 2 * (h * a) <= 2 * (y * w) + h /\ 2 * (y * w) < 2 * (h * a) + h
      /\ b \in Nat /\ 2 * (w * b) <= 2 * (x * h) + w /\ 2 * (x * h) < 2 * (w * b) + w
  BY <1>2, RoundedFacts
<1>4. /\ y * w <= h * x => a <= x
      /\ x * h <= w * y => b <= y
  BY <1>2, RoundedBounds
<1>5. /\ \A m \in Int : 2 * (h * m) <= 2 * (y * w) + h => m <= a
      /\ \A m \in Int : 2 * (w * m) <= 2 * (x * h) + w => m <= b
  BY <1>2, RoundedBounds
<1>6. /\ y * w <= h * x => y <= b
      /\ x * h <= w * y => x <= a
  <2>1. y * w <= h * x => 2 * (w * y) <= 2 * (x * h) + w
    BY <1>2
  <2>2. x * h <= w * y => 2 * (h * x) <= 2 * (y * w) + h
    BY <1>2
  <2>3. QED
    BY <1>5, <2>1, <2>2
<1> HIDE DEF r, a, b
<1>7. CASE y * w <= h * x
  <2>1. r.w = a /\ r.h = y /\ a <= x /\ y <= b
    BY <1>1, <1>3, <1>4, <1>6, <1>7 DEF Least
  <2>2. -h <= r.w * h - r.h * w /\ r.w * h - r.h * w <= h
    BY <1>2, <1>3, <2>1
  <2>3. QED
    BY <1>3, <1>5, <2>1, <2>2 DEF r
<1>8. CASE x * h <= w * y
  <2>1. r.w = x /\ r.h = b /\ b <= y /\ x <= a
    BY <1>1, <1>3, <1>4, <1>6, <1>8 DEF Least
  <2>2. -w <= r.w * h - r.h * w /\ r.w * h - r.h * w <= w
    BY <1>2, <1>3, <2>1
  <2>3. QED
    BY <1>3, <1>5, <2>1, <2>2 DEF r
<1>9. QED
  BY <1>2, <1>7, <1>8

\* sharp's picture has a long edge of `edge', or its own.
LEMMA InsideFacts ==
  ASSUME NEW w \in Nat \ {0}, NEW h \in Nat \ {0}, NEW edge \in Nat \ {0}
  PROVE  LET size == [w |-> w, h |-> h]
             r    == Inside(size, edge)
         IN  Max({r.w, r.h}) = Least(edge, Max({w, h}))
<1> DEFINE long == Max({w, h})
           size == [w |-> w, h |-> h]
           r == Inside(size, edge)
           a == Rounded(w * edge, long)
           b == Rounded(h * edge, long)
<1>1. long = (IF w >= h THEN w ELSE h) /\ long \in Nat \ {0}
  BY MaxOfPair
<1>2. w <= long /\ h <= long /\ (w = long \/ h = long)
  BY <1>1
<1>3. CASE long <= edge
  <2>1. r = size
    BY <1>3 DEF Inside
  <2>2. QED
    BY <1>1, <1>3, <2>1 DEF Least
<1>4. CASE ~ (long <= edge)
  <2>1. r = [w |-> Max({1, a}), h |-> Max({1, b})]
    BY <1>4 DEF Inside
  <2>2. w * edge \in Nat /\ h * edge \in Nat
    OBVIOUS
  <2> HIDE DEF long
  <2>3. a \in Nat /\ b \in Nat
    BY <1>1, <2>2, RoundedFacts
  <2>4. /\ w * edge <= long * edge => a <= edge
        /\ 2 * (long * edge) <= 2 * (w * edge) + long => edge <= a
    BY <1>1, <2>2, RoundedBounds
  <2>5. /\ h * edge <= long * edge => b <= edge
        /\ 2 * (long * edge) <= 2 * (h * edge) + long => edge <= b
    BY <1>1, <2>2, RoundedBounds
  <2>6. edge * w <= edge * long /\ edge * h <= edge * long
    BY <1>1, <1>2, TimesMonotonic
  <2>7. a <= edge /\ b <= edge
    BY <1>1, <2>4, <2>5, <2>6
  <2>8. a = edge \/ b = edge
    BY <1>1, <1>2, <2>2, <2>3, <2>4, <2>5, <2>7
  <2> DEFINE c == Max({1, a})
             d == Max({1, b})
  <2>9. r.w = c /\ r.h = d
    BY <2>1
  <2> HIDE DEF a, b, r
  <2>10. c = (IF 1 >= a THEN 1 ELSE a) /\ d = (IF 1 >= b THEN 1 ELSE b)
    BY <2>3, MaxOfPair
  <2> HIDE DEF c, d
  <2>11. c \in Int /\ d \in Int /\ c <= edge /\ d <= edge /\ (c = edge \/ d = edge)
    BY <2>3, <2>7, <2>8, <2>10
  <2>12. Max({c, d}) = edge
    BY <2>11, MaxOfPair
  <2>13. Least(edge, long) = edge
    BY <1>1, <1>4 DEF Least
  <2>14. QED
    BY <2>9, <2>12, <2>13 DEF long, r
<1>5. QED
  BY <1>3, <1>4

\* A box of edges a and b for a frame of edges s and l, s the shorter, that leaves a
\* short edge from `low' to `high' and enlarges no edge beyond 2.
BoxFits(s, l, a, b, low, high) ==
    /\ a \in Nat \ {0} /\ b \in Nat \ {0}
    /\ a <= high /\ (a = 2 \/ a <= s) /\ (b = 2 \/ b <= l)
    /\ low <= a /\ low <= b
    /\ 2 * (l * low) <= 2 * (b * s) + l /\ 2 * (s * low) <= 2 * (a * l) + s

LEMMA LadderBox ==
  ASSUME NEW s \in Nat \ {0}, NEW l \in Nat \ {0}, s <= l,
         NEW n \in {360, 720, 1080}, n <= s,
         NEW a \in EvenScaled(s, n, s), NEW b \in EvenScaled(l, n, s)
  PROVE  BoxFits(s, l, a, b, n - 2, n)
<1>1. /\ a \in Nat \ {0, 1} /\ s * n - 2 * s <= s * a /\ (a = 2 \/ s * a <= s * n)
      /\ b \in Nat \ {0, 1} /\ l * n - 2 * s <= s * b /\ (b = 2 \/ s * b <= l * n)
  BY EvenScaledFacts
<1>2. n \in Nat /\ n >= 360 /\ n - 2 \in Nat
  OBVIOUS
<1>3. n - 2 <= a
  <2>1. s * (n - 3) < s * a
    <3>1. s * (n - 3) = s * n - 3 * s /\ s * n \in Int /\ s * a \in Int
      BY <1>1, <1>2
    <3>2. QED
      BY <1>1, <3>1
  <2>2. n - 3 < a
    BY <1>1, <1>2, <2>1, TimesCancels
  <2>3. QED
    BY <1>1, <1>2, <2>2
<1>4. a <= n
  <2>1. s * a <= s * n => a <= n
    <3>1. s * (n + 1) = s * n + s /\ s * n \in Int /\ s * a \in Int
      BY <1>1, <1>2
    <3>2. s * a <= s * n => s * a < s * (n + 1)
      BY <3>1
    <3>3. s * a <= s * n => a < n + 1
      BY <1>1, <1>2, <3>2, TimesCancels
    <3>4. QED
      BY <1>1, <1>2, <3>3
  <2>2. QED
    BY <1>1, <1>2, <2>1
<1>5. l * (n - 2) <= b * s
  <2>1. l * (n - 2) = l * n - 2 * l /\ l * n \in Int /\ s * b \in Int /\ b * s = s * b
    BY <1>1, <1>2
  <2>2. QED
    BY <1>1, <2>1
<1>6. s * (n - 2) <= a * l
  <2>1. s * (n - 2) <= s * a
    BY <1>1, <1>2, <1>3, TimesMonotonic
  <2>2. a * s <= a * l
    BY <1>1, TimesMonotonic
  <2>3. s * (n - 2) \in Int /\ s * a \in Int /\ s * a = a * s /\ a * l \in Int
    BY <1>1, <1>2
  <2>4. QED
    BY <2>1, <2>2, <2>3
<1>7. n - 2 <= b
  <2>1. s * (n - 2) <= l * (n - 2)
    <3>1. (n - 2) * s <= (n - 2) * l
      BY <1>2, TimesMonotonic
    <3>2. QED
      BY <1>2, <3>1
  <2>2. s * (n - 2) \in Int /\ l * (n - 2) \in Int /\ b * s = s * b /\ s * b \in Int
        /\ s * (n - 3) = s * (n - 2) - s
    BY <1>1, <1>2
  <2>3. s * (n - 3) < s * b
    BY <1>5, <2>1, <2>2
  <2>4. n - 3 < b
    BY <1>1, <1>2, <2>3, TimesCancels
  <2>5. QED
    BY <1>1, <1>2, <2>4
<1>8. b = 2 \/ b <= l
  <2>1. l * n <= l * s
    BY <1>2, TimesMonotonic
  <2>2. l * n \in Int /\ l * s = s * l /\ s * l \in Int /\ s * b \in Int
        /\ s * (l + 1) = s * l + s
    BY <1>1, <1>2
  <2>3. s * b <= l * n => s * b < s * (l + 1)
    BY <2>1, <2>2
  <2>4. s * b <= l * n => b < l + 1
    BY <1>1, <2>3, TimesCancels
  <2>5. QED
    BY <1>1, <2>4
<1>9. 2 * (l * (n - 2)) <= 2 * (b * s) + l /\ 2 * (s * (n - 2)) <= 2 * (a * l) + s
  <2>1. l * (n - 2) \in Int /\ b * s \in Int /\ s * (n - 2) \in Int /\ a * l \in Int
    BY <1>1, <1>2
  <2>2. QED
    BY <1>5, <1>6, <2>1
<1>10. QED
  BY <1>1, <1>2, <1>3, <1>4, <1>7, <1>8, <1>9 DEF BoxFits

LEMMA SourceBox ==
  ASSUME NEW s \in Nat \ {0}, NEW l \in Nat \ {0}, s <= l
  PROVE  BoxFits(s, l, Even(s), Even(l), IF s - 2 >= 1 THEN s - 2 ELSE 1,
                                         IF s >= 2 THEN s ELSE 2)
<1> DEFINE a == Even(s)
           b == Even(l)
           low == IF s - 2 >= 1 THEN s - 2 ELSE 1
<1>1. /\ a \in Nat \ {0, 1} /\ a >= s - 1 /\ (a = 2 \/ a <= s) /\ (s >= 2 => a <= s)
      /\ b \in Nat \ {0, 1} /\ b >= l - 1 /\ (b = 2 \/ b <= l)
  BY EvenFacts
<1>2. low \in Nat \ {0} /\ low <= s /\ (s >= 2 => low <= s - 1)
  OBVIOUS
<1> HIDE DEF a, b, low
<1>3. /\ a <= (IF s >= 2 THEN s ELSE 2) /\ low <= a /\ low <= b
  BY <1>1, <1>2
<1>4. 2 * (s * low) <= 2 * (a * l) + s
  <2>1. s * low <= s * a
    BY <1>1, <1>2, <1>3, TimesMonotonic
  <2>2. a * s <= a * l
    BY <1>1, TimesMonotonic
  <2>3. s * low \in Int /\ s * a = a * s /\ a * s \in Int /\ a * l \in Int
    BY <1>1, <1>2
  <2>4. QED
    BY <2>1, <2>2, <2>3
<1>5. 2 * (l * low) <= 2 * (b * s) + l
  <2>1. CASE s = 1
    <3>1. low = 1 /\ l * low = l /\ b * s = b
      BY <1>1, <1>2, <2>1
    <3>2. QED
      BY <1>1, <3>1
  <2>2. CASE s >= 2
    <3>1. l * low <= l * (s - 1)
      BY <1>2, <2>2, TimesMonotonic
    <3>2. s * (l - 1) <= s * b
      BY <1>1, TimesMonotonic
    <3>3. /\ l * (s - 1) = l * s - l /\ s * (l - 1) = s * l - s /\ l * s = s * l
          /\ s * b = b * s
          /\ l * low \in Int /\ l * s \in Int /\ b * s \in Int
      BY <1>1, <1>2
    <3>4. QED
      BY <3>1, <3>2, <3>3
  <2>3. QED
    BY <2>1, <2>2
<1>6. BoxFits(s, l, a, b, low, IF s >= 2 THEN s ELSE 2)
  BY <1>1, <1>3, <1>4, <1>5 DEF BoxFits
<1>7. QED
  BY <1>6 DEF a, b, low

LEMMA BoxedFrame ==
  ASSUME NEW w \in Nat \ {0}, NEW h \in Nat \ {0}, NEW x, NEW y,
         NEW low \in Int, NEW high \in Int,
         \/ w <= h /\ BoxFits(w, h, x, y, low, high)
         \/ h <= w /\ BoxFits(h, w, y, x, low, high)
  PROVE  LET size == [w |-> w, h |-> h]
             r    == Frame([w |-> x, h |-> y], size)
         IN  /\ ShortEdge(r) \in low..high
             /\ r.w <= Max({2, w}) /\ r.h <= Max({2, h})
             /\ r.w * h - r.h * w \in -Max({w, h})..Max({w, h})
<1> DEFINE size == [w |-> w, h |-> h]
           r == Frame([w |-> x, h |-> y], size)
<1>1. /\ x \in Nat \ {0} /\ y \in Nat \ {0} /\ (x = 2 \/ x <= w) /\ (y = 2 \/ y <= h)
      /\ low <= x /\ low <= y
      /\ 2 * (h * low) <= 2 * (y * w) + h /\ 2 * (w * low) <= 2 * (x * h) + w
      /\ x <= high \/ y <= high
  BY DEF BoxFits
<1>2. /\ r.w \in Nat /\ r.h \in Nat /\ r.w <= x /\ r.h <= y
      /\ \/ -h <= r.w * h - r.h * w /\ r.w * h - r.h * w <= h
         \/ -w <= r.w * h - r.h * w /\ r.w * h - r.h * w <= w
      /\ low <= r.w /\ low <= r.h
  BY <1>1, FrameFacts
<1> HIDE DEF r
<1>3. /\ Max({2, w}) = IF 2 >= w THEN 2 ELSE w
      /\ Max({2, h}) = IF 2 >= h THEN 2 ELSE h
      /\ Max({w, h}) = IF w >= h THEN w ELSE h
  BY MaxOfPair
<1>4. ShortEdge(r) \in low..high
  <2>1. ShortEdge(r) = IF r.w < r.h THEN r.w ELSE r.h
    BY DEF ShortEdge, Least
  <2>2. r.w <= high \/ r.h <= high
    BY <1>1, <1>2
  <2>3. QED
    BY <1>2, <2>1, <2>2
<1>5. r.w <= Max({2, w}) /\ r.h <= Max({2, h})
  BY <1>1, <1>2, <1>3
<1>6. r.w * h - r.h * w \in -Max({w, h})..Max({w, h})
  <2> DEFINE d == r.w * h - r.h * w
             long == Max({w, h})
  <2>1. d \in Int /\ long \in Nat /\ w <= long /\ h <= long
    BY <1>2, <1>3
  <2>2. (-h <= d /\ d <= h) \/ (-w <= d /\ d <= w)
    BY <1>2
  <2> HIDE DEF d, long
  <2>3. d \in -long..long
    BY <2>1, <2>2
  <2>4. QED
    BY <2>3 DEF d, long
<1>7. QED
  BY <1>4, <1>5, <1>6 DEF r
=============================================================================
