----------------------------- MODULE Console_proofs -----------------------------
(***************************************************************************)
(* The console for any media, number of requests and length of videos: it  *)
(* stops within one inference, runs only on media, and its reports name    *)
(* files of the request.  The inductive invariant is Console!ConsoleInv.   *)
(***************************************************************************)
EXTENDS Console, TLAPS

USE ConsoleAssumption

LEMMA InitInv == Init => ConsoleInv
<1> SUFFICES ASSUME Init PROVE ConsoleInv
  OBVIOUS
<1>1. TypeOK
  BY DEF Init, TypeOK
<1>2. main \notin Requesting
  BY DEF Init, Requesting, ImagePlaces, VideoPlaces, LoggedPlaces
<1>3. ReportHolds /\ report = Nothing
  BY DEF Init, ReportHolds
<1>4. late = 0 /\ hasLast = FALSE
  BY DEF Init
<1> QED
  BY <1>1, <1>2, <1>3, <1>4
  DEF ConsoleInv, Said, StopSeen, Requesting, ImagePlaces, VideoPlaces, LoggedPlaces

------------------------------------------------------------------------------
(* Steps that leave request, files and report alone *)

\* A step that only moves the main thread, between places that promise the same
\* of the files or away from a request.
LEMMA MoveKeepsInv ==
  ASSUME ConsoleInv, UNCHANGED <<stop, loopVars, runVars>>,
         \/ main' = main
         \/ main' \in {"loaded", "threw", "failed", "prompt", "closed"}
         \/ main = "prompt" /\ main' = "line" /\ ~stop
         \/ main = "loop" /\ main' = "frame" /\ ~stop
         \/ main = "loop" /\ main' = "summary"
  PROVE  ConsoleInv'
<1>1. TypeOK'
  BY DEF ConsoleInv, TypeOK, Requesting, ImagePlaces, VideoPlaces, LoggedPlaces,
         loopVars, runVars
<1>2. Said(main)'
  BY DEF ConsoleInv, Said, Requesting, ImagePlaces, VideoPlaces, LoggedPlaces,
         Holds, Dir, LogsHold, runVars
<1>3. ReportHolds'
  BY DEF ConsoleInv, ReportHolds, Holds, Dir, runVars
<1>4. hasLast' => last' \in Media
  BY Zenon DEF ConsoleInv, loopVars
<1>5. StopSeen'
  BY DEF ConsoleInv, StopSeen, Unchecked, runVars
<1> QED
  BY <1>1, <1>2, <1>3, <1>4, <1>5 DEF ConsoleInv

LEMMA SignalKeepsInv == ConsoleInv /\ Signal => ConsoleInv'
<1> SUFFICES ASSUME ConsoleInv, Signal PROVE ConsoleInv'
  OBVIOUS
<1>1. TypeOK'
  BY DEF ConsoleInv, TypeOK, Signal, loopVars, runVars
<1>2. Said(main)' /\ ReportHolds'
  BY DEF ConsoleInv, Said, ReportHolds, Holds, Dir, LogsHold, Signal, runVars
<1>3. hasLast' => last' \in Media
  BY Zenon DEF ConsoleInv, Signal, loopVars
<1>4. StopSeen'
  BY DEF ConsoleInv, StopSeen, Signal, runVars
<1> QED
  BY <1>1, <1>2, <1>3, <1>4 DEF ConsoleInv

\* Load and Reset change the media only.
LEMMA MediaKeepInv ==
  ASSUME ConsoleInv, main = "line", main' = "prompt",
         UNCHANGED <<stop, initVars, runVars>>,
         \/ \E m \in Media : media' = m /\ UNCHANGED <<last, hasLast>>
         \/ media' = Nothing /\ last' = Nothing /\ hasLast' = FALSE
  PROVE  ConsoleInv'
<1>1. TypeOK'
  <2>1. {media', last', running'} \subseteq Media \union {Nothing}
    BY DEF ConsoleInv, TypeOK, runVars
  <2>2. hasLast' \in BOOLEAN
    BY Zenon DEF ConsoleInv, TypeOK
  <2> QED
    BY <2>1, <2>2 DEF ConsoleInv, TypeOK, runVars
<1>2. Said(main)' /\ ReportHolds'
  BY DEF ConsoleInv, Said, ReportHolds, Holds, Dir, LogsHold, runVars, Requesting,
         ImagePlaces, VideoPlaces, LoggedPlaces
<1>3. hasLast' => last' \in Media
  BY Zenon DEF ConsoleInv
<1>4. StopSeen'
  BY DEF ConsoleInv, StopSeen, Unchecked, runVars
<1> QED
  BY <1>1, <1>2, <1>3, <1>4 DEF ConsoleInv

------------------------------------------------------------------------------
(* A request begins *)

LEMMA ExecuteKeepsInv ==
  ASSUME ConsoleInv, main = "line", NEW m \in Media, Execute(m),
         media' = media, hasLast' => last' \in Media, hasLast' \in BOOLEAN,
         last' \in Media \union {Nothing}
  PROVE  ConsoleInv'
<1>1. /\ running' \in Media /\ main' \in {"image", "video"}
      /\ request' \in Nat /\ frames' = 0 /\ silent' = FALSE
  <2>1. request \in Nat
    BY DEF ConsoleInv, TypeOK
  <2> QED
    BY <2>1 DEF Execute
<1>2. TypeOK'
  <2>1. stop' \in BOOLEAN /\ silent' \in BOOLEAN
    BY Zenon DEF ConsoleInv, TypeOK, Execute
  <2>2. {media', last', running'} \subseteq Media \union {Nothing}
    BY <1>1 DEF ConsoleInv, TypeOK
  <2>3. late' \in Nat /\ files' \in [Dirs -> [FileNames -> Written \union {Nothing}]]
    BY DEF ConsoleInv, TypeOK, Execute
  <2> QED
    BY <1>1, <2>1, <2>2, <2>3 DEF TypeOK, Requesting, ImagePlaces, VideoPlaces
<1>3. Said(main)'
  <2>1. main' = "image" => running' \in Images
    BY DEF Execute
  <2>2. main' = "video" => running' \in Videos
    BY DEF Execute, Media
  <2>3. report' = Nothing
    BY DEF Execute
  <2> QED
    BY <1>1, <2>1, <2>2, <2>3 DEF Said, ImagePlaces, VideoPlaces, LoggedPlaces
<1>4. ReportHolds'
  BY DEF Execute, ReportHolds
<1>5. StopSeen'
  BY <1>1 DEF ConsoleInv, StopSeen, Unchecked, Execute
<1> QED
  BY <1>2, <1>3, <1>4, <1>5 DEF ConsoleInv

LEMMA TaskKeepsInv == ConsoleInv /\ Task => ConsoleInv'
<1> SUFFICES ASSUME ConsoleInv, Task PROVE ConsoleInv'
  OBVIOUS
<1>1. media \in Media /\ last' \in Media /\ hasLast' = TRUE
  BY DEF ConsoleInv, TypeOK, Task
<1> QED
  BY <1>1, ExecuteKeepsInv DEF Task

LEMMA RegenKeepsInv == ConsoleInv /\ Regen => ConsoleInv'
<1> SUFFICES ASSUME ConsoleInv, Regen PROVE ConsoleInv'
  OBVIOUS
<1>1. last \in Media /\ last' = last /\ hasLast' = hasLast
  BY Zenon DEF ConsoleInv, Regen, loopVars
<1>2. hasLast' \in BOOLEAN /\ (hasLast' => last' \in Media)
  BY <1>1, Zenon DEF ConsoleInv, TypeOK
<1> QED
  BY <1>1, <1>2, ExecuteKeepsInv DEF Regen, loopVars

------------------------------------------------------------------------------
(* A request writes its files *)

LEMMA DirOfMedia == ASSUME running \in Media PROVE Dir \in Dirs
  BY DEF Dir, Dirs

\* A write replaces one file of the request's directory.
LEMMA WriteReplaces ==
  ASSUME TypeOK, running \in Media, NEW f \in FileNames, NEW n \in Nat, Write(f, n)
  PROVE  /\ files' \in [Dirs -> [FileNames -> Written \union {Nothing}]]
         /\ files'[Dir][f] = [request |-> request, frames |-> n]
         /\ \A g \in FileNames \ {f} : files'[Dir][g] = files[Dir][g]
<1>1. [request |-> request, frames |-> n] \in Written
  BY DEF TypeOK, Written
<1>2. Dir \in Dirs
  BY DirOfMedia
<1> QED
  BY <1>1, <1>2 DEF TypeOK, Write

\* Files other than the one written do not matter for the types.
LEMMA TypeAfter ==
  ASSUME TypeOK, UNCHANGED <<stop, loopVars, running, request>>, silent' \in BOOLEAN,
         frames' \in Nat, late' \in Nat, main' \in Requesting \union {"prompt"},
         files' \in [Dirs -> [FileNames -> Written \union {Nothing}]]
  PROVE  TypeOK'
<1>1. stop' \in BOOLEAN /\ hasLast' \in BOOLEAN
  BY Zenon DEF TypeOK, loopVars
<1> QED
  BY <1>1 DEF TypeOK, loopVars

LEMMA LastKept ==
  ASSUME ConsoleInv, UNCHANGED loopVars
  PROVE  hasLast' => last' \in Media
  BY Zenon DEF ConsoleInv, loopVars

\* The names of the files.
LEMMA FilesNamed ==
  /\ "annotated.jpg" \in FileNames /\ "prediction.json" \in FileNames
  /\ "annotated.mp4" \in FileNames /\ "predictions.jsonl" \in FileNames
  /\ "summary.json" \in FileNames
  BY DEF FileNames

LEMMA InferKeepsInv == ConsoleInv /\ (InferImage \/ InferFrame) => ConsoleInv'
<1> SUFFICES ASSUME ConsoleInv, InferImage \/ InferFrame PROVE ConsoleInv'
  OBVIOUS
<1>1. late = 0 /\ late' \in {0, 1} /\ (stop = FALSE => late' = 0)
      /\ main' \in {"save", "append"} /\ stop' = stop /\ stop \in BOOLEAN
  <2>1. late = 0
    BY DEF ConsoleInv, StopSeen, Unchecked, InferImage, InferFrame, BeginInference
  <2>2. stop \in BOOLEAN /\ stop' = stop
    BY Zenon DEF ConsoleInv, TypeOK, InferImage, InferFrame
  <2> QED
    BY <2>1, <2>2 DEF InferImage, InferFrame, BeginInference
<1>2. StopSeen'
  BY <1>1 DEF StopSeen, Unchecked
<1>3. frames' \in Nat
  BY DEF ConsoleInv, TypeOK, InferImage, InferFrame
<1>4. UNCHANGED <<loopVars, running, request, files, report, silent>>
  BY DEF InferImage, InferFrame
<1>5. TypeOK'
  BY <1>1, <1>3, <1>4, TypeAfter DEF ConsoleInv, TypeOK, Requesting, ImagePlaces,
     VideoPlaces, LoggedPlaces
<1>6. report = Nothing
  BY DEF ConsoleInv, Said, InferImage, InferFrame, BeginInference, Requesting,
     ImagePlaces, VideoPlaces, LoggedPlaces
<1>7. ReportHolds'
  BY <1>4, <1>6 DEF ReportHolds
<1>8. CASE InferImage
  <2>1. main = "image" /\ main' = "save"
    BY <1>8 DEF InferImage, BeginInference
  <2>2. running \in Images /\ ~silent
    BY <2>1 DEF ConsoleInv, Said, ImagePlaces
  <2>3. Said(main)'
    BY <1>4, <1>6, <2>1, <2>2 DEF Said, ImagePlaces, VideoPlaces, LoggedPlaces
  <2> QED
    BY <1>2, <1>4, <1>5, <1>7, <2>3, LastKept DEF ConsoleInv
<1>9. CASE InferFrame
  <2>1. main = "frame" /\ main' = "append" /\ frames' = frames + 1 /\ frames \in Nat
    BY <1>9 DEF InferFrame, BeginInference, ConsoleInv, TypeOK
  <2>2. running \in Videos /\ LogsHold(frames)
    BY <2>1 DEF ConsoleInv, Said, VideoPlaces, LoggedPlaces
  <2>3. frames' > 0 /\ frames' - 1 = frames
    BY <2>1
  <2>4. LogsHold(frames - 1)'
    BY <1>4, <2>2, <2>3 DEF LogsHold, Holds, Dir
  <2>5. Said(main)'
    BY <1>4, <1>6, <2>1, <2>2, <2>3, <2>4 DEF Said, ImagePlaces, VideoPlaces, LoggedPlaces
  <2> QED
    BY <1>2, <1>4, <1>5, <1>7, <2>5, LastKept DEF ConsoleInv
<1> QED
  BY <1>8, <1>9

\* What a step within a request leaves to show, besides the files.
LEMMA WithinRequest ==
  ASSUME ConsoleInv, UNCHANGED <<stop, loopVars, running, request, report, late>>,
         main \in Requesting, main' \in Requesting \ Unchecked, TypeOK', Said(main)'
  PROVE  ConsoleInv'
<1>1. report = Nothing
  BY DEF ConsoleInv, Said
<1>2. ReportHolds'
  BY <1>1 DEF ReportHolds
<1>3. StopSeen'
  BY DEF ConsoleInv, StopSeen
<1> QED
  BY <1>2, <1>3, LastKept DEF ConsoleInv

LEMMA SaveImageKeepsInv == ConsoleInv /\ SaveImage => ConsoleInv'
<1> SUFFICES ASSUME ConsoleInv, SaveImage PROVE ConsoleInv'
  OBVIOUS
<1>1. /\ main = "save" /\ main' = "json" /\ Write("annotated.jpg", 1)
      /\ UNCHANGED <<stop, loopVars, running, request, report, silent, late, frames>>
  BY DEF SaveImage
<1>2. running \in Images /\ ~silent /\ report = Nothing
  BY <1>1 DEF ConsoleInv, Said, ImagePlaces, Requesting
<1>3. /\ files' \in [Dirs -> [FileNames -> Written \union {Nothing}]]
      /\ files'[Dir]["annotated.jpg"] = [request |-> request, frames |-> 1]
  BY <1>1, <1>2, WriteReplaces, FilesNamed DEF ConsoleInv, Media
<1>4. silent' \in BOOLEAN /\ frames' \in Nat /\ late' \in Nat
  BY <1>1, Zenon DEF ConsoleInv, TypeOK
<1>5. TypeOK'
  BY <1>1, <1>3, <1>4, TypeAfter DEF ConsoleInv, Requesting, ImagePlaces
<1>6. Holds("annotated.jpg", 1)'
  BY <1>1, <1>3 DEF Holds, Dir
<1>7. Said(main)'
  BY <1>1, <1>2, <1>6 DEF Said, ImagePlaces, VideoPlaces, LoggedPlaces
<1> QED
  BY <1>1, <1>5, <1>7, WithinRequest DEF Requesting, ImagePlaces, Unchecked

LEMMA OpenVideoKeepsInv == ConsoleInv /\ OpenVideo => ConsoleInv'
<1> SUFFICES ASSUME ConsoleInv, OpenVideo PROVE ConsoleInv'
  OBVIOUS
<1>1. /\ main = "video" /\ main' = "log" /\ Write("annotated.mp4", 0)
      /\ UNCHANGED <<stop, loopVars, running, request, report, silent, late, frames>>
  BY DEF OpenVideo
<1>2. running \in Videos /\ ~silent /\ report = Nothing /\ frames = 0
  BY <1>1 DEF ConsoleInv, Said, VideoPlaces, Requesting
<1>3. /\ files' \in [Dirs -> [FileNames -> Written \union {Nothing}]]
      /\ files'[Dir]["annotated.mp4"] = [request |-> request, frames |-> 0]
  BY <1>1, <1>2, WriteReplaces, FilesNamed DEF ConsoleInv, Media
<1>4. silent' \in BOOLEAN /\ frames' \in Nat /\ late' \in Nat
  BY <1>1, Zenon DEF ConsoleInv, TypeOK
<1>5. TypeOK'
  BY <1>1, <1>3, <1>4, TypeAfter DEF ConsoleInv, Requesting, VideoPlaces
<1>6. Holds("annotated.mp4", 0)'
  BY <1>1, <1>3 DEF Holds, Dir
<1>7. Said(main)'
  BY <1>1, <1>2, <1>6 DEF Said, ImagePlaces, VideoPlaces, LoggedPlaces
<1>8. StopSeen'
  BY <1>1 DEF ConsoleInv, StopSeen, Unchecked
<1>9. ReportHolds'
  BY <1>1, <1>2 DEF ReportHolds
<1> QED
  BY <1>1, <1>5, <1>7, <1>8, <1>9, LastKept DEF ConsoleInv

LEMMA OpenLogKeepsInv == ConsoleInv /\ OpenLog => ConsoleInv'
<1> SUFFICES ASSUME ConsoleInv, OpenLog PROVE ConsoleInv'
  OBVIOUS
<1>1. /\ main = "log" /\ main' = "loop" /\ Write("predictions.jsonl", 0)
      /\ UNCHANGED <<stop, loopVars, running, request, report, silent, late, frames>>
  BY DEF OpenLog
<1>2. running \in Videos /\ report = Nothing /\ frames = 0
      /\ files[Dir]["annotated.mp4"] = [request |-> request, frames |-> 0]
  BY <1>1 DEF ConsoleInv, Said, VideoPlaces, Requesting, Holds
<1>3. /\ files' \in [Dirs -> [FileNames -> Written \union {Nothing}]]
      /\ files'[Dir]["predictions.jsonl"] = [request |-> request, frames |-> 0]
      /\ files'[Dir]["annotated.mp4"] = [request |-> request, frames |-> 0]
  BY <1>1, <1>2, WriteReplaces, FilesNamed DEF ConsoleInv, Media
<1>4. silent' \in BOOLEAN /\ frames' \in Nat /\ late' \in Nat
  BY <1>1, Zenon DEF ConsoleInv, TypeOK
<1>5. TypeOK'
  BY <1>1, <1>3, <1>4, TypeAfter DEF ConsoleInv, Requesting, VideoPlaces, LoggedPlaces
<1>6. [request |-> request, frames |-> 0] \in Written
  BY DEF ConsoleInv, TypeOK, Written
<1>7. LogsHold(frames)'
  BY <1>1, <1>2, <1>3, <1>6 DEF LogsHold, Holds, Dir
<1>8. Said(main)'
  BY <1>1, <1>2, <1>7 DEF Said, ImagePlaces, VideoPlaces, LoggedPlaces
<1> QED
  BY <1>1, <1>5, <1>8, WithinRequest DEF Requesting, VideoPlaces, LoggedPlaces, Unchecked

LEMMA AppendKeepsInv == ConsoleInv /\ AppendFrame => ConsoleInv'
<1> SUFFICES ASSUME ConsoleInv, AppendFrame PROVE ConsoleInv'
  OBVIOUS
<1> DEFINE more(r) == [r EXCEPT !.frames = @ + 1]
<1>1. /\ main = "append" /\ main' = "loop"
      /\ UNCHANGED <<stop, loopVars, running, request, report, late, frames>>
  BY DEF AppendFrame
<1>2. running \in Videos /\ report = Nothing /\ frames > 0 /\ LogsHold(frames - 1)
  BY <1>1 DEF ConsoleInv, Said, VideoPlaces, LoggedPlaces, Requesting
<1>3. Dir \in Dirs /\ Dir' = Dir
  BY <1>1, <1>2, DirOfMedia DEF Media, Dir
<1>4. ASSUME NEW r \in Written
      PROVE  more(r) \in Written /\ more(r).request = r.request
             /\ more(r).frames = r.frames + 1
  BY DEF Written
<1>5. silent' \in BOOLEAN
  BY Zenon DEF AppendFrame, ConsoleInv, TypeOK
<1>6. CASE UNCHANGED files /\ silent' = TRUE
  <2>1. TypeOK'
    BY <1>1, <1>5, <1>6, TypeAfter DEF ConsoleInv, TypeOK, Requesting, VideoPlaces,
       LoggedPlaces
  <2>2. LogsHold(frames)'
    BY <1>1, <1>2, <1>3, <1>6 DEF LogsHold
  <2>3. Said(main)'
    BY <1>1, <1>2, <2>2 DEF Said, ImagePlaces, VideoPlaces, LoggedPlaces
  <2> QED
    BY <1>1, <2>1, <2>3, WithinRequest DEF Requesting, VideoPlaces, LoggedPlaces, Unchecked
<1>7. CASE /\ files' = [files EXCEPT ![Dir]["annotated.mp4"].frames = @ + 1,
                                     ![Dir]["predictions.jsonl"].frames = @ + 1]
           /\ silent' = silent
  <2>1. /\ files[Dir]["annotated.mp4"] \in Written
        /\ files[Dir]["predictions.jsonl"] \in Written
    BY <1>2 DEF LogsHold
  <2>2. /\ files'[Dir]["annotated.mp4"] = more(files[Dir]["annotated.mp4"])
        /\ files'[Dir]["predictions.jsonl"] = more(files[Dir]["predictions.jsonl"])
    BY <1>3, <1>7, FilesNamed DEF ConsoleInv, TypeOK
  <2>3. files' \in [Dirs -> [FileNames -> Written \union {Nothing}]]
    BY <1>3, <1>4, <1>7, <2>1, FilesNamed DEF ConsoleInv, TypeOK
  <2>4. TypeOK'
    BY <1>1, <1>5, <2>3, TypeAfter DEF ConsoleInv, TypeOK, Requesting, VideoPlaces,
       LoggedPlaces
  <2>5. ASSUME ~silent, NEW f \in {"annotated.mp4", "predictions.jsonl"}
        PROVE  files'[Dir][f] = [request |-> request, frames |-> frames]
    <3>1. files[Dir][f] = [request |-> request, frames |-> frames - 1]
      BY <1>2, <2>5 DEF LogsHold, Holds
    <3>2. more(files[Dir][f]) = [request |-> request, frames |-> frames - 1 + 1]
      BY <3>1
    <3>3. frames - 1 + 1 = frames
      BY DEF ConsoleInv, TypeOK
    <3> QED
      BY <2>2, <2>5, <3>2, <3>3
  <2>6. ~silent' => Holds("annotated.mp4", frames)' /\ Holds("predictions.jsonl", frames)'
    BY <1>1, <1>3, <1>7, <2>5 DEF Holds
  <2>7. LogsHold(frames)'
    BY <1>1, <1>2, <1>3, <1>4, <2>1, <2>2, <2>6 DEF LogsHold
  <2>8. Said(main)'
    BY <1>1, <1>2, <2>7 DEF Said, ImagePlaces, VideoPlaces, LoggedPlaces
  <2> QED
    BY <1>1, <2>4, <2>8, WithinRequest DEF Requesting, VideoPlaces, LoggedPlaces, Unchecked
<1> QED
  BY <1>6, <1>7 DEF AppendFrame

\* The last file of a request and its report.
LEMMA SaveKeepsInv == ConsoleInv /\ (SaveJson \/ SaveSummary) => ConsoleInv'
<1> SUFFICES ASSUME ConsoleInv, SaveJson \/ SaveSummary PROVE ConsoleInv'
  OBVIOUS
<1>1. /\ main \in {"json", "summary"} /\ main' = "prompt" /\ report' = request
      /\ UNCHANGED <<stop, loopVars, running, request, late, frames>>
  BY DEF SaveJson, SaveSummary, SaveUnchecked
<1>2. running \in Media /\ Dir' = Dir
  BY <1>1 DEF ConsoleInv, Said, ImagePlaces, VideoPlaces, LoggedPlaces, Media, Dir
<1>3. PICK f \in {"prediction.json", "summary.json"}, n \in Nat :
        /\ f = "prediction.json" => main = "json" /\ n = 1
        /\ f = "summary.json" => main = "summary" /\ n = frames
        /\ \/ Write(f, n) /\ silent' = silent
           \/ UNCHANGED files /\ silent' = TRUE
  <2>1. frames \in Nat /\ 1 \in Nat
    BY DEF ConsoleInv, TypeOK
  <2>2. CASE SaveJson
    BY <2>1, <2>2 DEF SaveJson, SaveUnchecked
  <2>3. CASE SaveSummary
    BY <2>1, <2>3 DEF SaveSummary, SaveUnchecked
  <2> QED
    BY <2>2, <2>3
<1>4. silent' \in BOOLEAN /\ frames' \in Nat /\ late' \in Nat
  BY <1>1, <1>3, Zenon DEF ConsoleInv, TypeOK
<1>5. /\ files' \in [Dirs -> [FileNames -> Written \union {Nothing}]]
      /\ \A g \in FileNames \ {f} : files'[Dir][g] = files[Dir][g]
      /\ ~silent' => files'[Dir][f] = [request |-> request, frames |-> n]
  <2>1. CASE Write(f, n) /\ silent' = silent
    BY <1>2, <2>1, WriteReplaces, FilesNamed DEF ConsoleInv
  <2>2. CASE UNCHANGED files /\ silent' = TRUE
    BY <2>2 DEF ConsoleInv, TypeOK
  <2> QED
    BY <1>3, <2>1, <2>2
<1>6. TypeOK'
  BY <1>1, <1>4, <1>5, TypeAfter DEF ConsoleInv
<1>7. ~silent' => ~silent
  BY <1>3
<1>8. ReportHolds'
  <2>1. ASSUME running \in Images
        PROVE  /\ Holds("annotated.jpg", 1)'
               /\ ~silent' => Holds("prediction.json", 1)'
    <3>1. main = "json" /\ Holds("annotated.jpg", 1)
      BY <1>1, <2>1 DEF ConsoleInv, Said, VideoPlaces, LoggedPlaces, ConsoleAssumption
    <3>2. f = "prediction.json" /\ n = 1
      BY <1>3, <3>1
    <3> QED
      BY <1>1, <1>2, <1>5, <3>1, <3>2, FilesNamed DEF Holds
  <2>2. ASSUME running \in Videos
        PROVE  /\ files'[Dir]["annotated.mp4"].request = request
               /\ files'[Dir]["predictions.jsonl"].request = request
               /\ ~silent' => /\ Holds("annotated.mp4", frames)'
                              /\ Holds("predictions.jsonl", frames)'
                              /\ Holds("summary.json", frames)'
    <3>1. main = "summary"
      BY <1>1, <2>2 DEF ConsoleInv, Said, ImagePlaces, ConsoleAssumption
    <3>2. f = "summary.json" /\ n = frames /\ LogsHold(frames)
      BY <1>3, <3>1 DEF ConsoleInv, Said, LoggedPlaces
    <3>3. /\ files'[Dir]["annotated.mp4"] = files[Dir]["annotated.mp4"]
          /\ files'[Dir]["predictions.jsonl"] = files[Dir]["predictions.jsonl"]
      BY <1>5, <3>2, FilesNamed
    <3> QED
      BY <1>1, <1>2, <1>5, <1>7, <3>2, <3>3 DEF Holds, LogsHold
  <2> QED
    BY <1>1, <1>2, <2>1, <2>2 DEF ReportHolds
<1>9. Said(main)' /\ StopSeen'
  BY <1>1 DEF Said, StopSeen, ConsoleInv, Unchecked, ImagePlaces, VideoPlaces,
     LoggedPlaces, Requesting
<1> QED
  BY <1>1, <1>6, <1>8, <1>9, LastKept DEF ConsoleInv

------------------------------------------------------------------------------
LEMMA RunVarsMoves ==
  ASSUME ConsoleInv,
         \/ Announce \/ Join \/ Renderer \/ Close \/ ReadLine \/ IgnoreLine \/ Throw
         \/ ReadFrame \/ EndVideo
         \/ \E outcome \in {"loaded", "threw"} : StopRendering(outcome)
  PROVE  ConsoleInv'
<1>1. CASE Announce \/ Renderer
  BY <1>1, MoveKeepsInv DEF Announce, Renderer, RendererTests, RendererPrints,
     RendererWaits, RendererTimesOut
<1>2. CASE Join \/ Close \/ IgnoreLine \/ Throw
  BY <1>2, MoveKeepsInv DEF Join, Close, IgnoreLine, Throw
<1>3. CASE ReadLine \/ ReadFrame \/ EndVideo
  BY <1>3, MoveKeepsInv DEF ReadLine, ReadFrame, EndVideo
<1>4. CASE \E outcome \in {"loaded", "threw"} : StopRendering(outcome)
  BY <1>4, MoveKeepsInv DEF StopRendering
<1> QED
  BY <1>1, <1>2, <1>3, <1>4

LEMMA NextKeepsInv == ConsoleInv /\ [Next]_vars => ConsoleInv'
<1> SUFFICES ASSUME ConsoleInv, [Next]_vars PROVE ConsoleInv'
  OBVIOUS
<1>1. CASE UNCHANGED vars
  BY <1>1, MoveKeepsInv DEF vars
<1>2. CASE (\E m \in Media : Load(m)) \/ Reset
  BY <1>2, MediaKeepInv DEF Load, Reset
<1> QED
  BY <1>1, <1>2, SignalKeepsInv, RunVarsMoves, TaskKeepsInv, RegenKeepsInv,
     InferKeepsInv, SaveImageKeepsInv, SaveKeepsInv, OpenVideoKeepsInv,
     OpenLogKeepsInv, AppendKeepsInv DEF Next

LEMMA Invariance == Spec => []ConsoleInv
  BY InitInv, NextKeepsInv, PTL DEF Spec

\* Every reachable state of the console is well formed: files hold what some
\* request wrote, media are media (Console::Run, cli.cpp:393).
THEOREM TypeCorrect == Spec => []TypeOK
<1>1. ConsoleInv => TypeOK
  BY DEF ConsoleInv
<1> QED
  BY <1>1, Invariance, PTL

\* For any media and any length of video at most one inference begins after the
\* stop request (cli.cpp:406, 717).
THEOREM StopsSoon == Spec => []StopBound
<1>1. ConsoleInv => StopBound
  BY DEF ConsoleInv, StopSeen, StopBound
<1> QED
  BY <1>1, Invariance, PTL

\* No request runs without media, whatever was reset or repeated (cli.cpp:421).
THEOREM MediaPresent == Spec => []RequestHasMedia
<1>1. ConsoleInv => RequestHasMedia
  BY DEF ConsoleInv, Said, RequestHasMedia, Requesting, Media
<1> QED
  BY <1>1, Invariance, PTL

\* Whatever requests share a directory, a report names files of its own request,
\* complete unless an unchecked write failed (cli.cpp:672, 742).
THEOREM ReportsTrue == Spec => []ReportHolds
<1>1. ConsoleInv => ReportHolds
  BY DEF ConsoleInv
<1> QED
  BY <1>1, Invariance, PTL
==============================================================================
