------------------------------- MODULE Console -------------------------------
(* The console program (cli.cpp): InitializeSession with its renderer thread,   *)
(* then the command loop that runs requests on local media and writes their     *)
(* reports. The shared core is external here: it loads in stages, and an        *)
(* inference answers or throws. A signal may arrive at any time.                *)
EXTENDS Naturals, Sequences

CONSTANTS
  Images, Videos, \* media files that can be loaded
  Stem,           \* output directory of a media file
  Nothing,        \* no media, no request, no file, no report
  MaxRequests,    \* bound: requests executed
  MaxFrames       \* bound: frames of a video

Media == Images \union Videos

ASSUME ConsoleAssumption ==
  /\ Nothing \notin Media /\ Images \intersect Videos = {}
  /\ MaxRequests \in Nat /\ MaxFrames \in Nat

\* What Initialize announces, in order.
Stages == <<"Vision HBM", "Language HBM">>

Dirs == {Stem[m] : m \in Media}

VARIABLES
  main,     \* place of the main thread
  renderer, \* place of the renderer thread
  loading, stage, announced, \* InitializeSession's locals; number of announcements
  seen,     \* the renderer's copy of stage
  stop,     \* stop_requested
  media,    \* media_
  last,     \* last_request_ while has_last_request_, else Nothing
  hasLast,  \* has_last_request_
  running,  \* media of the request being executed
  request,  \* number of requests executed
  frames,   \* frame_index of the video loop
  files,    \* per directory: the request that wrote a file, and its frames
  report,   \* the request whose report was printed last
  silent,   \* an unchecked write of the current request failed
  late      \* inferences begun after the stop request

initVars == <<renderer, loading, stage, announced, seen>>
loopVars == <<media, last, hasLast>>
runVars == <<running, request, frames, files, report, silent, late>>
vars == <<main, stop, initVars, loopVars, runVars>>

FileNames == {"annotated.jpg", "prediction.json", "annotated.mp4",
              "predictions.jsonl", "summary.json"}

Init ==
  /\ main = "initialize" /\ renderer = "test" /\ loading = TRUE
  /\ stage = Stages[1] /\ announced = 0 /\ seen = stage
  /\ stop = FALSE /\ media = Nothing /\ last = Nothing /\ hasLast = FALSE
  /\ running = Nothing /\ request = 0 /\ frames = 0
  /\ files = [d \in Dirs |-> [f \in FileNames |-> Nothing]]
  /\ report = Nothing /\ silent = FALSE /\ late = 0

\* HandleSignal.
Signal ==
  /\ main \notin {"closed", "failed"}
  /\ stop' = TRUE
  /\ UNCHANGED <<main, initVars, loopVars, runVars>>

-------------------------------------------------------------------------------
(* InitializeSession                                                            *)

\* notify_one: a sleeping renderer looks at its predicate again.
Notified == IF renderer = "asleep" THEN "wait" ELSE renderer

\* The progress callback.
Announce ==
  /\ main = "initialize" /\ announced < Len(Stages)
  /\ announced' = announced + 1 /\ stage' = Stages[announced + 1]
  /\ renderer' = Notified
  /\ UNCHANGED <<main, loading, seen, stop, loopVars, runVars>>

\* Faulty variant: the handler joins without ending the loop.
StopRenderingOnSuccess(outcome) ==
  /\ main = "initialize" /\ (outcome = "loaded" => announced = Len(Stages))
  /\ loading' = (outcome = "threw")
  /\ renderer' = Notified
  /\ main' = outcome
  /\ UNCHANGED <<stage, announced, seen, stop, loopVars, runVars>>

\* Initialize has returned, past its last announcement, or thrown.
StopRendering(outcome) ==
  /\ main = "initialize" /\ (outcome = "loaded" => announced = Len(Stages))
  /\ loading' = FALSE
  /\ renderer' = Notified
  /\ main' = outcome
  /\ UNCHANGED <<stage, announced, seen, stop, loopVars, runVars>>

\* renderer.join(), and the exception goes on.
Join ==
  /\ main \in {"loaded", "threw"} /\ renderer = "done"
  /\ main' = IF main = "loaded" THEN "prompt" ELSE "failed"
  /\ UNCHANGED <<stop, initVars, loopVars, runVars>>

RendererTests ==
  /\ renderer = "test"
  /\ renderer' = (IF loading THEN "print" ELSE "done")
  /\ seen' = (IF loading THEN stage ELSE seen)
  /\ UNCHANGED <<main, loading, stage, announced, stop, loopVars, runVars>>

RendererPrints ==
  /\ renderer = "print"
  /\ renderer' = "wait"
  /\ UNCHANGED <<main, loading, stage, announced, seen, stop, loopVars, runVars>>

\* wait_for tests its predicate before it sleeps and after each notification.
RendererWaits ==
  /\ renderer = "wait"
  /\ renderer' = (IF ~loading \/ stage # seen THEN "test" ELSE "asleep")
  /\ UNCHANGED <<main, loading, stage, announced, seen, stop, loopVars, runVars>>

\* 100 ms have passed.
RendererTimesOut ==
  /\ renderer = "asleep"
  /\ renderer' = "test"
  /\ UNCHANGED <<main, loading, stage, announced, seen, stop, loopVars, runVars>>

-------------------------------------------------------------------------------
(* The command loop                                                             *)

\* The stop request, the end of input, or `exit`.
Close ==
  /\ main \in {"prompt", "line"}
  /\ main' = "closed"
  /\ UNCHANGED <<stop, initVars, loopVars, runVars>>

\* stop_requested is tested before getline: a line that is read is obeyed even
\* when the signal came while it was typed.
ReadLine ==
  /\ main = "prompt" /\ ~stop
  /\ main' = "line"
  /\ UNCHANGED <<stop, initVars, loopVars, runVars>>

\* An empty line, help, an unknown command, a medium that cannot be read, a task
\* without media, a regen without request.
IgnoreLine ==
  /\ main = "line"
  /\ main' = "prompt"
  /\ UNCHANGED <<stop, initVars, loopVars, runVars>>

\* LoadImage, LoadVideo.
Load(m) ==
  /\ main = "line"
  /\ media' = m /\ main' = "prompt"
  /\ UNCHANGED <<stop, last, hasLast, initVars, runVars>>

\* Faulty variant: the flag survives.
ResetKeepsFlag ==
  /\ main = "line"
  /\ media' = Nothing /\ last' = Nothing /\ main' = "prompt"
  /\ UNCHANGED <<stop, hasLast, initVars, runVars>>

Reset ==
  /\ main = "line"
  /\ media' = Nothing /\ last' = Nothing /\ hasLast' = FALSE /\ main' = "prompt"
  /\ UNCHANGED <<stop, initVars, runVars>>

\* Execute: any medium that is not an image is opened as a video.
Execute(m) ==
  /\ request < MaxRequests
  /\ running' = m /\ request' = request + 1 /\ frames' = 0 /\ silent' = FALSE
  /\ report' = Nothing
  /\ main' = IF m \in Images THEN "image" ELSE "video"
  /\ UNCHANGED <<stop, initVars, files, late>>

Task ==
  /\ main = "line" /\ media # Nothing
  /\ last' = media /\ hasLast' = TRUE
  /\ Execute(media)
  /\ UNCHANGED media

Regen ==
  /\ main = "line" /\ hasLast
  /\ Execute(last)
  /\ UNCHANGED loopVars

\* An exception of the request is reported and the loop goes on: the medium is
\* gone, the inference fails, no directory, no writer or no log can be made.
Throw ==
  /\ main \in {"image", "save", "video", "log", "append"}
  /\ main' = "prompt"
  /\ UNCHANGED <<stop, initVars, loopVars, runVars>>

-------------------------------------------------------------------------------
(* RunImage                                                                     *)

Dir == Stem[running]
Write(name, n) ==
  files' = [files EXCEPT ![Dir][name] = [request |-> request, frames |-> n]]

BeginInference(from, to) ==
  /\ main = from
  /\ late' = (IF stop THEN late + 1 ELSE late)
  /\ main' = to

InferImage ==
  /\ BeginInference("image", "save")
  /\ UNCHANGED <<stop, running, request, frames, files, report, silent, initVars,
                 loopVars>>

\* Faulty variant: the result of imwrite is not looked at.
SaveImageUnchecked ==
  /\ main = "save"
  /\ main' = "json"
  /\ UNCHANGED <<stop, running, request, frames, files, report, silent, late, initVars,
                 loopVars>>

\* imwrite succeeded; its failure throws.
SaveImage ==
  /\ main = "save"
  /\ Write("annotated.jpg", 1)
  /\ main' = "json"
  /\ UNCHANGED <<stop, running, request, frames, report, silent, late, initVars,
                 loopVars>>

\* The stream is not looked at: "Saved" is printed either way.
SaveUnchecked(from, name, n) ==
  /\ main = from
  /\ \/ Write(name, n) /\ silent' = silent
     \/ UNCHANGED files /\ silent' = TRUE
  /\ report' = request
  /\ main' = "prompt"
  /\ UNCHANGED <<stop, running, request, frames, late, initVars, loopVars>>

SaveJson == SaveUnchecked("json", "prediction.json", 1)

-------------------------------------------------------------------------------
(* RunVideo                                                                     *)

\* The writer has opened, and truncated, the annotated video.
OpenVideo ==
  /\ main = "video"
  /\ Write("annotated.mp4", 0)
  /\ main' = "log"
  /\ UNCHANGED <<stop, running, request, frames, report, silent, late, initVars,
                 loopVars>>

OpenLog ==
  /\ main = "log"
  /\ Write("predictions.jsonl", 0)
  /\ main' = "loop"
  /\ UNCHANGED <<stop, running, request, frames, report, silent, late, initVars,
                 loopVars>>

\* Faulty variant: the video is read to its end.
ReadFrameAnyway ==
  /\ main = "loop" /\ frames < MaxFrames
  /\ main' = "frame"
  /\ UNCHANGED <<stop, initVars, loopVars, runVars>>

ReadFrame ==
  /\ main = "loop" /\ ~stop /\ frames < MaxFrames
  /\ main' = "frame"
  /\ UNCHANGED <<stop, initVars, loopVars, runVars>>

InferFrame ==
  /\ BeginInference("frame", "append")
  /\ frames' = frames + 1
  /\ UNCHANGED <<stop, running, request, files, report, silent, initVars, loopVars>>

\* The frame goes to the video and to the log; neither write is looked at.
AppendFrame ==
  /\ main = "append"
  /\ \/ /\ files' = [files EXCEPT ![Dir]["annotated.mp4"].frames = @ + 1,
                                  ![Dir]["predictions.jsonl"].frames = @ + 1]
        /\ silent' = silent
     \/ UNCHANGED files /\ silent' = TRUE
  /\ main' = "loop"
  /\ UNCHANGED <<stop, running, request, frames, report, late, initVars, loopVars>>

\* The end of the video or the stop request.
EndVideo ==
  /\ main = "loop"
  /\ main' = "summary"
  /\ UNCHANGED <<stop, initVars, loopVars, runVars>>

SaveSummary == SaveUnchecked("summary", "summary.json", frames)

-------------------------------------------------------------------------------
Renderer == RendererTests \/ RendererPrints \/ RendererWaits \/ RendererTimesOut

Next ==
  \/ Signal
  \/ Announce
  \/ \E outcome \in {"loaded", "threw"} : StopRendering(outcome)
  \/ Join \/ Renderer
  \/ Close \/ ReadLine \/ IgnoreLine \/ (\E m \in Media : Load(m)) \/ Reset
  \/ Task \/ Regen \/ Throw
  \/ InferImage \/ SaveImage \/ SaveJson
  \/ OpenVideo \/ OpenLog \/ ReadFrame \/ InferFrame \/ AppendFrame
  \/ EndVideo \/ SaveSummary

Spec == Init /\ [][Next]_vars

(* Fairness: both threads of InitializeSession run, and the core's Initialize  *)
(* returns or throws. Nothing is assumed of the user.                          *)
FairSpec ==
  /\ Spec
  /\ WF_vars(\E outcome \in {"loaded", "threw"} : StopRendering(outcome))
  /\ WF_vars(Join) /\ WF_vars(Renderer)

-------------------------------------------------------------------------------
(* Properties                                                                   *)

\* Places of a request.
ImagePlaces == {"image", "save", "json"}
LoggedPlaces == {"loop", "frame", "append", "summary"}
VideoPlaces == {"video", "log"} \union LoggedPlaces
Requesting == ImagePlaces \union VideoPlaces

Written == [request : Nat, frames : Nat]

TypeOK ==
  /\ main \in {"initialize", "loaded", "threw", "failed", "prompt", "line", "closed"}
             \union Requesting
  /\ stop \in BOOLEAN /\ hasLast \in BOOLEAN /\ silent \in BOOLEAN
  /\ {media, last, running} \subseteq Media \union {Nothing}
  /\ request \in Nat /\ frames \in Nat /\ late \in Nat
  /\ files \in [Dirs -> [FileNames -> Written \union {Nothing}]]

\* InitializeSession joins its renderer on the way out of a successful and of a
\* failed Initialize (cli.cpp:492, 500): the console is ready or has failed, whatever
\* the timing of announcements, timeouts and notifications.
InitializationEnds == main = "initialize" ~> main \in {"prompt", "failed"}

\* After a stop request at most one more inference begins, even when the request
\* comes while a line is typed or between two frames (cli.cpp:406, 717).
StopBound == late <= 1

\* A request that runs has media: after `reset`, `regen` has nothing to repeat,
\* and no branch opens the empty path (cli.cpp:421, 641).
RequestHasMedia == main \in Requesting => running \in Media

\* File `name` of the request's directory is its own, with n frames.
Holds(name, n) == files[Dir][name] = [request |-> request, frames |-> n]

\* A printed report names files of this request and not of an earlier one that
\* shares the directory (cli.cpp:672, 742): the checked ones always; the others,
\* and the number of frames, only while no unchecked write failed. What is left
\* out then is PersistenceChecked.
ReportHolds ==
  report # Nothing =>
    /\ report = request
    /\ running \in Images =>
         Holds("annotated.jpg", 1) /\ (~silent => Holds("prediction.json", 1))
    /\ running \in Videos =>
         /\ files[Dir]["annotated.mp4"].request = request
         /\ files[Dir]["predictions.jsonl"].request = request
         /\ ~silent => /\ Holds("annotated.mp4", frames) /\ Holds("predictions.jsonl", frames)
                       /\ Holds("summary.json", frames)

\* What the comments of cli.cpp say: a request throws "if the image or an output
\* file cannot be written" (652), "if inference or output persistence fails" (632,
\* 655, 687), so that a request whose report is printed has written every file
\* the report names. The code looks at no stream after it is opened (672, 723, 742).
PersistenceChecked ==
  report # Nothing =>
    /\ running \in Images => Holds("annotated.jpg", 1) /\ Holds("prediction.json", 1)
    /\ running \in Videos => /\ Holds("annotated.mp4", frames)
                             /\ Holds("predictions.jsonl", frames)
                             /\ Holds("summary.json", frames)

\* Both logs of a video are the request's own, and hold n frames.
LogsHold(n) ==
  /\ {files[Dir]["annotated.mp4"], files[Dir]["predictions.jsonl"]} \subseteq Written
  /\ files[Dir]["annotated.mp4"].request = request
  /\ files[Dir]["predictions.jsonl"].request = request
  /\ ~silent => Holds("annotated.mp4", n) /\ Holds("predictions.jsonl", n)

\* What a place says of the request and of the files it has written so far.
Said(place) ==
  /\ place \in ImagePlaces => running \in Images
  /\ place \in VideoPlaces => running \in Videos
  /\ place = "json" => ~silent /\ Holds("annotated.jpg", 1)
  /\ place \in {"image", "save", "video", "log"} => ~silent
  /\ place = "log" => Holds("annotated.mp4", 0) /\ frames = 0
  /\ place = "video" => frames = 0
  /\ place = "append" => frames > 0 /\ LogsHold(frames - 1)
  /\ place \in LoggedPlaces \ {"append"} => LogsHold(frames)
  /\ report # Nothing => place \notin Requesting

\* Places from which an inference can still begin without another test of the
\* stop request.
Unchecked == {"line", "image", "video", "log", "frame"}

StopSeen ==
  /\ ~stop => late = 0
  /\ late = 0 \/ (late = 1 /\ main \notin Unchecked)

\* The invariant behind StopBound, RequestHasMedia and ReportHolds.
ConsoleInv ==
  /\ TypeOK
  /\ StopSeen
  /\ hasLast => last \in Media
  /\ Said(main)
  /\ ReportHolds
===============================================================================
