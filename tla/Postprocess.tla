------------------------------ MODULE Postprocess ------------------------------
(* Postprocessor::Parse (postprocess.cpp): a response becomes boxes and points  *)
(* on the source image, then duplicates are suppressed. Coordinates are exact:  *)
(* the numerator over CoordinateEnd times the resized size.                     *)
EXTENDS Integers, Sequences

CONSTANTS
  BoxStart, BoxEnd, RefStart, RefEnd,
  Value,          \* the coordinate tokens' values, a function into 0 .. CoordinateEnd
  CoordinateEnd,  \* the largest coordinate, 1000 in the code
  Words,          \* every other token
  CanonicalLabel(_), \* case and white space of a label normalised
  Responses,      \* token sequences
  Sizes,          \* source images, <<width, height>>
  Canvas,         \* the square canvas of the Vision model
  Thresholds      \* NMS thresholds in percent

Token == {BoxStart, BoxEnd, RefStart, RefEnd} \union DOMAIN Value \union Words

ASSUME PostprocessAssumption ==
  /\ CoordinateEnd \in Nat \ {0} /\ Canvas \in Nat \ {0}
  /\ \A t \in DOMAIN Value : Value[t] \in 0 .. CoordinateEnd
  /\ BoxStart # RefStart /\ BoxEnd \notin DOMAIN Value
  /\ Thresholds \subseteq 0 .. 100
  /\ Sizes \subseteq (Nat \ {0}) \X (Nat \ {0})
  /\ Responses \subseteq Seq(Token)

VARIABLES
  tokens,     \* the response
  size,       \* source width and height
  threshold,  \* nms_iou
  detect,     \* the task is object_detection
  pc, index,  \* the place in Parse; next token, or next detection to suppress
  label, detections, points,
  kept        \* the detections suppression has kept

input == <<tokens, size, threshold, detect>>
vars == <<input, pc, index, label, detections, points, kept>>

Init ==
  /\ tokens \in Responses
  /\ size \in Sizes /\ threshold \in Thresholds
  /\ detect \in BOOLEAN
  /\ pc = "parse" /\ index = 1
  /\ label = <<>> /\ detections = <<>> /\ points = <<>> /\ kept = <<>>

-------------------------------------------------------------------------------
(* Geometry of the letterbox (image.cpp) and its inverse                        *)

Longer == IF size[1] > size[2] THEN size[1] ELSE size[2]

\* The source edge scaled to fit, rounded, at least one pixel.
Resized(axis) ==
  LET rounded == (2 * size[axis] * Canvas + Longer) \div (2 * Longer)
  IN  IF rounded < 1 THEN 1 ELSE rounded

Pad(axis) == (Canvas - Resized(axis)) \div 2

Limit(axis) == size[axis] * CoordinateEnd * Resized(axis)

\* Faulty variant: positions in the padding are kept.
RestoreUnclamped(value, axis) ==
  (value * Canvas - Pad(axis) * CoordinateEnd) * size[axis]

RestoreCoordinate(value, axis) ==
  LET pixel == (value * Canvas - Pad(axis) * CoordinateEnd) * size[axis]
  IN  IF pixel < 0 THEN 0 ELSE IF pixel > Limit(axis) THEN Limit(axis) ELSE pixel

Axis(i) == IF i % 2 = 1 THEN 1 ELSE 2

RestoreAll(values) == [i \in DOMAIN values |-> RestoreCoordinate(values[i], Axis(i))]

-------------------------------------------------------------------------------
(* The token loop                                                               *)

Positions(token, from) == {i \in from .. Len(tokens) : tokens[i] = token}

Least(S) == CHOOSE i \in S : \A j \in S : i <= j

\* Faulty variant: both searches are for the end of a box.
EndTokenCopied == BoxEnd

\* The end token that matches the start token at index, and what lies between.
EndToken == IF tokens[index] = RefStart THEN RefEnd ELSE BoxEnd
Closed == Positions(EndToken, index + 1) # {}
End == Least(Positions(EndToken, index + 1))
Content == SubSeq(tokens, index + 1, End - 1)

AtStart(token) == pc = "parse" /\ index <= Len(tokens) /\ tokens[index] = token

ReadRef ==
  /\ AtStart(RefStart) /\ Closed
  /\ label' = Content
  /\ index' = End + 1
  /\ UNCHANGED <<input, pc, detections, points, kept>>

\* The label cannot be decoded.
LabelThrows ==
  /\ AtStart(RefStart) /\ Closed
  /\ pc' = "threw"
  /\ UNCHANGED <<input, index, label, detections, points, kept>>

SkipToken ==
  /\ pc = "parse" /\ index <= Len(tokens) /\ tokens[index] \notin {RefStart, BoxStart}
  /\ index' = index + 1
  /\ UNCHANGED <<input, pc, label, detections, points, kept>>

\* The coordinates of a box, none when another token is among them.
BoxValues(content) ==
  IF \A i \in DOMAIN content : content[i] \in DOMAIN Value
  THEN [i \in DOMAIN content |-> Value[content[i]]] ELSE <<>>

Ordered(box) == box[1] < box[3] /\ box[2] < box[4]

\* Ordered on the model canvas and still ordered on the source image.
IsBox(values) == Len(values) = 4 /\ Ordered(values) /\ Ordered(RestoreAll(values))

ReadBox ==
  /\ AtStart(BoxStart) /\ Closed
  /\ LET values == BoxValues(Content)
     IN  /\ detections' = IF IsBox(values)
                          THEN Append(detections, [label |-> label, box |-> RestoreAll(values),
                                                   at |-> index])
                          ELSE detections
         /\ points' = IF Len(values) = 2
                      THEN Append(points, [label |-> label, point |-> RestoreAll(values)])
                      ELSE points
  /\ index' = End + 1
  /\ UNCHANGED <<input, pc, label, kept>>

\* The end of the response, or a reference or box that nothing closes.
EndParse ==
  /\ pc = "parse"
  /\ index <= Len(tokens) => tokens[index] \in {RefStart, BoxStart} /\ ~Closed
  /\ pc' = (IF detect THEN "suppress" ELSE "done")
  /\ index' = 1
  /\ UNCHANGED <<input, label, detections, points, kept>>

-------------------------------------------------------------------------------
(* Suppression                                                                  *)

Larger(a, b) == IF a > b THEN a ELSE b
Smaller(a, b) == IF a < b THEN a ELSE b
Area(box) == Larger(0, box[3] - box[1]) * Larger(0, box[4] - box[2])

Intersection(a, b) == <<Larger(a[1], b[1]), Larger(a[2], b[2]),
                        Smaller(a[3], b[3]), Smaller(a[4], b[4])>>

\* The ratio of common area to united area, zero if that is empty, reaches nms_iou.
Reaches(common, areas) ==
  LET united == areas - common
  IN  IF united > 0 THEN 100 * common >= threshold * united ELSE threshold = 0

\* IoU(a, b) >= nms_iou; the scale of an axis does not matter.
Overlap(a, b) == Reaches(Area(Intersection(a, b)), Area(a) + Area(b))

Duplicates(d, e) == CanonicalLabel(d.label) = CanonicalLabel(e.label) /\ Overlap(d.box, e.box)

Current == detections[index]

\* Faulty variant: only the detection kept last is compared.
DuplicateOfLast == kept # <<>> /\ Duplicates(kept[Len(kept)], Current)

Duplicate == \E i \in DOMAIN kept : Duplicates(kept[i], Current)

Suppress ==
  /\ pc = "suppress" /\ index <= Len(detections)
  /\ kept' = (IF Duplicate THEN kept ELSE Append(kept, Current))
  /\ index' = index + 1
  /\ UNCHANGED <<input, pc, label, detections, points>>

EndSuppress ==
  /\ pc = "suppress" /\ index > Len(detections)
  /\ detections' = kept
  /\ pc' = "done"
  /\ UNCHANGED <<input, index, label, points, kept>>

Next ==
  \/ ReadRef \/ LabelThrows \/ SkipToken \/ ReadBox \/ EndParse
  \/ Suppress \/ EndSuppress

Spec == Init /\ [][Next]_vars

-------------------------------------------------------------------------------
(* Properties                                                                   *)

\* A rectangle that is one on the source image too begins at index i.
IsBoxAt(i) ==
  /\ i + 5 <= Len(tokens)
  /\ tokens[i] = BoxStart /\ tokens[i + 5] = BoxEnd
  /\ IsBox(BoxValues(SubSeq(tokens, i + 1, i + 4)))

\* What begins before index i ends before it.
AllClosedBefore(i) ==
  \A s \in 1 .. i - 1 : tokens[s] \in {RefStart, BoxStart} =>
    \E e \in s + 1 .. i - 1 : tokens[e] = IF tokens[s] = RefStart THEN RefEnd ELSE BoxEnd

Detected(i) == \E k \in DOMAIN detections : detections[k].at = i

\* Every detection is a box of the response, in order, of positive area within
\* the source image (postprocess.cpp:255).
DetectionsAreBoxes ==
  \A k \in DOMAIN detections :
    LET d == detections[k]
    IN  /\ IsBoxAt(d.at)
        /\ 0 <= d.box[1] /\ d.box[1] < d.box[3] /\ d.box[3] <= Limit(1)
        /\ 0 <= d.box[2] /\ d.box[2] < d.box[4] /\ d.box[4] <= Limit(2)
        /\ \A j \in 1 .. k - 1 : detections[j].at < d.at

\* All tokens are read and nothing is suppressed yet, or will be.
AllParsed == pc = "suppress" \/ (pc = "done" /\ ~detect)

\* No box is swallowed by a name or a broken box before it: each is detected, unless
\* something before it is still open (postprocess.cpp:221, 234).
BoxesAreDetected ==
  AllParsed => \A i \in DOMAIN tokens : IsBoxAt(i) /\ AllClosedBefore(i) => Detected(i)

ParseFaithful == DetectionsAreBoxes /\ BoxesAreDetected

\* Suppression keeps no two duplicates, and what it drops duplicates an earlier
\* detection that it keeps (postprocess.cpp:274).
SuppressionExact ==
  /\ \A i, j \in DOMAIN kept : i # j => ~Duplicates(kept[i], kept[j])
  /\ pc = "suppress" => \A n \in 1 .. index - 1 :
       \/ \E i \in DOMAIN kept : kept[i] = detections[n]
       \/ \E i \in DOMAIN kept : kept[i].at < detections[n].at /\ Duplicates(kept[i], detections[n])

-------------------------------------------------------------------------------
(* What makes the properties inductive.                                         *)

Detection == [label : Seq(Token), box : [1 .. 4 -> Int], at : Nat]

\* Shape of the state.
TypeOK ==
  /\ tokens \in Seq(Token)
  /\ size \in Sizes /\ threshold \in Thresholds /\ detect \in BOOLEAN
  /\ pc \in {"parse", "suppress", "done", "threw"}
  /\ index \in Nat \ {0}
  /\ label \in Seq(Token)
  /\ detections \in Seq(Detection) /\ kept \in Seq(Detection)
  /\ points \in Seq([label : Seq(Token), point : [1 .. 2 -> Int]])

\* The token loop never stands inside such a box: it is before it, or has found it.
BoxesPassed ==
  pc = "parse" =>
    /\ \A k \in DOMAIN detections : detections[k].at < index
    /\ \A i \in DOMAIN tokens : IsBoxAt(i) /\ AllClosedBefore(i) => index <= i \/ Detected(i)

\* What is kept are detections already looked at, in their order.
KeptInOrder ==
  /\ pc = "suppress" => detect
  /\ pc = "suppress" => \A i \in DOMAIN kept : \E n \in 1 .. index - 1 :
       n \in DOMAIN detections /\ kept[i] = detections[n]
  /\ pc = "suppress" => index <= Len(detections) + 1
  /\ pc \in {"parse", "threw"} => kept = <<>>
  /\ \A i, j \in DOMAIN kept : i < j => kept[i].at < kept[j].at

PostInv ==
  /\ TypeOK
  /\ DetectionsAreBoxes /\ BoxesAreDetected /\ BoxesPassed
  /\ KeptInOrder /\ SuppressionExact
===============================================================================
