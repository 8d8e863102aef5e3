-------------------------- MODULE Postprocess_proofs --------------------------
(***************************************************************************)
(* Postprocessing for every response, image, canvas and threshold: parsing *)
(* finds the boxes of the response and nothing else, and suppression keeps *)
(* exactly one detection of each group.                                    *)
(***************************************************************************)
EXTENDS Postprocess, SequenceTheorems, WellFoundedInduction, TLAPS

USE PostprocessAssumption

------------------------------------------------------------------------------
(* Geometry *)

LEMMA ProductOfNat == ASSUME NEW a \in Nat, NEW b \in Nat  PROVE a * b \in Nat
  OBVIOUS

\* The resized image has at least one pixel on each axis.
LEMMA ResizedSize ==
  ASSUME TypeOK, NEW axis \in {1, 2}
  PROVE  Resized(axis) \in Nat \ {0} /\ Pad(axis) \in Int /\ size[axis] \in Nat \ {0}
<1>1. size[1] \in Nat \ {0} /\ size[2] \in Nat \ {0} /\ size[axis] \in Nat \ {0}
  BY DEF TypeOK
<1>2. Longer \in Nat \ {0}
  BY <1>1 DEF Longer
<1>3. 2 * size[axis] * Canvas + Longer \in Nat /\ 2 * Longer \in Nat \ {0}
  BY <1>1, <1>2
<1>4. (2 * size[axis] * Canvas + Longer) \div (2 * Longer) \in Int
  BY <1>3
<1>5. Resized(axis) \in Nat \ {0}
  BY <1>4 DEF Resized
<1> QED
  BY <1>1, <1>5 DEF Pad

LEMMA LimitIsNat ==
  ASSUME TypeOK, NEW axis \in {1, 2}
  PROVE  Limit(axis) \in Nat
<1>1. size[axis] \in Nat /\ Resized(axis) \in Nat /\ CoordinateEnd \in Nat
  BY ResizedSize
<1>2. size[axis] * CoordinateEnd \in Nat
  BY <1>1
<1> QED
  BY <1>1, <1>2, ProductOfNat DEF Limit

\* A restored coordinate lies within the source image.
LEMMA RestoredWithin ==
  ASSUME TypeOK, NEW axis \in {1, 2}, NEW value \in 0 .. CoordinateEnd
  PROVE  /\ RestoreCoordinate(value, axis) \in Int
         /\ 0 <= RestoreCoordinate(value, axis)
         /\ RestoreCoordinate(value, axis) <= Limit(axis)
<1> DEFINE pixel == (value * Canvas - Pad(axis) * CoordinateEnd) * size[axis]
<1>1. size[axis] \in Int /\ Pad(axis) \in Int /\ Canvas \in Int /\ CoordinateEnd \in Int
  BY ResizedSize
<1>2. pixel \in Int
  BY <1>1
<1>3. Limit(axis) \in Nat
  BY LimitIsNat
<1> HIDE DEF pixel
<1>4. RestoreCoordinate(value, axis)
        = IF pixel < 0 THEN 0 ELSE IF pixel > Limit(axis) THEN Limit(axis) ELSE pixel
  BY DEF RestoreCoordinate, pixel
<1> QED
  BY <1>2, <1>3, <1>4

\* The values of a box lie in the coordinate range.
LEMMA BoxValuesRange ==
  ASSUME NEW content \in Seq(Token)
  PROVE  /\ BoxValues(content) \in Seq(0 .. CoordinateEnd)
         /\ BoxValues(content) = <<>> \/ Len(BoxValues(content)) = Len(content)
         /\ BoxValues(content) # <<>> => \A i \in DOMAIN content : content[i] \in DOMAIN Value
<1>1. Len(content) \in Nat /\ DOMAIN content = 1 .. Len(content)
  BY LenProperties
<1>2. CASE \A i \in DOMAIN content : content[i] \in DOMAIN Value
  <2>1. BoxValues(content) = [i \in 1 .. Len(content) |-> Value[content[i]]]
    BY <1>1, <1>2 DEF BoxValues
  <2>2. \A i \in 1 .. Len(content) : Value[content[i]] \in 0 .. CoordinateEnd
    BY <1>1, <1>2
  <2> QED
    BY <1>1, <1>2, <2>1, <2>2
<1>3. CASE ~ \A i \in DOMAIN content : content[i] \in DOMAIN Value
  BY <1>3 DEF BoxValues
<1> QED
  BY <1>2, <1>3

\* A box restored to the source image.
LEMMA RestoredBox ==
  ASSUME TypeOK, NEW values \in Seq(0 .. CoordinateEnd), Len(values) = 4
  PROVE  /\ RestoreAll(values) \in [1 .. 4 -> Int]
         /\ 0 <= RestoreAll(values)[1] /\ RestoreAll(values)[3] <= Limit(1)
         /\ 0 <= RestoreAll(values)[2] /\ RestoreAll(values)[4] <= Limit(2)
<1>1. DOMAIN values = 1 .. 4 /\ \A i \in 1 .. 4 : values[i] \in 0 .. CoordinateEnd
  BY LenProperties
<1>2. Axis(1) = 1 /\ Axis(2) = 2 /\ Axis(3) = 1 /\ Axis(4) = 2
  BY DEF Axis
<1>3. RestoreAll(values) = [i \in 1 .. 4 |-> RestoreCoordinate(values[i], Axis(i))]
  BY <1>1 DEF RestoreAll
<1>4. \A i \in 1 .. 4 : i = 1 \/ i = 2 \/ i = 3 \/ i = 4
  OBVIOUS
<1>5. \A i \in 1 .. 4 : Axis(i) \in {1, 2}
  BY <1>2, <1>4
<1>6. \A i \in 1 .. 4 : RestoreCoordinate(values[i], Axis(i)) \in Int
  BY <1>1, <1>5, RestoredWithin
<1>7. RestoreAll(values) \in [1 .. 4 -> Int]
  BY <1>3, <1>6
<1>8. 0 <= RestoreCoordinate(values[1], 1) /\ RestoreCoordinate(values[3], 1) <= Limit(1)
  BY <1>1, RestoredWithin
<1>9. 0 <= RestoreCoordinate(values[2], 2) /\ RestoreCoordinate(values[4], 2) <= Limit(2)
  BY <1>1, RestoredWithin
<1> QED
  BY <1>2, <1>3, <1>7, <1>8, <1>9

LEMMA RestoredPoint ==
  ASSUME TypeOK, NEW values \in Seq(0 .. CoordinateEnd), Len(values) = 2
  PROVE  RestoreAll(values) \in [1 .. 2 -> Int]
<1>1. DOMAIN values = 1 .. 2 /\ \A i \in 1 .. 2 : values[i] \in 0 .. CoordinateEnd
  BY LenProperties
<1>2. \A i \in 1 .. 2 : Axis(i) \in {1, 2}
  BY DEF Axis
<1>3. \A i \in 1 .. 2 : RestoreCoordinate(values[i], Axis(i)) \in Int
  BY <1>1, <1>2, RestoredWithin
<1> QED
  BY <1>1, <1>3 DEF RestoreAll

------------------------------------------------------------------------------
(* Overlap *)

\* Duplication is symmetric, so it does not matter which of two detections
\* suppression meets first.
LEMMA DuplicatesSymmetric ==
  ASSUME NEW d \in Detection, NEW e \in Detection
  PROVE  Duplicates(d, e) <=> Duplicates(e, d)
<1>1. \A a, b \in Int : Larger(a, b) = Larger(b, a) /\ Smaller(a, b) = Smaller(b, a)
  BY DEF Larger, Smaller
<1>2. d.box \in [1 .. 4 -> Int] /\ e.box \in [1 .. 4 -> Int]
  BY DEF Detection
<1>3. Intersection(d.box, e.box) = Intersection(e.box, d.box)
  <2>1. /\ d.box[1] \in Int /\ d.box[2] \in Int /\ d.box[3] \in Int /\ d.box[4] \in Int
        /\ e.box[1] \in Int /\ e.box[2] \in Int /\ e.box[3] \in Int /\ e.box[4] \in Int
    BY <1>2
  <2> QED
    BY <1>1, <2>1 DEF Intersection
<1>4. \A box \in [1 .. 4 -> Int] : Area(box) \in Int
  <2> SUFFICES ASSUME NEW box \in [1 .. 4 -> Int]  PROVE Area(box) \in Int
    OBVIOUS
  <2>1. /\ box[3] - box[1] \in Int /\ box[4] - box[2] \in Int
    OBVIOUS
  <2>2. Larger(0, box[3] - box[1]) \in Int /\ Larger(0, box[4] - box[2]) \in Int
    BY <2>1 DEF Larger
  <2> QED
    BY <2>2 DEF Area
<1>5. Area(d.box) + Area(e.box) = Area(e.box) + Area(d.box)
  BY <1>2, <1>4
<1>6. Overlap(d.box, e.box) <=> Overlap(e.box, d.box)
  BY <1>3, <1>5, Zenon DEF Overlap
<1> QED
  BY <1>6, Zenon DEF Duplicates

------------------------------------------------------------------------------
(* The token loop *)

\* A non-empty set of natural numbers has a least element.
LEMMA LeastExists ==
  ASSUME NEW S, S \subseteq Nat, S # {}
  PROVE  Least(S) \in S /\ \A j \in S : Least(S) <= j
<1>1. PICK i \in S : \A j \in S : ~ (<<j, i>> \in OpToRel(<, Nat))
  BY NatLessThanWellFounded, WFMin, Zenon
<1>2. ASSUME NEW j \in S  PROVE i <= j
  <2>1. i \in Nat /\ j \in Nat
    OBVIOUS
  <2>2. ~ (j < i)
    BY <1>1, <2>1, Zenon DEF OpToRel
  <2> QED
    BY <2>1, <2>2
<1> QED
  BY <1>2, Zenon DEF Least

LEMMA TokensTyped ==
  ASSUME TypeOK
  PROVE  /\ tokens \in Seq(Token) /\ Len(tokens) \in Nat
         /\ \A i \in 1 .. Len(tokens) : tokens[i] \in Token
BY DEF TypeOK

\* std::find: the first end token behind the start.
LEMMA EndFound ==
  ASSUME TypeOK, Closed
  PROVE  /\ End \in Nat /\ index + 1 <= End /\ End <= Len(tokens)
         /\ tokens[End] = EndToken
         /\ \A j \in index + 1 .. Len(tokens) : tokens[j] = EndToken => End <= j
<1> DEFINE S == Positions(EndToken, index + 1)
<1>1. index \in Nat /\ Len(tokens) \in Nat
  BY TokensTyped DEF TypeOK
<1>2. S \subseteq Nat /\ S # {}
  BY <1>1 DEF Closed, Positions
<1> HIDE DEF S
<1>3. Least(S) \in S /\ \A j \in S : Least(S) <= j
  BY <1>2, LeastExists
<1>4. End \in S /\ \A j \in S : End <= j
  BY <1>3 DEF End, S
<1> QED
  BY <1>1, <1>4 DEF Positions, S

LEMMA ContentTyped ==
  ASSUME TypeOK, Closed
  PROVE  Content \in Seq(Token) /\ Len(Content) = End - 1 - index
<1>1. index \in Nat \ {0} /\ End \in Nat /\ index + 1 <= End /\ End <= Len(tokens)
  BY EndFound DEF TypeOK
<1>2. \A i \in index + 1 .. End - 1 : tokens[i] \in Token
  BY <1>1, TokensTyped
<1>3. /\ SubSeq(tokens, index + 1, End - 1) \in Seq(Token)
      /\ Len(SubSeq(tokens, index + 1, End - 1))
           = IF index + 1 <= End - 1 THEN (End - 1) - (index + 1) + 1 ELSE 0
  BY <1>1, <1>2, SubSeqProperties
<1> QED
  BY <1>1, <1>3 DEF Content

\* A box that ReadBox accepts is one at its index.
LEMMA ContentIsBox ==
  ASSUME TypeOK, AtStart(BoxStart), Closed, IsBox(BoxValues(Content))
  PROVE  End = index + 5 /\ IsBoxAt(index)
<1>1. Len(BoxValues(Content)) = 4
  BY DEF IsBox
<1>2. BoxValues(Content) # <<>> /\ Len(BoxValues(Content)) = Len(Content)
  <2>1. Len(<<>>) = 0
    OBVIOUS
  <2>2. BoxValues(Content) # <<>>
    BY <1>1, <2>1
  <2>3. Content \in Seq(Token)
    BY ContentTyped
  <2> QED
    BY <2>2, <2>3, BoxValuesRange, Zenon
<1>3. /\ End \in Nat /\ End <= Len(tokens) /\ index \in Nat
      /\ Len(Content) = End - 1 - index /\ tokens[End] = EndToken
  BY ContentTyped, EndFound DEF TypeOK
<1>4. End = index + 5
  <2>1. End - 1 - index = 4
    BY <1>1, <1>2, <1>3, Zenon
  <2> QED
    BY <1>3, <2>1
<1>5. Content = SubSeq(tokens, index + 1, index + 4)
  BY <1>3, <1>4 DEF Content
<1>6. EndToken = BoxEnd
  BY DEF EndToken, AtStart
<1> QED
  BY <1>3, <1>4, <1>5, <1>6 DEF IsBoxAt, AtStart

\* The end of a box of the response is the first end token behind its start.
LEMMA BoxIsContent ==
  ASSUME TypeOK, pc = "parse", index <= Len(tokens), IsBoxAt(index)
  PROVE  AtStart(BoxStart) /\ Closed /\ End = index + 5 /\ IsBox(BoxValues(Content))
<1> DEFINE c == SubSeq(tokens, index + 1, index + 4)
<1>1. index \in Nat \ {0} /\ Len(tokens) \in Nat /\ index + 5 <= Len(tokens)
  BY TokensTyped DEF TypeOK, IsBoxAt
<1>2. AtStart(BoxStart) /\ EndToken = BoxEnd
  BY DEF AtStart, IsBoxAt, EndToken
<1>3. index + 5 \in Positions(EndToken, index + 1)
  BY <1>1, <1>2 DEF Positions, IsBoxAt
<1>4. Closed
  BY <1>3 DEF Closed
<1>5. \A i \in index + 1 .. index + 4 : tokens[i] \in Token
  BY <1>1, TokensTyped
<1>6. /\ c \in Seq(Token) /\ Len(c) = 4
      /\ \A i \in 1 .. 4 : c[i] = tokens[index + i]
  <2>1. /\ c \in Seq(Token)
        /\ Len(c) = IF index + 1 <= index + 4 THEN (index + 4) - (index + 1) + 1 ELSE 0
        /\ \A i \in 1 .. (index + 4) - (index + 1) + 1 : c[i] = tokens[(index + 1) + i - 1]
    BY <1>1, <1>5, SubSeqProperties
  <2> QED
    BY <1>1, <2>1
<1>7. IsBox(BoxValues(c)) /\ Len(BoxValues(c)) = 4
  BY DEF IsBoxAt, IsBox
<1>8. \A i \in 1 .. 4 : c[i] \in DOMAIN Value
  <2>1. BoxValues(c) # <<>>
    BY <1>7
  <2>2. DOMAIN c = 1 .. 4
    BY <1>6, LenProperties
  <2> QED
    BY <1>6, <2>1, <2>2, BoxValuesRange
<1>9. \A j \in index + 1 .. index + 4 : tokens[j] # BoxEnd
  <2> SUFFICES ASSUME NEW j \in index + 1 .. index + 4  PROVE tokens[j] # BoxEnd
    OBVIOUS
  <2>1. j - index \in 1 .. 4 /\ index + (j - index) = j
    BY <1>1
  <2> QED
    BY <1>6, <1>8, <2>1
<1>10. End = index + 5
  <2>1. /\ End \in Nat /\ index + 1 <= End /\ tokens[End] = BoxEnd
        /\ \A j \in index + 1 .. Len(tokens) : tokens[j] = BoxEnd => End <= j
    BY <1>2, <1>4, EndFound
  <2>2. End <= index + 5
    BY <1>1, <2>1 DEF IsBoxAt
  <2>3. End \notin index + 1 .. index + 4
    BY <1>9, <2>1
  <2> QED
    BY <1>1, <2>1, <2>2, <2>3
<1>11. Content = c
  BY <1>1, <1>10 DEF Content
<1> QED
  BY <1>2, <1>4, <1>7, <1>10, <1>11

\* Reading a reference or a box that is closed before a later place does not
\* pass that place.
LEMMA EndBefore ==
  ASSUME TypeOK, index <= Len(tokens), tokens[index] \in {RefStart, BoxStart},
         NEW i \in DOMAIN tokens, index < i, AllClosedBefore(i)
  PROVE  Closed /\ End + 1 <= i
<1>1. index \in Nat \ {0} /\ Len(tokens) \in Nat /\ i \in 1 .. Len(tokens)
  BY TokensTyped, LenProperties DEF TypeOK
<1>2. index \in 1 .. i - 1
  BY <1>1
<1>3. PICK e \in index + 1 .. i - 1 :
        tokens[e] = IF tokens[index] = RefStart THEN RefEnd ELSE BoxEnd
  BY <1>2 DEF AllClosedBefore
<1>4. e \in index + 1 .. Len(tokens) /\ tokens[e] = EndToken
  BY <1>1, <1>3 DEF EndToken
<1>5. Closed
  BY <1>4 DEF Closed, Positions
<1>6. End <= e /\ End \in Nat
  BY <1>4, <1>5, EndFound
<1> QED
  BY <1>1, <1>3, <1>5, <1>6

------------------------------------------------------------------------------
(* The inductive invariant *)

LEMMA DetectionTyped ==
  ASSUME NEW s \in Seq(Detection), NEW k \in DOMAIN s
  PROVE  /\ s[k] \in Detection /\ s[k].at \in Nat /\ s[k].box \in [1 .. 4 -> Int]
         /\ k \in 1 .. Len(s) /\ Len(s) \in Nat
<1>1. Len(s) \in Nat /\ k \in 1 .. Len(s) /\ s[k] \in Detection
  BY LenProperties, ElementOfSeq
<1> QED
  BY <1>1 DEF Detection

\* What depends on the input alone does not change.
LEMMA InputKept ==
  ASSUME UNCHANGED input
  PROVE  /\ \A i : IsBoxAt(i)' <=> IsBoxAt(i)
         /\ \A i : AllClosedBefore(i)' <=> AllClosedBefore(i)
         /\ Limit(1)' = Limit(1) /\ Limit(2)' = Limit(2)
         /\ \A d, e : Duplicates(d, e)' <=> Duplicates(d, e)
         /\ tokens' = tokens /\ size' = size /\ detect' = detect
         /\ threshold' = threshold
<1>1. tokens' = tokens /\ size' = size /\ detect' = detect
      /\ threshold' = threshold
  BY DEF input
<1>2. \A axis : Resized(axis)' = Resized(axis)
  BY <1>1 DEF Resized, Longer
<1>3. \A axis : Limit(axis)' = Limit(axis) /\ Pad(axis)' = Pad(axis)
  BY <1>1, <1>2 DEF Limit, Pad
<1>4. \A value, axis : RestoreCoordinate(value, axis)' = RestoreCoordinate(value, axis)
  BY <1>1, <1>3 DEF RestoreCoordinate
<1>5. \A values : RestoreAll(values)' = RestoreAll(values)
  BY <1>4 DEF RestoreAll
<1>6. \A values : IsBox(values)' <=> IsBox(values)
  BY <1>5 DEF IsBox
<1>7. \A i : IsBoxAt(i)' <=> IsBoxAt(i)
  BY <1>1, <1>6 DEF IsBoxAt
<1>8. \A i : AllClosedBefore(i)' <=> AllClosedBefore(i)
  BY <1>1 DEF AllClosedBefore
<1>9. \A d, e : Duplicates(d, e)' <=> Duplicates(d, e)
  BY <1>1 DEF Duplicates, Overlap, Reaches
<1> QED
  BY <1>1, <1>3, <1>7, <1>8, <1>9

LEMMA InitPostInv == Init => PostInv
<1> SUFFICES ASSUME Init  PROVE PostInv
  OBVIOUS
<1> USE DEF Init
<1>1. tokens \in Seq(Token)
  OBVIOUS
<1>2. TypeOK
  BY <1>1 DEF TypeOK
<1>3. DetectionsAreBoxes /\ BoxesAreDetected /\ KeptInOrder /\ SuppressionExact
  BY DEF DetectionsAreBoxes, BoxesAreDetected, AllParsed, KeptInOrder, SuppressionExact
<1>4. \A i \in DOMAIN tokens : 1 <= i
  BY <1>1, LenProperties
<1>5. BoxesPassed
  BY <1>4 DEF BoxesPassed
<1> QED
  BY <1>2, <1>3, <1>5 DEF PostInv

LEMMA ReadRefPostInv ==
  ASSUME PostInv, ReadRef
  PROVE  PostInv'
<1> USE DEF ReadRef
<1>1. /\ TypeOK /\ pc = "parse" /\ index \in Nat /\ index <= Len(tokens)
      /\ tokens[index] = RefStart /\ Closed
  BY DEF PostInv, TypeOK, AtStart
<1>2. End \in Nat /\ index + 1 <= End /\ End <= Len(tokens)
  BY <1>1, EndFound
<1>3. TypeOK'
  BY <1>1, <1>2, ContentTyped DEF TypeOK, input
<1>4. DetectionsAreBoxes'
  BY InputKept DEF PostInv, DetectionsAreBoxes
<1>5. BoxesAreDetected'
  BY <1>1 DEF BoxesAreDetected, AllParsed
<1>6. BoxesPassed'
  <2>1. \A k \in DOMAIN detections : detections[k].at < index'
    <3> SUFFICES ASSUME NEW k \in DOMAIN detections  PROVE detections[k].at < index'
      OBVIOUS
    <3>1. detections[k].at \in Nat /\ detections[k].at < index
      BY <1>1, DetectionTyped DEF PostInv, BoxesPassed, TypeOK
    <3> QED
      BY <1>1, <1>2, <3>1
  <2>2. ASSUME NEW i \in DOMAIN tokens, IsBoxAt(i), AllClosedBefore(i)
        PROVE  index' <= i \/ Detected(i)
    <3>1. i # index /\ i \in Nat
      BY <1>1, <2>2, TokensTyped, LenProperties DEF IsBoxAt
    <3>2. index <= i \/ Detected(i)
      BY <1>1, <2>2 DEF PostInv, BoxesPassed
    <3>3. index < i => End + 1 <= i
      BY <1>1, <2>2, EndBefore
    <3> QED
      BY <1>1, <3>1, <3>2, <3>3
  <2> QED
    BY <2>1, <2>2, InputKept DEF BoxesPassed, Detected
<1>7. KeptInOrder' /\ SuppressionExact'
  BY <1>1 DEF PostInv, KeptInOrder, SuppressionExact
<1> QED
  BY <1>3, <1>4, <1>5, <1>6, <1>7 DEF PostInv

LEMMA SkipTokenPostInv ==
  ASSUME PostInv, SkipToken
  PROVE  PostInv'
<1> USE DEF SkipToken
<1>1. /\ TypeOK /\ pc = "parse" /\ index \in Nat \ {0} /\ index <= Len(tokens)
      /\ tokens[index] # BoxStart
  BY DEF PostInv, TypeOK
<1>2. TypeOK'
  BY <1>1 DEF TypeOK, input
<1>3. DetectionsAreBoxes'
  BY InputKept DEF PostInv, DetectionsAreBoxes
<1>4. BoxesAreDetected'
  BY <1>1 DEF BoxesAreDetected, AllParsed
<1>5. BoxesPassed'
  <2>1. \A k \in DOMAIN detections : detections[k].at < index'
    <3> SUFFICES ASSUME NEW k \in DOMAIN detections  PROVE detections[k].at < index'
      OBVIOUS
    <3>1. detections[k].at \in Nat /\ detections[k].at < index
      BY <1>1, DetectionTyped DEF PostInv, BoxesPassed, TypeOK
    <3> QED
      BY <1>1, <3>1
  <2>2. ASSUME NEW i \in DOMAIN tokens, IsBoxAt(i), AllClosedBefore(i)
        PROVE  index' <= i \/ Detected(i)
    <3>1. i # index /\ i \in Nat
      BY <1>1, <2>2, TokensTyped, LenProperties DEF IsBoxAt
    <3>2. index <= i \/ Detected(i)
      BY <1>1, <2>2 DEF PostInv, BoxesPassed
    <3> QED
      BY <1>1, <3>1, <3>2
  <2> QED
    BY <2>1, <2>2, InputKept DEF BoxesPassed, Detected
<1>6. KeptInOrder' /\ SuppressionExact'
  BY <1>1 DEF PostInv, KeptInOrder, SuppressionExact
<1> QED
  BY <1>2, <1>3, <1>4, <1>5, <1>6 DEF PostInv

LEMMA LabelThrowsPostInv ==
  ASSUME PostInv, LabelThrows
  PROVE  PostInv'
<1> USE DEF LabelThrows
<1>1. pc = "parse" /\ kept = <<>>
  BY DEF PostInv, KeptInOrder, AtStart
<1>2. TypeOK'
  BY DEF PostInv, TypeOK, input
<1>3. DetectionsAreBoxes'
  BY InputKept DEF PostInv, DetectionsAreBoxes
<1>4. BoxesAreDetected' /\ BoxesPassed'
  BY DEF BoxesAreDetected, AllParsed, BoxesPassed
<1>5. KeptInOrder' /\ SuppressionExact'
  BY <1>1 DEF KeptInOrder, SuppressionExact
<1> QED
  BY <1>2, <1>3, <1>4, <1>5 DEF PostInv

\* The detection a well-formed box becomes.
LEMMA NewDetection ==
  ASSUME TypeOK, AtStart(BoxStart), Closed, IsBox(BoxValues(Content)),
         NEW d, d = [label |-> label, box |-> RestoreAll(BoxValues(Content)), at |-> index]
  PROVE  /\ d \in Detection /\ d.at = index
         /\ IsBoxAt(index)
         /\ 0 <= d.box[1] /\ d.box[1] < d.box[3] /\ d.box[3] <= Limit(1)
         /\ 0 <= d.box[2] /\ d.box[2] < d.box[4] /\ d.box[4] <= Limit(2)
<1> DEFINE values == BoxValues(Content)
<1>1. values \in Seq(0 .. CoordinateEnd) /\ Len(values) = 4
  BY ContentTyped, BoxValuesRange DEF IsBox
<1>2. Ordered(RestoreAll(values))
  BY DEF IsBox
<1> HIDE DEF values
<1>3. /\ RestoreAll(values) \in [1 .. 4 -> Int]
      /\ 0 <= RestoreAll(values)[1] /\ RestoreAll(values)[3] <= Limit(1)
      /\ 0 <= RestoreAll(values)[2] /\ RestoreAll(values)[4] <= Limit(2)
  BY <1>1, RestoredBox
<1>4. d.label = label /\ d.box = RestoreAll(values) /\ d.at = index
  BY DEF values
<1>5. d \in Detection
  BY <1>3 DEF Detection, TypeOK, values
<1> QED
  BY <1>2, <1>3, <1>4, <1>5, ContentIsBox DEF Ordered

LEMMA ReadBoxPostInv ==
  ASSUME PostInv, ReadBox
  PROVE  PostInv'
<1> DEFINE values == BoxValues(Content)
           d == [label |-> label, box |-> RestoreAll(values), at |-> index]
<1>1. /\ TypeOK /\ pc = "parse" /\ index \in Nat \ {0} /\ index <= Len(tokens)
      /\ tokens[index] = BoxStart /\ Closed /\ AtStart(BoxStart)
      /\ kept = <<>> /\ detections \in Seq(Detection)
  BY DEF PostInv, TypeOK, AtStart, ReadBox, KeptInOrder
<1>2. /\ End \in Nat /\ index + 1 <= End /\ End <= Len(tokens) /\ index' = End + 1
      /\ UNCHANGED <<input, pc, label, kept>>
  BY <1>1, EndFound DEF ReadBox
<1>3. detections' = IF IsBox(values) THEN Append(detections, d) ELSE detections
  BY DEF ReadBox
<1>4. points' \in Seq([label : Seq(Token), point : [1 .. 2 -> Int]])
  <2>1. points' = IF Len(values) = 2
                  THEN Append(points, [label |-> label, point |-> RestoreAll(values)])
                  ELSE points
    BY DEF ReadBox
  <2>2. Len(values) = 2 => RestoreAll(values) \in [1 .. 2 -> Int]
    BY <1>1, ContentTyped, BoxValuesRange, RestoredPoint
  <2> DEFINE Point == [label : Seq(Token), point : [1 .. 2 -> Int]]
  <2>3. points \in Seq(Point) /\ label \in Seq(Token)
    BY <1>1 DEF TypeOK
  <2> HIDE DEF values
  <2>4. Len(values) = 2 => [label |-> label, point |-> RestoreAll(values)] \in Point
    BY <2>2, <2>3
  <2> HIDE DEF Point
  <2>5. points' \in Seq(Point)
    BY <2>1, <2>3, <2>4, AppendProperties
  <2> QED
    BY <2>5 DEF Point
<1>5. IsBox(values) =>
        /\ d \in Detection /\ d.at = index /\ IsBoxAt(index)
        /\ 0 <= d.box[1] /\ d.box[1] < d.box[3] /\ d.box[3] <= Limit(1)
        /\ 0 <= d.box[2] /\ d.box[2] < d.box[4] /\ d.box[4] <= Limit(2)
  BY <1>1, NewDetection
<1>6. IsBox(values) <=> IsBoxAt(index)
  BY <1>1, <1>5, BoxIsContent
<1> HIDE DEF values, d
<1>7. /\ detections' \in Seq(Detection)
      /\ \A k \in DOMAIN detections : k \in DOMAIN detections' /\ detections'[k] = detections[k]
      /\ \A k \in DOMAIN detections' :
           k \in DOMAIN detections \/ (IsBox(values) /\ k = Len(detections) + 1
                                       /\ detections'[k] = d)
      /\ IsBox(values) => Len(detections) + 1 \in DOMAIN detections'
                          /\ detections'[Len(detections) + 1] = d
  <2>1. CASE IsBox(values)
    <3>1. detections' = Append(detections, d) /\ d \in Detection
      BY <1>3, <1>5, <2>1
    <3>2. /\ Append(detections, d) \in Seq(Detection) /\ Len(detections) \in Nat
          /\ DOMAIN detections = 1 .. Len(detections)
          /\ Len(Append(detections, d)) = Len(detections) + 1
          /\ DOMAIN Append(detections, d) = 1 .. Len(detections) + 1
          /\ \A i \in 1 .. Len(detections) : Append(detections, d)[i] = detections[i]
          /\ Append(detections, d)[Len(detections) + 1] = d
      BY <1>1, <3>1, AppendProperties, LenProperties
    <3> QED
      BY <2>1, <3>1, <3>2
  <2>2. CASE ~IsBox(values)
    BY <1>1, <1>3, <2>2
  <2> QED
    BY <2>1, <2>2
<1>8. TypeOK'
  BY <1>1, <1>2, <1>4, <1>7 DEF TypeOK, input
<1>9. \A k \in DOMAIN detections : detections[k].at \in Nat /\ detections[k].at < index
  BY <1>1, DetectionTyped DEF PostInv, BoxesPassed
<1>10. DetectionsAreBoxes'
  <2> SUFFICES ASSUME NEW k \in DOMAIN detections'
      PROVE  /\ IsBoxAt(detections'[k].at)
             /\ 0 <= detections'[k].box[1] /\ detections'[k].box[1] < detections'[k].box[3]
             /\ detections'[k].box[3] <= Limit(1)
             /\ 0 <= detections'[k].box[2] /\ detections'[k].box[2] < detections'[k].box[4]
             /\ detections'[k].box[4] <= Limit(2)
             /\ \A j \in 1 .. k - 1 : detections'[j].at < detections'[k].at
    BY <1>2, InputKept DEF DetectionsAreBoxes
  <2>1. CASE k \in DOMAIN detections
    <3>1. \A j \in 1 .. k - 1 : j \in DOMAIN detections
      BY <1>1, <2>1, DetectionTyped, LenProperties
    <3> QED
      BY <1>7, <2>1, <3>1 DEF PostInv, DetectionsAreBoxes
  <2>2. CASE IsBox(values) /\ k = Len(detections) + 1 /\ detections'[k] = d
    <3>1. \A j \in 1 .. k - 1 : j \in DOMAIN detections
      BY <1>1, <2>2, LenProperties
    <3> QED
      BY <1>5, <1>7, <1>9, <2>2, <3>1
  <2> QED
    BY <1>7, <2>1, <2>2
<1>11. BoxesAreDetected'
  BY <1>1, <1>2 DEF BoxesAreDetected, AllParsed
<1>12. BoxesPassed'
  <2>1. \A k \in DOMAIN detections' : detections'[k].at < index'
    BY <1>1, <1>2, <1>5, <1>7, <1>9
  <2>2. ASSUME NEW i \in DOMAIN tokens, IsBoxAt(i), AllClosedBefore(i)
        PROVE  index' <= i \/ Detected(i)'
    <3>1. i \in Nat
      BY <1>1, TokensTyped, LenProperties
    <3>2. CASE i = index
      <4>1. IsBox(values)
        BY <1>6, <2>2, <3>2
      <4> QED
        BY <1>5, <1>7, <3>2, <4>1 DEF Detected
    <3>3. CASE i # index
      <4>1. index <= i \/ Detected(i)
        BY <1>1, <2>2 DEF PostInv, BoxesPassed
      <4>2. index < i => End + 1 <= i
        BY <1>1, <2>2, EndBefore
      <4> QED
        BY <1>1, <1>2, <1>7, <3>1, <3>3, <4>1, <4>2 DEF Detected
    <3> QED
      BY <3>2, <3>3
  <2> QED
    BY <1>2, <2>1, <2>2, InputKept DEF BoxesPassed
<1>13. KeptInOrder' /\ SuppressionExact'
  BY <1>1, <1>2 DEF KeptInOrder, SuppressionExact
<1> QED
  BY <1>8, <1>10, <1>11, <1>12, <1>13 DEF PostInv

LEMMA EndParsePostInv ==
  ASSUME PostInv, EndParse
  PROVE  PostInv'
<1> USE DEF EndParse
<1>1. TypeOK /\ pc = "parse" /\ kept = <<>> /\ index \in Nat \ {0} /\ Len(tokens) \in Nat
  BY TokensTyped DEF PostInv, KeptInOrder, TypeOK
<1>2. TypeOK'
  BY <1>1 DEF TypeOK, input
<1>3. DetectionsAreBoxes'
  BY InputKept DEF PostInv, DetectionsAreBoxes
<1>4. BoxesAreDetected'
  <2> SUFFICES ASSUME NEW i \in DOMAIN tokens, IsBoxAt(i), AllClosedBefore(i)
               PROVE  Detected(i)
    BY InputKept DEF BoxesAreDetected, Detected
  <2>1. i \in 1 .. Len(tokens) /\ i \in Nat
    BY <1>1, TokensTyped, LenProperties
  <2>2. index <= i \/ Detected(i)
    BY <1>1 DEF PostInv, BoxesPassed
  <2>3. index <= Len(tokens) => i # index
    BY <1>1, BoxIsContent
  <2>4. index <= Len(tokens) => ~ (index < i)
    BY <1>1, EndBefore
  <2> QED
    BY <1>1, <2>1, <2>2, <2>3, <2>4
<1>5. BoxesPassed'
  BY DEF BoxesPassed
<1>6. KeptInOrder'
  <2>1. Len(detections) \in Nat
    BY <1>1, LenProperties DEF TypeOK
  <2> QED
    BY <1>1, <2>1, InputKept DEF KeptInOrder
<1>7. SuppressionExact'
  BY <1>1 DEF SuppressionExact
<1> QED
  BY <1>2, <1>3, <1>4, <1>5, <1>6, <1>7 DEF PostInv

LEMMA SuppressPostInv ==
  ASSUME PostInv, Suppress
  PROVE  PostInv'
<1> USE DEF Suppress
<1>1. /\ TypeOK /\ pc = "suppress" /\ detect /\ index \in Nat \ {0}
      /\ detections \in Seq(Detection) /\ kept \in Seq(Detection)
      /\ UNCHANGED input /\ pc' = "suppress" /\ detections' = detections
  BY DEF PostInv, KeptInOrder, TypeOK
<1>2. index \in DOMAIN detections /\ Current \in Detection /\ Current.at \in Nat
  BY <1>1, LenProperties, DetectionTyped DEF Current
<1>3. \A i \in DOMAIN kept : kept[i] \in Detection /\ kept[i].at \in Nat
                             /\ kept[i].at < Current.at
  <2> SUFFICES ASSUME NEW i \in DOMAIN kept
               PROVE  kept[i] \in Detection /\ kept[i].at \in Nat /\ kept[i].at < Current.at
    OBVIOUS
  <2>1. PICK n \in 1 .. index - 1 : n \in DOMAIN detections /\ kept[i] = detections[n]
    BY <1>1 DEF PostInv, KeptInOrder
  <2>2. detections[n].at < detections[index].at
    BY <1>2, <2>1 DEF PostInv, DetectionsAreBoxes
  <2> QED
    BY <1>1, <2>1, <2>2, DetectionTyped DEF Current
<1>4. CASE Duplicate
  <2>1. kept' = kept
    BY <1>4
  <2>2. TypeOK'
    BY <1>1, <2>1 DEF TypeOK, input
  <2>3. KeptInOrder'
    <3>1. index' <= Len(detections) + 1
      BY <1>1, LenProperties
    <3>2. \A n \in 1 .. index - 1 : n \in 1 .. index' - 1
      BY <1>1
    <3> QED
      BY <1>1, <2>1, <3>1, <3>2, InputKept DEF PostInv, KeptInOrder
  <2>4. SuppressionExact'
    <3>1. PICK i \in DOMAIN kept : Duplicates(kept[i], Current)
      BY <1>4 DEF Duplicate
    <3>2. kept[i].at < detections[index].at /\ Duplicates(kept[i], detections[index])
      BY <1>3, <3>1 DEF Current
    <3>3. \A n \in 1 .. index' - 1 : n \in 1 .. index - 1 \/ n = index
      BY <1>1
    <3> QED
      BY <1>1, <2>1, <3>2, <3>3, InputKept DEF PostInv, SuppressionExact
  <2> QED
    BY <1>1, <2>2, <2>3, <2>4, InputKept
       DEF PostInv, DetectionsAreBoxes, BoxesAreDetected, AllParsed, BoxesPassed, Detected
<1>5. CASE ~Duplicate
  <2>1. kept' = Append(kept, Current)
    BY <1>5
  <2>2. /\ kept' \in Seq(Detection) /\ Len(kept) \in Nat
        /\ DOMAIN kept = 1 .. Len(kept) /\ DOMAIN kept' = 1 .. Len(kept) + 1
        /\ \A i \in 1 .. Len(kept) : kept'[i] = kept[i]
        /\ kept'[Len(kept) + 1] = Current
    <3>1. /\ Append(kept, Current) \in Seq(Detection)
          /\ Len(Append(kept, Current)) = Len(kept) + 1
          /\ \A i \in 1 .. Len(kept) : Append(kept, Current)[i] = kept[i]
          /\ Append(kept, Current)[Len(kept) + 1] = Current
      BY <1>1, <1>2, AppendProperties
    <3> QED
      BY <1>1, <2>1, <3>1, LenProperties
  <2>3. TypeOK'
    BY <1>1, <2>2 DEF TypeOK, input
  <2>4. KeptInOrder'
    <3>1. index' <= Len(detections) + 1
      BY <1>1, LenProperties
    <3>2. \A n \in 1 .. index - 1 : n \in 1 .. index' - 1
      BY <1>1
    <3>3. index \in 1 .. index' - 1
      BY <1>1
    <3>4. \A i \in DOMAIN kept' : \E n \in 1 .. index' - 1 :
            n \in DOMAIN detections /\ kept'[i] = detections[n]
      <4> SUFFICES ASSUME NEW i \in DOMAIN kept'
                   PROVE  \E n \in 1 .. index' - 1 :
                            n \in DOMAIN detections /\ kept'[i] = detections[n]
        OBVIOUS
      <4>1. CASE i \in DOMAIN kept
        BY <1>1, <2>2, <3>2, <4>1 DEF PostInv, KeptInOrder
      <4>2. CASE i = Len(kept) + 1
        BY <1>2, <2>2, <3>3, <4>2 DEF Current
      <4> QED
        BY <2>2, <4>1, <4>2
    <3>5. \A i, j \in DOMAIN kept' : i < j => kept'[i].at < kept'[j].at
      <4> SUFFICES ASSUME NEW i \in DOMAIN kept', NEW j \in DOMAIN kept', i < j
                   PROVE  kept'[i].at < kept'[j].at
        OBVIOUS
      <4>1. i \in DOMAIN kept
        BY <2>2
      <4>2. CASE j \in DOMAIN kept
        BY <2>2, <4>1, <4>2 DEF PostInv, KeptInOrder
      <4>3. CASE j = Len(kept) + 1
        BY <1>3, <2>2, <4>1, <4>3
      <4> QED
        BY <2>2, <4>2, <4>3
    <3>6. detect' /\ pc' = "suppress" /\ detections' = detections
      BY <1>1, InputKept
    <3> QED
      BY <3>1, <3>4, <3>5, <3>6 DEF KeptInOrder
  <2>5. SuppressionExact'
    <3>1. \A i \in DOMAIN kept : ~Duplicates(kept[i], Current) /\ ~Duplicates(Current, kept[i])
      BY <1>2, <1>3, <1>5, DuplicatesSymmetric DEF Duplicate
    <3>2. \A i, j \in DOMAIN kept' : i # j => ~Duplicates(kept'[i], kept'[j])
      <4> SUFFICES ASSUME NEW i \in DOMAIN kept', NEW j \in DOMAIN kept', i # j
                   PROVE  ~Duplicates(kept'[i], kept'[j])
        OBVIOUS
      <4>1. CASE i \in DOMAIN kept /\ j \in DOMAIN kept
        BY <2>2, <4>1 DEF PostInv, SuppressionExact
      <4>2. CASE i \in DOMAIN kept /\ j = Len(kept) + 1
        BY <2>2, <3>1, <4>2
      <4>3. CASE i = Len(kept) + 1 /\ j \in DOMAIN kept
        BY <2>2, <3>1, <4>3
      <4> QED
        BY <2>2, <4>1, <4>2, <4>3
    <3>3. ASSUME NEW n \in 1 .. index' - 1
          PROVE  \/ \E i \in DOMAIN kept' : kept'[i] = detections[n]
                 \/ \E i \in DOMAIN kept' :
                      kept'[i].at < detections[n].at /\ Duplicates(kept'[i], detections[n])
      <4>1. CASE n = index
        BY <2>2, <4>1 DEF Current
      <4>2. CASE n \in 1 .. index - 1
        <5>1. \A i \in DOMAIN kept : i \in DOMAIN kept' /\ kept'[i] = kept[i]
          BY <2>2
        <5>2. \/ \E i \in DOMAIN kept : kept[i] = detections[n]
              \/ \E i \in DOMAIN kept :
                   kept[i].at < detections[n].at /\ Duplicates(kept[i], detections[n])
          BY <1>1, <4>2 DEF PostInv, SuppressionExact
        <5> QED
          BY <5>1, <5>2
      <4>3. n = index \/ n \in 1 .. index - 1
        BY <1>1
      <4> QED
        BY <4>1, <4>2, <4>3
    <3> QED
      BY <1>1, <3>2, <3>3, InputKept DEF SuppressionExact
  <2> QED
    BY <1>1, <2>3, <2>4, <2>5, InputKept
       DEF PostInv, DetectionsAreBoxes, BoxesAreDetected, AllParsed, BoxesPassed, Detected
<1> QED
  BY <1>4, <1>5

LEMMA EndSuppressPostInv ==
  ASSUME PostInv, EndSuppress
  PROVE  PostInv'
<1> USE DEF EndSuppress
<1>1. /\ TypeOK /\ pc = "suppress" /\ detect /\ index \in Nat \ {0}
      /\ kept \in Seq(Detection) /\ UNCHANGED input
  BY DEF PostInv, KeptInOrder, TypeOK
<1>2. TypeOK'
  BY <1>1 DEF TypeOK, input
<1>3. DetectionsAreBoxes'
  <2> SUFFICES ASSUME NEW k \in DOMAIN kept
      PROVE  /\ IsBoxAt(kept[k].at)
             /\ 0 <= kept[k].box[1] /\ kept[k].box[1] < kept[k].box[3]
             /\ kept[k].box[3] <= Limit(1)
             /\ 0 <= kept[k].box[2] /\ kept[k].box[2] < kept[k].box[4]
             /\ kept[k].box[4] <= Limit(2)
             /\ \A j \in 1 .. k - 1 : kept[j].at < kept[k].at
    BY <1>1, InputKept DEF DetectionsAreBoxes
  <2>1. PICK n \in DOMAIN detections : kept[k] = detections[n]
    BY <1>1 DEF PostInv, KeptInOrder
  <2>2. \A j \in 1 .. k - 1 : j \in DOMAIN kept /\ j < k
    BY <1>1, DetectionTyped, LenProperties
  <2> QED
    BY <2>1, <2>2 DEF PostInv, DetectionsAreBoxes, KeptInOrder
<1>4. BoxesAreDetected' /\ BoxesPassed'
  BY <1>1, InputKept DEF BoxesAreDetected, AllParsed, BoxesPassed, Detected
<1>5. KeptInOrder'
  BY <1>1 DEF PostInv, KeptInOrder
<1>6. SuppressionExact'
  BY <1>1, InputKept DEF PostInv, SuppressionExact
<1> QED
  BY <1>2, <1>3, <1>4, <1>5, <1>6 DEF PostInv

LEMMA StutterPostInv ==
  ASSUME PostInv, UNCHANGED vars
  PROVE  PostInv'
<1> USE DEF vars
<1>1. TypeOK'
  BY DEF PostInv, TypeOK, input
<1>2. DetectionsAreBoxes' /\ BoxesAreDetected' /\ BoxesPassed'
  BY InputKept DEF PostInv, DetectionsAreBoxes, BoxesAreDetected, AllParsed,
                   BoxesPassed, Detected
<1>3. KeptInOrder' /\ SuppressionExact'
  BY InputKept DEF PostInv, KeptInOrder, SuppressionExact
<1> QED
  BY <1>1, <1>2, <1>3 DEF PostInv

LEMMA PostInvariant == Spec => []PostInv
<1>1. PostInv /\ [Next]_vars => PostInv'
  BY ReadRefPostInv, LabelThrowsPostInv, SkipTokenPostInv, ReadBoxPostInv, EndParsePostInv,
     SuppressPostInv, EndSuppressPostInv, StutterPostInv DEF Next
<1> QED
  BY InitPostInv, <1>1, PTL DEF Spec

------------------------------------------------------------------------------
(* Theorems *)

\* The state keeps its shape for every response, image and threshold.
THEOREM TypeCorrect == Spec => []TypeOK
<1>1. PostInv => TypeOK
  BY DEF PostInv
<1> QED
  BY <1>1, PostInvariant, PTL

\* What Parse returns are boxes of the response within the source image, in
\* order, and it returns each of them before which nothing is left open
\* (postprocess.cpp:219).
THEOREM ParsesFaithfully == Spec => []ParseFaithful
<1>1. PostInv => ParseFaithful
  BY DEF PostInv, ParseFaithful
<1> QED
  BY <1>1, PostInvariant, PTL

\* Whatever overlaps what, suppression keeps no two duplicates and drops only
\* what duplicates an earlier detection that it keeps (postprocess.cpp:274).
THEOREM SuppressesExactly == Spec => []SuppressionExact
<1>1. PostInv => SuppressionExact
  BY DEF PostInv
<1> QED
  BY <1>1, PostInvariant, PTL
==============================================================================
