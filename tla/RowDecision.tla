----------------------------- MODULE RowDecision -----------------------------
(* How one row of logits becomes a token (decoder.cpp): the repetition penalty *)
(* over the tokens already generated, then either the largest score (AR) or    *)
(* nucleus filtering and a ranked summary (PBD). Scores are integers or NaN;   *)
(* exp is a weight that falls with the distance from the largest score, and a  *)
(* probability is a weight over a mass. One thread makes call after call and   *)
(* keeps its token history between them.                                       *)
EXTENDS Integers, Sequences, FiniteSetsExt

CONSTANTS
  VocabSize,    \* kVocab
  NaN,          \* what an infinite or undefined score is converted to
  Logits,       \* rows of scores
  Texts,        \* prompt and response so far
  Penalty,      \* repetition_penalty
  Weights,      \* exp of minus a distance, from 0 on; it is zero in the end
  TopPs,        \* top_p in percent
  TopCount,     \* length of top_tokens, 5 in the code
  InitialWidth, MaximumWidth  \* kNucleusInitialWidth, kNucleusMaximumWidth

Tokens == 0 .. VocabSize - 1

ASSUME DecisionAssumption ==
  /\ VocabSize \in Nat \ {0} /\ Penalty \in Nat \ {0}
  /\ NaN \notin Int
  /\ Logits \subseteq [Tokens -> Int \union {NaN}]
  /\ Texts \subseteq Seq(Int)
  /\ TopPs \subseteq 1 .. 100
  /\ TopCount \in 1 .. VocabSize
  /\ InitialWidth \in Nat \ {0} /\ MaximumWidth \in Nat /\ InitialWidth <= MaximumWidth

\* What exp guarantees in floating point: it may round to equal values, and to zero.
ASSUME WeightsAssumption ==
  /\ Weights \in Seq(Nat) /\ Weights # <<>> /\ Weights[1] > 0
  /\ \A d, e \in DOMAIN Weights : d <= e => Weights[e] <= Weights[d]

Weight(distance) == IF distance < Len(Weights) THEN Weights[distance + 1] ELSE 0

VARIABLES
  history,  \* history_tokens, thread local
  seen,     \* the tokens marked in `seen`, thread local
  text, logits, mode, topP,  \* the arguments; "pbd" or "ar"
  step,     \* the place in the call
  next,     \* the next element of the loop under way
  row,      \* the scores, adjusted for repetition
  values,   \* the weights that replace them
  mass,     \* what a weight is a share of
  order,    \* indices: the tokens, sorted from the front
  width,    \* how much of it is sorted
  retained, cumulative,  \* tokens counted so far, and their weight
  top,      \* top_tokens
  token     \* the answer

arguments == <<text, logits, mode, topP>>
nucleus == <<order, width, retained, cumulative>>
rowVars == <<history, seen, arguments, step, next, row, values, mass, nucleus, top, token>>

Occurring(list) == {list[i] : i \in DOMAIN list}

Blank == [t \in Tokens |-> NaN]

NoOrder == [i \in 1 .. VocabSize |-> i - 1]

RowInit ==
  /\ history = <<>> /\ seen = {}
  /\ step = "idle" /\ next = 1
  /\ text = <<>> /\ logits = Blank /\ mode = "ar" /\ topP = 100
  /\ row = Blank /\ values = Blank /\ mass = 1
  /\ order = NoOrder /\ width = 0 /\ retained = 0 /\ cumulative = 0
  /\ top = <<>> /\ token = 0

------------------------------------------------------------------------------
(* DecodePbd or DecodeArGreedy begins: BuildHistoryTokens and FillRow           *)

\* Faulty variant: the tokens of the last call stay marked.
KeepSeen ==
  /\ step = "idle"
  /\ text' \in Texts /\ logits' \in Logits /\ mode' \in {"pbd", "ar"} /\ topP' \in TopPs
  /\ history' = <<>>
  /\ step' = "history" /\ row' = logits'
  /\ UNCHANGED <<seen, next, values, mass, nucleus, top, token>>

\* The marks of the last call are taken back one by one, not all of them.
Begin ==
  /\ step = "idle"
  /\ text' \in Texts /\ logits' \in Logits /\ mode' \in {"pbd", "ar"} /\ topP' \in TopPs
  /\ seen' = seen \ Occurring(history)
  /\ history' = <<>>
  /\ step' = "history" /\ row' = logits'
  /\ UNCHANGED <<next, values, mass, nucleus, top, token>>

RecordToken ==
  /\ step = "history" /\ next <= Len(text)
  /\ IF text[next] \in Tokens \ seen
     THEN /\ seen' = seen \union {text[next]}
          /\ history' = Append(history, text[next])
     ELSE UNCHANGED <<seen, history>>
  /\ next' = next + 1
  /\ UNCHANGED <<arguments, step, row, values, mass, nucleus, top, token>>

HistoryBuilt ==
  /\ step = "history" /\ next > Len(text)
  /\ step' = "penalty" /\ next' = 1
  /\ UNCHANGED <<history, seen, arguments, row, values, mass, nucleus, top, token>>

Penalised(score) ==
  IF score = NaN THEN NaN ELSE IF score > 0 THEN score \div Penalty ELSE score * Penalty

Penalise ==
  /\ step = "penalty" /\ next <= Len(history)
  /\ row' = [row EXCEPT ![history[next]] = Penalised(@)]
  /\ next' = next + 1
  /\ UNCHANGED <<history, seen, arguments, step, values, mass, nucleus, top, token>>

RowFilled ==
  /\ step = "penalty" /\ next > Len(history)
  /\ step' = (IF mode = "ar" THEN "argmax" ELSE "softmax")
  /\ UNCHANGED <<history, seen, arguments, next, row, values, mass, nucleus, top, token>>

------------------------------------------------------------------------------
(* Comparisons with NaN are false.                                              *)

Greater(x, y) == x # NaN /\ y # NaN /\ x > y
Better(f, a, b) == Greater(f[a], f[b]) \/ (f[a] = f[b] /\ f[a] # NaN /\ a < b)

First(f, S) == CHOOSE t \in S : \A u \in S : u = t \/ Better(f, t, u)
Numbers(f) == {t \in Tokens : f[t] # NaN}

\* std::max_element begins with the first element, and nothing is greater than NaN.
MaxElement(f) == IF f[0] = NaN THEN 0 ELSE First(f, Numbers(f))

Argmax ==
  /\ step = "argmax"
  /\ token' = MaxElement(row)
  /\ step' = "chosen"
  /\ UNCHANGED <<history, seen, arguments, next, row, values, mass, nucleus, top>>

------------------------------------------------------------------------------
(* NucleusSoftmax                                                               *)

Maximum == First(row, Numbers(row))
Second == First(row, Numbers(row) \ {Maximum})
Exp(t) == Weight(row[Maximum] - row[t])

OnlyToken(t) ==
  /\ values' = [u \in Tokens |-> IF u = t THEN 1 ELSE 0] /\ mass' = 1
  /\ step' = "summary" /\ next' = 0 /\ top' = <<>>
  /\ UNCHANGED <<history, seen, arguments, row, nucleus, token>>

\* Faulty variant: only the second is counted.
PeakedOverSecond ==
  /\ topP < 100 /\ Numbers(row) # {} /\ Numbers(row) # {Maximum}
  /\ 100 * Weight(0) > topP * (Weight(0) + Exp(Second))

\* Even if all others had the weight of the second, the largest reaches top_p.
Peaked ==
  /\ topP < 100 /\ Numbers(row) # {} /\ Numbers(row) # {Maximum}
  /\ 100 * Weight(0) > topP * (Weight(0) + (VocabSize - 1) * Exp(Second))

PeakReturns == step = "softmax" /\ Peaked /\ OnlyToken(Maximum)

\* Added up token after token: what the first n weights come to.
Sums(f) ==
  LET before[n \in 0 .. VocabSize] == IF n = 0 THEN 0 ELSE before[n - 1] + f[n - 1]
  IN  before

Sum(f) == Sums(f)[VocabSize]

\* One NaN makes the total NaN, and then nothing is divided.
Normalise ==
  /\ step = "softmax" /\ ~Peaked
  /\ values' = [t \in Tokens |-> IF row[t] = NaN THEN NaN ELSE Exp(t)]
  /\ mass' = (IF Numbers(row) = Tokens THEN Sum(values') ELSE Weight(0))
  /\ step' = "cut"
  /\ UNCHANGED <<history, seen, arguments, next, row, nucleus, top, token>>

KeepAll ==
  /\ step = "cut" /\ topP = 100
  /\ step' = "summary" /\ next' = 0 /\ top' = <<>>
  /\ UNCHANGED <<history, seen, arguments, row, values, mass, nucleus, token>>

Sharp == Greater(values[MaxElement(values)], 0) /\
         100 * values[MaxElement(values)] > topP * mass

SharpReturns == step = "cut" /\ topP < 100 /\ Sharp /\ OnlyToken(MaxElement(values))

Orders == {o \in [1 .. VocabSize -> Tokens] :
             /\ \A i, j \in 1 .. VocabSize : o[i] = o[j] => i = j
             /\ \A t \in Tokens : \E i \in 1 .. VocabSize : o[i] = t}

Least(a, b) == IF a < b THEN a ELSE b

\* std::nth_element brings the best of what is not sorted yet up to `to`, and std::sort
\* sorts up to there; or the rest is sorted to the end. NaN destroys the strict
\* order that both need, and any order can come out.
Ranked(old, from, to) ==
  IF Numbers(values) # Tokens THEN Orders
  ELSE IF to < VocabSize
  THEN {o \in Orders :
          /\ \A i \in 1 .. from : \E j \in 1 .. to : o[j] = old[i]
          /\ \A i, j \in 1 .. to : i < j => Better(values, o[i], o[j])
          /\ \A i \in 1 .. to, j \in to + 1 .. VocabSize :
               (\E k \in 1 .. from : old[k] = o[i]) \/ Better(values, o[i], o[j])}
  ELSE {o \in Orders :
          /\ \A i \in 1 .. from : o[i] = old[i]
          /\ \A i, j \in from + 1 .. VocabSize : i < j => Better(values, o[i], o[j])}

\* Sort further and count from the front again.
Sort(from, to) ==
  /\ order' \in Ranked(order, from, to)
  /\ width' = to
  /\ retained' = 0 /\ cumulative' = 0
  /\ UNCHANGED <<history, seen, arguments, next, row, values, mass, top, token>>

BeginRanking ==
  /\ step = "cut" /\ topP < 100 /\ ~Sharp
  /\ step' = "accumulate"
  /\ Sort(0, Least(InitialWidth, VocabSize))

Reached == cumulative # NaN /\ 100 * cumulative >= topP * mass

Accumulate ==
  /\ step = "accumulate" /\ retained < width /\ (retained = 0 \/ ~Reached)
  /\ LET value == values[order[retained + 1]]
     IN  cumulative' = IF cumulative = NaN \/ value = NaN THEN NaN ELSE cumulative + value
  /\ retained' = retained + 1
  /\ UNCHANGED <<history, seen, arguments, step, next, row, values, mass,
                 order, width, top, token>>

Wider == IF width >= MaximumWidth THEN VocabSize
         ELSE Least(2 * width, Least(VocabSize, MaximumWidth))

Widen ==
  /\ step = "accumulate" /\ retained = width /\ ~Reached /\ width < VocabSize
  /\ step' = step
  /\ Sort(width, Wider)

\* Nothing of the row can be used: every value is zero.
NothingRetained ==
  /\ step = "accumulate" /\ retained = VocabSize /\ ~Reached
  /\ ~Greater(cumulative, 0)
  /\ values' = [t \in Tokens |-> 0] /\ mass' = 1
  /\ step' = "summary" /\ next' = 0 /\ top' = <<>>
  /\ UNCHANGED <<history, seen, arguments, row, nucleus, token>>

Truncate ==
  /\ step = "accumulate" /\ retained > 0
  /\ Greater(cumulative, 0)
  /\ Reached \/ retained = VocabSize
  /\ values' = [t \in Tokens |-> IF \E i \in 1 .. retained : order[i] = t THEN values[t] ELSE 0]
  /\ mass' = cumulative
  /\ step' = "summary" /\ next' = 0 /\ top' = <<>>
  /\ UNCHANGED <<history, seen, arguments, row, nucleus, token>>

------------------------------------------------------------------------------
(* SummarizeProbabilities                                                       *)

\* Faulty variant: the token stays at the back.
StayBack(list, t) == Append(list, t)

\* The token enters at the back and rises past each one it is better than.
Rise(list, t) ==
  LET behind == {i \in DOMAIN list : ~Better(values, t, list[i])}
      place == IF behind = {} THEN 1 ELSE Max(behind) + 1
  IN  [i \in 1 .. Len(list) + 1 |->
         IF i < place THEN list[i] ELSE IF i = place THEN t ELSE list[i - 1]]

Insert(list, t) ==
  IF Len(list) < TopCount THEN Rise(list, t)
  ELSE IF Better(values, t, list[TopCount]) THEN Rise(SubSeq(list, 1, TopCount - 1), t)
  ELSE list

Summarize ==
  /\ step = "summary" /\ next < VocabSize
  /\ top' = Insert(top, next)
  /\ next' = next + 1
  /\ UNCHANGED <<history, seen, arguments, step, row, values, mass, nucleus, token>>

SummaryDone ==
  /\ step = "summary" /\ next = VocabSize
  /\ token' = top[1]
  /\ step' = "chosen"
  /\ UNCHANGED <<history, seen, arguments, next, row, values, mass, nucleus, top>>

------------------------------------------------------------------------------
\* The history and its marks remain; the buffers are overwritten before they are read.
Return ==
  /\ step = "chosen"
  /\ step' = "idle" /\ next' = 1
  /\ text' = <<>> /\ logits' = Blank /\ mode' = "ar" /\ topP' = 100
  /\ row' = Blank /\ values' = Blank /\ mass' = 1
  /\ order' = NoOrder /\ width' = 0 /\ retained' = 0 /\ cumulative' = 0
  /\ top' = <<>> /\ token' = 0
  /\ UNCHANGED <<history, seen>>

RowNext ==
  \/ Begin \/ RecordToken \/ HistoryBuilt \/ Penalise \/ RowFilled \/ Argmax
  \/ PeakReturns \/ Normalise \/ KeepAll \/ SharpReturns
  \/ BeginRanking \/ Accumulate \/ Widen \/ NothingRetained \/ Truncate
  \/ Summarize \/ SummaryDone \/ Return

RowSpec == RowInit /\ [][RowNext]_rowVars

------------------------------------------------------------------------------
(* Properties                                                                   *)

\* When the row is filled, a score is penalised, and only once, if and only if its
\* token occurs in this call's text, whatever the thread's marks were before
\* (decoder.cpp:107, 475).
PenaltyOnce ==
  step \in {"argmax", "softmax"} =>
    row = [t \in Tokens |-> IF t \in Occurring(text) THEN Penalised(logits[t]) ELSE logits[t]]

NoNaN == Numbers(row) = Tokens

\* A row that has been through NucleusSoftmax, which none of its scores disturbs.
Filtered == step = "summary" /\ NoNaN
Kept == {t \in Tokens : values[t] > 0}
Share(S) == Sum([t \in Tokens |-> IF t \in S THEN Exp(t) ELSE 0])

\* No token that the filter drops is more likely than one it keeps, though only a
\* part of the vocabulary is ever sorted (decoder.cpp:207).
KeepsLikeliest == Filtered => \A t \in Kept, u \in Tokens \ Kept : Exp(u) <= Exp(t)

\* Both short cuts and the widening search keep the fewest tokens that together
\* reach top_p, and their probabilities add up to one (decoder.cpp:160, 186).
NucleusSmallest ==
  Filtered =>
    /\ Kept # {} /\ mass = Sum(values)
    /\ 100 * Share(Kept) >= topP * Share(Tokens)
    /\ topP < 100 => \A t \in Kept : 100 * (Share(Kept) - Exp(t)) < topP * Share(Tokens)

\* What NucleusSoftmax keeps is a nucleus, and no more than one.
NucleusExact == KeepsLikeliest /\ NucleusSmallest

\* The tokens the summary has seen are ranked: the list is in order, and no token
\* outside it is better than one in it (decoder.cpp:279).
TopIsBest ==
  step = "summary" /\ Numbers(values) = Tokens =>
    /\ Len(top) = Least(next, TopCount)
    /\ \A i, j \in DOMAIN top : i < j => Better(values, top[i], top[j])
    /\ \A t \in 0 .. next - 1 : t \in Occurring(top) \/
         \A i \in DOMAIN top : Better(values, top[i], t)

\* What is chosen is the likeliest of the scores that are numbers, even next to NaN;
\* the exceptions are a first score that is NaN, and NaN in a row nothing filters.
LikeliestChosen ==
  step = "chosen" /\ row[0] # NaN /\ (NoNaN \/ mode = "ar" \/ topP < 100) =>
    row[token] # NaN /\ Exp(token) = Weight(0)

------------------------------------------------------------------------------
(* What makes the properties inductive.                                         *)

Score == Int \union {NaN}
Indices == 1 .. VocabSize

RowTypeOK ==
  /\ history \in Seq(Tokens) /\ seen \in SUBSET Tokens
  /\ text \in Seq(Int) /\ logits \in [Tokens -> Score]
  /\ mode \in {"pbd", "ar"} /\ topP \in 1 .. 100
  /\ step \in {"idle", "history", "penalty", "argmax", "softmax", "cut", "accumulate",
               "summary", "chosen"}
  /\ next \in Nat
  /\ row \in [Tokens -> Score] /\ values \in [Tokens -> Nat \union {NaN}] /\ mass \in Nat
  /\ order \in [Indices -> Tokens]
  /\ width \in 0 .. VocabSize /\ retained \in 0 .. width
  /\ cumulative \in Nat \union {NaN}
  /\ top \in Seq(Tokens) /\ token \in Tokens

\* The marks are those of the history, which names each token of the text once.
MarksRight ==
  /\ seen = Occurring(history)
  /\ \A i, j \in DOMAIN history : history[i] = history[j] => i = j
  /\ step = "idle" => next = 1
  /\ step = "history" =>
       /\ next <= Len(text) + 1
       /\ Occurring(history) = {text[i] : i \in 1 .. next - 1} \intersect Tokens
  /\ step \in {"penalty", "argmax", "softmax"} =>
       Occurring(history) = Occurring(text) \intersect Tokens

\* The tokens of the history before `next` are penalised, the others not yet.
PenaltyUnderWay ==
  /\ step \in {"history", "penalty"} => next >= 1
  /\ step = "history" => row = logits
  /\ step = "penalty" =>
       /\ next <= Len(history) + 1
       /\ row = [t \in Tokens |-> IF \E i \in 1 .. next - 1 : history[i] = t
                                 THEN Penalised(logits[t]) ELSE logits[t]]

Weighed == [t \in Tokens |-> IF row[t] = NaN THEN NaN ELSE Exp(t)]

\* The share of the tokens counted so far, the others at zero.
Counted == [t \in Tokens |-> IF \E i \in 1 .. retained : order[i] = t THEN values[t] ELSE 0]

\* A front that is sorted and ahead of the rest.
FrontRanked ==
  /\ order \in Orders
  /\ \A i \in 1 .. width, j \in Indices : i < j => Better(values, order[i], order[j])

RankingUnderWay ==
  /\ step \in {"softmax", "cut", "accumulate", "summary"} => mode = "pbd"
  /\ step \in {"cut", "accumulate"} =>
       values = Weighed /\ mass = IF NoNaN THEN Sum(values) ELSE Weight(0)
  \* A NaN behind a number is always caught by the second short cut.
  /\ step = "accumulate" => topP < 100 /\ width >= 1 /\ (NoNaN \/ row[0] = NaN)
  /\ step = "accumulate" /\ NoNaN =>
       /\ FrontRanked
       /\ cumulative = Sum(Counted)
       \* Without the last token top_p was not reached.
       /\ retained > 0 => 100 * (cumulative - values[order[retained]]) < topP * mass

\* Whatever has the largest of the values had the largest score.
Undisturbed == row[0] # NaN /\ (NoNaN \/ topP < 100)
HeadRight ==
  step = "summary" /\ Undisturbed =>
    /\ Numbers(values) = Tokens
    /\ \A t \in Tokens : (\A u \in Tokens : values[u] <= values[t]) =>
         row[t] # NaN /\ Exp(t) = Weight(0)

SummaryUnderWay ==
  step = "summary" =>
    /\ next <= VocabSize /\ Len(top) = Least(next, TopCount)
    /\ Occurring(top) \subseteq 0 .. next - 1
    /\ Len(top) < TopCount => Occurring(top) = 0 .. next - 1
    /\ TopIsBest

DecisionInv ==
  /\ RowTypeOK /\ MarksRight /\ PenaltyUnderWay /\ PenaltyOnce
  /\ RankingUnderWay /\ NucleusExact /\ HeadRight /\ SummaryUnderWay /\ LikeliestChosen
==============================================================================
