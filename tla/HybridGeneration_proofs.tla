----------------------- MODULE HybridGeneration_proofs -----------------------
(***************************************************************************)
(* Proofs about HybridGeneration for every set of tokens, prompt, budget   *)
(* and layout: the KV cache, the logits and the graph launches follow the  *)
(* text, whatever the model answers and whichever step fails.              *)
(***************************************************************************)
EXTENDS HybridGeneration, SequenceTheorems, FiniteSetTheorems, TLAPS

------------------------------------------------------------------------------
(* What HandlePattern can decide *)

\* A run is at most as long as the sequence, and not empty if it can start.
LEMMA RunLengthBounds ==
  ASSUME NEW s \in Seq(Token), NEW S
  PROVE  /\ RunLength(s, S) \in 0 .. Len(s)
         /\ Len(s) > 0 /\ s[1] \in S => RunLength(s, S) >= 1
<1> DEFINE run == {n \in 1 .. Len(s) : \A i \in 1 .. n : s[i] \in S}
<1>1. Len(s) \in Nat
  OBVIOUS
<1>2. IsFiniteSet(1 .. Len(s)) /\ Cardinality(1 .. Len(s)) = Len(s)
  BY <1>1, FS_Interval, SMTT(60)
<1>3. IsFiniteSet(run) /\ Cardinality(run) <= Len(s)
  BY <1>2, FS_Subset
<1>4. Cardinality(run) \in Nat
  BY <1>3, FS_CardinalityType
<1>5. Len(s) > 0 /\ s[1] \in S => Cardinality(run) # 0
  <2>1. SUFFICES ASSUME Len(s) > 0, s[1] \in S  PROVE run # {}
    BY <1>3, FS_EmptySet
  <2>2. 1 \in run
    BY <1>1, <2>1
  <2> QED
    BY <2>2
<1> QED
  BY <1>1, <1>3, <1>4, <1>5 DEF RunLength

\* The shape of a decision.
Decided(d) ==
  /\ d.tokens \in Seq(Token)
  /\ Len(d.tokens) \in 1 .. WindowSize
  /\ d.ar => Len(d.tokens) <= 5
  /\ d.terminal => d.tokens = <<ImEnd>>

LEMMA DecidedTokens ==
  ASSUME NEW d, Decided(d)
  PROVE  /\ d.tokens \in Seq(Token)
         /\ Len(d.tokens) \in Nat /\ Len(d.tokens) >= 1 /\ Len(d.tokens) <= WindowSize
         /\ d.ar => Len(d.tokens) <= 5
<1> DEFINE n == Len(d.tokens)
<1>1. n \in 1 .. WindowSize /\ d.tokens \in Seq(Token) /\ (d.ar => n <= 5)
  BY DEF Decided
<1> HIDE DEF n
<1>2. n \in Nat /\ n >= 1 /\ n <= WindowSize
  BY <1>1 DEF WindowSize
<1> QED
  BY <1>1, <1>2, Zenon DEF n

\* A part of a window is a sequence of tokens of the expected length.
LEMMA PartOfWindow ==
  ASSUME NEW w \in Window, NEW m \in 1 .. 6, NEW n \in 0 .. 6, m <= n + 1
  PROVE  SubSeq(w, m, n) \in Seq(Token) /\ Len(SubSeq(w, m, n)) = n - m + 1
<1>1. w \in Seq(Token) /\ Len(w) = 6
  BY DEF Window, WindowSize
<1>2. \A i \in m .. n : w[i] \in Token
  <2>1. w \in [1 .. 6 -> Token]
    BY <1>1, LenProperties
  <2>2. \A i \in m .. n : i \in 1 .. 6
    OBVIOUS
  <2> QED
    BY <2>1, <2>2
<1>3. m \in Int /\ n \in Int
  OBVIOUS
<1>4. /\ SubSeq(w, m, n) \in Seq(Token)
      /\ Len(SubSeq(w, m, n)) = IF m <= n THEN n - m + 1 ELSE 0
  BY <1>2, <1>3, SubSeqProperties, Zenon
<1> QED
  BY <1>4

LEMMA BoxDecided ==
  ASSUME NEW w \in Window
  PROVE  Decided(BoxDecision(w))
<1> DEFINE c == RunLength(SubSeq(w, 2, 5), Coordinates)
<1>1. w \in Seq(Token) /\ Len(w) = 6
  BY DEF Window, WindowSize
<1>2. SubSeq(w, 2, 5) \in Seq(Token) /\ Len(SubSeq(w, 2, 5)) = 4
  BY PartOfWindow
<1>3. c \in 0 .. 4
  BY <1>2, RunLengthBounds
<1> HIDE DEF c
<1>4. Decided(Accept(<<BoxStart, NoneToken, BoxEnd>>))
  BY DEF Decided, Accept, Token, WindowSize
<1>5. Decided(Accept(w))
  BY <1>1 DEF Decided, Accept, WindowSize
<1>6. Decided(Accept(SubSeq(w, 1, 4)))
  <2>1. SubSeq(w, 1, 4) \in Seq(Token) /\ Len(SubSeq(w, 1, 4)) = 4
    BY PartOfWindow
  <2> QED
    BY <2>1 DEF Decided, Accept, WindowSize
<1>7. Decided(Continue(SubSeq(w, 1, c + 1)))
  <2>1. SubSeq(w, 1, c + 1) \in Seq(Token) /\ Len(SubSeq(w, 1, c + 1)) = c + 1
    BY <1>3, PartOfWindow
  <2> QED
    BY <1>3, <2>1 DEF Decided, Continue, WindowSize
<1> QED
  BY <1>4, <1>5, <1>6, <1>7 DEF BoxDecision, c

LEMMA RefDecided ==
  ASSUME NEW w \in Window, w[1] # Null
  PROVE  Decided(RefDecision(w))
<1> DEFINE n == RunLength(w, Token \ {Null})
<1>1. w \in Seq(Token) /\ Len(w) = 6 /\ w[1] \in Token
  BY DEF Window, WindowSize
<1>2. n \in 1 .. 6
  <2>1. n \in 0 .. Len(w) /\ (Len(w) > 0 /\ w[1] \in Token \ {Null} => n >= 1)
    BY <1>1, RunLengthBounds, Zenon
  <2> QED
    BY <1>1, <2>1
<1> HIDE DEF n
<1>3. Decided(Accept(SubSeq(w, 1, n)))
  <2>1. SubSeq(w, 1, n) \in Seq(Token) /\ Len(SubSeq(w, 1, n)) = n
    BY <1>2, PartOfWindow
  <2> QED
    BY <1>2, <2>1 DEF Decided, Accept, WindowSize
<1>4. n >= 2 => Decided(Accept(SubSeq(w, 1, n - 1)))
  <2>1. n >= 2 => SubSeq(w, 1, n - 1) \in Seq(Token) /\ Len(SubSeq(w, 1, n - 1)) = n - 1
    BY <1>2, PartOfWindow
  <2> QED
    BY <1>2, <2>1 DEF Decided, Accept, WindowSize
<1> QED
  BY <1>3, <1>4 DEF RefDecision, n

\* Whatever six tokens the rows decode to, the decision has one to six tokens,
\* at most five of them for the autoregressive bridge (decoder.cpp:567).
THEOREM DecisionShape ==
  ASSUME NEW w \in Window
  PROVE  Decided(HandlePattern(w))
<1>1. Decided(Terminal)
  BY DEF Decided, Terminal, Token, WindowSize
<1> QED
  BY <1>1, BoxDecided, RefDecided DEF HandlePattern

------------------------------------------------------------------------------
(* Sequences of tokens, and the rows a graph sees *)

LEMMA Concat ==
  ASSUME NEW s \in Seq(Token), NEW t \in Seq(Token)
  PROVE  s \o t \in Seq(Token) /\ Len(s \o t) = Len(s) + Len(t)
BY ConcatProperties

LEMMA Associative ==
  ASSUME NEW s \in Seq(Token), NEW t \in Seq(Token), NEW u \in Seq(Token)
  PROVE  (s \o t) \o u = s \o (t \o u)
BY ConcatAssociative

LEMMA Single ==
  ASSUME NEW t \in Token
  PROVE  <<t>> \in Seq(Token) /\ Len(<<t>>) = 1
OBVIOUS

LEMMA EmptyText ==
  <<>> \in Seq(Token) /\ Len(<<>>) = 0 /\ \A s \in Seq(Token) : s \o <<>> = s
BY ConcatEmptySeq

LEMMA PrefixText ==
  ASSUME NEW t \in Seq(Token), NEW n \in Nat, n <= Len(t)
  PROVE  SubSeq(t, 1, n) \in Seq(Token) /\ Len(SubSeq(t, 1, n)) = n
<1>1. \A i \in 1 .. n : t[i] \in Token
  OBVIOUS
<1>2. 1 \in Int /\ n \in Int
  OBVIOUS
<1>3. /\ SubSeq(t, 1, n) \in Seq(Token)
      /\ Len(SubSeq(t, 1, n)) = IF 1 <= n THEN n - 1 + 1 ELSE 0
  BY <1>1, <1>2, SubSeqProperties
<1> QED
  BY <1>3

LEMMA PromptText ==
  ASSUME request \in Requests
  PROVE  /\ request.prompt \in Seq(Token) /\ Len(request.prompt) <= PrefillLen
         /\ request.budget \in Nat /\ request.protect \in BOOLEAN
         /\ request.mode \in {"hybrid", "slow"}
<1>1. /\ request.prompt \in Prompts /\ request.budget \in Budgets
      /\ request.protect \in BOOLEAN /\ request.mode \in {"hybrid", "slow"}
  BY Zenon DEF Requests
<1>2. request.prompt \in Seq(Token) /\ Len(request.prompt) \in 1 .. PrefillLen
  BY <1>1, InputAssumption
<1>3. request.budget \in Nat
  BY <1>1, InputAssumption
<1> QED
  BY <1>1, <1>2, <1>3, LayoutAssumption

\* While a call decodes, a graph sees every committed row.
LEMMA SeenRows ==
  ASSUME TypeOK, Capacity, Running
  PROVE  Visible = cache /\ \A q : Seen(q) = cache \o q
<1>1. cache \in Seq(Token) /\ ~torn /\ historyLen = Len(cache)
  BY DEF TypeOK, Capacity
<1>2. Len(cache) - historyLen + 1 = 1 /\ ~(historyLen > Len(cache))
  BY <1>1
<1>3. Visible = SubSeq(cache, 1, Len(cache))
  BY <1>1, <1>2 DEF Visible
<1>4. Visible = cache
  BY <1>1, <1>3, SubSeqFull
<1>5. cache # Unreadable
  BY <1>1, UnreadableAssumption
<1> QED
  BY <1>4, <1>5 DEF Seen

LEMMA CoherentRows ==
  TypeOK /\ Capacity /\ RowsFollowText => KvCoherent
<1> SUFFICES ASSUME TypeOK, Capacity, RowsFollowText  PROVE KvCoherent
  OBVIOUS
<1>1. Running => Visible = cache /\ Seen(pendingPbd) = cache \o pendingPbd
  BY SeenRows
<1> QED
  BY <1>1 DEF KvCoherent, RowsFollowText, Capacity, Running

------------------------------------------------------------------------------
(* Steps after which no loop is running *)

Stopped == phase' \in {"idle", "prefill", "fallback", "done", "failed"}

LEMMA StoppedInv ==
  ASSUME Stopped
  PROVE  Capacity' /\ BootstrapFresh' /\ RowsFollowText' /\ LogitsMatchText'
BY DEF Stopped, Capacity, BootstrapFresh, RowsFollowText, LogitsMatchText, Running

LEMMA Returns ==
  ASSUME NEW ok \in BOOLEAN, NEW reason \in StopReasons, HybridReturns(ok, reason)
  PROVE  /\ Stopped /\ phase' \in Phases
         /\ stopReason' \in StopReasons
         /\ UNCHANGED <<request, fallbackReason, abandoned>>
BY DEF HybridReturns, Stopped, Phases

\* The type invariant in three parts, for the provers' sake.
Flags == usePbd \in BOOLEAN /\ bootstrap \in BOOLEAN /\ torn \in BOOLEAN

Texts ==
  /\ response \in Seq(Token) /\ generated \in Seq(Token)
  /\ pendingPbd \in Seq(Token) /\ Len(pendingPbd) <= WindowSize
  /\ cache \in Seq(Token) /\ logits \in Seq(Token) \union {Unreadable}

Values ==
  /\ phase \in Phases /\ request \in Requests
  /\ starts \subseteq Nat /\ historyLen \in Nat
  /\ graph \in [name : {"pbd", "ar"} \X Nat, past : Nat]
  /\ stopReason \in StopReasons
  /\ fallbackReason \in StopReasons \union {"hybrid_failed"}
  /\ pbdAccepted \in Nat /\ arTokens \in Nat /\ abandoned \in Nat

LEMMA Parts == TypeOK <=> Flags /\ Texts /\ Values
BY Zenon DEF TypeOK, Flags, Texts, Values

\* Leaving the text alone leaves the accounts and the budget alone.
LEMMA TextKept ==
  ASSUME GenInv, UNCHANGED <<request, response, graph, pbdAccepted, arTokens, abandoned>>,
         phase' \notin {"idle", "prefill", "decide"}
  PROVE  GraphsInContract' /\ MetricsAccount' /\ FreshCall' /\ WithinBudget'
BY DEF GenInv, GraphsInContract, MetricsAccount, FreshCall, WithinBudget

\* An empty response is within every budget.
LEMMA NothingSpent ==
  ASSUME request' \in Requests, response' = <<>>, phase' # "decide"
  PROVE  WithinBudget'
<1>1. request'.budget \in Nat
  BY InputAssumption DEF Requests
<1> QED
  BY <1>1, EmptyText DEF WithinBudget

LEMMA InitInv ==
  Init => GenInv
<1> SUFFICES ASSUME Init  PROVE GenInv
  OBVIOUS
<1>1. graph = [name |-> <<"ar", 1>>, past |-> 0] /\ phase = "idle"
  BY DEF Init
<1>2. GraphsInContract
  BY <1>1, LayoutAssumption DEF GraphsInContract, DecodeGraphs
<1>3. TypeOK
  <2>1. Flags
    BY Zenon DEF Init, Flags
  <2>2. Texts
    <3>1. 0 <= WindowSize
      BY DEF WindowSize
    <3> QED
      BY <3>1, EmptyText, Zenon DEF Init, Texts
  <2>3. graph \in [name : {"pbd", "ar"} \X Nat, past : Nat]
    BY <1>1
  <2>4. Values
    BY <2>3 DEF Init, Values, Phases, StopReasons
  <2> QED
    BY <2>1, <2>2, <2>4, Parts
<1>4. MetricsAccount /\ FreshCall
  BY DEF Init, MetricsAccount, FreshCall
<1>5. WithinBudget
  <2>1. request.budget \in Nat
    BY <1>3, PromptText DEF TypeOK
  <2>2. response = <<>>
    BY DEF Init
  <2> QED
    BY <1>1, <2>1, <2>2, EmptyText DEF WithinBudget
<1> QED
  BY <1>1, <1>2, <1>3, <1>4, <1>5
     DEF GenInv, Capacity, BootstrapFresh, RowsFollowText, LogitsMatchText, Running

LEMMA StepGenerate ==
  ASSUME GenInv, NEW r \in Requests, Generate(r)
  PROVE  GenInv'
<1> USE DEF Generate, text, control, kv, outcome, counters
<1>1. Stopped
  BY DEF Stopped
<1>2. TypeOK'
  BY DEF GenInv, TypeOK, Phases
<1>3. GraphsInContract' /\ MetricsAccount' /\ FreshCall'
  BY DEF GenInv, GraphsInContract, MetricsAccount, FreshCall
<1>4. response' = <<>> /\ request' \in Requests /\ phase' # "decide"
  BY DEF GenInv, FreshCall
<1> QED
  BY <1>1, <1>2, <1>3, <1>4, StoppedInv, NothingSpent DEF GenInv

LEMMA StepPrefill ==
  ASSUME GenInv, Prefill
  PROVE  GenInv'
<1> USE DEF Prefill, SeedCache, outcome, counters
<1>1. /\ request \in Requests /\ request' = request
      /\ request.prompt \in Seq(Token) /\ Len(request.prompt) \in Nat
      /\ request.mode \in {"hybrid", "slow"}
      /\ Len(request.prompt) <= CacheLen
  BY PromptText, LayoutAssumption, SMTT(60) DEF GenInv, TypeOK
<1>2. request.prompt \o <<>> = request.prompt
  BY <1>1, EmptyText
<1>3. TypeOK'
  <2>1. Flags'
    BY Zenon DEF Flags, FusedInitialPbd
  <2>2. Texts'
    <3>1. 0 <= WindowSize
      BY DEF WindowSize
    <3> QED
      BY <1>1, <3>1, EmptyText, Zenon DEF Texts
  <2>3. Values'
    BY <1>1 DEF GenInv, TypeOK, Values, Phases
  <2> QED
    BY <2>1, <2>2, <2>3 DEF TypeOK, Flags, Texts, Values
<1>4. Capacity' /\ BootstrapFresh' /\ RowsFollowText' /\ LogitsMatchText'
  BY <1>1, <1>2 DEF Capacity, BootstrapFresh, RowsFollowText, LogitsMatchText, Running
<1>5. GraphsInContract'
  BY DEF GenInv, GraphsInContract
<1>6. MetricsAccount' /\ FreshCall'
  <2>1. response = <<>> /\ response' = <<>> /\ phase' \notin {"idle", "prefill"}
    BY <1>1 DEF GenInv, FreshCall
  <2> QED
    BY <2>1 DEF GenInv, MetricsAccount, FreshCall
<1>7. WithinBudget'
  BY <1>1, NothingSpent
<1> QED
  BY <1>3, <1>4, <1>5, <1>6, <1>7 DEF GenInv

LEMMA StepPrefillFails ==
  ASSUME GenInv, PrefillFails
  PROVE  GenInv'
<1> USE DEF PrefillFails, text, control, outcome, counters
<1>1. Stopped /\ phase' \notin {"idle", "prefill", "decide"}
  BY DEF Stopped
<1>2. torn' \in BOOLEAN
  BY Zenon DEF GenInv, TypeOK
<1>3. TypeOK'
  BY <1>2 DEF GenInv, TypeOK, Phases
<1>4. GraphsInContract' /\ MetricsAccount' /\ FreshCall' /\ WithinBudget'
  BY <1>1, TextKept
<1> QED
  BY <1>1, <1>3, <1>4, StoppedInv DEF GenInv

LEMMA StepFallbackFails ==
  ASSUME GenInv, FallbackFails
  PROVE  GenInv'
<1> USE DEF FallbackFails, text, control, outcome, counters
<1>1. Stopped /\ phase' \notin {"idle", "prefill", "decide"}
  BY DEF Stopped
<1>2. torn' \in BOOLEAN
  BY Zenon DEF GenInv, TypeOK
<1>3. TypeOK'
  BY <1>2 DEF GenInv, TypeOK, Phases
<1>4. GraphsInContract' /\ MetricsAccount' /\ FreshCall' /\ WithinBudget'
  BY <1>1, TextKept
<1> QED
  BY <1>1, <1>3, <1>4, StoppedInv DEF GenInv

LEMMA StepFallback ==
  ASSUME GenInv, Fallback
  PROVE  GenInv'
<1>1. /\ phase' = "slow" /\ request' = request /\ UNCHANGED <<usePbd, bootstrap, graph>>
      /\ cache' = request.prompt /\ ~torn' /\ historyLen' = Len(request.prompt)
      /\ response' = <<>> /\ generated' = request.prompt /\ starts' = {}
      /\ pendingPbd' = pendingPbd /\ logits' = request.prompt
      /\ stopReason' = "" /\ torn' \in BOOLEAN
  BY Zenon DEF Fallback, SeedCache, control
<1>2. /\ fallbackReason' \in {"hybrid_failed", stopReason}
      /\ UNCHANGED <<pbdAccepted, arTokens>>
      /\ abandoned' = abandoned + Len(response)
  BY Zenon DEF Fallback
<1>3. /\ request \in Requests
      /\ request.prompt \in Seq(Token) /\ Len(request.prompt) \in Nat
      /\ Len(request.prompt) <= CacheLen /\ request.prompt \o <<>> = request.prompt
  BY PromptText, EmptyText, LayoutAssumption DEF GenInv, TypeOK
<1>4. /\ Len(response) \in Nat
      /\ abandoned \in Nat /\ arTokens \in Nat /\ pbdAccepted \in Nat
      /\ stopReason \in StopReasons
      /\ pbdAccepted + arTokens = Len(response) + abandoned
  <2>1. TypeOK /\ MetricsAccount
    BY Zenon DEF GenInv
  <2> QED
    BY <2>1 DEF TypeOK, MetricsAccount
<1>5. TypeOK'
  <2>1. Flags'
    BY <1>1, Zenon DEF GenInv, TypeOK, Flags
  <2>2. Texts'
    BY <1>1, <1>3, EmptyText, Zenon DEF GenInv, TypeOK, Texts
  <2>3. fallbackReason' \in StopReasons \union {"hybrid_failed"}
    BY <1>2, <1>4
  <2>4. graph' \in [name : {"pbd", "ar"} \X Nat, past : Nat]
    BY <1>1, Zenon DEF GenInv, TypeOK
  <2>5. abandoned' \in Nat /\ pbdAccepted' \in Nat /\ arTokens' \in Nat
    BY <1>2, <1>4
  <2>6. Values'
    BY <1>1, <1>3, <2>3, <2>4, <2>5 DEF Values, Phases, StopReasons
  <2> QED
    BY <2>1, <2>2, <2>6 DEF TypeOK, Flags, Texts, Values
<1>6. Capacity' /\ BootstrapFresh' /\ RowsFollowText' /\ LogitsMatchText'
  BY <1>1, <1>3 DEF Capacity, BootstrapFresh, RowsFollowText, LogitsMatchText, Running
<1>7. GraphsInContract'
  BY <1>1 DEF GenInv, GraphsInContract
<1>8. MetricsAccount' /\ FreshCall'
  <2>1. Len(response') = 0
    BY <1>1, EmptyText
  <2> QED
    <3>1. pbdAccepted' + arTokens' = abandoned'
      BY <1>2, <1>4
    <3>2. abandoned' \in Nat
      BY <1>2, <1>4
    <3>3. pbdAccepted' + arTokens' = Len(response') + abandoned'
      BY <2>1, <3>1, <3>2
    <3> QED
      BY <1>1, <3>3, Zenon DEF MetricsAccount, FreshCall
<1>9. WithinBudget'
  BY <1>1, <1>3, NothingSpent
<1> QED
  BY <1>5, <1>6, <1>7, <1>8, <1>9 DEF GenInv

------------------------------------------------------------------------------
(* Steps of the hybrid loop that leave it *)

LEMMA StepLoopEnds ==
  ASSUME GenInv, LoopEnds
  PROVE  GenInv'
<1>1. \E reason \in StopReasons : HybridReturns(TRUE, reason)
  BY DEF LoopEnds, StopReasons
<1>2. /\ Stopped /\ phase' \in Phases /\ phase' \notin {"idle", "prefill", "decide"}
      /\ stopReason' \in StopReasons
      /\ UNCHANGED <<request, fallbackReason, abandoned>>
  BY <1>1, Returns DEF HybridReturns
<1>3. UNCHANGED <<text, control, kv, logits, graph, pbdAccepted, arTokens>>
  BY DEF LoopEnds
<1>4. TypeOK'
  BY <1>2, <1>3 DEF GenInv, TypeOK, text, control, kv
<1>5. GraphsInContract' /\ MetricsAccount' /\ FreshCall' /\ WithinBudget'
  BY <1>2, <1>3, TextKept DEF text
<1> QED
  BY <1>2, <1>4, <1>5, StoppedInv DEF GenInv

LEMMA StepRepeatedBox ==
  ASSUME GenInv, NEW d, RepeatedBox(d)
  PROVE  GenInv'
<1>1. HybridReturns(TRUE, "repeated_box")
  BY DEF RepeatedBox
<1>2. /\ Stopped /\ phase' \in Phases /\ phase' \notin {"idle", "prefill", "decide"}
      /\ stopReason' \in StopReasons
      /\ UNCHANGED <<request, fallbackReason, abandoned>>
  BY <1>1, Returns DEF HybridReturns, StopReasons
<1>3. UNCHANGED <<text, usePbd, bootstrap, kv, logits, graph, pbdAccepted, arTokens>>
  BY DEF RepeatedBox
<1>4. pendingPbd' \in Seq(Token) /\ Len(pendingPbd') <= WindowSize
  BY EmptyText DEF RepeatedBox, WindowSize
<1>5. TypeOK'
  BY <1>2, <1>3, <1>4 DEF GenInv, TypeOK, text, kv
<1>6. GraphsInContract' /\ MetricsAccount' /\ FreshCall' /\ WithinBudget'
  BY <1>2, <1>3, TextKept DEF text
<1> QED
  BY <1>2, <1>5, <1>6, StoppedInv DEF GenInv

LEMMA StepEndOfText ==
  ASSUME GenInv, NEW d, Decided(d), EndOfText(d)
  PROVE  GenInv'
<1>1. HybridReturns(TRUE, "im_end") /\ d.tokens = <<ImEnd>>
  BY DEF EndOfText, Decided
<1>2. /\ Stopped /\ phase' \in Phases /\ phase' \notin {"idle", "prefill", "decide"}
      /\ stopReason' \in StopReasons
      /\ UNCHANGED <<request, fallbackReason, abandoned>>
  BY <1>1, Returns DEF HybridReturns, StopReasons
<1>3. /\ UNCHANGED <<starts, usePbd, bootstrap, kv, logits, graph, arTokens>>
      /\ response' = response \o d.tokens /\ generated' = generated \o d.tokens
      /\ pbdAccepted' = pbdAccepted + 1
      /\ pendingPbd' = <<>>
  BY <1>1 DEF EndOfText, Push
<1>4. d.tokens \in Seq(Token) /\ Len(d.tokens) = 1
  BY <1>1 DEF Decided
<1>5. response \in Seq(Token) /\ generated \in Seq(Token) /\ Len(response) \in Nat
  BY DEF GenInv, TypeOK
<1>6. /\ response' \in Seq(Token) /\ Len(response') = Len(response) + 1
      /\ generated' \in Seq(Token)
  BY <1>3, <1>4, <1>5, Concat, ZenonT(60)
<1>7. pendingPbd' \in Seq(Token) /\ Len(pendingPbd') <= WindowSize
  BY <1>3, EmptyText DEF WindowSize
<1>8. /\ pbdAccepted \in Nat /\ arTokens \in Nat /\ abandoned \in Nat
      /\ request.budget \in Nat /\ Len(response) < request.budget
  BY PromptText DEF GenInv, TypeOK, WithinBudget, EndOfText
<1>9. TypeOK'
  BY <1>2, <1>3, <1>6, <1>7, <1>8 DEF GenInv, TypeOK, kv
<1>10. MetricsAccount' /\ WithinBudget'
  BY <1>2, <1>3, <1>5, <1>6, <1>8, SMTT(60) DEF GenInv, MetricsAccount, WithinBudget
<1>11. GraphsInContract' /\ FreshCall'
  BY <1>2, <1>3 DEF GenInv, GraphsInContract, FreshCall
<1> QED
  BY <1>2, <1>9, <1>10, <1>11, StoppedInv DEF GenInv

LEMMA StepTruncate ==
  ASSUME GenInv, NEW d, Decided(d), Truncate(d)
  PROVE  GenInv'
<1> DEFINE cut == SubSeq(d.tokens, 1, Remaining)
<1>1. HybridReturns(TRUE, "max_new_tokens")
  BY DEF Truncate
<1>2. /\ Stopped /\ phase' \in Phases /\ phase' \notin {"idle", "prefill", "decide"}
      /\ stopReason' \in StopReasons
      /\ UNCHANGED <<request, fallbackReason, abandoned>>
  BY <1>1, Returns DEF HybridReturns, StopReasons
<1>3. /\ UNCHANGED <<generated, starts, usePbd, bootstrap, kv, logits, graph, arTokens>>
      /\ response' = response \o cut
      /\ pbdAccepted' = pbdAccepted + Remaining
      /\ pendingPbd' = <<>>
  BY DEF Truncate
<1>4. d.tokens \in Seq(Token) /\ Len(d.tokens) \in Nat /\ Len(d.tokens) > Remaining
  BY DEF Decided, Truncate
<1>5. response \in Seq(Token) /\ Len(response) \in Nat /\ request.budget \in Nat
  BY PromptText DEF GenInv, TypeOK
<1>6. Remaining \in Nat /\ Remaining > 0 /\ Len(response) + Remaining = request.budget
  BY <1>5 DEF GenInv, WithinBudget, Truncate, Deciding, Remaining
<1>7. cut \in Seq(Token) /\ Len(cut) = Remaining
  BY <1>4, <1>6, PrefixText
<1> HIDE DEF cut
<1>8. response' \in Seq(Token) /\ Len(response') = Len(response) + Remaining
  BY <1>3, <1>5, <1>7, Concat
<1>9. pendingPbd' \in Seq(Token) /\ Len(pendingPbd') <= WindowSize
  BY <1>3, EmptyText DEF WindowSize
<1>10. pbdAccepted \in Nat /\ arTokens \in Nat /\ abandoned \in Nat
  BY DEF GenInv, TypeOK
<1>11. pbdAccepted' \in Nat
  BY <1>3, <1>6, <1>10
<1>12. TypeOK'
  BY <1>2, <1>3, <1>8, <1>9, <1>11 DEF GenInv, TypeOK, kv
<1>13. MetricsAccount' /\ WithinBudget'
  <2>1. pbdAccepted + arTokens = Len(response) + abandoned
    BY DEF GenInv, MetricsAccount
  <2>2. pbdAccepted' + arTokens' = Len(response') + abandoned'
    <3>1. pbdAccepted' = pbdAccepted + Remaining /\ UNCHANGED <<arTokens, abandoned>>
      BY <1>2, <1>3
    <3> HIDE DEF Remaining
    <3> QED
      BY <2>1, <3>1, <1>5, <1>6, <1>8, <1>10
  <2>3. Len(response') <= request'.budget
    BY <1>2, <1>5, <1>6, <1>8
  <2> QED
    BY <1>2, <2>2, <2>3 DEF MetricsAccount, WithinBudget
<1>14. GraphsInContract' /\ FreshCall'
  BY <1>2, <1>3 DEF GenInv, GraphsInContract, FreshCall
<1> QED
  BY <1>2, <1>12, <1>13, <1>14, StoppedInv DEF GenInv

------------------------------------------------------------------------------
(* Steps of the hybrid loop that stay in it *)

LEMMA StepBootstrap ==
  ASSUME GenInv, Bootstrap
  PROVE  GenInv'
<1>1. /\ phase = "hybrid" /\ phase' = "decide" /\ ~bootstrap' /\ bootstrap' \in BOOLEAN
      /\ Remaining > 0 /\ historyLen < CacheLen /\ RoomForWindow
      /\ pendingPbd = <<>> /\ bootstrap
      /\ UNCHANGED <<request, text, pendingPbd, usePbd, kv, logits, graph, outcome, counters>>
  BY Zenon DEF Bootstrap, Looping
<1>2. TypeOK'
  BY <1>1 DEF GenInv, TypeOK, Phases, text, kv, outcome, counters
<1>3. FreshCall' /\ GraphsInContract' /\ MetricsAccount'
  BY <1>1 DEF GenInv, FreshCall, GraphsInContract, MetricsAccount, text, counters
<1>4. historyLen + WindowSize <= CacheLen
  <2>1. historyLen + 0 + WindowSize <= CacheLen
    BY <1>1, EmptyText DEF RoomForWindow
  <2> QED
    BY <2>1 DEF GenInv, TypeOK, WindowSize
<1>5. Capacity' /\ BootstrapFresh'
  BY <1>1, <1>4 DEF GenInv, Capacity, BootstrapFresh, Running, kv
<1>6. logits = generated /\ cache = generated /\ generated = request.prompt \o response
  <2>1. logits = generated /\ cache \o <<>> = generated /\ cache \in Seq(Token)
        /\ generated = request.prompt \o response
    BY <1>1 DEF GenInv, BootstrapFresh, RowsFollowText, TypeOK, Running
  <2> QED
    BY <2>1, EmptyText
<1>7. RowsFollowText' /\ LogitsMatchText'
  BY <1>1, <1>6 DEF RowsFollowText, LogitsMatchText, Running, text, kv
<1>8. WithinBudget'
  <2>1. Len(response) \in Nat /\ request.budget \in Nat
    BY PromptText DEF GenInv, TypeOK
  <2> QED
    BY <1>1, <2>1 DEF GenInv, WithinBudget, Remaining, text
<1> QED
  BY <1>2, <1>3, <1>5, <1>7, <1>8 DEF GenInv

\* A graph of the contract is launched where its query still fits.
LEMMA LaunchInContract ==
  ASSUME NEW name \in DecodeGraphs, Launch(name), historyLen + name[2] <= CacheLen
  PROVE  GraphsInContract' /\ graph' = [name |-> name, past |-> historyLen]
BY DEF Launch, GraphsInContract

LEMMA GraphNames ==
  /\ \A n \in 0 .. 6 : PbdGraph(n) \in DecodeGraphs /\ PbdGraph(n)[2] = n + 6
  /\ \A n \in 1 .. 5 : ArGraph(n) \in DecodeGraphs /\ ArGraph(n)[2] = n
  /\ DecodeGraphs \subseteq {"pbd", "ar"} \X Nat
BY DEF PbdGraph, ArGraph, DecodeGraphs, WindowSize

\* A commit keeps the cache as long as the loop believes it is.
LEMMA Committed ==
  ASSUME TypeOK, Capacity, Running, NEW rows \in Seq(Token), Commit(rows)
  PROVE  /\ cache' = cache \o rows /\ cache' \in Seq(Token)
         /\ historyLen' = Len(cache') /\ historyLen' = historyLen + Len(rows)
         /\ historyLen' <= CacheLen /\ historyLen' \in Nat
         /\ ~torn' /\ torn' \in BOOLEAN
<1>1. cache \in Seq(Token) /\ historyLen = Len(cache) /\ ~torn /\ torn \in BOOLEAN
      /\ historyLen \in Nat /\ Len(rows) \in Nat
  BY DEF TypeOK, Capacity
<1>2. cache' = cache \o rows /\ historyLen' = historyLen + Len(rows) /\ torn' = torn
      /\ historyLen + Len(rows) <= CacheLen
  BY DEF Commit
<1>3. cache \o rows \in Seq(Token) /\ Len(cache \o rows) = Len(cache) + Len(rows)
  BY <1>1, Concat
<1> QED
  BY <1>1, <1>2, <1>3

\* A broken graph leaves the hybrid run.
LEMMA Broken ==
  ASSUME TypeOK, NEW rows, BreakDown(rows), HybridReturns(FALSE, stopReason)
  PROVE  /\ UNCHANGED <<cache, historyLen>> /\ torn' \in BOOLEAN
         /\ Stopped /\ phase' \in Phases /\ phase' \notin {"idle", "prefill", "decide"}
         /\ stopReason' \in StopReasons
         /\ UNCHANGED <<request, fallbackReason, abandoned>>
<1>1. stopReason \in StopReasons
  BY DEF TypeOK
<1>2. torn' \in BOOLEAN
  <2>1. torn \in BOOLEAN
    BY Zenon DEF TypeOK
  <2> QED
    BY <2>1, Zenon DEF BreakDown
<1> QED
  BY <1>1, <1>2, Returns DEF HybridReturns, BreakDown

LEMMA StepRunWindow ==
  ASSUME GenInv, RunWindow
  PROVE  GenInv'
<1> DEFINE n == Len(pendingPbd)
<1>1. /\ phase = "hybrid" /\ Remaining > 0 /\ historyLen < CacheLen /\ RoomForWindow
      /\ Launch(PbdGraph(n)) /\ UNCHANGED <<text, control>>
  BY Zenon DEF RunWindow, Looping
<1>2. /\ pendingPbd \in Seq(Token) /\ n \in 0 .. 6 /\ historyLen \in Nat /\ CacheLen \in Nat
      /\ historyLen + n + 6 <= CacheLen
  <2>1. pendingPbd \in Seq(Token) /\ n \in Nat /\ n <= 6 /\ historyLen \in Nat
    BY DEF GenInv, TypeOK, WindowSize
  <2>2. historyLen + n + 6 <= CacheLen
    BY <1>1, Zenon DEF RoomForWindow, WindowSize
  <2> HIDE DEF n
  <2> QED
    BY <2>1, <2>2, LayoutAssumption
<1> HIDE DEF n
<1>3. GraphsInContract' /\ graph' \in [name : {"pbd", "ar"} \X Nat, past : Nat]
  <2>1. PbdGraph(n) \in DecodeGraphs /\ PbdGraph(n)[2] = n + 6
    BY <1>2, GraphNames
  <2>2. historyLen + PbdGraph(n)[2] <= CacheLen
    BY <1>2, <2>1
  <2>3. GraphsInContract' /\ graph' = [name |-> PbdGraph(n), past |-> historyLen]
    BY <1>1, <2>1, <2>2, LaunchInContract
  <2> QED
    BY <1>2, <2>1, <2>3, GraphNames
<1>4. CASE /\ logits' = Seen(pendingPbd) /\ Commit(pendingPbd) /\ phase' = "decide"
           /\ UNCHANGED <<request, outcome, counters>>
  <2>1. /\ cache' = cache \o pendingPbd /\ cache' \in Seq(Token)
        /\ historyLen' = Len(cache') /\ historyLen' = historyLen + n
        /\ historyLen' <= CacheLen /\ historyLen' \in Nat
        /\ ~torn' /\ torn' \in BOOLEAN
    BY <1>1, <1>2, <1>4, Committed DEF GenInv, Running, n
  <2>2. /\ logits' = cache \o pendingPbd
    BY <1>1, <1>4, SeenRows DEF GenInv, Running
  <2>3. cache \o pendingPbd = generated /\ generated = request.prompt \o response
    BY <1>1 DEF GenInv, RowsFollowText, Running
  <2>4. logits' \in Seq(Token) /\ phase' \in Phases
    BY <1>4, <2>1, <2>2 DEF Phases
  <2>5. TypeOK'
    BY <1>1, <1>2, <1>3, <1>4, <2>1, <2>4
       DEF GenInv, TypeOK, text, control, outcome, counters
  <2>6. FreshCall' /\ MetricsAccount'
    BY <1>1, <1>4 DEF GenInv, FreshCall, MetricsAccount, text, counters
  <2>7. historyLen' + WindowSize <= CacheLen
    BY <1>2, <2>1 DEF WindowSize
  <2>8. Capacity'
    BY <1>4, <2>1, <2>7 DEF Capacity, Running
  <2>9. BootstrapFresh'
    <3>1. bootstrap => pendingPbd = <<>>
      BY <1>1 DEF GenInv, BootstrapFresh
    <3>2. (pendingPbd # <<>> \/ ~bootstrap) /\ usePbd
      BY DEF RunWindow
    <3> QED
      BY <1>1, <1>4, <3>1, <3>2 DEF BootstrapFresh, control
  <2>10. RowsFollowText' /\ LogitsMatchText'
    BY <1>1, <1>4, <2>1, <2>2, <2>3 DEF RowsFollowText, LogitsMatchText, Running, text
  <2>11. WithinBudget'
    <3>1. Len(response) \in Nat /\ request.budget \in Nat
      BY PromptText DEF GenInv, TypeOK
    <3> QED
      BY <1>1, <1>4, <3>1 DEF GenInv, WithinBudget, Remaining, text
  <2> QED
    BY <1>3, <2>5, <2>6, <2>8, <2>9, <2>10, <2>11 DEF GenInv
<1>5. CASE /\ BreakDown(pendingPbd) /\ HybridReturns(FALSE, stopReason)
           /\ UNCHANGED <<logits, pbdAccepted, arTokens>>
  <2>1. /\ UNCHANGED <<cache, historyLen>> /\ torn' \in BOOLEAN
        /\ Stopped /\ phase' \in Phases /\ phase' \notin {"idle", "prefill", "decide"}
        /\ stopReason' \in StopReasons
        /\ UNCHANGED <<request, fallbackReason, abandoned>>
    BY <1>5, Broken DEF GenInv
  <2>2. TypeOK'
    BY <1>1, <1>3, <1>5, <2>1 DEF GenInv, TypeOK, text, control
  <2>3. MetricsAccount' /\ FreshCall' /\ WithinBudget'
    BY <1>1, <1>5, <2>1 DEF GenInv, MetricsAccount, FreshCall, WithinBudget, text
  <2> QED
    BY <1>3, <2>1, <2>2, <2>3, StoppedInv DEF GenInv
<1> QED
  BY <1>4, <1>5 DEF RunWindow

LEMMA StepAcceptWindow ==
  ASSUME GenInv, NEW d, Decided(d), AcceptWindow(d)
  PROVE  GenInv'
<1> DEFINE t == d.tokens
           n == Len(d.tokens)
<1>1. /\ phase = "decide" /\ phase' = "hybrid" /\ n <= Remaining
      /\ response' = response \o t /\ generated' = generated \o t
      /\ starts' = starts \union {Len(response) + 1}
      /\ pbdAccepted' = pbdAccepted + n /\ pendingPbd' = t
      /\ UNCHANGED <<request, usePbd, bootstrap, kv, logits, graph, outcome, arTokens,
                     abandoned>>
  BY Zenon DEF AcceptWindow, Acceptable, Deciding, Push
<1>2. t \in Seq(Token) /\ n = Len(t) /\ n \in Nat /\ n <= WindowSize
  BY DecidedTokens, Zenon
<1> HIDE DEF t, n
<1>3. /\ response \in Seq(Token) /\ generated \in Seq(Token) /\ Len(response) \in Nat
      /\ request.prompt \in Seq(Token) /\ request.budget \in Nat
      /\ starts \subseteq Nat
  BY PromptText DEF GenInv, TypeOK
<1>4. /\ response' \in Seq(Token) /\ Len(response') = Len(response) + n
      /\ generated' \in Seq(Token)
  BY <1>1, <1>2, <1>3, Concat
<1>5. /\ pbdAccepted \in Nat /\ arTokens \in Nat /\ abandoned \in Nat
      /\ pbdAccepted + arTokens = Len(response) + abandoned
      /\ pbdAccepted' = pbdAccepted + n /\ UNCHANGED <<arTokens, abandoned>>
  BY <1>1 DEF GenInv, TypeOK, MetricsAccount
<1>6. TypeOK'
  <2>1. pbdAccepted' \in Nat /\ starts' \subseteq Nat
    <3>1. pbdAccepted' \in Nat
      BY <1>2, <1>5
    <3>2. Len(response) + 1 \in Nat
      BY <1>3
    <3> QED
      BY <1>1, <1>3, <3>1, <3>2
  <2>2. usePbd' \in BOOLEAN
    BY <1>1, Zenon DEF GenInv, TypeOK
  <2> QED
    BY <1>1, <1>2, <1>4, <2>1, <2>2 DEF GenInv, TypeOK, Phases, kv, outcome
<1>7. MetricsAccount'
  <2>1. pbdAccepted' + arTokens' = Len(response') + abandoned'
    <3>1. Len(response') = Len(response) + n /\ Len(response) \in Nat /\ n \in Nat
      BY <1>2, <1>3, <1>4
    <3> QED
      BY <1>5, <3>1
  <2> QED
    BY <2>1 DEF MetricsAccount
<1>8. WithinBudget'
  <2>1. Len(response') <= request'.budget
    BY <1>1, <1>2, <1>3, <1>4 DEF Remaining
  <2> QED
    BY <1>1, <2>1 DEF WithinBudget
<1>9. FreshCall' /\ GraphsInContract'
  BY <1>1 DEF GenInv, FreshCall, GraphsInContract
<1>10. cache = generated /\ generated = request.prompt \o response
  BY <1>1 DEF GenInv, RowsFollowText, Running
<1>11. generated' = request.prompt \o response'
  <2>1. (request.prompt \o response) \o t = request.prompt \o (response \o t)
    BY <1>2, <1>3, Associative
  <2> QED
    BY <1>1, <1>10, <2>1
<1>12. ~bootstrap /\ usePbd
  BY <1>1 DEF GenInv, BootstrapFresh
<1>13. RowsFollowText' /\ LogitsMatchText'
  BY <1>1, <1>10, <1>11, <1>12 DEF RowsFollowText, LogitsMatchText, Running, kv
<1>14. Capacity' /\ BootstrapFresh'
  BY <1>1, <1>12 DEF GenInv, Capacity, BootstrapFresh, Running, kv
<1> QED
  BY <1>6, <1>7, <1>8, <1>9, <1>13, <1>14 DEF GenInv

LEMMA StepSwitchToAr ==
  ASSUME GenInv, NEW d, Decided(d), SwitchToAr(d)
  PROVE  GenInv'
<1> DEFINE t == d.tokens
           n == Len(d.tokens)
<1>1. /\ phase = "decide" /\ n <= Remaining /\ d.ar
      /\ pendingPbd' = <<>> /\ Launch(ArGraph(n)) /\ UNCHANGED <<bootstrap, arTokens>>
  BY Zenon DEF SwitchToAr, Acceptable, Deciding
<1>2. t \in Seq(Token) /\ n = Len(t) /\ n \in Nat /\ n >= 1 /\ n <= 5
  BY <1>1, DecidedTokens, Zenon
<1>3. \/ /\ logits' = Seen(t) /\ Commit(t) /\ ~usePbd' /\ usePbd' \in BOOLEAN
         /\ response' = response \o t /\ generated' = generated \o t
         /\ starts' = starts \union {Len(response) + 1}
         /\ pbdAccepted' = pbdAccepted + n
         /\ phase' = "hybrid" /\ UNCHANGED <<request, outcome, abandoned>>
      \/ /\ BreakDown(t) /\ HybridReturns(FALSE, stopReason)
         /\ UNCHANGED <<logits, usePbd, text, pbdAccepted>>
  BY Zenon DEF SwitchToAr, Push
<1> HIDE DEF t, n
<1>4. /\ response \in Seq(Token) /\ generated \in Seq(Token) /\ Len(response) \in Nat
      /\ request.prompt \in Seq(Token) /\ request.budget \in Nat
      /\ starts \subseteq Nat /\ historyLen \in Nat /\ historyLen + 6 <= CacheLen
      /\ CacheLen \in Nat /\ cache = generated /\ generated = request.prompt \o response
      /\ ~bootstrap
  BY <1>1, PromptText, LayoutAssumption, SMTT(60)
     DEF GenInv, TypeOK, Capacity, WindowSize, RowsFollowText, Running, BootstrapFresh
<1>5. GraphsInContract' /\ graph' \in [name : {"pbd", "ar"} \X Nat, past : Nat]
  <2>1. ArGraph(n) \in DecodeGraphs /\ ArGraph(n)[2] = n
    <3>1. n \in 1 .. 5
      BY <1>2
    <3> QED
      BY <3>1, GraphNames, Zenon
  <2>2. historyLen + ArGraph(n)[2] <= CacheLen
    BY <1>2, <1>4, <2>1
  <2>3. GraphsInContract' /\ graph' = [name |-> ArGraph(n), past |-> historyLen]
    BY <1>1, <2>1, <2>2, LaunchInContract
  <2> QED
    BY <1>4, <2>1, <2>3, GraphNames
<1>6. pendingPbd' \in Seq(Token) /\ Len(pendingPbd') <= WindowSize
  BY <1>1, EmptyText DEF WindowSize
<1>7. CASE /\ logits' = Seen(t) /\ Commit(t) /\ ~usePbd' /\ usePbd' \in BOOLEAN
           /\ response' = response \o t /\ generated' = generated \o t
           /\ starts' = starts \union {Len(response) + 1}
           /\ pbdAccepted' = pbdAccepted + n
           /\ phase' = "hybrid" /\ UNCHANGED <<request, outcome, abandoned>>
  <2>1. /\ cache' = cache \o t /\ cache' \in Seq(Token)
        /\ historyLen' = Len(cache') /\ historyLen' <= CacheLen /\ historyLen' \in Nat
        /\ ~torn' /\ torn' \in BOOLEAN
    BY <1>1, <1>2, <1>7, Committed DEF GenInv, Running
  <2>2. logits' = cache \o t
    BY <1>1, <1>7, SeenRows DEF GenInv, Running
  <2>3. /\ response' \in Seq(Token) /\ Len(response') = Len(response) + n
        /\ generated' \in Seq(Token)
    BY <1>2, <1>4, <1>7, Concat
  <2>4. generated' = request.prompt \o response'
    BY <1>2, <1>4, <1>7, Associative, ZenonT(60)
  <2>5. cache' = generated' /\ logits' = generated' /\ cache' \o <<>> = generated'
    BY <1>4, <1>7, <2>1, <2>2, EmptyText
  <2>6. /\ pbdAccepted \in Nat /\ arTokens \in Nat /\ abandoned \in Nat
        /\ pbdAccepted + arTokens = Len(response) + abandoned
        /\ pbdAccepted' = pbdAccepted + n /\ UNCHANGED <<arTokens, abandoned>>
    BY <1>1, <1>7 DEF GenInv, TypeOK, MetricsAccount
  <2>7. pbdAccepted' \in Nat /\ pbdAccepted' + arTokens' = Len(response') + abandoned'
    <3>1. Len(response') = Len(response) + n /\ Len(response) \in Nat /\ n \in Nat
      BY <1>2, <1>4, <2>3
    <3> QED
      BY <2>6, <3>1
  <2>8. Len(response') <= request.budget
    <3>1. Len(response') = Len(response) + n /\ n <= request.budget - Len(response)
      BY <1>1, <2>3 DEF Remaining
    <3> QED
      BY <1>2, <1>4, <3>1
  <2>9. TypeOK'
    <3>1. starts' \subseteq Nat
      <4>1. Len(response) + 1 \in Nat
        BY <1>4
      <4> QED
        BY <1>4, <1>7, <4>1
    <3>2. phase' \in Phases
      BY <1>7 DEF Phases
    <3> QED
      BY <1>1, <1>5, <1>6, <1>7, <2>1, <2>3, <2>5, <2>7, <3>1, <3>2
         DEF GenInv, TypeOK, outcome
  <2>10. FreshCall' /\ WithinBudget' /\ MetricsAccount'
    BY <1>7, <2>7, <2>8 DEF FreshCall, WithinBudget, MetricsAccount
  <2>11. Capacity' /\ BootstrapFresh'
    BY <1>1, <1>4, <1>7, <2>1 DEF Capacity, BootstrapFresh, Running
  <2>12. RowsFollowText' /\ LogitsMatchText'
    BY <1>1, <1>7, <2>4, <2>5 DEF RowsFollowText, LogitsMatchText, Running
  <2> QED
    BY <1>5, <2>9, <2>10, <2>11, <2>12 DEF GenInv
<1>8. CASE /\ BreakDown(t) /\ HybridReturns(FALSE, stopReason)
           /\ UNCHANGED <<logits, usePbd, text, pbdAccepted>>
  <2>1. /\ UNCHANGED <<cache, historyLen>> /\ torn' \in BOOLEAN
        /\ Stopped /\ phase' \in Phases /\ phase' \notin {"idle", "prefill", "decide"}
        /\ stopReason' \in StopReasons
        /\ UNCHANGED <<request, fallbackReason, abandoned>>
    BY <1>8, Broken DEF GenInv
  <2>2. TypeOK'
    BY <1>1, <1>5, <1>6, <1>8, <2>1 DEF GenInv, TypeOK, text
  <2>3. MetricsAccount' /\ FreshCall' /\ WithinBudget'
    BY <1>1, <1>8, <2>1 DEF GenInv, MetricsAccount, FreshCall, WithinBudget, text
  <2> QED
    BY <1>5, <2>1, <2>2, <2>3, StoppedInv DEF GenInv
<1> QED
  BY <1>3, <1>7, <1>8

------------------------------------------------------------------------------
(* One token at a time *)

\* A single token, from the detour or from the slow loop, keeps the accounts.
LEMMA OneToken ==
  ASSUME GenInv, NEW t \in Token, Push(<<t>>), Remaining > 0, phase' # "decide",
         arTokens' = arTokens + 1, UNCHANGED <<request, pbdAccepted, abandoned>>
  PROVE  /\ response' \in Seq(Token) /\ generated' \in Seq(Token) /\ arTokens' \in Nat
         /\ MetricsAccount' /\ WithinBudget'
         /\ generated = request.prompt \o response => generated' = request.prompt \o response'
<1>1. /\ response \in Seq(Token) /\ generated \in Seq(Token) /\ Len(response) \in Nat
      /\ request.prompt \in Seq(Token) /\ request.budget \in Nat
      /\ pbdAccepted \in Nat /\ arTokens \in Nat /\ abandoned \in Nat
      /\ pbdAccepted + arTokens = Len(response) + abandoned
  BY PromptText DEF GenInv, TypeOK, MetricsAccount
<1>2. <<t>> \in Seq(Token) /\ Len(<<t>>) = 1
  BY Single
<1>3. response' = response \o <<t>> /\ generated' = generated \o <<t>>
  BY DEF Push
<1>4. /\ response' \in Seq(Token) /\ Len(response') = Len(response) + 1
      /\ generated' \in Seq(Token)
  BY <1>1, <1>2, <1>3, Concat
<1>5. generated = request.prompt \o response => generated' = request.prompt \o response'
  <2>1. (request.prompt \o response) \o <<t>> = request.prompt \o (response \o <<t>>)
    BY <1>1, <1>2, Associative
  <2> QED
    BY <1>3, <2>1, Zenon
<1>6. arTokens' \in Nat /\ pbdAccepted' + arTokens' = Len(response') + abandoned'
  <2>1. Len(response') = Len(response) + 1
    BY <1>4
  <2>2. arTokens' = arTokens + 1 /\ pbdAccepted' = pbdAccepted /\ abandoned' = abandoned
    OBVIOUS
  <2>3. /\ pbdAccepted \in Nat /\ arTokens \in Nat /\ abandoned \in Nat
        /\ Len(response) \in Nat /\ pbdAccepted + arTokens = Len(response) + abandoned
    BY <1>1
  <2> QED
    BY <2>1, <2>2, <2>3
<1>7. Len(response') <= request'.budget
  BY <1>1, <1>4 DEF Remaining
<1> QED
  BY <1>4, <1>5, <1>6, <1>7 DEF MetricsAccount, WithinBudget

\* The one-token graph is launched where a row is left.
LEMMA OneTokenGraph ==
  ASSUME TypeOK, Launch(ArGraph(1)), historyLen < CacheLen
  PROVE  GraphsInContract' /\ graph' \in [name : {"pbd", "ar"} \X Nat, past : Nat]
<1>1. ArGraph(1) \in DecodeGraphs /\ ArGraph(1)[2] = 1
  BY GraphNames
<1>2. historyLen \in Nat /\ CacheLen \in Nat
  BY LayoutAssumption DEF TypeOK
<1>3. historyLen + ArGraph(1)[2] <= CacheLen
  BY <1>1, <1>2
<1>4. GraphsInContract' /\ graph' = [name |-> ArGraph(1), past |-> historyLen]
  BY <1>1, <1>3, LaunchInContract
<1> QED
  BY <1>1, <1>2, <1>4, GraphNames

LEMMA StepArStops ==
  ASSUME GenInv, NEW t \in Token, ArStops(t)
  PROVE  GenInv'
<1>1. /\ Remaining > 0 /\ Push(<<t>>) /\ arTokens' = arTokens + 1
      /\ UNCHANGED <<starts, bootstrap, pbdAccepted>>
      /\ UNCHANGED <<pendingPbd, usePbd, kv, logits, graph>>
  BY Zenon DEF ArStops, PushAr, Looping
<1>2. \E reason \in StopReasons : HybridReturns(TRUE, reason)
  BY DEF ArStops, StopReasons
<1>3. /\ Stopped /\ phase' \in Phases /\ phase' \notin {"idle", "prefill", "decide"}
      /\ stopReason' \in StopReasons
      /\ UNCHANGED <<request, fallbackReason, abandoned>>
  BY <1>2, Returns DEF HybridReturns
<1>4. /\ response' \in Seq(Token) /\ generated' \in Seq(Token) /\ arTokens' \in Nat
      /\ MetricsAccount' /\ WithinBudget'
  BY <1>1, <1>3, OneToken
<1>5. TypeOK'
  BY <1>1, <1>3, <1>4 DEF GenInv, TypeOK, kv
<1>6. GraphsInContract' /\ FreshCall'
  BY <1>1, <1>3 DEF GenInv, GraphsInContract, FreshCall
<1> QED
  BY <1>3, <1>4, <1>5, <1>6, StoppedInv DEF GenInv

LEMMA StepArClosesBox ==
  ASSUME GenInv, NEW t \in Token, ArClosesBox(t)
  PROVE  GenInv'
<1>1. /\ phase = "hybrid" /\ ~usePbd /\ Remaining > 0 /\ Push(<<t>>)
      /\ arTokens' = arTokens + 1 /\ pendingPbd' = <<t>> /\ usePbd' /\ usePbd' \in BOOLEAN
      /\ UNCHANGED <<starts, bootstrap, pbdAccepted>>
      /\ UNCHANGED <<phase, request, kv, logits, graph, outcome, abandoned>>
  BY Zenon DEF ArClosesBox, PushAr, Looping
<1>2. /\ response' \in Seq(Token) /\ generated' \in Seq(Token) /\ arTokens' \in Nat
      /\ MetricsAccount' /\ WithinBudget'
      /\ generated = request.prompt \o response => generated' = request.prompt \o response'
  BY <1>1, OneToken
<1>3. <<t>> \in Seq(Token) /\ Len(<<t>>) <= WindowSize
  BY Single DEF WindowSize
<1>4. TypeOK'
  BY <1>1, <1>2, <1>3 DEF GenInv, TypeOK, kv, outcome
<1>5. /\ cache = generated /\ generated = request.prompt \o response /\ ~bootstrap
  <2>1. /\ cache \o pendingPbd = generated /\ pendingPbd = <<>> /\ cache \in Seq(Token)
        /\ generated = request.prompt \o response /\ ~bootstrap
    BY <1>1 DEF GenInv, RowsFollowText, BootstrapFresh, Running, TypeOK
  <2> QED
    BY <2>1, EmptyText
<1>6. GraphsInContract' /\ FreshCall'
  BY <1>1 DEF GenInv, GraphsInContract, FreshCall
<1>7. Capacity' /\ BootstrapFresh'
  BY <1>1, <1>5 DEF GenInv, Capacity, BootstrapFresh, Running, kv
<1>8. RowsFollowText' /\ LogitsMatchText'
  BY <1>1, <1>2, <1>5 DEF RowsFollowText, LogitsMatchText, Running, Push, kv
<1> QED
  BY <1>2, <1>4, <1>6, <1>7, <1>8 DEF GenInv

LEMMA StepArContinues ==
  ASSUME GenInv, NEW t \in Token, ArContinues(t)
  PROVE  GenInv'
<1>1. /\ phase = "hybrid" /\ ~usePbd /\ Remaining > 0 /\ historyLen < CacheLen
      /\ Push(<<t>>) /\ arTokens' = arTokens + 1 /\ Launch(ArGraph(1))
      /\ UNCHANGED <<starts, bootstrap, pbdAccepted, pendingPbd, usePbd>>
  BY Zenon DEF ArContinues, PushAr, Looping
<1>2. \/ /\ logits' = Seen(<<t>>) /\ Commit(<<t>>)
         /\ UNCHANGED <<phase, request, outcome, abandoned>>
      \/ /\ BreakDown(<<t>>) /\ HybridReturns(FALSE, stopReason) /\ UNCHANGED logits
  BY Zenon DEF ArContinues
<1>3. GraphsInContract' /\ graph' \in [name : {"pbd", "ar"} \X Nat, past : Nat]
  BY <1>1, OneTokenGraph DEF GenInv
<1>4. <<t>> \in Seq(Token)
  BY Single
<1>5. /\ cache = generated /\ generated = request.prompt \o response /\ ~bootstrap
      /\ pendingPbd = <<>>
  <2>1. /\ cache \o pendingPbd = generated /\ pendingPbd = <<>> /\ cache \in Seq(Token)
        /\ generated = request.prompt \o response /\ ~bootstrap
    BY <1>1 DEF GenInv, RowsFollowText, BootstrapFresh, Running, TypeOK
  <2> QED
    BY <2>1, EmptyText
<1>6. CASE /\ logits' = Seen(<<t>>) /\ Commit(<<t>>)
           /\ UNCHANGED <<phase, request, outcome, abandoned>>
  <2>1. /\ cache' = cache \o <<t>> /\ cache' \in Seq(Token)
        /\ historyLen' = Len(cache') /\ historyLen' <= CacheLen /\ historyLen' \in Nat
        /\ ~torn' /\ torn' \in BOOLEAN
    BY <1>1, <1>4, <1>6, Committed DEF GenInv, Running
  <2>2. logits' = cache \o <<t>>
    BY <1>1, <1>6, SeenRows DEF GenInv, Running
  <2>3. /\ response' \in Seq(Token) /\ generated' \in Seq(Token) /\ arTokens' \in Nat
        /\ MetricsAccount' /\ WithinBudget' /\ generated' = request.prompt \o response'
    BY <1>1, <1>5, <1>6, OneToken
  <2>4. cache' = generated' /\ logits' = generated' /\ cache' \o <<>> = generated'
    BY <1>1, <1>5, <2>1, <2>2, EmptyText DEF Push
  <2>5. TypeOK'
    BY <1>1, <1>3, <1>6, <2>1, <2>3, <2>4 DEF GenInv, TypeOK, outcome
  <2>6. FreshCall' /\ Capacity' /\ BootstrapFresh'
    BY <1>1, <1>5, <1>6, <2>1 DEF FreshCall, Capacity, BootstrapFresh, Running
  <2>7. RowsFollowText' /\ LogitsMatchText'
    BY <1>1, <1>5, <1>6, <2>3, <2>4 DEF RowsFollowText, LogitsMatchText, Running
  <2> QED
    BY <1>3, <2>3, <2>5, <2>6, <2>7 DEF GenInv
<1>7. CASE BreakDown(<<t>>) /\ HybridReturns(FALSE, stopReason) /\ UNCHANGED logits
  <2>1. /\ UNCHANGED <<cache, historyLen>> /\ torn' \in BOOLEAN
        /\ Stopped /\ phase' \in Phases /\ phase' \notin {"idle", "prefill", "decide"}
        /\ stopReason' \in StopReasons
        /\ UNCHANGED <<request, fallbackReason, abandoned>>
    BY <1>7, Broken DEF GenInv
  <2>2. /\ response' \in Seq(Token) /\ generated' \in Seq(Token) /\ arTokens' \in Nat
        /\ MetricsAccount' /\ WithinBudget'
    BY <1>1, <2>1, OneToken
  <2>3. TypeOK'
    BY <1>1, <1>3, <1>7, <2>1, <2>2 DEF GenInv, TypeOK
  <2>4. FreshCall'
    BY <2>1 DEF FreshCall
  <2> QED
    BY <1>3, <2>1, <2>2, <2>3, <2>4, StoppedInv DEF GenInv
<1> QED
  BY <1>2, <1>6, <1>7

LEMMA StepSlowEnds ==
  ASSUME GenInv, SlowEnds
  PROVE  GenInv'
<1>1. /\ phase' = "done" /\ stopReason' = "max_new_tokens"
      /\ UNCHANGED <<request, text, control, kv, logits, graph, fallbackReason, counters>>
  BY DEF SlowEnds
<1>2. Stopped /\ phase' \notin {"idle", "prefill", "decide"}
  BY <1>1 DEF Stopped
<1>3. TypeOK'
  BY <1>1 DEF GenInv, TypeOK, Phases, StopReasons, text, control, kv, counters
<1>4. GraphsInContract' /\ MetricsAccount' /\ FreshCall' /\ WithinBudget'
  BY <1>1, <1>2, TextKept DEF text, counters
<1> QED
  BY <1>2, <1>3, <1>4, StoppedInv DEF GenInv

LEMMA StepSlowStops ==
  ASSUME GenInv, NEW t \in Token, SlowStops(t)
  PROVE  GenInv'
<1>1. /\ Remaining > 0 /\ Push(<<t>>) /\ arTokens' = arTokens + 1 /\ phase' = "done"
      /\ UNCHANGED <<request, starts, control, fallbackReason, pbdAccepted, abandoned>>
      /\ UNCHANGED <<kv, logits, graph>>
      /\ stopReason' \in {"im_end", "cache_limit"}
  BY Zenon DEF SlowStops, PushSlow
<1>2. Stopped /\ phase' \notin {"idle", "prefill", "decide"}
  BY <1>1 DEF Stopped
<1>3. /\ response' \in Seq(Token) /\ generated' \in Seq(Token) /\ arTokens' \in Nat
      /\ MetricsAccount' /\ WithinBudget'
  BY <1>1, <1>2, OneToken
<1>4. TypeOK'
  BY <1>1, <1>3 DEF GenInv, TypeOK, Phases, StopReasons, control, kv
<1>5. GraphsInContract' /\ FreshCall'
  BY <1>1 DEF GenInv, GraphsInContract, FreshCall
<1> QED
  BY <1>2, <1>3, <1>4, <1>5, StoppedInv DEF GenInv

LEMMA StepSlowContinues ==
  ASSUME GenInv, NEW t \in Token, SlowContinues(t)
  PROVE  GenInv'
<1>1. /\ phase = "slow" /\ Remaining > 0 /\ historyLen < CacheLen
      /\ Push(<<t>>) /\ arTokens' = arTokens + 1 /\ Launch(ArGraph(1))
      /\ UNCHANGED <<request, starts, control, fallbackReason, pbdAccepted, abandoned>>
      /\ UNCHANGED stopReason
  BY Zenon DEF SlowContinues, PushSlow
<1>2. \/ logits' = Seen(<<t>>) /\ Commit(<<t>>) /\ UNCHANGED phase
      \/ BreakDown(<<t>>) /\ phase' = "failed" /\ UNCHANGED logits
  BY Zenon DEF SlowContinues
<1>3. GraphsInContract' /\ graph' \in [name : {"pbd", "ar"} \X Nat, past : Nat]
  BY <1>1, OneTokenGraph DEF GenInv
<1>4. <<t>> \in Seq(Token)
  BY Single
<1>5. cache = generated /\ generated = request.prompt \o response
  BY <1>1 DEF GenInv, RowsFollowText, Running
<1>6. phase' # "decide" /\ phase' \notin {"idle", "prefill"} /\ phase' \in Phases
  BY <1>1, <1>2 DEF Phases
<1>7. /\ response' \in Seq(Token) /\ generated' \in Seq(Token) /\ arTokens' \in Nat
      /\ MetricsAccount' /\ WithinBudget' /\ generated' = request.prompt \o response'
  BY <1>1, <1>5, <1>6, OneToken
<1>8. CASE logits' = Seen(<<t>>) /\ Commit(<<t>>) /\ UNCHANGED phase
  <2>1. /\ cache' = cache \o <<t>> /\ cache' \in Seq(Token)
        /\ historyLen' = Len(cache') /\ historyLen' <= CacheLen /\ historyLen' \in Nat
        /\ ~torn' /\ torn' \in BOOLEAN
    BY <1>1, <1>4, <1>8, Committed DEF GenInv, Running
  <2>2. logits' = cache \o <<t>>
    BY <1>1, <1>8, SeenRows DEF GenInv, Running
  <2>3. cache' = generated' /\ logits' = generated'
    BY <1>1, <1>5, <2>1, <2>2 DEF Push
  <2>4. TypeOK'
    BY <1>1, <1>3, <1>6, <1>7, <2>1, <2>3 DEF GenInv, TypeOK, control
  <2>5. FreshCall' /\ Capacity' /\ BootstrapFresh'
    BY <1>1, <1>8, <2>1 DEF FreshCall, Capacity, BootstrapFresh, Running
  <2>6. RowsFollowText' /\ LogitsMatchText'
    BY <1>1, <1>7, <1>8, <2>3 DEF RowsFollowText, LogitsMatchText, Running
  <2> QED
    BY <1>3, <1>7, <2>4, <2>5, <2>6 DEF GenInv
<1>9. CASE BreakDown(<<t>>) /\ phase' = "failed" /\ UNCHANGED logits
  <2>1. torn' \in BOOLEAN /\ UNCHANGED <<cache, historyLen>>
    <3>1. torn \in BOOLEAN
      BY Zenon DEF GenInv, TypeOK
    <3> QED
      BY <1>9, <3>1, Zenon DEF BreakDown
  <2>2. Stopped
    BY <1>9 DEF Stopped
  <2>3. TypeOK'
    BY <1>1, <1>3, <1>6, <1>7, <1>9, <2>1 DEF GenInv, TypeOK, control
  <2>4. FreshCall'
    BY <1>6 DEF FreshCall
  <2> QED
    BY <1>3, <1>7, <2>2, <2>3, <2>4, StoppedInv DEF GenInv
<1> QED
  BY <1>2, <1>8, <1>9

LEMMA StepReturn ==
  ASSUME GenInv, Return
  PROVE  GenInv'
<1>1. /\ phase' = "idle" /\ response' = <<>> /\ generated' = <<>> /\ starts' = {}
      /\ pendingPbd' = <<>> /\ usePbd' \in BOOLEAN /\ bootstrap' \in BOOLEAN
      /\ logits' = <<>> /\ stopReason' = "" /\ fallbackReason' = ""
      /\ pbdAccepted' = 0 /\ arTokens' = 0 /\ abandoned' = 0
      /\ UNCHANGED <<request, kv, graph>>
  BY Zenon DEF Return
<1>2. Stopped
  BY <1>1 DEF Stopped
<1>3. request' \in Requests
  BY <1>1 DEF GenInv, TypeOK
<1>4. <<>> \in Seq(Token) /\ Len(<<>>) <= WindowSize
  BY EmptyText DEF WindowSize
<1>5. TypeOK'
  BY <1>1, <1>4 DEF GenInv, TypeOK, Phases, StopReasons, kv
<1>6. GraphsInContract' /\ FreshCall' /\ WithinBudget'
  BY <1>1, <1>3, NothingSpent DEF GenInv, GraphsInContract, FreshCall
<1>7. MetricsAccount'
  <2>1. Len(response') = 0
    BY <1>1, EmptyText
  <2> QED
    BY <1>1, <2>1 DEF MetricsAccount
<1> QED
  BY <1>2, <1>5, <1>6, <1>7, StoppedInv DEF GenInv

------------------------------------------------------------------------------
(* The invariant, and what follows from it *)

LEMMA StepStutter ==
  ASSUME GenInv, UNCHANGED vars
  PROVE  GenInv'
<1> USE DEF vars, text, control, kv, outcome, counters
<1>1. TypeOK' /\ FreshCall' /\ WithinBudget'
  BY DEF GenInv, TypeOK, FreshCall, WithinBudget
<1>2. Capacity' /\ BootstrapFresh' /\ RowsFollowText' /\ LogitsMatchText'
  BY DEF GenInv, Capacity, BootstrapFresh, RowsFollowText, LogitsMatchText, Running
<1>3. GraphsInContract' /\ MetricsAccount'
  BY DEF GenInv, GraphsInContract, MetricsAccount
<1> QED
  BY <1>1, <1>2, <1>3 DEF GenInv

LEMMA StepDecide ==
  ASSUME GenInv, Decide
  PROVE  GenInv'
<1>1. PICK w \in Windows :
        LET d == HandlePattern(w) IN
        EndOfText(d) \/ RepeatedBox(d) \/ Truncate(d) \/ AcceptWindow(d) \/ SwitchToAr(d)
  BY DEF Decide
<1> DEFINE d == HandlePattern(w)
<1>2. Decided(d)
  BY AnswerAssumption, DecisionShape
<1>3. EndOfText(d) \/ RepeatedBox(d) \/ Truncate(d) \/ AcceptWindow(d) \/ SwitchToAr(d)
  BY <1>1
<1> HIDE DEF d
<1> QED
  BY <1>2, <1>3, StepEndOfText, StepRepeatedBox, StepTruncate, StepAcceptWindow,
     StepSwitchToAr

LEMMA StepArStep ==
  ASSUME GenInv, ArStep
  PROVE  GenInv'
<1>1. \E t \in Token : ArStops(t) \/ ArClosesBox(t) \/ ArContinues(t)
  BY AnswerAssumption DEF ArStep
<1> QED
  BY <1>1, StepArStops, StepArClosesBox, StepArContinues

LEMMA StepSlowStep ==
  ASSUME GenInv, SlowStep
  PROVE  GenInv'
<1>1. SlowEnds \/ \E t \in Token : SlowStops(t) \/ SlowContinues(t)
  BY AnswerAssumption DEF SlowStep
<1> QED
  BY <1>1, StepSlowEnds, StepSlowStops, StepSlowContinues

\* The inductive invariant holds in every reachable state.
THEOREM Invariance == Spec => []GenInv
<1>1. Init => GenInv
  BY InitInv
<1>2. GenInv /\ [Next]_vars => GenInv'
  <2> SUFFICES ASSUME GenInv, [Next]_vars  PROVE GenInv'
    OBVIOUS
  <2>1. CASE \E r \in Requests : Generate(r)
    BY <2>1, StepGenerate
  <2>2. CASE RunHybridGeneration
    BY <2>2, StepLoopEnds, StepBootstrap, StepRunWindow, StepDecide, StepArStep
       DEF RunHybridGeneration
  <2>3. CASE Prefill \/ PrefillFails \/ Fallback \/ FallbackFails \/ SlowStep \/ Return
    BY <2>3, StepPrefill, StepPrefillFails, StepFallback, StepFallbackFails,
       StepSlowStep, StepReturn
  <2>4. CASE UNCHANGED vars
    BY <2>4, StepStutter
  <2> QED
    BY <2>1, <2>2, <2>3, <2>4 DEF Next, Work
<1> QED
  BY <1>1, <1>2, PTL DEF Spec

\* Every reachable state has the declared shape; in particular no more than six
\* tokens ever wait for the next PBD graph (language.cpp:1167).
THEOREM TypeCorrect == Spec => []TypeOK
<1>1. GenInv => TypeOK
  BY DEF GenInv
<1> QED
  BY <1>1, Invariance, PTL

\* Whatever the model answers, the committed rows followed by the pending tokens
\* are the prompt and the response (language.cpp:1194, 1255, 1300, 1369).
THEOREM CacheCoherent == Spec => []KvCoherent
<1>1. GenInv => KvCoherent
  BY CoherentRows DEF GenInv
<1> QED
  BY <1>1, Invariance, PTL

\* A decision is never taken on stale logits (language.cpp:1201, 1269, 1348).
THEOREM LogitsCurrent == Spec => []LogitsMatchText
<1>1. GenInv => LogitsMatchText
  BY DEF GenInv
<1> QED
  BY <1>1, Invariance, PTL

\* Every graph the loops launch is in the contract and fits behind the history,
\* for every prompt, budget and layout (language.cpp:1084, 1094, 564).
THEOREM LaunchesInContract == Spec => []GraphsInContract
<1>1. GenInv => GraphsInContract
  BY DEF GenInv
<1> QED
  BY <1>1, Invariance, PTL

\* The token counters account for every token delivered or abandoned.
THEOREM MetricsExact == Spec => []MetricsAccount
<1>1. GenInv => MetricsAccount
  BY DEF GenInv
<1> QED
  BY <1>1, Invariance, PTL

------------------------------------------------------------------------------
(* The loops use the cache as KvCache lets them *)

\* The invariant at both ends of a step.
LEMMA StepInv ==
  ASSUME GenInv, [Next]_vars
  PROVE  GenInv'
<1>1. CASE \E r \in Requests : Generate(r)
  BY <1>1, StepGenerate
<1>2. CASE RunHybridGeneration
  BY <1>2, StepLoopEnds, StepBootstrap, StepRunWindow, StepDecide, StepArStep
     DEF RunHybridGeneration
<1>3. CASE Prefill \/ PrefillFails \/ Fallback \/ FallbackFails \/ SlowStep \/ Return
  BY <1>3, StepPrefill, StepPrefillFails, StepFallback, StepFallbackFails,
     StepSlowStep, StepReturn
<1>4. CASE UNCHANGED vars
  BY <1>4, StepStutter
<1> QED
  BY <1>1, <1>2, <1>3, <1>4 DEF Next, Work

\* A run that goes on leaves the cache alone or appends rows to it; a run that
\* begins seeds it with the prompt.
KvMove ==
  Running' =>
    \/ Running /\ cache' = cache
    \/ Running /\ \E q \in Seq(Token) : cache' = cache \o q
    \/ ~Running /\ cache' = request.prompt

LEMMA KvMoves ==
  ASSUME GenInv, [Next]_vars
  PROVE  KvMove
<1>1. CASE UNCHANGED vars
  BY <1>1, Zenon DEF vars, kv, KvMove, Running
<1>2. CASE \E r \in Requests : Generate(r)
  BY <1>2 DEF Generate, KvMove, Running
<1>3. CASE LoopEnds
  BY <1>3 DEF LoopEnds, HybridReturns, KvMove, Running
<1>4. CASE Bootstrap
  BY <1>4 DEF Bootstrap, Looping, kv, KvMove, Running
<1>5. CASE RunWindow
  <2>1. pendingPbd \in Seq(Token) /\ phase = "hybrid"
    BY <1>5 DEF GenInv, TypeOK, RunWindow, Looping
  <2>2. Commit(pendingPbd) \/ HybridReturns(FALSE, stopReason)
    BY <1>5 DEF RunWindow
  <2> QED
    BY <2>1, <2>2 DEF Commit, HybridReturns, KvMove, Running
<1>6. CASE Decide
  <2>1. PICK d : Decided(d) /\ (EndOfText(d) \/ RepeatedBox(d) \/ Truncate(d)
                                \/ AcceptWindow(d) \/ SwitchToAr(d))
    <3>1. PICK w \in Windows :
            LET d == HandlePattern(w) IN
            EndOfText(d) \/ RepeatedBox(d) \/ Truncate(d) \/ AcceptWindow(d) \/ SwitchToAr(d)
      BY <1>6 DEF Decide
    <3>2. Decided(HandlePattern(w))
      BY AnswerAssumption, DecisionShape
    <3> QED
      BY <3>1, <3>2
  <2>2. d.tokens \in Seq(Token)
    BY <2>1, DecidedTokens
  <2>3. CASE EndOfText(d) \/ RepeatedBox(d) \/ Truncate(d)
    BY <2>3 DEF EndOfText, RepeatedBox, Truncate, HybridReturns, KvMove, Running
  <2>4. CASE AcceptWindow(d)
    BY <2>4 DEF AcceptWindow, Acceptable, Deciding, kv, KvMove, Running
  <2>5. CASE SwitchToAr(d)
    <3>1. phase = "decide" /\ (Commit(d.tokens) \/ HybridReturns(FALSE, stopReason))
      BY <2>5 DEF SwitchToAr, Acceptable, Deciding
    <3> QED
      BY <2>2, <3>1 DEF Commit, HybridReturns, KvMove, Running
  <2> QED
    BY <2>1, <2>3, <2>4, <2>5
<1>7. CASE ArStep
  <2>1. PICK t \in Token : ArStops(t) \/ ArClosesBox(t) \/ ArContinues(t)
    BY <1>7, AnswerAssumption DEF ArStep
  <2>2. <<t>> \in Seq(Token) /\ phase = "hybrid"
    BY <2>1, Single DEF ArStops, ArClosesBox, ArContinues, PushAr, Looping
  <2>3. \/ HybridReturns(TRUE, "repeated_box") \/ HybridReturns(TRUE, "ar_non_coordinate")
        \/ UNCHANGED kv
        \/ Commit(<<t>>) \/ HybridReturns(FALSE, stopReason)
    BY <2>1 DEF ArStops, ArClosesBox, ArContinues
  <2> QED
    BY <2>2, <2>3 DEF Commit, HybridReturns, kv, KvMove, Running
<1>8. CASE Prefill \/ Fallback
  BY <1>8 DEF Prefill, Fallback, SeedCache, KvMove, Running
<1>9. CASE PrefillFails \/ FallbackFails \/ Return
  BY <1>9 DEF PrefillFails, FallbackFails, Return, KvMove, Running
<1>10. CASE SlowStep
  <2>1. SlowEnds \/ \E t \in Token : SlowStops(t) \/ SlowContinues(t)
    BY <1>10, AnswerAssumption DEF SlowStep
  <2>2. CASE SlowEnds
    BY <2>2 DEF SlowEnds, KvMove, Running
  <2>3. CASE \E t \in Token : SlowStops(t)
    BY <2>3 DEF SlowStops, KvMove, Running
  <2>4. ASSUME NEW t \in Token, SlowContinues(t)  PROVE KvMove
    <3>1. <<t>> \in Seq(Token) /\ phase = "slow" /\ (Commit(<<t>>) \/ phase' = "failed")
      BY <2>4, Single DEF SlowContinues, PushSlow
    <3> QED
      BY <3>1 DEF Commit, KvMove, Running
  <2> QED
    BY <2>1, <2>2, <2>3, <2>4
<1> QED
  BY <1>1, <1>2, <1>3, <1>4, <1>5, <1>6, <1>7, <1>8, <1>9, <1>10
     DEF Next, Work, RunHybridGeneration

\* Appending rows extends the sequence without touching what it holds.
LEMMA Extension ==
  ASSUME NEW s \in Seq(Token), NEW q \in Seq(Token), q # <<>>
  PROVE  /\ s \o q \in Seq(Token)
         /\ Len(s \o q) >= Len(s) + 1
         /\ SubSeq(s \o q, 1, Len(s)) = s
<1>1. Len(q) >= 1
  OBVIOUS
<1>2. s \o q \in Seq(Token) /\ Len(s \o q) = Len(s) + Len(q)
  BY Concat
<1>3. SubSeq(s \o q, 1, Len(s)) = s
  OBVIOUS
<1> QED
  BY <1>1, <1>2, <1>3

LEMMA StepUsesKv ==
  ASSUME GenInv, [Next]_vars
  PROVE  [KvUse!Next]_(KvUse!vars)
<1>1. KvMove /\ GenInv'
  BY KvMoves, StepInv
<1>2. cache \in Seq(Token) /\ cache' \in Seq(Token) /\ CacheLen \in Nat
  BY <1>1, LayoutAssumption DEF GenInv, TypeOK
<1>3. Running' => Len(cache') <= CacheLen
  BY <1>1, <1>2 DEF GenInv, Capacity
<1>4. CASE ~Running'
  BY <1>4 DEF KvUse!Next, KvUse!Discard
<1>5. CASE Running' /\ Running /\ cache' = cache
  BY <1>5 DEF KvUse!vars
<1>6. ASSUME Running', Running, NEW q \in Seq(Token), cache' = cache \o q
      PROVE  [KvUse!Next]_(KvUse!vars)
  <2>1. CASE q = <<>>
    BY <1>2, <1>6, <2>1, EmptyText DEF KvUse!vars
  <2>2. CASE q # <<>>
    <3>1. /\ cache' \in Seq(Token) /\ Len(cache') >= Len(cache) + 1
          /\ SubSeq(cache', 1, Len(cache)) = cache
      BY <1>2, <1>6, <2>2, Extension
    <3>2. Len(cache') \in Len(cache) + 1 .. CacheLen
      BY <1>2, <1>3, <1>6, <3>1
    <3> QED
      BY <1>6, <3>1, <3>2 DEF KvUse!Next, KvUse!Extend
  <2> QED
    BY <2>1, <2>2
<1>7. CASE Running' /\ ~Running /\ cache' = request.prompt
  <2>1. request.prompt \in Seq(Token) /\ Len(request.prompt) \in 1 .. PrefillLen
    BY InputAssumption DEF GenInv, TypeOK, Requests
  <2>2. Len(cache') \in 1 .. CacheLen
    BY <1>2, <1>3, <1>7, <2>1
  <2> QED
    BY <1>2, <1>7, <2>2 DEF KvUse!Next, KvUse!Seed
<1> QED
  BY <1>1, <1>4, <1>5, <1>6, <1>7 DEF KvMove

\* The decode loops keep to what the KV cache promises: every run seeds it once,
\* only extends it within its capacity, and stops using it when a graph or a
\* write fails (language.cpp:1146, 1194, 1255, 1300, 1369).
THEOREM CacheUsedAsPromised == Spec => UsesKvCache
<1>1. Init => KvUse!Init
  <2>1. Init => phase = "idle"
    BY DEF Init
  <2>2. phase = "idle" => ~(phase \in {"hybrid", "decide", "slow"})
    OBVIOUS
  <2>3. ASSUME Init  PROVE ~Running
    BY <2>1, <2>2, <2>3, Zenon DEF Running
  <2>4. ~Running => Running = FALSE /\ (IF Running THEN cache ELSE <<>>) = <<>>
    BY DEF Running
  <2> QED
    BY <2>3, <2>4, Zenon DEF KvUse!Init
<1>2. GenInv /\ [Next]_vars => [KvUse!Next]_(KvUse!vars)
  BY StepUsesKv
<1> QED
  BY <1>1, <1>2, Invariance, PTL DEF Spec, UsesKvCache, KvUse!Spec

------------------------------------------------------------------------------
(* What a returned result says of itself *)

\* The slow loop runs because it was asked for or because of a fallback, which
\* has a reason (language.cpp:1455).
SlowByChoice == phase = "slow" => request.mode = "slow" \/ fallbackReason # ""

\* The stop reasons of which ResultHonest asks something.
Justified(reason) ==
  /\ reason # ""
  /\ reason = "im_end" => response # <<>> /\ response[Len(response)] = ImEnd
  /\ reason = "max_new_tokens" => Remaining = 0
  /\ reason \in {"cache_limit", "cache_limit_before_pbd"} => ~RoomForWindow

LEMMA Amounts ==
  ASSUME GenInv
  PROVE  /\ response \in Seq(Token) /\ Len(response) \in Nat /\ request.budget \in Nat
         /\ Len(response) <= request.budget
         /\ Len(pendingPbd) \in Nat /\ historyLen \in Nat /\ CacheLen \in Nat
<1>1. response \in Seq(Token) /\ pendingPbd \in Seq(Token) /\ historyLen \in Nat
      /\ request \in Requests
  BY Zenon DEF GenInv, TypeOK
<1>2. Len(response) <= request.budget /\ CacheLen \in Nat
  BY LayoutAssumption DEF GenInv, WithinBudget
<1>3. request.budget \in Nat
  BY <1>1, PromptText
<1>4. Len(response) \in Nat /\ Len(pendingPbd) \in Nat
  BY <1>1
<1> QED
  BY <1>1, <1>2, <1>3, <1>4

LEMMA NotDone ==
  ASSUME GenInv', phase' # "done"
  PROVE  ResultHonest'
BY DEF ResultHonest, GenInv, WithinBudget

\* HybridReturns ends the call only with a result it may deliver.
LEMMA HybridHonest ==
  ASSUME GenInv', NEW reason \in StopReasons, HybridReturns(TRUE, reason),
         Justified(reason)'
  PROVE  ResultHonest'
<1>1. stopReason' = reason /\ request' = request
      /\ (phase' = "done" => ~request.protect \/ reason = "im_end")
  BY DEF HybridReturns
<1>2. Len(response') <= request'.budget
  BY DEF GenInv, WithinBudget
<1> QED
  BY <1>1, <1>2 DEF ResultHonest, Justified

LEMMA HonestLoopEnds ==
  ASSUME GenInv, GenInv', LoopEnds
  PROVE  ResultHonest'
<1>1. /\ UNCHANGED <<response, pendingPbd, historyLen, request>>
      /\ phase = "hybrid"
  BY DEF LoopEnds, text, control, kv, HybridReturns
<1>2. Remaining' = Remaining /\ (RoomForWindow' <=> RoomForWindow)
  BY <1>1 DEF Remaining, RoomForWindow
<1>3. /\ Len(response) \in Nat /\ request.budget \in Nat /\ Len(response) <= request.budget
      /\ Len(pendingPbd) \in Nat /\ historyLen \in Nat /\ CacheLen \in Nat
  BY Amounts
<1>4. CASE Remaining <= 0 /\ HybridReturns(TRUE, "max_new_tokens")
  <2>1. Remaining' = 0
    BY <1>2, <1>3, <1>4 DEF Remaining
  <2> QED
    BY <1>4, <2>1, HybridHonest DEF Justified, StopReasons
<1>5. CASE historyLen >= CacheLen /\ HybridReturns(TRUE, "cache_limit")
  <2>1. ~RoomForWindow
    BY <1>3, <1>5 DEF RoomForWindow, WindowSize
  <2> QED
    BY <1>2, <1>5, <2>1, HybridHonest DEF Justified, StopReasons
<1>6. CASE ~RoomForWindow /\ HybridReturns(TRUE, "cache_limit_before_pbd")
  BY <1>2, <1>6, HybridHonest DEF Justified, StopReasons
<1> QED
  BY <1>4, <1>5, <1>6 DEF LoopEnds

LEMMA HonestDecide ==
  ASSUME GenInv, GenInv', Decide
  PROVE  ResultHonest'
<1>1. PICK d : Decided(d) /\ (EndOfText(d) \/ RepeatedBox(d) \/ Truncate(d)
                              \/ AcceptWindow(d) \/ SwitchToAr(d))
  <2>1. PICK w \in Windows :
          LET d == HandlePattern(w) IN
          EndOfText(d) \/ RepeatedBox(d) \/ Truncate(d) \/ AcceptWindow(d) \/ SwitchToAr(d)
    BY DEF Decide
  <2>2. Decided(HandlePattern(w))
    BY AnswerAssumption, DecisionShape
  <2> QED
    BY <2>1, <2>2
<1>2. response \in Seq(Token) /\ Len(response) \in Nat /\ request.budget \in Nat
  BY PromptText DEF GenInv, TypeOK
<1>3. CASE EndOfText(d)
  <2>1. HybridReturns(TRUE, "im_end") /\ response' = response \o <<ImEnd>>
    BY <1>1, <1>3 DEF EndOfText, Push, Decided
  <2>2. response' # <<>> /\ response'[Len(response')] = ImEnd
    BY <1>2, <2>1 DEF Token
  <2> QED
    BY <2>1, <2>2, HybridHonest DEF Justified, StopReasons
<1>4. CASE RepeatedBox(d)
  BY <1>4, HybridHonest DEF RepeatedBox, Justified, StopReasons
<1>5. CASE Truncate(d)
  <2> DEFINE cut == SubSeq(d.tokens, 1, Remaining)
  <2>1. HybridReturns(TRUE, "max_new_tokens") /\ response' = response \o cut
        /\ request' = request
    BY <1>5 DEF Truncate, HybridReturns
  <2>2. d.tokens \in Seq(Token) /\ Len(d.tokens) \in Nat /\ Len(d.tokens) > Remaining
    BY <1>1, <1>5, DecidedTokens DEF Truncate
  <2>3. Remaining \in Nat /\ Len(response) + Remaining = request.budget
    BY <1>2, <1>5 DEF GenInv, WithinBudget, Truncate, Deciding, Remaining
  <2>4. cut \in Seq(Token) /\ Len(cut) = Remaining
    BY <2>2, <2>3, PrefixText
  <2> HIDE DEF cut
  <2>5. Len(response') = request.budget
    BY <1>2, <2>1, <2>3, <2>4, Concat
  <2>6. Remaining' = 0
    BY <1>2, <2>1, <2>5 DEF Remaining
  <2> QED
    BY <2>1, <2>6, HybridHonest DEF Justified, StopReasons
<1>6. CASE AcceptWindow(d)
  BY <1>6, NotDone DEF AcceptWindow
<1>7. CASE SwitchToAr(d)
  BY <1>7, NotDone DEF SwitchToAr, HybridReturns
<1> QED
  BY <1>1, <1>3, <1>4, <1>5, <1>6, <1>7

LEMMA HonestArStep ==
  ASSUME GenInv, GenInv', ArStep
  PROVE  ResultHonest'
<1>1. PICK t : ArStops(t) \/ ArClosesBox(t) \/ ArContinues(t)
  BY DEF ArStep
<1>2. CASE ArStops(t)
  <2>1. HybridReturns(TRUE, "repeated_box") \/ HybridReturns(TRUE, "ar_non_coordinate")
    BY <1>2 DEF ArStops
  <2> QED
    BY <2>1, HybridHonest DEF Justified, StopReasons
<1>3. CASE ArClosesBox(t)
  BY <1>3, NotDone DEF ArClosesBox, PushAr, Looping
<1>4. CASE ArContinues(t)
  BY <1>4, NotDone DEF ArContinues, PushAr, Looping, HybridReturns
<1> QED
  BY <1>1, <1>2, <1>3, <1>4

LEMMA HonestSlowStep ==
  ASSUME GenInv, GenInv', SlowByChoice, SlowStep
  PROVE  ResultHonest'
<1>1. /\ response \in Seq(Token) /\ Len(response) \in Nat /\ request.budget \in Nat
      /\ Len(response) <= request.budget
      /\ Len(pendingPbd) \in Nat /\ historyLen \in Nat /\ CacheLen \in Nat
  BY Amounts
<1>2. Len(response') <= request'.budget
  BY DEF GenInv, WithinBudget
<1>3. CASE SlowEnds
  <2>1. stopReason' = "max_new_tokens" /\ Remaining <= 0 /\ phase = "slow"
        /\ UNCHANGED <<response, request, fallbackReason>>
    BY <1>3 DEF SlowEnds, text
  <2>2. Remaining' = 0
    BY <1>1, <2>1 DEF Remaining
  <2> QED
    BY <1>2, <2>1, <2>2 DEF ResultHonest, SlowByChoice
<1>4. ASSUME NEW t \in Token, SlowStops(t)  PROVE ResultHonest'
  <2>1. /\ response' = response \o <<t>> /\ phase = "slow"
        /\ UNCHANGED <<request, fallbackReason, pendingPbd, historyLen>>
    BY <1>4 DEF SlowStops, PushSlow, Push, control, kv
  <2>2. request.mode = "hybrid" => fallbackReason' # ""
    BY <2>1 DEF SlowByChoice
  <2>3. CASE t = ImEnd /\ stopReason' = "im_end"
    <3>1. response' # <<>> /\ response'[Len(response')] = ImEnd
      BY <1>1, <2>1, <2>3
    <3> QED
      BY <1>2, <2>1, <2>2, <2>3, <3>1 DEF ResultHonest
  <2>4. CASE historyLen >= CacheLen /\ stopReason' = "cache_limit"
    <3>1. ~RoomForWindow
      BY <1>1, <2>4 DEF RoomForWindow, WindowSize
    <3>2. ~RoomForWindow'
      BY <2>1, <3>1 DEF RoomForWindow
    <3> QED
      BY <1>2, <2>1, <2>2, <2>4, <3>2 DEF ResultHonest
  <2> QED
    BY <1>4, <2>3, <2>4 DEF SlowStops
<1>5. ASSUME NEW t \in Token, SlowContinues(t)  PROVE ResultHonest'
  BY <1>5, NotDone DEF SlowContinues, PushSlow
<1> QED
  BY <1>3, <1>4, <1>5, AnswerAssumption DEF SlowStep

LEMMA StepHonest ==
  ASSUME GenInv, SlowByChoice, ResultHonest, [Next]_vars
  PROVE  ResultHonest'
<1>1. GenInv'
  BY StepInv
<1>2. CASE UNCHANGED vars
  <2>1. UNCHANGED <<phase, request, response, stopReason, fallbackReason, pendingPbd, historyLen>>
    BY <1>2 DEF vars, text, outcome, control, kv
  <2> QED
    BY <2>1, Zenon DEF ResultHonest, Remaining, RoomForWindow
<1>3. CASE \E r \in Requests : Generate(r)
  BY <1>1, <1>3, NotDone DEF Generate
<1>4. CASE Prefill
  BY <1>1, <1>4, PromptText, NotDone DEF Prefill, GenInv, TypeOK
<1>5. CASE PrefillFails \/ FallbackFails \/ Fallback \/ Return \/ Bootstrap
  BY <1>1, <1>5, NotDone DEF PrefillFails, FallbackFails, Fallback, Return, Bootstrap
<1>6. CASE RunWindow
  BY <1>1, <1>6, NotDone DEF RunWindow, HybridReturns
<1> QED
  BY <1>1, <1>2, <1>3, <1>4, <1>5, <1>6, HonestLoopEnds, HonestDecide, HonestArStep,
     HonestSlowStep DEF Next, Work, RunHybridGeneration

LEMMA StepSlowByChoice ==
  ASSUME GenInv, SlowByChoice, [Next]_vars
  PROVE  SlowByChoice'
<1>1. CASE UNCHANGED vars
  BY <1>1 DEF vars, outcome, SlowByChoice
<1>2. CASE \E r \in Requests : Generate(r)
  BY <1>2 DEF Generate, SlowByChoice
<1>3. CASE Prefill
  BY <1>3 DEF Prefill, SlowByChoice
<1>4. CASE Fallback
  BY <1>4 DEF Fallback, SlowByChoice
<1>5. CASE PrefillFails \/ FallbackFails \/ Return
  BY <1>5 DEF PrefillFails, FallbackFails, Return, SlowByChoice
<1>6. CASE RunHybridGeneration
  <2>1. phase' # "slow"
    <3>1. CASE LoopEnds \/ Bootstrap \/ RunWindow
      BY <3>1 DEF LoopEnds, Bootstrap, RunWindow, HybridReturns
    <3>2. CASE Decide
      BY <3>2 DEF Decide, EndOfText, RepeatedBox, Truncate, AcceptWindow, SwitchToAr,
                  HybridReturns
    <3>3. CASE ArStep
      BY <3>3 DEF ArStep, ArStops, ArClosesBox, ArContinues, PushAr, Looping, HybridReturns
    <3> QED
      BY <1>6, <3>1, <3>2, <3>3 DEF RunHybridGeneration
  <2> QED
    BY <2>1 DEF SlowByChoice
<1>7. CASE SlowStep
  <2>1. UNCHANGED <<request, fallbackReason>> /\ phase = "slow"
    BY <1>7 DEF SlowStep, SlowEnds, SlowStops, SlowContinues, PushSlow
  <2> QED
    BY <2>1 DEF SlowByChoice
<1> QED
  BY <1>1, <1>2, <1>3, <1>4, <1>5, <1>6, <1>7 DEF Next, Work

\* A returned result keeps the budget, its stop reason is true of it, and a
\* protected hybrid run that did not reach the end token is never delivered
\* (language.cpp:1455), whatever the model answers and whatever fails.
THEOREM ResultsHonest == Spec => []ResultHonest
<1>1. Init => SlowByChoice /\ ResultHonest
  <2> SUFFICES ASSUME Init  PROVE SlowByChoice /\ ResultHonest
    OBVIOUS
  <2>1. phase = "idle" /\ GenInv
    BY InitInv DEF Init
  <2> QED
    BY <2>1 DEF SlowByChoice, ResultHonest, GenInv, WithinBudget
<1>2. GenInv /\ SlowByChoice /\ ResultHonest /\ [Next]_vars
        => SlowByChoice' /\ ResultHonest'
  BY StepHonest, StepSlowByChoice
<1> QED
  BY <1>1, <1>2, Invariance, PTL DEF Spec

------------------------------------------------------------------------------
(* No box that a window opened repeats another *)

\* Lengths of a complete box: empty, point, rectangle.
BoxLengths == {3, 4, 6}

\* A complete box opens with its first token and closes with its last only.
LEMMA BoxShape ==
  ASSUME NEW t \in Seq(Token), IsCompleteDetectionBox(t)
  PROVE  /\ Len(t) \in BoxLengths
         /\ t[1] = BoxStart /\ t[Len(t)] = BoxEnd
         /\ \A k \in 2 .. Len(t) : t[k] # BoxStart
         /\ \A k \in 1 .. Len(t) - 1 : t[k] # BoxEnd
<1>1. CASE t = <<BoxStart, NoneToken, BoxEnd>>
  <2>1. Len(t) = 3 /\ t[1] = BoxStart /\ t[2] = NoneToken /\ t[3] = BoxEnd
    BY <1>1
  <2>2. BoxStart # NoneToken /\ BoxStart # BoxEnd /\ NoneToken # BoxEnd
    BY TokenAssumption
  <2> QED
    BY <2>1, <2>2 DEF BoxLengths
<1>2. CASE /\ Len(t) \in {4, 6} /\ t[1] = BoxStart
           /\ \A i \in 2 .. Len(t) - 1 : t[i] \in Coordinates
           /\ t[Len(t)] = BoxEnd
  BY <1>2, TokenAssumption DEF BoxLengths
<1> QED
  BY <1>1, <1>2 DEF IsCompleteDetectionBox

Part(r, i, n) == SubSeq(r, i, i + n - 1)

LEMMA PartTokens ==
  ASSUME NEW r \in Seq(Token), NEW i \in Nat \ {0}, NEW n \in BoxLengths,
         i + n - 1 <= Len(r)
  PROVE  /\ Part(r, i, n) \in Seq(Token) /\ Len(Part(r, i, n)) = n
         /\ \A k \in 1 .. n : Part(r, i, n)[k] = r[i + k - 1]
<1>1. n \in Nat /\ i \in Nat /\ i >= 1 /\ n >= 1 /\ Len(r) \in Nat
  BY DEF BoxLengths
<1>2. \A k \in i .. i + n - 1 : r[k] \in Token
  BY <1>1
<1>3. i \in Int /\ i + n - 1 \in Int /\ i <= i + n - 1 /\ (i + n - 1) - i + 1 = n
  BY <1>1
<1>4. /\ SubSeq(r, i, i + n - 1) \in Seq(Token)
      /\ Len(SubSeq(r, i, i + n - 1)) = n
      /\ \A k \in 1 .. n : SubSeq(r, i, i + n - 1)[k] = r[i + k - 1]
  BY <1>1, <1>2, <1>3, SubSeqProperties
<1> QED
  BY <1>4 DEF Part

\* Of two equal complete boxes the first ends before the second begins.
LEMMA BoxesApart ==
  ASSUME NEW r \in Seq(Token), NEW i \in Nat \ {0}, NEW j \in Nat \ {0}, NEW n \in BoxLengths,
         i < j, j + n - 1 <= Len(r), Part(r, i, n) = Part(r, j, n),
         IsCompleteDetectionBox(Part(r, j, n))
  PROVE  i + n - 1 < j
<1> SUFFICES ASSUME j <= i + n - 1  PROVE FALSE
  BY DEF BoxLengths
<1>1. n \in Nat /\ i + n - 1 <= Len(r) /\ j - i + 1 \in 2 .. n /\ Len(r) \in Nat
  BY DEF BoxLengths
<1>2. Part(r, i, n)[j - i + 1] = r[j] /\ Part(r, j, n)[1] = r[j]
  <2>1. \A k \in 1 .. n : Part(r, i, n)[k] = r[i + k - 1]
    BY <1>1, PartTokens
  <2>2. \A k \in 1 .. n : Part(r, j, n)[k] = r[j + k - 1]
    BY PartTokens
  <2>3. /\ j - i + 1 \in 1 .. n /\ i + (j - i + 1) - 1 = j
        /\ 1 \in 1 .. n /\ j + 1 - 1 = j
    BY <1>1
  <2>4. Part(r, i, n)[j - i + 1] = r[i + (j - i + 1) - 1] /\ Part(r, j, n)[1] = r[j + 1 - 1]
    BY <2>1, <2>2, <2>3, Zenon
  <2> QED
    BY <2>3, <2>4
<1>3. /\ Part(r, j, n)[1] = BoxStart /\ Len(Part(r, j, n)) = n
      /\ \A k \in 2 .. Len(Part(r, j, n)) : Part(r, j, n)[k] # BoxStart
  BY PartTokens, BoxShape
<1> QED
  BY <1>1, <1>2, <1>3

\* Appending tokens changes no part that was there.
LEMMA PartKept ==
  ASSUME NEW r \in Seq(Token), NEW q \in Seq(Token), NEW i \in Nat \ {0},
         NEW n \in BoxLengths, i + n - 1 <= Len(r)
  PROVE  Part(r \o q, i, n) = Part(r, i, n)
<1>1. n \in Nat /\ n >= 1 /\ Len(r) \in Nat /\ Len(q) \in Nat
  BY DEF BoxLengths
<1>2. /\ r \o q \in Seq(Token) /\ Len(r \o q) = Len(r) + Len(q)
      /\ \A k \in 1 .. Len(r) : (r \o q)[k] = r[k]
  BY ConcatProperties
<1>3. i + n - 1 <= Len(r \o q)
  BY <1>1, <1>2
<1>4. /\ Part(r \o q, i, n) \in Seq(Token) /\ Len(Part(r \o q, i, n)) = n
      /\ \A k \in 1 .. n : Part(r \o q, i, n)[k] = (r \o q)[i + k - 1]
  BY <1>2, <1>3, PartTokens
<1>5. /\ Part(r, i, n) \in Seq(Token) /\ Len(Part(r, i, n)) = n
      /\ \A k \in 1 .. n : Part(r, i, n)[k] = r[i + k - 1]
  BY PartTokens
<1>6. \A k \in 1 .. n : Part(r \o q, i, n)[k] = Part(r, i, n)[k]
  <2> SUFFICES ASSUME NEW k \in 1 .. n  PROVE Part(r \o q, i, n)[k] = Part(r, i, n)[k]
    OBVIOUS
  <2>1. i + k - 1 \in 1 .. Len(r)
    BY <1>1
  <2>2. /\ Part(r \o q, i, n)[k] = (r \o q)[i + k - 1]
        /\ Part(r, i, n)[k] = r[i + k - 1]
    BY <1>4, <1>5, Zenon
  <2>3. (r \o q)[i + k - 1] = r[i + k - 1]
    BY <1>2, <2>1, Zenon
  <2> QED
    BY <2>2, <2>3, Zenon
<1> QED
  BY <1>4, <1>5, <1>6, SeqEqual

\* No complete box that begins at one of the places S of r stands before it too.
NoneRepeats(r, S) ==
  \A j \in S, n \in BoxLengths : \A i \in 1 .. j - 1 :
    j + n - 1 <= Len(r) /\ Part(r, i, n) = Part(r, j, n) =>
      ~IsCompleteDetectionBox(Part(r, j, n))

\* The box that starts at j, if it is one, can no longer be completed.
Settled(r, j) == r[j] # BoxStart \/ \E k \in j + 1 .. Len(r) : r[k] = BoxEnd

\* After an append, only boxes that end in the new tokens are new.
LEMMA OnlyNewBoxes ==
  ASSUME NEW r \in Seq(Token), NEW q \in Seq(Token), NEW S, S \subseteq 1 .. Len(r),
         NoneRepeats(r, S), NEW j \in S, NEW i \in 1 .. j - 1, NEW n \in BoxLengths,
         j + n - 1 <= Len(r \o q), Part(r \o q, i, n) = Part(r \o q, j, n),
         IsCompleteDetectionBox(Part(r \o q, j, n))
  PROVE  j + n - 1 > Len(r)
<1> SUFFICES ASSUME j + n - 1 <= Len(r)  PROVE FALSE
  BY DEF BoxLengths
<1>1. i \in Nat \ {0} /\ j \in Nat \ {0} /\ i + n - 1 <= Len(r)
  BY DEF BoxLengths
<1>2. Part(r \o q, i, n) = Part(r, i, n) /\ Part(r \o q, j, n) = Part(r, j, n)
  BY <1>1, PartKept
<1> QED
  BY <1>2 DEF NoneRepeats

\* Tokens that do not close a box complete none.
LEMMA PushOpen ==
  ASSUME NEW r \in Seq(Token), NEW t \in Token, t # BoxEnd, NEW S, S \subseteq 1 .. Len(r),
         NoneRepeats(r, S)
  PROVE  NoneRepeats(r \o <<t>>, S)
<1> DEFINE s == r \o <<t>>
<1>1. s \in Seq(Token) /\ Len(s) = Len(r) + 1 /\ s[Len(r) + 1] = t /\ Len(r) \in Nat
  OBVIOUS
<1>2. ASSUME NEW j \in S, NEW i \in 1 .. j - 1, NEW n \in BoxLengths,
             j + n - 1 <= Len(s), Part(s, i, n) = Part(s, j, n),
             IsCompleteDetectionBox(Part(s, j, n))
      PROVE  FALSE
  <2>1. j + n - 1 > Len(r)
    BY <1>2, OnlyNewBoxes, Single
  <2> HIDE DEF s
  <2>2. j \in Nat \ {0} /\ j + n - 1 = Len(r) + 1 /\ n \in Nat /\ n >= 3
    BY <1>1, <1>2, <2>1 DEF BoxLengths
  <2>3. Part(s, j, n) \in Seq(Token) /\ Len(Part(s, j, n)) = n /\ Part(s, j, n)[n] = s[j + n - 1]
    BY <1>1, <1>2, <2>2, PartTokens
  <2> QED
    BY <1>1, <1>2, <2>2, <2>3, BoxShape
<1> HIDE DEF s
<1>3. NoneRepeats(s, S)
  BY <1>2 DEF NoneRepeats
<1> QED
  BY <1>3 DEF s

\* A part that ends before a place is a part of what precedes that place.
LEMMA PartOccurs ==
  ASSUME NEW r \in Seq(Token), NEW i \in Nat \ {0}, NEW n \in BoxLengths,
         NEW m \in Nat, m <= Len(r), i + n - 1 <= m
  PROVE  Occurs(Part(r, i, n), SubSeq(r, 1, m))
<1> DEFINE b == SubSeq(r, 1, m)
<1>1. n \in Nat /\ n >= 3 /\ Len(r) \in Nat /\ i + n - 1 <= Len(r) /\ i >= 1
  BY DEF BoxLengths
<1>2. b \in Seq(Token) /\ Len(b) = m /\ \A k \in 1 .. m : b[k] = r[k]
  <2>1. b \in Seq(Token) /\ Len(b) = m
    BY PrefixText
  <2>2. \A k \in 1 .. m : b[k] = r[k]
    BY <1>1
  <2> QED
    BY <2>1, <2>2
<1> HIDE DEF b
<1>3. /\ Part(r, i, n) \in Seq(Token) /\ Len(Part(r, i, n)) = n
      /\ \A k \in 1 .. n : Part(r, i, n)[k] = r[i + k - 1]
  BY <1>1, PartTokens
<1>4. /\ Part(b, i, n) \in Seq(Token) /\ Len(Part(b, i, n)) = n
      /\ \A k \in 1 .. n : Part(b, i, n)[k] = b[i + k - 1]
  BY <1>2, PartTokens
<1>5. \A k \in 1 .. n : Part(b, i, n)[k] = Part(r, i, n)[k]
  BY <1>1, <1>2, <1>3, <1>4
<1>6. Part(b, i, n) = Part(r, i, n)
  BY <1>3, <1>4, <1>5, SeqEqual
<1>7. /\ i - 1 \in 0 .. Len(b) /\ (i - 1) + n <= Len(b)
      /\ (i - 1) + 1 = i /\ (i - 1) + n = i + n - 1
  BY <1>1, <1>2
<1>8. SubSeq(b, (i - 1) + 1, (i - 1) + n) = Part(r, i, n)
  BY <1>6, <1>7 DEF Part
<1>9. Occurs(Part(r, i, n), b)
  BY <1>3, <1>7, <1>8 DEF Occurs
<1> QED
  BY <1>9 DEF b

\* A closing token that repeats no box leaves no repetition.
LEMMA PushClosing ==
  ASSUME NEW r \in Seq(Token), NEW S, S \subseteq 1 .. Len(r), NoneRepeats(r, S),
         ~HasRepeatedTrailingDetectionBox(r \o <<BoxEnd>>)
  PROVE  NoneRepeats(r \o <<BoxEnd>>, S)
<1> DEFINE s == r \o <<BoxEnd>>
<1>1. s \in Seq(Token) /\ Len(s) = Len(r) + 1 /\ Len(r) \in Nat
  BY DEF Token
<1>2. BoxEnd \in Token
  BY DEF Token
<1>3. ASSUME NEW j \in S, NEW i \in 1 .. j - 1, NEW n \in BoxLengths,
             j + n - 1 <= Len(s), Part(s, i, n) = Part(s, j, n),
             IsCompleteDetectionBox(Part(s, j, n))
      PROVE  FALSE
  <2>1. j + n - 1 > Len(r)
    BY <1>2, <1>3, OnlyNewBoxes, Single
  <2> HIDE DEF s
  <2>2. /\ i \in Nat \ {0} /\ j \in Nat \ {0} /\ n \in Nat /\ n >= 3
        /\ j + n - 1 = Len(s) /\ Len(s) - n = j - 1 /\ n <= Len(s)
        /\ (j - 1) + 1 = j /\ j - 1 \in Nat /\ j - 1 <= Len(s)
    <3>1. i \in Nat \ {0} /\ j \in Nat \ {0}
      BY <1>1
    <3>2. n \in Nat /\ n >= 3
      BY DEF BoxLengths
    <3>3. /\ Len(s) \in Nat /\ Len(r) \in Nat /\ Len(s) = Len(r) + 1
          /\ j + n - 1 <= Len(s)
      BY <1>1, <1>3
    <3>4. j + n - 1 = Len(s)
      BY <2>1, <3>1, <3>2, <3>3
    <3> QED
      BY <3>1, <3>2, <3>3, <3>4
  <2>3. i + n - 1 < j
    BY <1>1, <1>3, <2>2, BoxesApart
  <2>4. i + n - 1 <= j - 1
    BY <2>2, <2>3
  <2>5. Occurs(Part(s, i, n), SubSeq(s, 1, j - 1))
    BY <1>1, <2>2, <2>4, PartOccurs
  <2>6. HasRepeatedDetectionBox(SubSeq(s, 1, j - 1), Part(s, j, n))
    BY <1>3, <2>5 DEF HasRepeatedDetectionBox
  <2>7. Part(s, j, n) = SubSeq(s, (Len(s) - n) + 1, Len(s))
    BY <2>2 DEF Part
  <2>8. HasRepeatedDetectionBox(SubSeq(s, 1, Len(s) - n), SubSeq(s, (Len(s) - n) + 1, Len(s)))
    BY <2>2, <2>6, <2>7
  <2>9. HasRepeatedTrailingDetectionBox(s)
    BY <2>2, <2>8 DEF HasRepeatedTrailingDetectionBox, BoxLengths
  <2> QED
    BY <2>9 DEF s
<1> HIDE DEF s
<1>4. NoneRepeats(s, S)
  BY <1>3 DEF NoneRepeats
<1> QED
  BY <1>4 DEF s

\* A window holds a complete box only as a whole.
Undivided(q) == \A n \in BoxLengths : n < Len(q) => ~IsCompleteDetectionBox(Part(q, 1, n))

\* A window is accepted behind boxes that are all settled.
LEMMA PushWindow ==
  ASSUME NEW r \in Seq(Token), NEW q \in Seq(Token), Len(q) >= 1,
         NEW S, S \subseteq 1 .. Len(r), NoneRepeats(r, S), \A j \in S : Settled(r, j),
         Undivided(q), ~HasRepeatedDetectionBox(r, q)
  PROVE  NoneRepeats(r \o q, S \union {Len(r) + 1})
<1> DEFINE s == r \o q
<1>1. /\ s \in Seq(Token) /\ Len(s) = Len(r) + Len(q) /\ Len(r) \in Nat /\ Len(q) \in Nat
      /\ \A k \in 1 .. Len(r) : s[k] = r[k]
      /\ \A k \in 1 .. Len(q) : s[Len(r) + k] = q[k]
  OBVIOUS
<1>2. ASSUME NEW j \in S \union {Len(r) + 1}, NEW i \in 1 .. j - 1,
             NEW n \in BoxLengths, j + n - 1 <= Len(s), Part(s, i, n) = Part(s, j, n),
             IsCompleteDetectionBox(Part(s, j, n))
      PROVE  FALSE
  <2>1. /\ i \in Nat \ {0} /\ j \in Nat \ {0} /\ i < j /\ n \in Nat /\ n >= 3
    BY <1>1, <1>2 DEF BoxLengths
  <2>2. /\ Part(s, j, n) \in Seq(Token) /\ Len(Part(s, j, n)) = n
        /\ \A k \in 1 .. n : Part(s, j, n)[k] = s[j + k - 1]
    BY <1>1, <1>2, <2>1, PartTokens
  <2>3. /\ Part(s, j, n)[1] = BoxStart
        /\ \A k \in 1 .. n - 1 : Part(s, j, n)[k] # BoxEnd
    BY <1>2, <2>2, BoxShape
  <2>4. CASE j \in S
    <3>1. j + n - 1 > Len(r) /\ j <= Len(r)
      <4>1. /\ j + n - 1 <= Len(r \o q)
            /\ Part(r \o q, i, n) = Part(r \o q, j, n)
            /\ IsCompleteDetectionBox(Part(r \o q, j, n))
        BY <1>2
      <4>2. j + n - 1 > Len(r)
        BY <2>1, <2>4, <4>1, OnlyNewBoxes
      <4> QED
        BY <2>4, <4>2
    <3> HIDE DEF s
    <3>2. s[j] = BoxStart /\ s[j] = r[j]
      <4>1. Part(s, j, n)[1] = s[j + 1 - 1] /\ j + 1 - 1 = j
        BY <2>1, <2>2
      <4>2. s[j] = r[j]
        BY <1>1, <2>1, <3>1
      <4> QED
        BY <2>3, <4>1, <4>2
    <3>3. PICK k \in j + 1 .. Len(r) : r[k] = BoxEnd
      BY <2>4, <3>2 DEF Settled
    <3>4. k - j + 1 \in 1 .. n - 1 /\ k - j + 1 \in 1 .. n /\ j + (k - j + 1) - 1 = k
          /\ k \in 1 .. Len(r)
      BY <1>1, <2>1, <3>1
    <3>5. Part(s, j, n)[k - j + 1] = s[k] /\ s[k] = r[k]
      <4>1. Part(s, j, n)[k - j + 1] = s[j + (k - j + 1) - 1]
        BY <2>2, <3>4, Zenon
      <4>2. s[k] = r[k]
        BY <1>1, <3>4, Zenon
      <4> QED
        BY <3>4, <4>1, <4>2
    <3> QED
      BY <2>3, <3>3, <3>4, <3>5
  <2>5. CASE j = Len(r) + 1
    <3> HIDE DEF s
    <3>1. n <= Len(q) /\ 1 + n - 1 = n /\ 1 \in Nat \ {0}
      BY <1>1, <1>2, <2>1, <2>5
    <3>2. /\ Part(q, 1, n) \in Seq(Token) /\ Len(Part(q, 1, n)) = n
          /\ \A k \in 1 .. n : Part(q, 1, n)[k] = q[1 + k - 1]
      BY <3>1, PartTokens
    <3>3. \A k \in 1 .. n : Part(s, j, n)[k] = Part(q, 1, n)[k]
      <4> SUFFICES ASSUME NEW k \in 1 .. n  PROVE Part(s, j, n)[k] = Part(q, 1, n)[k]
        OBVIOUS
      <4>1. k \in 1 .. Len(q) /\ j + k - 1 = Len(r) + k /\ 1 + k - 1 = k
        BY <1>1, <2>1, <2>5, <3>1
      <4>2. Part(s, j, n)[k] = s[j + k - 1] /\ Part(q, 1, n)[k] = q[1 + k - 1]
        BY <2>2, <3>2, Zenon
      <4>3. s[Len(r) + k] = q[k]
        BY <1>1, <4>1, Zenon
      <4> QED
        BY <4>1, <4>2, <4>3
    <3>4. Part(s, j, n) = Part(q, 1, n)
      BY <2>2, <3>2, <3>3, SeqEqual
    <3>5. n = Len(q)
      BY <1>1, <1>2, <2>1, <3>1, <3>4 DEF Undivided
    <3>6. Part(s, j, n) = q
      <4>1. SubSeq(q, 1, Len(q)) = q
        OBVIOUS
      <4> QED
        BY <3>1, <3>4, <3>5, <4>1 DEF Part
    <3>7. i + n - 1 < j
      BY <1>1, <1>2, <2>1, BoxesApart
    <3>8. i + n - 1 <= Len(r) /\ Len(r) <= Len(s)
      BY <1>1, <2>1, <2>5, <3>7
    <3>9. SubSeq(s, 1, Len(r)) = r
      BY DEF s
    <3>10. Occurs(Part(s, i, n), SubSeq(s, 1, Len(r)))
      BY <1>1, <2>1, <3>8, PartOccurs
    <3>11. HasRepeatedDetectionBox(r, q)
      BY <1>2, <3>6, <3>9, <3>10 DEF HasRepeatedDetectionBox
    <3> QED
      BY <3>11
  <2> QED
    BY <1>2, <2>4, <2>5
<1> HIDE DEF s
<1>3. NoneRepeats(s, S \union {Len(r) + 1})
  BY <1>2 DEF NoneRepeats
<1> QED
  BY <1>3 DEF s

\* The tokens of a run are all in its set.
LEMMA RunElements ==
  ASSUME NEW s \in Seq(Token), NEW S, NEW k \in 1 .. RunLength(s, S)
  PROVE  s[k] \in S
<1> DEFINE run == {n \in 1 .. Len(s) : \A i \in 1 .. n : s[i] \in S}
<1> SUFFICES ASSUME s[k] \notin S  PROVE FALSE
  OBVIOUS
<1>1. Cardinality(run) \in 0 .. Len(s) /\ k \in 1 .. Cardinality(run) /\ Len(s) \in Nat
  <2>1. RunLength(s, S) \in 0 .. Len(s)
    BY RunLengthBounds
  <2>2. RunLength(s, S) = Cardinality(run)
    BY DEF RunLength
  <2> QED
    BY <2>1, <2>2
<1>2. k \in Nat /\ k >= 1 /\ k <= Cardinality(run) /\ Cardinality(run) \in Nat
  BY <1>1
<1>3. run \subseteq 1 .. k - 1
  BY <1>2
<1> HIDE DEF run
<1>4. IsFiniteSet(1 .. k - 1) /\ Cardinality(1 .. k - 1) = k - 1
  <2>1. 1 \in Int /\ k - 1 \in Int /\ (k - 1) - 1 + 1 = k - 1 /\ (1 > k - 1 => k - 1 = 0)
    BY <1>2
  <2>2. /\ IsFiniteSet(1 .. k - 1)
        /\ Cardinality(1 .. k - 1) = IF 1 > k - 1 THEN 0 ELSE (k - 1) - 1 + 1
    BY <2>1, FS_Interval
  <2> QED
    BY <2>1, <2>2
<1>5. Cardinality(run) <= k - 1
  BY <1>3, <1>4, FS_Subset
<1> QED
  BY <1>2, <1>5

\* What a decision says about the box its window opens: no box ends inside it,
\* and unless the autoregressive decoder goes on, it ends there.
Opens(t) == t[1] = BoxStart

BoxSound(d) ==
  /\ d.tokens \in Seq(Token) /\ Len(d.tokens) >= 1
  /\ Opens(d.tokens) => \A k \in 2 .. Len(d.tokens) - 1 : d.tokens[k] # BoxEnd
  /\ Opens(d.tokens) /\ ~d.ar => Len(d.tokens) >= 2 /\ d.tokens[Len(d.tokens)] = BoxEnd

LEMMA CoordinateRun ==
  ASSUME NEW w \in Window
  PROVE  /\ RunLength(SubSeq(w, 2, 5), Coordinates) \in 0 .. 4
         /\ \A k \in 2 .. RunLength(SubSeq(w, 2, 5), Coordinates) + 1 : w[k] # BoxEnd
<1> DEFINE u == SubSeq(w, 2, 5)
           c == RunLength(u, Coordinates)
<1>1. w \in Seq(Token) /\ Len(w) = 6
  BY DEF Window, WindowSize
<1>2. u \in Seq(Token) /\ Len(u) = 4 /\ \A k \in 1 .. 4 : u[k] = w[k + 1]
  <2>1. u \in Seq(Token) /\ Len(u) = 4
    BY PartOfWindow
  <2>2. \A k \in 1 .. 4 : u[k] = w[k + 1]
    BY <1>1
  <2> QED
    BY <2>1, <2>2
<1> HIDE DEF u
<1>3. c \in 0 .. 4 /\ \A k \in 1 .. c : u[k] \in Coordinates
  BY <1>2, RunLengthBounds, RunElements
<1> HIDE DEF c
<1>4. \A k \in 2 .. c + 1 : w[k] # BoxEnd
  <2> SUFFICES ASSUME NEW k \in 2 .. c + 1  PROVE w[k] # BoxEnd
    OBVIOUS
  <2>1. k - 1 \in 1 .. c /\ k - 1 \in 1 .. 4 /\ (k - 1) + 1 = k
    BY <1>3
  <2>2. u[k - 1] \in Coordinates /\ u[k - 1] = w[(k - 1) + 1]
    BY <1>2, <1>3, <2>1, Zenon
  <2> QED
    BY <2>1, <2>2, TokenAssumption
<1> QED
  BY <1>3, <1>4 DEF c, u

\* A prefix of a window keeps its tokens.
LEMMA WindowPrefix ==
  ASSUME NEW w \in Window, NEW n \in 1 .. 6
  PROVE  /\ SubSeq(w, 1, n) \in Seq(Token) /\ Len(SubSeq(w, 1, n)) = n
         /\ \A k \in 1 .. n : SubSeq(w, 1, n)[k] = w[k]
<1>1. w \in Seq(Token) /\ Len(w) = 6
  BY DEF Window, WindowSize
<1>2. SubSeq(w, 1, n) \in Seq(Token) /\ Len(SubSeq(w, 1, n)) = n
  BY PartOfWindow
<1>3. \A k \in 1 .. n : SubSeq(w, 1, n)[k] = w[k]
  BY <1>1
<1> QED
  BY <1>2, <1>3

\* An accepted box that is closed by its last token only is sound.
LEMMA SoundTokens ==
  ASSUME NEW t \in Seq(Token), Len(t) >= 2, t[Len(t)] = BoxEnd,
         \A k \in 2 .. Len(t) - 1 : t[k] # BoxEnd
  PROVE  BoxSound(Accept(t))
<1>1. Accept(t).tokens = t /\ Accept(t).ar = FALSE
  BY DEF Accept
<1>2. Len(t) >= 1
  OBVIOUS
<1> QED
  BY <1>1, <1>2, Zenon DEF BoxSound

LEMMA BoxDecisionSound ==
  ASSUME NEW w \in Window
  PROVE  BoxSound(BoxDecision(w))
<1> DEFINE c == RunLength(SubSeq(w, 2, 5), Coordinates)
<1>1. w \in Seq(Token) /\ Len(w) = 6
  BY DEF Window, WindowSize
<1>2. c \in 0 .. 4 /\ \A k \in 2 .. c + 1 : w[k] # BoxEnd
  BY CoordinateRun
<1> HIDE DEF c
<1>3. BoxSound(Accept(<<BoxStart, NoneToken, BoxEnd>>))
  <2> DEFINE t == <<BoxStart, NoneToken, BoxEnd>>
  <2>1. t \in Seq(Token) /\ Len(t) = 3 /\ t[2] = NoneToken /\ t[3] = BoxEnd
    BY DEF Token
  <2>2. NoneToken # BoxEnd
    BY TokenAssumption
  <2> HIDE DEF t
  <2>3. BoxSound(Accept(t))
    BY <2>1, <2>2 DEF BoxSound, Accept
  <2> QED
    BY <2>3 DEF t
<1>4. ASSUME c = 4, w[6] = BoxEnd  PROVE BoxSound(Accept(w))
  <2>1. Len(w) >= 2 /\ w[Len(w)] = BoxEnd
    BY <1>1, <1>4
  <2>2. \A k \in 2 .. Len(w) - 1 : k \in 2 .. c + 1
    BY <1>1, <1>4
  <2>3. \A k \in 2 .. Len(w) - 1 : w[k] # BoxEnd
    BY <1>2, <2>2, Zenon
  <2> QED
    BY <1>1, <2>1, <2>3, SoundTokens, Zenon
<1>5. ASSUME c = 2, w[4] = BoxEnd  PROVE BoxSound(Accept(SubSeq(w, 1, 4)))
  <2> DEFINE t == SubSeq(w, 1, 4)
  <2>1. t \in Seq(Token) /\ Len(t) = 4 /\ \A k \in 1 .. 4 : t[k] = w[k]
    BY WindowPrefix
  <2> HIDE DEF t
  <2>2. BoxSound(Accept(t))
    <3>1. Len(t) >= 2 /\ t[Len(t)] = BoxEnd
      BY <1>5, <2>1
    <3>2. \A k \in 2 .. Len(t) - 1 : k \in 2 .. c + 1 /\ k \in 1 .. 4
      BY <1>5, <2>1
    <3>3. \A k \in 2 .. Len(t) - 1 : t[k] # BoxEnd
      BY <1>2, <2>1, <3>2, Zenon
    <3> QED
      BY <2>1, <3>1, <3>3, SoundTokens, Zenon
  <2> QED
    BY <2>2 DEF t
<1>6. BoxSound(Continue(SubSeq(w, 1, c + 1)))
  <2> DEFINE t == SubSeq(w, 1, c + 1)
  <2>1. c + 1 \in 1 .. 6
    BY <1>2
  <2>2. t \in Seq(Token) /\ Len(t) = c + 1 /\ \A k \in 1 .. c + 1 : t[k] = w[k]
    BY <2>1, WindowPrefix
  <2> HIDE DEF t
  <2>3. BoxSound(Continue(t))
    BY <1>2, <2>2 DEF BoxSound, Continue
  <2> QED
    BY <2>3 DEF t
<1> QED
  BY <1>3, <1>4, <1>5, <1>6 DEF BoxDecision, c

LEMMA RefDecisionSound ==
  ASSUME NEW w \in Window, w[1] # Null, w[1] # BoxStart
  PROVE  BoxSound(RefDecision(w))
<1> DEFINE n == RunLength(w, Token \ {Null})
<1>1. w \in Seq(Token) /\ Len(w) = 6 /\ w[1] \in Token
  BY DEF Window, WindowSize
<1>2. n \in 1 .. 6
  <2>1. n \in 0 .. Len(w) /\ (Len(w) > 0 /\ w[1] \in Token \ {Null} => n >= 1)
    BY <1>1, RunLengthBounds, Zenon
  <2> QED
    BY <1>1, <2>1
<1> HIDE DEF n
<1>3. ASSUME NEW m \in 1 .. 6  PROVE BoxSound(Accept(SubSeq(w, 1, m)))
  <2> DEFINE t == SubSeq(w, 1, m)
  <2>1. t \in Seq(Token) /\ Len(t) = m /\ \A k \in 1 .. m : t[k] = w[k]
    BY WindowPrefix
  <2>2. t[1] # BoxStart
    BY <2>1
  <2> HIDE DEF t
  <2>3. BoxSound(Accept(t))
    BY <2>1, <2>2 DEF BoxSound, Accept, Opens
  <2> QED
    BY <2>3 DEF t
<1>4. n >= 2 => n - 1 \in 1 .. 6
  BY <1>2
<1> QED
  BY <1>2, <1>3, <1>4 DEF RefDecision, n

LEMMA DecisionSound ==
  ASSUME NEW w \in Window, ~HandlePattern(w).terminal
  PROVE  BoxSound(HandlePattern(w))
BY BoxDecisionSound, RefDecisionSound DEF HandlePattern, Terminal

LEMMA SoundUndivided ==
  ASSUME NEW d, BoxSound(d)
  PROVE  Undivided(d.tokens)
<1> DEFINE q == d.tokens
<1>1. /\ q \in Seq(Token) /\ Len(q) \in Nat
      /\ q[1] = BoxStart => \A k \in 2 .. Len(q) - 1 : q[k] # BoxEnd
  BY DEF BoxSound, Opens
<1> HIDE DEF q
<1>2. ASSUME NEW n \in BoxLengths, n < Len(q), IsCompleteDetectionBox(Part(q, 1, n))
      PROVE  FALSE
  <2>1. n \in 2 .. Len(q) - 1 /\ n \in Nat /\ 1 \in Nat \ {0} /\ 1 + n - 1 = n /\ n <= Len(q)
    BY <1>1, <1>2 DEF BoxLengths
  <2>2. /\ Part(q, 1, n) \in Seq(Token) /\ Len(Part(q, 1, n)) = n
        /\ \A k \in 1 .. n : Part(q, 1, n)[k] = q[1 + k - 1]
    BY <1>1, <2>1, PartTokens
  <2>3. Part(q, 1, n)[1] = q[1] /\ Part(q, 1, n)[n] = q[n]
    BY <2>1, <2>2
  <2>4. Part(q, 1, n)[1] = BoxStart /\ Part(q, 1, n)[n] = BoxEnd
    BY <1>2, <2>2, BoxShape
  <2> QED
    BY <1>1, <2>1, <2>3, <2>4
<1>3. Undivided(q)
  BY <1>2 DEF Undivided
<1> QED
  BY <1>3 DEF q

\* A settled place stays settled, and one behind a sound, closed box becomes so.
LEMMA SettledKept ==
  ASSUME NEW r \in Seq(Token), NEW q \in Seq(Token), NEW j \in 1 .. Len(r), Settled(r, j)
  PROVE  Settled(r \o q, j)
<1> DEFINE s == r \o q
<1>1. /\ Len(s) = Len(r) + Len(q) /\ Len(r) \in Nat /\ Len(q) \in Nat
      /\ \A k \in 1 .. Len(r) : s[k] = r[k]
  OBVIOUS
<1> HIDE DEF s
<1>2. s[j] = r[j]
  BY <1>1
<1>3. ASSUME NEW k \in j + 1 .. Len(r), r[k] = BoxEnd
      PROVE  k \in j + 1 .. Len(s) /\ s[k] = BoxEnd
  <2>1. k \in 1 .. Len(r) /\ k \in j + 1 .. Len(s)
    BY <1>1
  <2> QED
    BY <1>1, <1>3, <2>1, Zenon
<1>4. Settled(s, j)
  BY <1>2, <1>3 DEF Settled
<1> QED
  BY <1>4 DEF s

LEMMA WindowSettled ==
  ASSUME NEW r \in Seq(Token), NEW d, BoxSound(d), ~d.ar
  PROVE  Settled(r \o d.tokens, Len(r) + 1)
<1> DEFINE q == d.tokens
           s == r \o q
<1>1. /\ q \in Seq(Token) /\ Len(q) >= 1 /\ Len(q) \in Nat
      /\ q[1] = BoxStart => Len(q) >= 2 /\ q[Len(q)] = BoxEnd
  BY DEF BoxSound, Opens
<1> HIDE DEF q
<1>2. /\ Len(s) = Len(r) + Len(q) /\ Len(r) \in Nat
      /\ \A k \in 1 .. Len(q) : s[Len(r) + k] = q[k]
  BY <1>1
<1> HIDE DEF s
<1>3. s[Len(r) + 1] = q[1] /\ s[Len(r) + Len(q)] = q[Len(q)]
  BY <1>1, <1>2
<1>4. ASSUME s[Len(r) + 1] = BoxStart
      PROVE  /\ Len(r) + Len(q) \in (Len(r) + 1) + 1 .. Len(s)
             /\ s[Len(r) + Len(q)] = BoxEnd
  BY <1>1, <1>2, <1>3, <1>4
<1>5. Settled(s, Len(r) + 1)
  BY <1>4 DEF Settled
<1> QED
  BY <1>5 DEF q, s

\* A closing token settles every place before it.
LEMMA ClosingSettles ==
  ASSUME NEW r \in Seq(Token), NEW j \in 1 .. Len(r)
  PROVE  Settled(r \o <<BoxEnd>>, j)
<1> DEFINE s == r \o <<BoxEnd>>
<1>1. Len(s) = Len(r) + 1 /\ Len(r) \in Nat /\ s[Len(r) + 1] = BoxEnd
  BY DEF Token
<1> HIDE DEF s
<1>2. Len(r) + 1 \in j + 1 .. Len(s)
  BY <1>1
<1>3. Settled(s, j)
  BY <1>1, <1>2 DEF Settled
<1> QED
  BY <1>3 DEF s

LEMMA AppendOne ==
  ASSUME NEW r \in Seq(Token), NEW t \in Token
  PROVE  Append(r, t) = r \o <<t>>
OBVIOUS

\* The boxes of a protected hybrid run: none that a window opened repeats another,
\* and before each window none is left open.
BoxesSoFar ==
  /\ starts \subseteq 1 .. Len(response)
  /\ NoneRepeats(response, starts)
  /\ usePbd => \A j \in starts : Settled(response, j)

Delivered == phase = "done" /\ request.mode = "hybrid" /\ fallbackReason = ""

BoxInv ==
  request.protect =>
    /\ phase \in {"hybrid", "decide"} => BoxesSoFar
    /\ Delivered => NoneRepeats(response, starts)

LEMMA StartsWithin ==
  ASSUME NEW r \in Seq(Token), NEW q \in Seq(Token), Len(q) >= 1,
         NEW S, S \subseteq 1 .. Len(r)
  PROVE  S \union {Len(r) + 1} \subseteq 1 .. Len(r \o q)
<1>1. Len(r \o q) = Len(r) + Len(q) /\ Len(r) \in Nat /\ Len(q) \in Nat
  OBVIOUS
<1>2. 1 .. Len(r) \subseteq 1 .. Len(r) + Len(q) /\ Len(r) + 1 \in 1 .. Len(r) + Len(q)
  BY <1>1
<1> QED
  BY <1>1, <1>2

LEMMA NoBoxes == NoneRepeats(<<>>, {})
BY DEF NoneRepeats

LEMMA BoxesAcceptWindow ==
  ASSUME GenInv, BoxInv, request.protect, NEW d, BoxSound(d), AcceptWindow(d)
  PROVE  phase' = "hybrid" /\ BoxesSoFar'
<1> DEFINE q == d.tokens
<1>1. /\ phase = "decide" /\ phase' = "hybrid" /\ ~d.ar /\ ~HasRepeatedDetectionBox(response, q)
      /\ response' = response \o q /\ starts' = starts \union {Len(response) + 1}
      /\ usePbd' = usePbd
  BY Zenon DEF AcceptWindow, Acceptable, Deciding, Repeated, Push
<1>2. /\ response \in Seq(Token) /\ usePbd
      /\ starts \subseteq 1 .. Len(response) /\ NoneRepeats(response, starts)
      /\ \A j \in starts : Settled(response, j)
  BY <1>1 DEF GenInv, TypeOK, BootstrapFresh, BoxInv, BoxesSoFar
<1>3. q \in Seq(Token) /\ Len(q) >= 1 /\ Undivided(q)
  BY SoundUndivided DEF BoxSound
<1>4. Settled(response \o q, Len(response) + 1)
  BY <1>1, <1>2, WindowSettled
<1> HIDE DEF q
<1>5. NoneRepeats(response \o q, starts \union {Len(response) + 1})
  BY <1>1, <1>2, <1>3, PushWindow
<1>6. \A j \in starts : Settled(response \o q, j)
  BY <1>2, <1>3, SettledKept
<1>7. starts' \subseteq 1 .. Len(response')
  BY <1>1, <1>2, <1>3, StartsWithin
<1> QED
  BY <1>1, <1>4, <1>5, <1>6, <1>7 DEF BoxesSoFar

LEMMA BoxesSwitchToAr ==
  ASSUME GenInv, BoxInv, request.protect, NEW d, BoxSound(d), SwitchToAr(d)
  PROVE  phase' = "fallback" \/ (phase' = "hybrid" /\ BoxesSoFar')
<1> DEFINE q == d.tokens
<1>1. phase = "decide" /\ ~HasRepeatedDetectionBox(response, q)
  BY Zenon DEF SwitchToAr, Acceptable, Deciding, Repeated
<1>2. \/ phase' = "fallback"
      \/ /\ phase' = "hybrid" /\ usePbd' = FALSE
         /\ response' = response \o q /\ starts' = starts \union {Len(response) + 1}
  BY Zenon DEF SwitchToAr, Push, HybridReturns
<1>3. /\ response \in Seq(Token)
      /\ starts \subseteq 1 .. Len(response) /\ NoneRepeats(response, starts)
      /\ \A j \in starts : Settled(response, j)
  BY <1>1 DEF GenInv, TypeOK, BootstrapFresh, BoxInv, BoxesSoFar
<1>4. q \in Seq(Token) /\ Len(q) >= 1 /\ Undivided(q)
  BY SoundUndivided DEF BoxSound
<1> HIDE DEF q
<1>5. NoneRepeats(response \o q, starts \union {Len(response) + 1})
  BY <1>1, <1>3, <1>4, PushWindow
<1>6. starts \union {Len(response) + 1} \subseteq 1 .. Len(response \o q)
  BY <1>3, <1>4, StartsWithin
<1> QED
  BY <1>2, <1>5, <1>6 DEF BoxesSoFar

LEMMA BoxesEndOfText ==
  ASSUME GenInv, BoxInv, request.protect, NEW d, d.tokens = <<ImEnd>>, EndOfText(d)
  PROVE  phase' = "done" /\ NoneRepeats(response', starts')
<1>1. /\ phase = "decide" /\ phase' = "done"
      /\ response' = response \o <<ImEnd>> /\ starts' = starts
  BY Zenon DEF EndOfText, Push, HybridReturns
<1>2. /\ response \in Seq(Token)
      /\ starts \subseteq 1 .. Len(response) /\ NoneRepeats(response, starts)
  BY <1>1 DEF GenInv, TypeOK, BoxInv, BoxesSoFar
<1>3. ImEnd \in Token /\ ImEnd # BoxEnd
  BY TokenAssumption DEF Token
<1> QED
  BY <1>1, <1>2, <1>3, PushOpen

LEMMA BoxesDecide ==
  ASSUME GenInv, BoxInv, request.protect, Decide
  PROVE  \/ phase' = "fallback"
         \/ phase' = "hybrid" /\ BoxesSoFar'
         \/ phase' = "done" /\ NoneRepeats(response', starts')
<1>1. PICK w \in Windows :
        LET d == HandlePattern(w) IN
        EndOfText(d) \/ RepeatedBox(d) \/ Truncate(d) \/ AcceptWindow(d) \/ SwitchToAr(d)
  BY DEF Decide
<1> DEFINE d == HandlePattern(w)
<1>2. w \in Window
  BY AnswerAssumption
<1>3. (d.terminal => d.tokens = <<ImEnd>>) /\ (~d.terminal => BoxSound(d))
  BY <1>2, DecisionShape, DecisionSound DEF Decided
<1>4. EndOfText(d) \/ RepeatedBox(d) \/ Truncate(d) \/ AcceptWindow(d) \/ SwitchToAr(d)
  BY <1>1
<1> HIDE DEF d
<1>5. CASE EndOfText(d)
  BY <1>3, <1>5, BoxesEndOfText DEF EndOfText
<1>6. CASE RepeatedBox(d) \/ Truncate(d)
  BY <1>6, Zenon DEF RepeatedBox, Truncate, HybridReturns
<1>7. CASE AcceptWindow(d)
  BY <1>3, <1>7, BoxesAcceptWindow DEF AcceptWindow, Acceptable, Deciding
<1>8. CASE SwitchToAr(d)
  BY <1>3, <1>8, BoxesSwitchToAr DEF SwitchToAr, Acceptable, Deciding
<1> QED
  BY <1>4, <1>5, <1>6, <1>7, <1>8

LEMMA BoxesArStep ==
  ASSUME GenInv, BoxInv, request.protect, ArStep
  PROVE  phase' = "fallback" \/ (phase' = "hybrid" /\ BoxesSoFar')
<1>1. PICK t \in ArTokens : ArStops(t) \/ ArClosesBox(t) \/ ArContinues(t)
  BY DEF ArStep
<1>2. t \in Token
  BY AnswerAssumption
<1>3. /\ phase = "hybrid" /\ ~usePbd
      /\ response' = response \o <<t>> /\ starts' = starts
  BY <1>1, Zenon DEF ArStops, ArClosesBox, ArContinues, PushAr, Looping, Push
<1>4. /\ response \in Seq(Token)
      /\ starts \subseteq 1 .. Len(response) /\ NoneRepeats(response, starts)
  BY <1>3 DEF GenInv, TypeOK, BoxInv, BoxesSoFar
<1>5. starts \subseteq 1 .. Len(response \o <<t>>)
  <2>1. <<t>> \in Seq(Token) /\ Len(<<t>>) >= 1
    BY <1>2, Single
  <2> QED
    BY <1>4, <2>1, StartsWithin
<1>6. CASE ArStops(t)
  BY <1>6 DEF ArStops, HybridReturns
<1>7. CASE ArClosesBox(t)
  <2>1. t = BoxEnd /\ usePbd' = TRUE /\ phase' = phase
    BY <1>7, Zenon DEF ArClosesBox
  <2>2. ~HasRepeatedTrailingDetectionBox(response \o <<BoxEnd>>)
    <3>1. ~RepeatsBox(t)
      BY <1>7, Zenon DEF ArClosesBox
    <3>2. Append(response, t) = response \o <<t>>
      BY <1>2, <1>4, AppendOne
    <3> QED
      BY <2>1, <3>1, <3>2 DEF RepeatsBox
  <2>3. NoneRepeats(response \o <<BoxEnd>>, starts)
    BY <1>4, <2>2, PushClosing
  <2>4. \A j \in starts : Settled(response \o <<BoxEnd>>, j)
    BY <1>4, ClosingSettles
  <2> QED
    BY <1>3, <1>5, <2>1, <2>3, <2>4 DEF BoxesSoFar
<1>8. CASE ArContinues(t)
  <2>1. t # BoxEnd /\ usePbd' = usePbd /\ phase' \in {"hybrid", "fallback"}
    BY <1>3, <1>8 DEF ArContinues, HybridReturns
  <2>2. NoneRepeats(response \o <<t>>, starts)
    BY <1>2, <1>4, <2>1, PushOpen
  <2> QED
    BY <1>3, <1>5, <2>1, <2>2 DEF BoxesSoFar
<1> QED
  BY <1>1, <1>6, <1>7, <1>8

LEMMA BoxesSlowStep ==
  ASSUME SlowByChoice, SlowStep
  PROVE  phase' \notin {"hybrid", "decide"} /\ ~Delivered'
<1>1. /\ phase = "slow" /\ UNCHANGED <<request, fallbackReason>>
      /\ phase' \in {"slow", "done", "failed"}
  BY DEF SlowStep, SlowEnds, SlowStops, SlowContinues, PushSlow
<1> QED
  BY <1>1 DEF SlowByChoice, Delivered

LEMMA BoxesRun ==
  ASSUME GenInv, BoxInv, request.protect, LoopEnds \/ Bootstrap \/ RunWindow
  PROVE  phase' = "fallback" \/ (phase' \in {"hybrid", "decide"} /\ BoxesSoFar')
<1>1. CASE LoopEnds
  BY <1>1 DEF LoopEnds, HybridReturns
<1>2. CASE Bootstrap
  <2>1. phase = "hybrid" /\ phase' = "decide" /\ UNCHANGED <<response, starts, usePbd>>
    BY <1>2, Zenon DEF Bootstrap, Looping, text
  <2> QED
    BY <2>1 DEF BoxInv, BoxesSoFar
<1>3. CASE RunWindow
  <2>1. /\ phase = "hybrid" /\ phase' \in {"decide", "fallback"}
        /\ UNCHANGED <<response, starts, usePbd>>
    BY <1>3 DEF RunWindow, Looping, HybridReturns, text, control
  <2> QED
    BY <2>1 DEF BoxInv, BoxesSoFar
<1> QED
  BY <1>1, <1>2, <1>3

LEMMA StepBoxes ==
  ASSUME GenInv, SlowByChoice, BoxInv, [Next]_vars
  PROVE  BoxInv'
<1>1. CASE UNCHANGED vars
  BY <1>1 DEF vars, text, control, outcome, BoxInv, BoxesSoFar, Delivered
<1>2. CASE \E r \in Requests : Generate(r)
  BY <1>2 DEF Generate, BoxInv, Delivered
<1>3. CASE PrefillFails \/ FallbackFails \/ Return \/ Fallback
  BY <1>3 DEF PrefillFails, FallbackFails, Return, Fallback, BoxInv, Delivered
<1>4. CASE Prefill
  <2>1. response' = <<>> /\ starts' = {} /\ phase' = request.mode
    BY <1>4, Zenon DEF Prefill
  <2>2. phase' # "done"
    BY <2>1, PromptText DEF GenInv, TypeOK
  <2>3. BoxesSoFar'
    BY <2>1, NoBoxes DEF BoxesSoFar
  <2> QED
    BY <2>2, <2>3 DEF BoxInv, Delivered
<1>5. CASE RunHybridGeneration
  <2>1. request' = request
    BY <1>5 DEF RunHybridGeneration, LoopEnds, Bootstrap, RunWindow, Decide, EndOfText,
       RepeatedBox, Truncate, AcceptWindow, SwitchToAr, ArStep, ArStops, ArClosesBox,
       ArContinues, HybridReturns
  <2> SUFFICES ASSUME request.protect  PROVE BoxInv'
    BY <2>1 DEF BoxInv
  <2>2. CASE LoopEnds \/ Bootstrap \/ RunWindow
    BY <2>2, BoxesRun DEF BoxInv, Delivered
  <2>3. CASE Decide
    BY <2>3, BoxesDecide DEF BoxInv, Delivered
  <2>4. CASE ArStep
    BY <2>4, BoxesArStep DEF BoxInv, Delivered
  <2> QED
    BY <1>5, <2>2, <2>3, <2>4 DEF RunHybridGeneration
<1>6. CASE SlowStep
  BY <1>6, BoxesSlowStep DEF BoxInv
<1> QED
  BY <1>1, <1>2, <1>3, <1>4, <1>5, <1>6 DEF Next, Work

LEMMA BoxesOnce == TypeOK /\ BoxInv => NoOpenedBoxRepeats
<1> SUFFICES ASSUME TypeOK, BoxInv, Delivered, request.protect,
                    NEW j \in starts, NEW n \in {3, 4, 6}, NEW i \in 1 .. j - 1,
                    j + n - 1 <= Len(response) /\ BoxAt(i, n) = BoxAt(j, n)
             PROVE  ~IsCompleteDetectionBox(BoxAt(j, n))
  BY DEF NoOpenedBoxRepeats, Delivered
<1> QED
  BY DEF BoxInv, NoneRepeats, BoxLengths, BoxAt, Part

\* In a protected hybrid result no box that a window opened repeats one that
\* stands before it (language.cpp:1228, 1273): whatever windows and tokens the
\* model answers, the two guards, which look only at the newest box, are enough
\* for that.  Boxes inside names are outside it.
THEOREM OpenedBoxesNew == Spec => []NoOpenedBoxRepeats
<1>1. Init => SlowByChoice /\ BoxInv
  BY DEF Init, SlowByChoice, BoxInv, Delivered
<1>2. GenInv /\ SlowByChoice /\ BoxInv /\ [Next]_vars => SlowByChoice' /\ BoxInv'
  BY StepBoxes, StepSlowByChoice
<1>3. GenInv /\ BoxInv => NoOpenedBoxRepeats
  BY BoxesOnce DEF GenInv
<1> QED
  BY <1>1, <1>2, <1>3, Invariance, PTL DEF Spec
==============================================================================
