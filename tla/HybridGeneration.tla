-------------------------- MODULE HybridGeneration --------------------------
(***************************************************************************)
(* LanguageEngine::Generate: one prefill, then the hybrid loop (six-token  *)
(* PBD windows with a temporary autoregressive detour for incomplete       *)
(* boxes) or the strictly autoregressive slow loop, and the fallback from  *)
(* the first to the second.  Calls are serialised by the engine's mutex,   *)
(* so one call runs at a time and its steps are the loop iterations.       *)
(*                                                                         *)
(* A token is a member of a small set; the KV cache is the sequence of     *)
(* tokens whose rows were committed; a logits tensor is the text it was    *)
(* computed over.  What the model answers (the decoded window, the greedy  *)
(* token) is an input.                                                     *)
(***************************************************************************)
EXTENDS PbdPattern

CONSTANTS
  Windows,       \* the windows the model can answer with
  ArTokens,      \* the tokens it can answer with one at a time
  SlowTokens,    \* the same for the slow loop
  Prompts,       \* token sequences of the prompts
  Budgets,       \* values of max_new_tokens
  PrefillLen,    \* layout.prefill_len
  CacheLen,      \* layout.cache_len
  FusedPrefill,  \* layout.fused_prefill
  Unreadable     \* what a graph computes from rows nobody wrote

ASSUME AnswerAssumption ==
  Windows \subseteq Window /\ ArTokens \subseteq Token /\ SlowTokens \subseteq Token
ASSUME LayoutAssumption ==
  /\ PrefillLen \in Nat /\ CacheLen \in Nat /\ PrefillLen < CacheLen
  /\ FusedPrefill \in BOOLEAN
\* Generate rejects an empty or too long prompt and a budget below one.
ASSUME InputAssumption ==
  /\ Prompts \subseteq {p \in Seq(Token) : Len(p) \in 1 .. PrefillLen}
  /\ Budgets \subseteq Nat \ {0}
ASSUME UnreadableAssumption == Unreadable \notin Seq(Token)

VARIABLES
  phase,        \* where RunPayload stands
  request,      \* the arguments of Generate
  response,     \* the tokens generated for the caller
  generated,    \* prompt and response: the decoder's history
  pendingPbd,   \* accepted tokens whose KV rows are not committed yet
  usePbd,       \* the next hybrid iteration is a PBD window
  bootstrap,    \* the fused prefill logits are still unused
  cache,        \* rows of the full cache, all layers alike
  torn,         \* an update failed after some of the 72 cache tensors
  historyLen,   \* committed rows according to the loop
  logits,       \* the text the current logits were computed over
  graph,        \* name and history length of the last graph launched
  stopReason,
  fallbackReason,
  pbdAccepted,  \* metrics->pbd_accepted_tokens
  arTokens,     \* metrics->ar_tokens
  \* history
  abandoned,    \* tokens thrown away by the fallback
  starts        \* positions in the response where a window was accepted

kv       == <<cache, torn, historyLen>>
text     == <<response, generated, starts>>
control  == <<pendingPbd, usePbd, bootstrap>>
outcome  == <<stopReason, fallbackReason>>
counters == <<pbdAccepted, arTokens, abandoned>>

vars == <<phase, request, text, control, kv, logits, graph, outcome, counters>>

Remaining == request.budget - Len(response)

\* The arguments Generate accepts; protect is set for object detection.
Requests == [prompt : Prompts, budget : Budgets, mode : {"hybrid", "slow"},
             protect : BOOLEAN]

Init ==
  /\ phase = "idle"
  /\ request \in Requests
  /\ response = <<>> /\ generated = <<>> /\ starts = {}
  /\ pendingPbd = <<>> /\ usePbd = TRUE /\ bootstrap = FALSE
  /\ cache = <<>> /\ torn = FALSE /\ historyLen = 0
  /\ logits = <<>>
  /\ graph = [name |-> <<"ar", 1>>, past |-> 0]
  /\ stopReason = "" /\ fallbackReason = ""
  /\ pbdAccepted = 0 /\ arTokens = 0 /\ abandoned = 0

------------------------------------------------------------------------------
(* Graphs and the KV cache *)

\* The decode graphs of the HBM contract, and the graph the loop asks for.
DecodeGraphs == ({"pbd"} \X (6 .. 12)) \union ({"ar"} \X (1 .. 5))
PbdGraph(prefix) == <<"pbd", WindowSize + prefix>>
ArGraph(query) == <<"ar", query>>

\* BuildMask refuses a query that does not fit behind the history.
Launchable(name) == name \in DecodeGraphs /\ historyLen + name[2] <= CacheLen

\* The rows the attention mask shows: the last historyLen of the window.
Visible ==
  IF torn \/ historyLen > Len(cache) THEN Unreadable
  ELSE SubSeq(cache, Len(cache) - historyLen + 1, Len(cache))

\* The text that a graph run on these query tokens has seen.
Seen(query) == IF Visible = Unreadable THEN Unreadable ELSE Visible \o query

Launch(name) == graph' = [name |-> name, past |-> historyLen]

\* Faulty variant: the loop forgets to count the rows.
CommitUncounted(rows) ==
  /\ historyLen + Len(rows) <= CacheLen
  /\ cache' = cache \o rows
  /\ UNCHANGED <<historyLen, torn>>

\* Faulty variant: the rows begin one row early, over the last committed one.
CommitOverlapping(rows) ==
  /\ historyLen + Len(rows) <= CacheLen
  /\ cache' = IF rows = <<>> THEN cache ELSE SubSeq(cache, 1, Len(cache) - 1) \o rows
  /\ historyLen' = historyLen + Len(rows)
  /\ UNCHANGED torn

\* AppendCacheUpdate committed these rows, and the loop counted them.
Commit(rows) ==
  /\ historyLen + Len(rows) <= CacheLen
  /\ cache' = cache \o rows
  /\ historyLen' = historyLen + Len(rows)
  /\ UNCHANGED torn

\* The graph failed, or a write to one of the cache tensors did.
BreakDown(rows) ==
  /\ torn' \in IF rows = <<>> THEN {torn} ELSE {torn, TRUE}
  /\ UNCHANGED <<cache, historyLen>>

------------------------------------------------------------------------------
(* Generate and RunPayload up to the decoder *)

Generate(r) ==
  /\ phase = "idle"
  /\ request' = r
  /\ phase' = "prefill"
  /\ UNCHANGED <<text, control, kv, logits, graph, outcome, counters>>

FusedInitialPbd == FusedPrefill /\ Len(request.prompt) + WindowSize <= PrefillLen

\* Faulty variant: the cache kept from the last call is not reseeded.
SeedCacheOnce ==
  /\ IF cache = <<>> \/ torn THEN cache' = request.prompt /\ torn' = FALSE
     ELSE UNCHANGED <<cache, torn>>
  /\ historyLen' = Len(request.prompt)

\* BuildFullCaches: the rows of the prompt, and nothing else.
SeedCache ==
  /\ cache' = request.prompt
  /\ torn' = FALSE
  /\ historyLen' = Len(request.prompt)

Prefill ==
  /\ phase = "prefill"
  /\ SeedCache
  /\ logits' = request.prompt
  /\ phase' = request.mode
  /\ response' = <<>> /\ generated' = request.prompt /\ starts' = {}
  /\ pendingPbd' = <<>> /\ usePbd' = TRUE /\ bootstrap' = FusedInitialPbd
  /\ UNCHANGED <<request, graph, outcome, counters>>

\* The prefill graph or the seeding fails, the latter maybe half way.
PrefillFails ==
  /\ phase = "prefill"
  /\ torn' \in {torn, TRUE}
  /\ phase' = "failed"
  /\ UNCHANGED <<request, text, control, cache, historyLen, logits, graph, outcome,
                 counters>>

\* RunHybridGeneration returns to RunPayload, which decides on the fallback.
HybridReturns(succeeded, reason) ==
  /\ stopReason' = reason
  /\ phase' = IF request.protect /\ (~succeeded \/ reason # "im_end") THEN "fallback"
              ELSE IF succeeded THEN "done" ELSE "failed"
  /\ UNCHANGED <<request, fallbackReason, abandoned>>

------------------------------------------------------------------------------
(* RunHybridGeneration: the loop head *)

RoomForWindow == historyLen + Len(pendingPbd) + WindowSize <= CacheLen

LoopEnds ==
  /\ phase = "hybrid"
  /\ \/ Remaining <= 0 /\ HybridReturns(TRUE, "max_new_tokens")
     \/ Remaining > 0 /\ historyLen >= CacheLen /\ HybridReturns(TRUE, "cache_limit")
     \/ /\ Remaining > 0 /\ historyLen < CacheLen
        /\ usePbd /\ ~RoomForWindow
        /\ HybridReturns(TRUE, "cache_limit_before_pbd")
  /\ UNCHANGED <<text, control, kv, logits, graph, pbdAccepted, arTokens>>

Looping == phase = "hybrid" /\ Remaining > 0 /\ historyLen < CacheLen

\* The first window is already in the prefill logits.
Bootstrap ==
  /\ Looping /\ usePbd /\ RoomForWindow
  /\ pendingPbd = <<>> /\ bootstrap
  /\ bootstrap' = FALSE
  /\ phase' = "decide"
  /\ UNCHANGED <<request, text, pendingPbd, usePbd, kv, logits, graph, outcome, counters>>

\* One PBD graph commits the pending tokens and evaluates the window after them.
RunWindow ==
  /\ Looping /\ usePbd /\ RoomForWindow
  /\ pendingPbd # <<>> \/ ~bootstrap
  /\ Launch(PbdGraph(Len(pendingPbd)))
  /\ \/ /\ Launchable(PbdGraph(Len(pendingPbd)))
        /\ logits' = Seen(pendingPbd)
        /\ Commit(pendingPbd)
        /\ phase' = "decide"
        /\ UNCHANGED <<request, outcome, counters>>
     \/ /\ BreakDown(pendingPbd)
        /\ HybridReturns(FALSE, stopReason)
        /\ UNCHANGED <<logits, pbdAccepted, arTokens>>
  /\ UNCHANGED <<text, control>>

------------------------------------------------------------------------------
(* RunHybridGeneration: the decision on a window *)

Deciding(d) == phase = "decide" /\ ~d.terminal

\* Append accepted tokens to the response and to the history.
Push(t) ==
  /\ response' = response \o t
  /\ generated' = generated \o t

EndOfText(d) ==
  /\ phase = "decide" /\ d.terminal
  /\ Push(d.tokens)
  /\ pbdAccepted' = pbdAccepted + Len(d.tokens)
  /\ pendingPbd' = <<>>
  /\ HybridReturns(TRUE, "im_end")
  /\ UNCHANGED <<starts, usePbd, bootstrap, kv, logits, graph, arTokens>>

\* Faulty variant: the box is compared only with those that windows opened.
RepeatedOpened(d) ==
  /\ request.protect /\ IsCompleteDetectionBox(d.tokens)
  /\ \E i \in starts :
       /\ i + Len(d.tokens) - 1 <= Len(response)
       /\ SubSeq(response, i, i + Len(d.tokens) - 1) = d.tokens

Repeated(d) == request.protect /\ HasRepeatedDetectionBox(response, d.tokens)

RepeatedBox(d) ==
  /\ Deciding(d) /\ Repeated(d)
  /\ pendingPbd' = <<>>
  /\ HybridReturns(TRUE, "repeated_box")
  /\ UNCHANGED <<text, usePbd, bootstrap, kv, logits, graph, pbdAccepted, arTokens>>

\* Faulty variant: all accepted tokens are delivered.
TruncateNothing(d) ==
  /\ Deciding(d) /\ ~Repeated(d)
  /\ Len(d.tokens) > Remaining
  /\ response' = response \o d.tokens
  /\ pbdAccepted' = pbdAccepted + Remaining
  /\ pendingPbd' = <<>>
  /\ HybridReturns(TRUE, "max_new_tokens")
  /\ UNCHANGED <<generated, starts, usePbd, bootstrap, kv, logits, graph, arTokens>>

\* The budget cuts the accepted tokens off.
Truncate(d) ==
  /\ Deciding(d) /\ ~Repeated(d)
  /\ Len(d.tokens) > Remaining
  /\ response' = response \o SubSeq(d.tokens, 1, Remaining)
  /\ pbdAccepted' = pbdAccepted + Remaining
  /\ pendingPbd' = <<>>
  /\ HybridReturns(TRUE, "max_new_tokens")
  /\ UNCHANGED <<generated, starts, usePbd, bootstrap, kv, logits, graph, arTokens>>

Acceptable(d) == Deciding(d) /\ ~Repeated(d) /\ Len(d.tokens) <= Remaining

\* The tokens are accepted; the next PBD graph commits their rows.
AcceptWindow(d) ==
  /\ Acceptable(d) /\ ~d.ar
  /\ Push(d.tokens)
  /\ starts' = starts \union {Len(response) + 1}
  /\ pbdAccepted' = pbdAccepted + Len(d.tokens)
  /\ pendingPbd' = d.tokens
  /\ phase' = "hybrid"
  /\ UNCHANGED <<request, usePbd, bootstrap, kv, logits, graph, outcome, arTokens,
                 abandoned>>

\* An incomplete box: the bridge graph commits its tokens, then AR goes on.
SwitchToAr(d) ==
  /\ Acceptable(d) /\ d.ar
  /\ pendingPbd' = <<>>
  /\ Launch(ArGraph(Len(d.tokens)))
  /\ \/ /\ Launchable(ArGraph(Len(d.tokens)))
        /\ logits' = Seen(d.tokens)
        /\ Commit(d.tokens)
        /\ usePbd' = FALSE
        /\ Push(d.tokens)
        /\ starts' = starts \union {Len(response) + 1}
        /\ pbdAccepted' = pbdAccepted + Len(d.tokens)
        /\ phase' = "hybrid"
        /\ UNCHANGED <<request, outcome, abandoned>>
     \/ /\ BreakDown(d.tokens)
        /\ HybridReturns(FALSE, stopReason)
        /\ UNCHANGED <<logits, usePbd, text, pbdAccepted>>
  /\ UNCHANGED <<bootstrap, arTokens>>

------------------------------------------------------------------------------
(* RunHybridGeneration: one autoregressive token *)

PushAr(t) ==
  /\ Looping /\ ~usePbd
  /\ Push(<<t>>)
  /\ arTokens' = arTokens + 1
  /\ UNCHANGED <<starts, bootstrap, pbdAccepted>>

InsideBox(t) == t \in {BoxEnd, NoneToken} \union Coordinates

RepeatsBox(t) ==
  request.protect /\ t = BoxEnd /\ HasRepeatedTrailingDetectionBox(Append(response, t))

\* The token ends the hybrid run.
ArStops(t) ==
  /\ PushAr(t)
  /\ \/ RepeatsBox(t) /\ HybridReturns(TRUE, "repeated_box")
     \/ ~InsideBox(t) /\ HybridReturns(TRUE, "ar_non_coordinate")
  /\ UNCHANGED <<pendingPbd, usePbd, kv, logits, graph>>

\* The box is closed: back to PBD, whose next graph commits the token.
ArClosesBox(t) ==
  /\ PushAr(t)
  /\ t = BoxEnd /\ ~RepeatsBox(t)
  /\ pendingPbd' = <<t>>
  /\ usePbd' = TRUE
  /\ UNCHANGED <<phase, request, kv, logits, graph, outcome, abandoned>>

ArContinues(t) ==
  /\ PushAr(t)
  /\ InsideBox(t) /\ t # BoxEnd
  /\ Launch(ArGraph(1))
  /\ \/ /\ Launchable(ArGraph(1))
        /\ logits' = Seen(<<t>>)
        /\ Commit(<<t>>)
        /\ UNCHANGED <<phase, request, outcome, abandoned>>
     \/ /\ BreakDown(<<t>>)
        /\ HybridReturns(FALSE, stopReason)
        /\ UNCHANGED logits
  /\ UNCHANGED <<pendingPbd, usePbd>>

------------------------------------------------------------------------------
(* RunPayload: the fallback, and RunArGeneration *)

\* Faulty variant: the fallback runs the configured decoder again.
FallbackToHybrid ==
  /\ phase = "fallback"
  /\ fallbackReason' = IF stopReason = "" THEN "hybrid_failed" ELSE stopReason
  /\ stopReason' = ""
  /\ SeedCache
  /\ abandoned' = abandoned + Len(response)
  /\ response' = <<>> /\ generated' = request.prompt /\ starts' = {}
  /\ pendingPbd' = <<>> /\ usePbd' = TRUE
  /\ logits' = request.prompt
  /\ phase' = "hybrid"
  /\ UNCHANGED <<request, bootstrap, graph, pbdAccepted, arTokens>>

\* Start again from the kept prefill outputs with the slow decoder.
Fallback ==
  /\ phase = "fallback"
  /\ fallbackReason' = IF stopReason = "" THEN "hybrid_failed" ELSE stopReason
  /\ stopReason' = ""
  /\ SeedCache
  /\ abandoned' = abandoned + Len(response)
  /\ response' = <<>> /\ generated' = request.prompt /\ starts' = {}
  /\ logits' = request.prompt
  /\ phase' = "slow"
  /\ UNCHANGED <<request, control, graph, pbdAccepted, arTokens>>

\* Reseeding the cache fails, maybe half way.
FallbackFails ==
  /\ phase = "fallback"
  /\ torn' \in {torn, TRUE}
  /\ phase' = "failed"
  /\ UNCHANGED <<request, text, control, cache, historyLen, logits, graph, outcome,
                 counters>>

SlowEnds ==
  /\ phase = "slow" /\ Remaining <= 0
  /\ stopReason' = "max_new_tokens"
  /\ phase' = "done"
  /\ UNCHANGED <<request, text, control, kv, logits, graph, fallbackReason, counters>>

PushSlow(t) ==
  /\ phase = "slow" /\ Remaining > 0
  /\ Push(<<t>>)
  /\ arTokens' = arTokens + 1
  /\ UNCHANGED <<request, starts, control, fallbackReason, pbdAccepted, abandoned>>

SlowStops(t) ==
  /\ PushSlow(t)
  /\ \/ t = ImEnd /\ stopReason' = "im_end"
     \/ t # ImEnd /\ historyLen >= CacheLen /\ stopReason' = "cache_limit"
  /\ phase' = "done"
  /\ UNCHANGED <<kv, logits, graph>>

SlowContinues(t) ==
  /\ PushSlow(t)
  /\ t # ImEnd /\ historyLen < CacheLen
  /\ Launch(ArGraph(1))
  /\ \/ /\ Launchable(ArGraph(1))
        /\ logits' = Seen(<<t>>)
        /\ Commit(<<t>>)
        /\ UNCHANGED phase
     \/ /\ BreakDown(<<t>>)
        /\ phase' = "failed"
        /\ UNCHANGED logits
  /\ UNCHANGED stopReason

\* Generate returns its result or throws; only the engine's cache outlives it.
Return ==
  /\ phase \in {"done", "failed"}
  /\ phase' = "idle"
  /\ response' = <<>> /\ generated' = <<>> /\ starts' = {}
  /\ pendingPbd' = <<>> /\ usePbd' = TRUE /\ bootstrap' = FALSE
  /\ logits' = <<>>
  /\ stopReason' = "" /\ fallbackReason' = ""
  /\ pbdAccepted' = 0 /\ arTokens' = 0 /\ abandoned' = 0
  /\ UNCHANGED <<request, kv, graph>>

------------------------------------------------------------------------------
Decide ==
  \E w \in Windows :
    LET d == HandlePattern(w) IN
    EndOfText(d) \/ RepeatedBox(d) \/ Truncate(d) \/ AcceptWindow(d) \/ SwitchToAr(d)

ArStep == \E t \in ArTokens : ArStops(t) \/ ArClosesBox(t) \/ ArContinues(t)

SlowStep == SlowEnds \/ \E t \in SlowTokens : SlowStops(t) \/ SlowContinues(t)

RunHybridGeneration == LoopEnds \/ Bootstrap \/ RunWindow \/ Decide \/ ArStep

\* The steps of a call that has begun.
Work ==
  \/ Prefill \/ PrefillFails
  \/ RunHybridGeneration
  \/ Fallback \/ FallbackFails
  \/ SlowStep
  \/ Return

Next == (\E r \in Requests : Generate(r)) \/ Work

Spec == Init /\ [][Next]_vars

(* Fairness: the thread that called Generate keeps running. *)
FairSpec == Spec /\ WF_vars(Work)

------------------------------------------------------------------------------
(* Properties *)

Phases == {"idle", "prefill", "hybrid", "decide", "slow", "fallback", "done", "failed"}

StopReasons == {"", "im_end", "max_new_tokens", "cache_limit", "cache_limit_before_pbd",
                "repeated_box", "ar_non_coordinate"}

\* Shape of the state.
TypeOK ==
  /\ phase \in Phases
  /\ request \in Requests
  /\ response \in Seq(Token) /\ generated \in Seq(Token)
  /\ starts \subseteq Nat
  /\ pendingPbd \in Seq(Token) /\ Len(pendingPbd) <= WindowSize
  /\ usePbd \in BOOLEAN /\ bootstrap \in BOOLEAN
  /\ cache \in Seq(Token) /\ torn \in BOOLEAN /\ historyLen \in Nat
  /\ logits \in Seq(Token) \union {Unreadable}
  /\ graph \in [name : {"pbd", "ar"} \X Nat, past : Nat]
  /\ stopReason \in StopReasons
  /\ fallbackReason \in StopReasons \union {"hybrid_failed"}
  /\ pbdAccepted \in Nat /\ arTokens \in Nat /\ abandoned \in Nat

\* The logits a decision reads were computed over exactly the text generated so
\* far: not over rows of the previous call, of an abandoned hybrid run, of a
\* half-written cache or of provisional window tokens (language.cpp:1201, 1269,
\* 1348).
LogitsMatchText ==
  phase = "decide" \/ phase = "slow" \/ (phase = "hybrid" /\ ~usePbd)
    => logits = generated

\* While a call decodes, the rows the mask shows followed by the pending tokens
\* are the prompt and the response, without gap or duplicate.
KvCoherent ==
  /\ phase \in {"hybrid", "decide", "slow"} =>
       ~torn /\ generated = request.prompt \o response
  /\ phase = "hybrid" => Seen(pendingPbd) = generated /\ (usePbd \/ pendingPbd = <<>>)
  /\ phase \in {"decide", "slow"} => Visible = generated

\* Every graph the loop launches exists in the HBM contract and finds room
\* behind the history, so no call fails because of the loop's own arithmetic.
GraphsInContract ==
  /\ graph.name \in DecodeGraphs
  /\ graph.past + graph.name[2] <= CacheLen

BoxAt(i, n) == SubSeq(response, i, i + n - 1)

\* In a protected hybrid result that is returned, no box that a window opened -
\* whether PBD closed it or the autoregressive detour - repeats a box that
\* stands anywhere before it, be it inside a name (language.cpp:1228, 1273).  A
\* box inside a name, which no window opened, is tested by neither guard and
\* may well repeat one.
NoOpenedBoxRepeats ==
  phase = "done" /\ request.protect /\ request.mode = "hybrid" /\ fallbackReason = "" =>
    \A j \in starts, n \in {3, 4, 6} : \A i \in 1 .. j - 1 :
      j + n - 1 <= Len(response) /\ BoxAt(i, n) = BoxAt(j, n) =>
        ~IsCompleteDetectionBox(BoxAt(j, n))

\* The result keeps the budget and its stop reason is true of it; a protected
\* hybrid run that did not end with the end token is never returned.
ResultHonest ==
  /\ Len(response) <= request.budget
  /\ phase = "done" =>
       /\ stopReason # ""
       /\ stopReason = "im_end" => response # <<>> /\ response[Len(response)] = ImEnd
       /\ stopReason = "max_new_tokens" => Remaining = 0
       /\ stopReason \in {"cache_limit", "cache_limit_before_pbd"} => ~RoomForWindow
       /\ request.mode = "hybrid" /\ request.protect /\ fallbackReason = ""
            => stopReason = "im_end"

\* The token counters add up to the response and what a fallback abandoned.
MetricsAccount == pbdAccepted + arTokens = Len(response) + abandoned

\* Generate returns: the loops end, and the fallback runs at most once.
GenerateReturns == phase = "prefill" ~> phase = "idle"

Running == phase \in {"hybrid", "decide", "slow"}

\* The loops use the cache as KvCache lets them, whatever fails in between: from
\* its seeding to its end a run only extends it, within its capacity.  KvRing
\* implements the other side of KvCache.
KvUse == INSTANCE KvCache
  WITH Row <- Token, usable <- Running, rows <- IF Running THEN cache ELSE <<>>

UsesKvCache == KvUse!Spec

------------------------------------------------------------------------------
(* What makes the properties inductive. *)

\* A call that decodes has an intact cache as long as the loop believes, and a
\* window is decided while the next six rows still fit.
Capacity ==
  /\ Running => ~torn /\ historyLen = Len(cache) /\ historyLen <= CacheLen
  /\ phase = "decide" => historyLen + WindowSize <= CacheLen

\* Unused prefill logits belong to a response that has not begun.
BootstrapFresh ==
  /\ phase = "hybrid" /\ bootstrap => pendingPbd = <<>> /\ usePbd /\ logits = generated
  /\ phase = "decide" => ~bootstrap /\ usePbd

\* KvCoherent in terms of the cache itself, which Capacity makes visible as a whole.
RowsFollowText ==
  /\ Running => generated = request.prompt \o response
  /\ phase = "hybrid" => cache \o pendingPbd = generated /\ (usePbd \/ pendingPbd = <<>>)
  /\ phase \in {"decide", "slow"} => cache = generated

\* Return cleared everything that a call builds up.
FreshCall == phase \in {"idle", "prefill"} => response = <<>>

\* A window is decided only while the budget has room for a token.
WithinBudget ==
  /\ Len(response) <= request.budget
  /\ phase = "decide" => Len(response) < request.budget

GenInv ==
  /\ TypeOK
  /\ FreshCall
  /\ WithinBudget
  /\ Capacity
  /\ BootstrapFresh
  /\ RowsFollowText
  /\ LogitsMatchText
  /\ GraphsInContract
  /\ MetricsAccount
==============================================================================
