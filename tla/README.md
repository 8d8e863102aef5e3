# A TLA+ model of hobot_locateanything

`hobot_locateanything` runs a vision-language model on an embedded accelerator
and publishes the boxes and points it finds in images. This directory holds TLA+
modules for the parts of the program whose correctness depends on ordering,
concurrency or bookkeeping, the TLC configurations that check them on small
instances, and TLAPS proofs of the safety properties for every instance.
`PROJECT.json` maps every definition to the lines it models and lists the runs,
the faulty variants each property catches, the hazards and the theorems.

Paths below are relative to `src/`, as in the map: `src/src/...` is the C++ code.

## 1. The system

Two programs, a ROS 2 node and a console, share one inference core:

    images, prompts -> [ROS node]  -\                                        /-> PerceptionTargets
    files, commands -> [console]   --> InferenceSession: Prepare ; Complete  --> annotated files, JSON
                                        |                 |
                               ImagePreprocessor     LanguageEngine -> EmbedLookup, masks, positions,
                               VisionEngine          |                 PBD decoder, KV rings
                               PromptBuilder         Postprocessor
                               Tokenizer             Tokenizer
                                        \------ HbmSession / Graph / DeviceBuffer (vendor runtime) ------/

| Component | State | Operations | Hard behaviour | What makes it correct |
|---|---|---|---|---|
| ROS node frame pipeline (`locateanything_node.cpp`) | prompt, latest-frame slot, hand-over slot, drop counters, stop flag, two workers' local frames | prompt and image callbacks, `PrepareFrames`, `Run`, destructor | three threads, one mutex and one condition variable for several predicates; notifications after the unlock; failures in either stage; shutdown at any point | order of results, prompt of the reception, exact accounting, bounded staleness, no lost wakeup, termination |
| PBD row executor (`decoder.cpp` 332-465) | generation, countdown, shared job pointers, per-worker observed generation | `Decode`, `Worker`, destructor | pointers into the caller's stack used outside the lock; competing callers; two condition variables | no pointer outlives its call; all six rows on return; exact countdown |
| PBD token patterns (`decoder.cpp` `HandlePattern`, `language.cpp` box guards) | none | classify a six-token window; detect a complete or repeated box | partial boxes, nulls, doubled reference ends | decisions of 1..6 tokens, at most 5 that need a bridge graph |
| Language generation (`language.cpp`) | KV cache and its length, pending tokens, bootstrap logits, response, history, counters | `Generate`, `RunPayload`, `RunHybridGeneration`, `RunArGeneration`, cache seeding and commits | two decoders interleave, tokens are accepted before their rows exist, a fallback starts over, any graph or cache write can fail, the engine's cache outlives the call | rows and logits always follow the text; only existing graphs that fit are launched; honest result; termination |
| KV rings (`kv_cache.cpp`, `language.cpp` `BuildFullCaches`, `AppendCacheUpdate`) | per cache tensor a device buffer with two copies of the ring, and where its window starts | seed from a prefill, append committed rows | 72 tensors, two copies and several chunks written one after the other, each write may fail; buffers are reused | every tensor's window ends with the committed rows, in order |
| Attention masks, positions (`attention_mask.cpp`, `language.cpp` `BuildMask`, `BuildPositions`) | none | build a mask, build position ids | history, causal prefix, bidirectional window and a hidden column overlap | a query sees exactly the rows it should |
| Row decision (`decoder.cpp` 42-311, 468-495) | a thread's token history and the marks of what is in it | repetition penalty, argmax, nucleus filter, ranked summary | marks that outlive a call; NaN, ties; two short cuts and a partial sort that widens | each repeated token is penalised once, in its own call; what is kept is a smallest set of likeliest tokens; the token chosen is the likeliest |
| HBM session and graphs (`hbm.cpp`) | packed handle, graph table, per-graph IO contract, persistent buffers | `Load`, `GetGraph`, `RefreshIO`, `Execute`, buffer allocation and writes | a failure at every vendor call, reload after a failed Initialize, lazy lookup, buffers that come and go between launches | one owner per allocation and task; only open models, complete metadata and live memory are launched |
| Inference session (`inference.cpp`) | initialised flag, engines, prompt cache of 16 entries | `Initialize`, `PrepareQueries`, `Complete` | check under a lock, use outside it; eviction while entries are used; retries of Initialize | parts are loaded before use; an answer is the answer to its own request; every call comes back |
| Vision engine (`vision.cpp`) | graph, IO shapes | `Initialize`, `Infer` | serialised calls, metadata checks | one inference at a time |
| Prompt builder (`prompt.cpp`) | none | `Validate`, `Build` | commands are trimmed and split in three places, each in its own way | what is accepted can be prepared (it cannot always) |
| Image preprocessing (`image.cpp`) | thread-local coefficient cache | conversions, letterbox, patches | stale coefficients, rounding | geometry reversible by postprocessing |
| Postprocessing (`postprocess.cpp`) | none | parse tokens, restore coordinates, suppress duplicates, draw, JSON | degenerate boxes after clamping, unclosed references, order-dependent suppression | every detection is a box of the response inside the image, none is swallowed, suppression keeps one of each group |
| Tokenizer (`tokenizer.cpp`) | vocabulary and merges | `Load`, `Encode`, `Decode` | merge order | lowest-rank merge first |
| Embedding table (`embedding.cpp`) | mapped file | `Open`, `Gather` | size checks | rows inside the file |
| Console (`cli.cpp`) | stage text, finish flag, stop request, media, last request, files of the output directories | `InitializeSession`, command loop, image and video runs | renderer thread with timed waits; signals at any time; requests that share a directory; unchecked writes | the renderer is joined on every path; a stop is heard within one inference; a report names files of its own request |
| Launch, configuration, packaging | none | parameters, path lookup | none | |

`PROJECT.json` "components" gives the status of each, "hazards" the lines where
things can go wrong that a test would hardly reach, with the properties that
watch them.

Interactions. The node's prepare worker calls `InferenceSession::Prepare`, its
completion worker `Complete`; the first runs the prompt builder, preprocessing and
Vision, the second `LanguageEngine::Generate` and the postprocessor. The console
does both in one thread. `Generate` is serialised by the
engine's own mutex, calls the decoder for each window, and the decoder hands five
of its six rows to the process-wide row executor. The engine keeps its KV cache
across calls and reseeds it from each prefill. All graphs run through `HbmSession`.

## 2. The modules

| Module | Models | Checked and proved in |
|---|---|---|
| `FrameStream` | what the node promises: a lossy first-in first-out line (abstract) | refinement of `FramePipeline` |
| `FramePipeline` | `locateanything_node.cpp`: callbacks, both workers, shutdown | `MCFramePipeline`, `FramePipeline_proofs` |
| `RowBatch` | what the row executor promises the decoder: whole batches, one caller at a time (abstract) | refinement of `PbdRowExecutor` |
| `PbdRowExecutor` | `decoder.cpp`: `PbdRowExecutor` | `MCPbdRowExecutor`, `Decoder_proofs` |
| `RowDecision` | `decoder.cpp`: how one row of scores becomes a token | `MCRowDecision`, `Decoder_proofs` |
| `PbdPattern` | `HandlePattern`, box guards (operators) | through `HybridGeneration` |
| `HybridGeneration` | `language.cpp`: `Generate` to its return | `MCHybridGeneration`, `HybridGeneration_proofs` |
| `KvCache` | what the decode loop relies on: a sequence of rows (abstract) | refinement of `HybridGeneration` and of `KvRing` |
| `KvRing` | `kv_cache.cpp`, `BuildFullCaches`, `AppendCacheUpdate` | through `GraphInputs`, `GraphInputs_proofs` |
| `AttentionWindow` | masks and positions of `attention_mask.cpp` and `language.cpp` (operators) | through `GraphInputs` |
| `GraphInputs` | what a graph sees: ring, query tokens, mask and positions together | `MCGraphInputs`, `GraphInputs_proofs` |
| `HbmSession` | `hbm.cpp`: session, graph wrappers, buffers, execution; the `Initialize` of its engines | `MCHbmSession`, `HbmSession_proofs` |
| `PromptRules` | `prompt.cpp` and `QueryCommands`: what a command is made of (operators) | through `InferenceSession` |
| `InferenceRequest` | what the core promises one caller (abstract) | refinement of `InferenceSession` |
| `InferenceSession` | `inference.cpp`: `Initialize`, `Prepare`, `PrepareQueries`, `Complete`, prompt cache | `MCInferenceSession`, `InferenceSession_proofs` |
| `Console` | `cli.cpp`: initialisation with its renderer, command loop, requests and their files | `MCConsole`, `Console_proofs` |
| `Postprocess` | `postprocess.cpp`: `Parse` and suppression, with the letterbox of `image.cpp` | `MCPostprocess`, `Postprocess_proofs` |

`HybridGeneration` extends `PbdPattern`, `InferenceSession` extends `PromptRules`;
`FramePipeline` instantiates `FrameStream`, `PbdRowExecutor` instantiates `RowBatch`,
`InferenceSession` instantiates `InferenceRequest`. `KvCache` is the seam of the language engine: the decode loop uses
its cache as `KvCache` allows (`UsesKvCache`) and the ring implements it
(`ImplementsKvCache`), so what `HybridGeneration` says of a sequence of rows is
true of 72 mirrored rings. `GraphInputs` extends `KvRing` and instantiates
`AttentionWindow`. `MCPostprocess` takes its responses from `PbdPattern`, so the
parser meets the token runs the decoder can accept. A definition whose comment begins with "Faulty variant" is not
part of any specification: it is the code with a plausible mistake, kept beside
the right version to show that a property notices it.

### FramePipeline

One `pc` per thread. The executor thread (`main`) runs the callbacks one at a
time, and the destructor once `spin()` has returned; the two workers run
`PrepareFrames` and `Run`. Each critical section under `mutex_` is one action;
each `notify_all`, which the code sends after the unlock, is an action of its own
(`QueueNotify`, `HandOverNotify`, `TakeNotify`, `StopNotify`), so a thread can
test its predicate between the two. A thread whose predicate is false is
`blocked` and tests again after a notification or a spurious wakeup.
`pending` and `prepared` are `pending_` and `prepared_`; `held[w]` is the local
variable a worker moved its frame into. A frame is its arrival number and the
prompt snapshot taken in `QueueFrame`; the image itself is not modelled.
`session_->Prepare` and `session_->Complete` are one step each that succeeds or
throws. `arrivals`, `promptFrom`, `published`, `stale`, `failed`, `discarded` and
`reported` are history variables that the properties speak about.

`OnPrompt` is a callback with an accepted command; a rejected one changes
nothing. The warning about dropped frames depends on the elapsed time, so
`CountDrop` chooses whether the interval has passed.

### PbdRowExecutor

`at[c]` is where a caller stands in `Decode`, `pw[w]` where a worker stands in
`Worker`, `dtor` where the destructor stands. The three shared pointers
`logits_`, `history_tokens_` and `results_` are set and cleared together, so they
are one variable `job`: the number of the call whose frame they point into, 0 for
null. `held[w]` is a worker's copy, `results[r]` the call that wrote element `r`.
A use after the call's return is then `held[w]` naming a call that is over.
The destructor of the static executor runs at process exit; the model starts it
only when no `Decode` is in progress. `RowBatch` is what the decoder relies on: a
caller is owed every row of its own window and gets back when none is owed. The
refinement reads it off the locks: the caller whose job is published, and the
elements of `results_` that do not carry its generation yet.

### RowDecision

One thread makes call after call; `history` and `seen` are the thread-local vectors
that stay between them. A score is an integer or `NaN`, which the code makes of
every infinite or undefined half. `Weights` stands for `exp`: the weight of a score at
each distance from the largest, falling and zero in the end, so that scores that
differ can have equal weights. A probability is a weight over `mass`, and every
comparison of probabilities is one of products of integers. The loop over the history
takes one step per token, the summary one per token of the vocabulary, the search for
the nucleus one per token counted. `Orders` and `Ranked` are what `std::nth_element`
and `std::sort` promise of the index vector: the best tokens in front, in order, and
nothing about the rest; with a NaN among the values their comparison is no order, and
any permutation may come out. After `Return` the other variables have their first
values again, because every call overwrites them before it reads them.

### PbdPattern and HybridGeneration

A token is a model value: the structural tokens one each, two coordinates, one
word. What the model answers - the six tokens of a window, the greedy token of a
step - is an input. The probability tests of `DecodeBox` and `DecodeRef` select
those six tokens; any selection is allowed for.

The KV cache is the sequence of tokens whose rows were committed, `historyLen`
the loop's `history_length`, and a logits tensor is the text it was computed
over. So "the cache holds the right rows" is an equation between sequences.
`Visible` is what the attention mask shows of the cache, and `Unreadable` if an
earlier failure left the 72 tensors of unequal length (`torn`) or the loop
believes in more rows than exist. One loop iteration is one or two actions:
`RunWindow` (or `Bootstrap`, the first window inside the fused prefill) runs the
graph and commits the pending rows, then one of `EndOfText`, `RepeatedBox`,
`Truncate`, `AcceptWindow`, `SwitchToAr` acts on the decision. The autoregressive
detour is `ArStops`, `ArClosesBox`, `ArContinues`; the slow loop `SlowEnds`,
`SlowStops`, `SlowContinues`. Graph launches and cache writes can fail at every
place where the code checks for it; `HybridReturns` decides on the fallback as
`RunPayload` does. `starts` holds the positions at which accepted windows begin: both
guards against repeated boxes (`language.cpp:1228`, `1273`) look at a box only if a
window opened it, and so does `NoOpenedBoxRepeats`. `Return` leaves only what outlives a call: the engine's cache.

### KvCache and KvRing

A row is a model value, a tensor's buffer a function from its `2 * CacheLen` slots
to rows, and `start[t]` the window's `byte_offset` in rows. The loops over the
tensors (`layer`) and over the chunks of one tensor (`source`, the code's
`source_row`) take one step per iteration, so that a failure can come between any
two: `SeedFails` loses the tensor that was moved out of the cache state (and with
it the reuse of all buffers), `AppendFails` leaves one copy of a chunk written.
`phase` is "void" while nobody may launch a graph: before the first prefill and
after a failure (`GiveUp`), until `Generate` seeds again. The buffers then keep what
the failed call left in them; one that was lost, or is about to be replaced, counts as
the zeroed one that will take its place. The history length that
`AppendCacheUpdate` is called with is the number of committed rows; that the loop
calls it so is `KvCoherent` of `HybridGeneration`. `AppendRefused` is the early
return for too many rows; all tensors have the same length, so the first refuses.

### AttentionWindow and GraphInputs

A mask row is the set of columns it allows. `GraphInputs` has no state of its own:
for every state of the ring it asks about every query that fits. `DecodeKey` is
the contract that the comment in `attention_mask.cpp:100` states about the
compiled graph - it drops as many rows at the front of the window as it has query
rows, and appends its own. A row sees its text if the keys the mask lets through
lie one at each position of the text, each holding the token of that position.
For a PBD window the text's last token is seen through the window's first row,
which repeats it: hence the hidden column and the positions shifted back by one.

### HbmSession

One packed model and the engine that owns it. The engine's mutex admits one call
at a time, so `pc` is the place of that call and `name`, `at` its graph and tensor
index. `Initialize` is `LoadFile`, `ListNames`, then for each required graph
`FindGraph` or `MakeGraph` with `DescribeTensor` (RefreshIO), and `CheckGraph`.
`Execute` is `BeginExecute`, `AllocateOutput` and `KeepBuffers`
(EnsurePersistentBuffers), `BindResident` or `BindHost` per input, `CreateTask`,
`RunTask`, `UnpackOutput`, `ReleaseTask`. The vendor runtime is external: every one
of its calls may fail, and each failure takes the exit the code takes there.
`live` is the vendor's count of unreleased allocations, so a leak is a count too
high at rest and a double free one too low.

Two peculiarities of the code are in the model as they are. `CacheGraph` may keep a
wrapper whose metadata is incomplete, because a null tensor name with error code 0
passes for success; the engine's own check of the graph then refuses it. And a
retry of `Initialize` overwrites the packed handle of the failed attempt
(`hbm.cpp:395`) without releasing it, while the wrappers of that attempt stay
cached. That handle is never released; but it is what keeps `LaunchSound` true,
since those wrappers belong to it. The faulty variant releases it, and TLC finds a
launch on a closed model.

### PromptRules, InferenceRequest and InferenceSession

A command is its task, the items between the commas of its argument and whether
white space precedes it; an item is a word, a blank or a full stop. `Argument`,
`Categories` and `QueryCommands` do to the items what the three splitters of the
code do. `InferenceRequest` is the contract of one call: it fails, or it is prepared
and then answered with one result per prompt of its own request.

`InferenceSession` has one `pc` per thread; what the code does under one mutex is
one action. `state_mutex` is a variable because `Initialize` holds it over many
steps; the prompt cache's mutex covers the single action `BuildPrompt`. The cache is a
sequence of entries, oldest first; a call that holds an entry has its own copy, as
the code's shared pointer gives it. Loading, Vision, a generation and the
postprocessing are one step each that succeeds or throws. An attempt to initialise
starts `loaded` from nothing: it replaces the parts of a failed attempt.

### Console

The main thread's place, the renderer's place and the three variables they share
during `InitializeSession`; then the command loop. `Signal` may come between any two
steps. A directory's files are a function from file names to the request that wrote
each and the number of frames in it, so that leftovers of an earlier request in the
same directory are visible. The code tests some writes and not others: where it does
not, the action chooses, and `silent` records that such a write failed. `ReportHolds`
says what is true of a report all the same, `PersistenceChecked` what the comments
promise. `Announce` and `StopRendering` are one step for the write to the shared text
or flag and for the notification that the code sends after the unlock: the renderer
waits with a timeout of 100 ms, so a test of its predicate between the two only delays it.
`late` counts the inferences begun after the stop request.

### Postprocess

A response is a sequence of tokens; the instances are made of what `HandlePattern`
accepts, and of a box that the autoregressive decoder breaks. Coordinates are
exact: the numerator of the source pixel over `CoordinateEnd` times the resized edge,
so clamping and comparison are integer arithmetic and the float rounding of the code
is left out. The token loop takes one step per token or per matched pair, and
suppression one per detection. `ParseFaithful` says of each box of the response that it
is detected unless a reference or box that began before it is not closed before it: a
name that goes on over two windows may precede it, and a box broken off inside a name.
What is never closed does take what follows, up to the next end token of its kind, or
ends the loop if there is none; such boxes are outside the property.

## 3. What the runs check

| Run | Question | Bounds |
|---|---|---|
| `pipeline` | do callbacks, workers, failures and shutdown, in any interleaving, keep order, prompts, accounts and wakeups, and implement `FrameStream`? Does every frame leave, and does the destructor return? | 4 frames, 2 prompt updates |
| `pipeline_stale_doc` | is the README right about results for the previous prompt? (it is not) | as `pipeline` |
| `rows` | no dangling job, exact countdown, no lost wakeup, whole batches as in `RowBatch`; do `Decode` and the destructor return? | 2 callers, 5 workers, 3 calls |
| `generation` | do cache and logits follow the text, are launches legal, is the result honest, does no box that a window opened repeat an earlier one, does every `Generate` return? | budgets 3 and 9, prompts of 2 and 8 tokens, prefill 8, cache 16, 9 windows |
| `graph_inputs` | does every tensor show the committed rows, through failures and reuse, does the ring implement `KvCache`, and does every row of every graph see its text exactly? | ring of 4 rows, 2 tensors, prefill of 4, window of 2, appends, prefix and query up to 2, 2 kinds of row (symmetric) |
| `hbm_session` | is every allocation and task released once on every path, and every launch sound? | 2 graphs, 2 inputs, 2 outputs, 2 device buffers, 2 loads; graphs and buffers symmetric |
| `inference_session` | are parts loaded before use, is the cache sound, is each answer that of its own request, does each call come back? | 2 threads, cache of 2, 2 attempts to initialise, 4 commands and 1 list |
| `prompt_accepted` | can an accepted command be prepared? (not always) | 1 thread, every command of up to 2 items |
| `console` | is a stop heard within one inference, has each request media, is each report true, does initialisation end? | 2 images and a video of one stem, 3 requests, 2 frames |
| `console_report_doc` | are the comments right that an output file that cannot be written ends the request? (they are not) | an image and a video of one stem, 2 requests, 1 frame |
| `row_decision` | are repeated tokens penalised once, is the nucleus exact, is the token chosen the likeliest? | 4 tokens of which 2 are ranked; scores NaN, -1, 2, 4; widths 1, 2 and 4; top_p 50, 90, 100; 4 texts |
| `postprocess` | is every detection a box of the response inside the image, is none swallowed by what has ended before it, is suppression exact? | responses of up to 3 accepted runs; square, wide and tall image; coordinates 0..4; thresholds 0, 50, 100 |

Why the bounds suffice. The node has four places for a frame; with four frames
every place is full while the next is queued, and with two updates there are
frames of three prompts. The rows executor has the code's five workers; two callers are
enough to compete and three calls enough for a late worker to meet the next call
and the one after. The nine windows take every branch of
`HandlePattern`, and two of them hold a box behind the first token. The
cache of 16 rows leaves 14 behind the short prompt and 8 behind the long one: one
window and a short one, so that `cache_limit`, `cache_limit_before_pbd` and the last
legal launch all occur; the long prompt has no room for a fused window in the
prefill, the short one has. Budget 3 cuts a box in two; budget 9 holds a box inside a
name, a box that repeats it and the end token, or a box, a detour and a repetition. Calls follow each other without bound, so every run also
starts from what the previous call left in the cache.

Two tensors are one that an append has finished and one that it has not reached. A
ring of four rows allows a seeding that fills it, several appends in a row, an append that
fills what is left and one that is refused. The masks depend on the window width only
through the constant `Block`, 6 in the code; 2 is the least that tells a window from a
single row. Behind one row of history a prefix of one token and its window fill the ring
exactly, behind two rows a window without prefix does, with unwritten or stale rows in the
columns before. A prefix of two finds no room behind any history here; that it is seen as
well is only proved. The prefill of 4 rows has room for a fused window behind one or two
prompt tokens and none behind three. One run asks both questions, because the graphs are
asked about in every state of the ring.

Two graphs tell the one being launched from one that waits; two inputs allow one
bound to a device buffer and one to private memory in the same launch, two outputs an
allocation that fails half way. Two loads are a failed attempt and its retry. A
prompt cache of two entries is full and evicts while another thread holds an entry,
since the commands come to four different queries. Three requests allow an image and
a video in one directory and a repetition, two frames a stop between them. The rows of `row_decision` are all 256 rows of four scores, so every place of a NaN,
every tie and every cut occurs; the widths 1, 2 and 4 let the search widen once inside
the limit and once beyond it. The texts have a repetition, which a second mark would
penalise twice, and an identifier outside the vocabulary. Calls follow each other, so
each begins with the marks of any other. `language.cpp` passes a top_p of 0.9 only; 50
makes nuclei of several shapes and 100 is the branch that keeps everything. The
canvas is 4, so the wide and the tall image have padding on one axis each and their
boxes can vanish in it; three runs are enough for a chain of overlaps in which the
first and the last do not overlap, and for a broken run before a good one.

Configurations of parts that really stop switch the deadlock check off: a terminated
node, a joined executor, a closed session, a closed console and a parsed response
have no next step. `Generate`, the ring, the row decision and `InferenceSession` can always be
called again, so their runs keep the check.

Fairness. `FairSpec` assumes only what the program's scheduling gives: a thread
that is not blocked keeps running (weak fairness of each worker, of a `Decode`
that has begun, of the thread inside `Generate` or inside a call of the inference
session, of the console's main and renderer threads during initialisation), a callback that has queued its
frame goes on to its notification, and a destructor that has begun goes on.
Nothing is assumed of image or prompt arrival, of ROS shutdown, of process exit,
of spurious wakeups, of the user, or of which caller wins a mutex. The renderer's
timeout is part of its thread. `session_->Prepare`, `Complete`, the core's
`Initialize` and graph execution are assumed to return or throw.

The disagreements. `README.md:567` says a frame in inference "may still produce
one result for the previous prompt". The prompt is captured when an image is
queued (`locateanything_node.cpp:442`), and up to three frames - one in
completion, one in preparation or handed over, one in the latest-frame slot - are
then inside, so up to three outdated results follow an update. `OneStaleResult`
finds the second; `StaleBound` shows, and `StaleBounded` proves, that three is
the limit.

`prompt.cpp:146` says of `Validate` that it throws if a command lacks a required
query, and the node keeps the previous prompt only if it throws. `QueryCommands`
(`inference.cpp:56`) splits the accepted command again under other rules: `/ground ,`
is accepted and has no query left, `/ground cat, .` is accepted because the trailing
period is stripped, and then makes a query of it. `AcceptedCanBePrepared` finds such a
command; every frame under it fails until the next prompt.

`cli.cpp:652` says that `RunImage` throws "if the image or an output file cannot be
written", and 632, 655 and 687 say "if inference or output persistence fails". Only the
annotated image is tested and the streams of a video when they are opened. The JSON of an
image (672), the frames and lines of a video (723, 724) and its summary (742) are written
and not looked at again, and the report that follows names them. `PersistenceChecked`
finds an image request whose `prediction.json` was never written and which is reported as
saved.

## 4. What is proved

For every number of frames, prompts, callers, workers, calls, graphs, tensors, loads,
media and requests, for every token set, prompt, budget, layout, ring, window width,
cache size, vocabulary, row of scores, response and image. Assumptions are named in the modules: an empty slot is not a frame and
the empty prompt not a prompt; the workers are finitely many and the caller's row is
not theirs; prompts have 1 to `prefill_len` tokens and budgets are positive (what
`Generate` rejects otherwise), and the prefill is shorter than the cache; the token ids
that open, fill and close a box differ (`TokenAssumption`, `decoder.cpp:23`); the
weights are positive at distance 0 and never rise with the distance, and no more tokens
are ranked than exist (`WeightsAssumption`, `DecisionAssumption`); a box end is no
coordinate, and images have a size (`PostprocessAssumption`).
`RequestAssumption` of `InferenceSession` says that the queries of a request are a
sequence; it holds by the recursion of `SelectSeq`, which the prover cannot unfold, so
it is stated and TLC evaluates it on the instances.

- `FramePipeline_proofs`. `TypeCorrect`, `OrderKept` (`ResultsFaithful`),
  `WakeupsNotLost`, `AccountingExact`, `StaleBounded`, and `IsFrameStream`, the
  refinement of `FrameStream`. Order is not inductive on published results alone: one
  needs `StageOrder`, that the frames in completion, hand-over, preparation and
  latest-frame slot are themselves in arrival order and younger than what was
  published, and that hand-over slot and preparation are never both occupied, which is
  the half of the prepare predicate that tests `prepared_`. The same fact makes the
  four places one line: a step of the code removes its head or one frame, or appends
  one. `StaleBound` counts the outdated frames still inside: what has been published
  plus what can be is at most three.
- `Decoder_proofs`, the executor. `PointersAlive`, `ReturnsComplete`, `CountdownCorrect`,
  `WakeupsNotLost`, `CallsInTurn` rest on `RowInv`: the call mutex admits one caller,
  every worker has observed the current generation or the one before, the countdown
  equals the number of workers that still owe a row, and rows no longer owed carry the
  current generation. The countdown argument is about cardinality and is isolated in
  lemmas on finite sets. `CallsInTurn` (no worker skips a call or serves one twice) is
  an action property that is proved and not run. `ServesBatches` is the refinement of
  `RowBatch`: no write of a late worker settles another call's row, because a worker that
  still decodes holds the generation of the call in progress, and the caller leaves only
  with every row settled, because a row that nobody owes carries its generation.
- `Decoder_proofs`, the row decision. `PenalisesOnce`, `KeepsNucleus` (`NucleusExact`),
  `SummaryRanks` (`TopIsBest`) and `ChoosesLikeliest` from `DecisionInv`. Its parts:
  the marks are those of the history, which names each token of the text so far once
  (`MarksRight`); the tokens of the history before the loop's place are penalised and
  the others not (`PenaltyUnderWay`); while the search runs, the sorted front is ahead of
  the rest, the cumulative weight is that of the tokens counted, and without the last of
  them top_p was not reached (`RankingUnderWay`, `FrontRanked`); the list holds the best
  of the tokens seen (`SummaryUnderWay`); what has the largest value had the largest
  score (`HeadRight`). Two things are not obvious from the code. A wider
  search sorts only what was not sorted yet; the result is ahead of the rest because the
  old front was, which `FrontRanked` carries over. And a NaN behind a number never reaches the search, since a NaN makes the total
  NaN, nothing is divided, the largest value stays at one and the second short cut takes
  it. Sums over the vocabulary are a recursive function whose existence is proved here
  (`TokenByToken` is the induction, over a set of indices), and so is that two sums that
  differ in one token differ by its weight (`SumRaised`), for each step of the search, and
  that weights with a common bound sum to at most that many times the bound (`SumBounded`),
  for the first short cut.
- `HybridGeneration_proofs`. `CacheCoherent` (`KvCoherent`), `LogitsCurrent`,
  `LaunchesInContract`, `MetricsExact`, from `GenInv`. Its parts: the cache is as
  long as the loop believes and a window is decided only while six rows fit
  (`Capacity`); cache and pending tokens together are the text
  (`RowsFollowText`); unused bootstrap logits belong to a response that has not
  begun (`BootstrapFresh`); a decision is taken only while the budget has room
  (`WithinBudget`). `DecisionShape` shows that any six tokens give 1 to 6
  accepted tokens and a bridge of at most 5, which is why the prefixes 0..6 and
  bridges 1..5 of the HBM contract are enough. `CacheUsedAsPromised` is the use of
  `KvCache`. `ResultsHonest` needs in addition that the slow loop runs only because it
  was asked for or because a fallback was recorded (`SlowByChoice`).
- `OpenedBoxesNew` (`NoOpenedBoxRepeats`), in the same module: in a protected hybrid
  result, no box that a window opened repeats a box that stands anywhere before it. It
  does not say that a result holds no box twice, and that would be false: a window such as
  a word, a point and the end token is accepted whole, neither guard looks at the box
  inside it, and two such windows in a row are delivered with the point twice, which the
  postprocessor reads as two detections. The two guards compare only the
  newest box with what precedes it, so the argument is about where a box can be
  completed. `BoxInv` says that no complete box at the beginning of an accepted window
  stands before it too (`NoneRepeats`), and that before the next window every box begun is settled: its first
  token opens none, or it is already closed (`Settled`). A decision closes its box or
  hands it to the autoregressive decoder (`DecisionSound`); in the latter case only the
  closing token can complete it, and the trailing guard looks exactly then. Two equal
  complete boxes cannot overlap, because a box opens with its first token only
  (`BoxesApart`), so an earlier one lies in the part that the guards search.
- `GraphInputs_proofs`, the ring. `WindowsCorrect`, `HistoryNotOverwritten`, `NeverWraps` and
  `RingIsSequence`, the refinement of `KvCache`, from `KvInv`. What is not obvious
  from the code is why an append may write in place: a window starts before the end
  of its own history (`start < Len(committed)`, part of `EndsWith`), because seeding
  puts it at slot 0 with at least one row and each append moves both by the same
  amount; the history check then bounds start plus update below the ring's length.
  So the write lies between the committed rows of the first copy and those of the
  second, and the loop over chunks runs once. Stale rows of a failed append stay
  in the buffers but in no window.
- `GraphInputs_proofs`, the masks. `ArSeesText`, `PbdSeesText`, `PrefillRowsSeePrompt`, from
  `KvInv`. For each kind of row the mask is computed as a set of columns, and the
  columns before and behind the query's first column are matched with the history and
  the query one by one; for a PBD window the hidden column is exactly the one whose
  token the window's first row repeats.
- `HbmSession_proofs`. `MemoryHasOneOwner` and `LaunchesSound` from `HbmInv`: the
  allocations of a call under way are those of its local set, a graph has all of its
  output buffers or none, inputs below the call's index are bound to live memory, and
  once the engine is initialised every graph belongs to a handle that is still open.
- `InferenceSession_proofs`. `LoadedBeforeUse`, `CacheCorrect` and the refinement
  `AnswersOwnRequest` from `SessionInv`: `initialized` never goes back, so the test
  under the lock stays true outside it; the prompts held and the queries still to come
  are together the queries of the request; the merged reason is that of the results so
  far.
- `Console_proofs`. `StopsSoon`, `MediaPresent`, `ReportsTrue` from `ConsoleInv`, whose
  part `Said` states for each place of a request what it has written so far, and
  `StopSeen` from which places an inference can still begin. `ReportsTrue` has the
  exception the code makes: where a write is not checked, a report may name a file that
  the failed write left incomplete or to an earlier request; that this contradicts the
  comments is the third disagreement of section 3.
- `Postprocess_proofs`. `ParsesFaithfully` (`ParseFaithful`) and `SuppressesExactly`
  (`SuppressionExact`) from `PostInv`. That no box is swallowed needs `BoxesPassed`: the
  token loop is never inside a box before which everything is closed. It jumps from a
  start token to the first end token of its kind, and the one that closes it before the
  box is at least as far. Suppression keeps detections in the order of the
  response (`KeptInOrder`), and each that it drops had its duplicate among those kept.

Every safety invariant, action property and refinement that a run checks is proved.
Only model-checked, because liveness is out of the prover's reach: `EveryFrameLeaves`,
`Terminates`, `ExecutorReturns`, `GenerateReturns`, `RequestReturns` and
`InitializationEnds`. That the constants of the instances satisfy the assumptions is what
TLC checks on each run.

## 5. What is not modelled, and the plan

In the modelled parts: parameter reading, image conversion, `BuildResult`, the
output-rate window and formatting of the node; an exception while the caller
decodes its own row, possible only when a small allocation fails, after which no
property of the executor would hold; the host variant of the ring, which no tensor
reaches because seeding gives each one a device buffer; binary16 conversion; tensor
construction, strides, byte layouts and timing metrics; metrics, annotated images and
JSON options of the session; terminal output and the choice of video codec in the
console; float rounding in the postprocessor.

In the row decision: binary16 conversion and the rounding of sums and quotients, which
is also why the margin of 1e-6 in the first short cut has no counterpart in exact
arithmetic, and the probability tests of `DecodeBox` and `DecodeRef`, whose outcome is an
input of `HybridGeneration` (any tokens).

An observation about the row decision. The comment at `decoder.cpp:38` says that a NaN
cannot participate in ranking. `std::max_element` (`decoder.cpp:493`) starts from the
first score and nothing is greater than NaN, so a row whose first score is NaN yields
token 0; and with top_p 1 nothing filters the row before it is summarised. `LikeliestChosen`
states what is true: it excepts exactly these two cases.

Not modelled: tokenizer and embedding table are pure data with sequential loops over
them. Pixel arithmetic, drawing, JSON layout, launch files and configuration are data
as well. The vendor runtime, ROS and OpenCV are external and
appear only through the calls the code makes.

What a next step could take: the node composed with `InferenceSession` through
`InferenceRequest`, so that what is published is also proved to be the answer to the
published frame's prompt; the six rows of a window, each by `RowDecision`, behind one
batch of `RowBatch`.
