--------------------------- MODULE InferenceSession ---------------------------
(* InferenceSession of inference.cpp: one session shared by threads that        *)
(* initialise it, prepare requests and complete them. `pc` is a thread's place; *)
(* what the code does under one mutex is one action. Vision, Language, the      *)
(* preprocessing and the postprocessing of one query are one step each.         *)
EXTENDS PromptRules

CONSTANTS
  Callers,
  Commands,    \* commands given to Prepare
  Lists,       \* sequences of commands given to PrepareQueries
  Reasons,     \* stop reasons of a generation
  CacheSize,   \* entries of the prompt cache, 16 in the code
  MaxAttempts, \* bound: calls of Initialize that get past its early return
  Nothing      \* no request, no lock holder, no answer

Mixed == "mixed"

ASSUME SessionAssumption ==
  /\ CacheSize \in Nat \ {0} /\ MaxAttempts \in Nat
  /\ Nothing \notin Callers /\ Reasons \intersect {Nothing, Mixed} = {} /\ Nothing # Mixed

\* What Initialize loads, in order; `vision` also stands for the preprocessor
\* and the prompt builder, which are replaced by every attempt.
Parts == <<"vision", "tokenizer", "language">>

VARIABLES
  initialized, \* the flag, under state_mutex
  loaded,      \* number of Parts this attempt has loaded
  stateMutex,  \* the thread inside Initialize
  attempts,
  cache,       \* prompt_cache: entries [command, prompt], oldest first
  pc,
  request,     \* the command or list of the call in progress
  queries,     \* the commands still to be prepared
  prompts,     \* PreparedInference: the entries held
  results,     \* stop reasons of the generations so far
  reason,      \* output.stop_reason, Nothing while it is empty
  answer       \* InferenceOutput: prompts answered and stop_reason

sessionVars == <<initialized, loaded, stateMutex, attempts>>
callVars == <<request, queries, prompts, results, reason, answer>>
vars == <<sessionVars, cache, pc, callVars>>

Init ==
  /\ initialized = FALSE /\ loaded = 0 /\ stateMutex = Nothing /\ attempts = 0
  /\ cache = <<>>
  /\ pc = [c \in Callers |-> "idle"]
  /\ request = [c \in Callers |-> Nothing]
  /\ queries = [c \in Callers |-> <<>>]
  /\ prompts = [c \in Callers |-> <<>>]
  /\ results = [c \in Callers |-> <<>>]
  /\ reason = [c \in Callers |-> Nothing]
  /\ answer = [c \in Callers |-> Nothing]

Goto(c, place) == pc' = [pc EXCEPT ![c] = place]

-------------------------------------------------------------------------------
(* Initialize                                                                   *)

\* Faulty variant: an initialised session is loaded once more.
BeginInitializeAgain(c) ==
  /\ pc[c] = "idle" /\ stateMutex = Nothing /\ attempts < MaxAttempts
  /\ stateMutex' = c /\ attempts' = attempts + 1 /\ loaded' = 0
  /\ Goto(c, "initialize")
  /\ UNCHANGED <<initialized, cache, callVars>>

\* An initialised session returns at once, which changes nothing.
BeginInitialize(c) ==
  /\ pc[c] = "idle" /\ stateMutex = Nothing /\ ~initialized /\ attempts < MaxAttempts
  /\ stateMutex' = c /\ attempts' = attempts + 1 /\ loaded' = 0
  /\ Goto(c, "initialize")
  /\ UNCHANGED <<initialized, cache, callVars>>

LoadPart(c) ==
  /\ pc[c] = "initialize" /\ loaded < Len(Parts)
  /\ loaded' = loaded + 1
  /\ UNCHANGED <<initialized, stateMutex, attempts, cache, pc, callVars>>

\* The hidden sizes agree.
EndInitialize(c) ==
  /\ pc[c] = "initialize" /\ loaded = Len(Parts)
  /\ initialized' = TRUE /\ stateMutex' = Nothing
  /\ Goto(c, "idle")
  /\ UNCHANGED <<loaded, attempts, cache, callVars>>

\* Faulty variant: a part that is refused is tried again, with the mutex held.
InitializeRetries(c) ==
  /\ pc[c] = "initialize" /\ loaded > 0
  /\ loaded' = 0
  /\ UNCHANGED <<initialized, stateMutex, attempts, cache, pc, callVars>>

\* Options, an asset, a part or the hidden sizes are refused.
InitializeThrows(c) ==
  /\ pc[c] = "initialize"
  /\ stateMutex' = Nothing
  /\ Goto(c, "idle")
  /\ UNCHANGED <<initialized, loaded, attempts, cache, callVars>>

-------------------------------------------------------------------------------
(* Prepare, PrepareQueries                                                      *)

\* A call ends with an exception or its answer is taken: what it held is gone.
Leave(c) ==
  /\ Goto(c, "idle")
  /\ request' = [request EXCEPT ![c] = Nothing]
  /\ queries' = [queries EXCEPT ![c] = <<>>]
  /\ prompts' = [prompts EXCEPT ![c] = <<>>]
  /\ results' = [results EXCEPT ![c] = <<>>]
  /\ reason' = [reason EXCEPT ![c] = Nothing]
  /\ answer' = [answer EXCEPT ![c] = Nothing]
  /\ UNCHANGED sessionVars

\* A command given to Prepare, or the queries given to PrepareQueries.
Requests == [command : Commands] \union [queries : Lists]

QueriesOf(r) == IF "command" \in DOMAIN r THEN QueryCommands(r.command) ELSE r.queries

\* Every query that a request can come to.
AllQueries == UNION {{QueriesOf(r)[i] : i \in DOMAIN QueriesOf(r)} : r \in Requests}

\* Requests are made of sequences.
ASSUME RequestAssumption == \A r \in Requests : QueriesOf(r) \in Seq(AllQueries)

\* A command is split before the session is looked at; one without any query
\* throws there.
Ask(c, r) ==
  /\ pc[c] = "idle"
  /\ request' = [request EXCEPT ![c] = r]
  /\ queries' = [queries EXCEPT ![c] = QueriesOf(r)]
  /\ Goto(c, "check")
  /\ UNCHANGED <<sessionVars, cache, prompts, results, reason, answer>>

CheckInitialized(c) ==
  /\ pc[c] = "check" /\ stateMutex = Nothing /\ initialized /\ queries[c] # <<>>
  /\ Goto(c, "build")
  /\ UNCHANGED <<sessionVars, cache, callVars>>

CheckThrows(c) ==
  /\ pc[c] = "check" /\ (queries[c] = <<>> \/ (stateMutex = Nothing /\ ~initialized))
  /\ Leave(c)
  /\ UNCHANGED cache

\* Faulty variant: entries are looked up by their task.
CachedByTask(command) == {i \in DOMAIN cache : cache[i].command.task = command.task}

Cached(command) == {i \in DOMAIN cache : cache[i].command = command}

\* The entry of a cached command, or a new one behind those that remain.
Entry(command) ==
  IF Cached(command) = {} THEN [command |-> command, prompt |-> ParseCommand(command)]
  ELSE cache[CHOOSE i \in Cached(command) : TRUE]

\* Faulty variant: a full cache grows.
CacheWithoutLimit(entry) ==
  IF Cached(entry.command) # {} THEN cache ELSE Append(cache, entry)

CacheWith(entry) ==
  IF Cached(entry.command) # {} THEN cache
  ELSE Append(IF Len(cache) = CacheSize THEN Tail(cache) ELSE cache, entry)

SameTask(c, entry) == prompts[c] # <<>> => Head(prompts[c]).prompt.task = entry.prompt.task

\* One query: found or built under prompt_cache_mutex, then compared with the
\* task of the first.
BuildPrompt(c) ==
  /\ pc[c] = "build" /\ queries[c] # <<>>
  /\ LET entry == Entry(Head(queries[c]))
     IN  /\ entry.prompt # Invalid /\ SameTask(c, entry)
         /\ cache' = CacheWith(entry)
         /\ prompts' = [prompts EXCEPT ![c] = Append(@, entry)]
  /\ queries' = [queries EXCEPT ![c] = Tail(@)]
  /\ UNCHANGED <<sessionVars, pc, request, results, reason, answer>>

\* The task differs: the new entry stays in the cache.
TaskThrows(c) ==
  /\ pc[c] = "build" /\ queries[c] # <<>>
  /\ LET entry == Entry(Head(queries[c]))
     IN  /\ entry.prompt # Invalid /\ ~SameTask(c, entry)
         /\ cache' = CacheWith(entry)
  /\ Leave(c)

\* The prompt is refused, tokenised wrongly or has not the visual tokens; a
\* cached prompt cannot fail.
BuildThrows(c) ==
  /\ pc[c] = "build" /\ queries[c] # <<>> /\ Cached(Head(queries[c])) = {}
  /\ Leave(c)
  /\ UNCHANGED cache

\* Image preprocessing and Vision succeed.
RunVision(c) ==
  /\ pc[c] = "build" /\ queries[c] = <<>>
  /\ Goto(c, "prepared")
  /\ UNCHANGED <<sessionVars, cache, callVars>>

-------------------------------------------------------------------------------
(* Complete                                                                     *)

\* stop_reason of one more result.
MergeReason(sofar, one) ==
  IF sofar = Nothing THEN one ELSE IF sofar # one THEN Mixed ELSE sofar

\* Language answers the next prompt; its mutex serialises the generations.
Generate(c, one) ==
  /\ pc[c] = "prepared" /\ Len(results[c]) < Len(prompts[c])
  /\ results' = [results EXCEPT ![c] = Append(@, one)]
  /\ reason' = [reason EXCEPT ![c] = MergeReason(@, one)]
  /\ UNCHANGED <<sessionVars, cache, pc, request, queries, prompts, answer>>

\* Every result is parsed and appended to the output.
Postprocess(c) ==
  /\ pc[c] = "prepared" /\ Len(results[c]) = Len(prompts[c])
  /\ answer' = [answer EXCEPT ![c] =
                  [prompts |-> [i \in DOMAIN prompts[c] |-> prompts[c][i].prompt],
                   reason |-> reason[c]]]
  /\ Goto(c, "answered")
  /\ UNCHANGED <<sessionVars, cache, request, queries, prompts, results, reason>>

\* The image, Vision, Language or the postprocessing throws, a prepared request
\* is dropped, or the answer is taken.
Finish(c) ==
  /\ \/ pc[c] = "build" /\ queries[c] = <<>>
     \/ pc[c] \in {"prepared", "answered"}
  /\ Leave(c)
  /\ UNCHANGED cache

-------------------------------------------------------------------------------
Work(c) ==
  \/ LoadPart(c) \/ EndInitialize(c) \/ InitializeThrows(c)
  \/ CheckInitialized(c) \/ CheckThrows(c)
  \/ BuildPrompt(c) \/ TaskThrows(c) \/ BuildThrows(c) \/ RunVision(c)
  \/ \E one \in Reasons : Generate(c, one)
  \/ Postprocess(c) \/ Finish(c)

Next ==
  \E c \in Callers : BeginInitialize(c) \/ (\E r \in Requests : Ask(c, r)) \/ Work(c)

Spec == Init /\ [][Next]_vars

\* A thread inside a call goes on; nobody has to call.
FairSpec == Spec /\ \A c \in Callers : WF_vars(Work(c))

-------------------------------------------------------------------------------
(* Properties                                                                   *)

Entries == [command : AllQueries, prompt : {ParseCommand(q) : q \in AllQueries}]

TypeOK ==
  /\ initialized \in BOOLEAN /\ loaded \in 0 .. Len(Parts) /\ attempts \in Nat
  /\ stateMutex \in Callers \union {Nothing}
  /\ cache \in Seq(Entries)
  /\ pc \in [Callers -> {"idle", "initialize", "check", "build", "prepared", "answered"}]
  /\ request \in [Callers -> Requests \union {Nothing}]
  /\ queries \in [Callers -> Seq(AllQueries)]
  /\ prompts \in [Callers -> Seq(Entries)]
  /\ results \in [Callers -> Seq(Reasons)]
  /\ reason \in [Callers -> Reasons \union {Nothing, Mixed}]
  /\ DOMAIN answer = Callers

\* Prepare tests `initialized` under the lock and then uses Vision, the tokenizer
\* and the builder without it (inference.cpp:363): a thread past the test finds
\* everything loaded, and nobody inside Initialize who would replace it.
UsesLoadedParts ==
  \A c \in Callers : pc[c] \in {"build", "prepared", "answered"} =>
    initialized /\ loaded = Len(Parts) /\ stateMutex = Nothing

\* The prompt cache is shared by all callers and evicts while they use its
\* entries (inference.cpp:400): it never exceeds its size, holds a command once,
\* and only with the valid prompt that command has.
CacheSound ==
  /\ Len(cache) <= CacheSize
  /\ \A i \in DOMAIN cache :
       /\ cache[i].prompt = ParseCommand(cache[i].command) /\ cache[i].prompt # Invalid
       /\ Cached(cache[i].command) = {i}

RequestPrompts(r) == [i \in DOMAIN QueriesOf(r) |-> ParseCommand(QueriesOf(r)[i])]

RequestState ==
  [c \in Callers |-> CASE pc[c] \in {"idle", "initialize"} -> "idle"
                        [] pc[c] \in {"check", "build"} -> "asked"
                        [] OTHER -> pc[c]]

Contract == INSTANCE InferenceRequest
  WITH state <- RequestState, Prompts <- RequestPrompts

\* The mutex is held exactly by the thread inside Initialize, and by nobody once
\* the session is initialised.
MutexHeld ==
  /\ \A c \in Callers : pc[c] = "initialize" <=> stateMutex = c
  /\ initialized => loaded = Len(Parts) /\ stateMutex = Nothing
  /\ \A c \in Callers : pc[c] \in {"build", "prepared", "answered"} => initialized

\* Prompts and queries still to come are the queries of the request, in order.
CallFollowsRequest(c) ==
  /\ pc[c] \in {"idle", "initialize"} =>
       request[c] = Nothing /\ queries[c] = <<>>
  /\ pc[c] \in {"check", "build", "prepared", "answered"} =>
       /\ request[c] \in Requests
       /\ Len(prompts[c]) + Len(queries[c]) = Len(QueriesOf(request[c]))
       /\ \A i \in DOMAIN prompts[c] : prompts[c][i].command = QueriesOf(request[c])[i]
       /\ \A i \in DOMAIN queries[c] :
            queries[c][i] = QueriesOf(request[c])[Len(prompts[c]) + i]
  /\ pc[c] \in {"prepared", "answered"} => queries[c] = <<>> /\ prompts[c] # <<>>
  /\ pc[c] = "build" => prompts[c] # <<>> \/ queries[c] # <<>>
  /\ pc[c] \in {"idle", "initialize", "check"} => prompts[c] = <<>>
  /\ pc[c] \notin {"prepared", "answered"} => results[c] = <<>>
  /\ pc[c] # "answered" => answer[c] = Nothing
  /\ \A i \in DOMAIN prompts[c] : prompts[c][i].prompt = ParseCommand(prompts[c][i].command)
  /\ reason[c] = IF results[c] = <<>> THEN Nothing ELSE Contract!Combined(results[c])

\* The invariant behind UsesLoadedParts, CacheSound and ImplementsRequest.
SessionInv ==
  /\ TypeOK
  /\ MutexHeld
  /\ CacheSound
  /\ \A c \in Callers : CallFollowsRequest(c)

\* Whatever the other callers ask, initialise or evict, a request that is
\* answered has the prompts of its own command in order and their reasons merged
\* (Complete, inference.cpp:456).
ImplementsRequest == Contract!Spec

\* Every call comes back: no lock of Initialize or of the cache outlives an
\* exception, and no loop over queries or results runs on.
RequestReturns == \A c \in Callers : pc[c] # "idle" ~> pc[c] = "idle"

\* prompt.cpp:146 says of Validate that it throws if a command lacks a required
\* query; what it accepts can then be prepared by an initialised session.
AcceptedCanBePrepared ==
  \A c \in Callers, command \in Commands :
    initialized /\ pc[c] = "check" /\ request[c] = [command |-> command] /\ Accepts(command) =>
      queries[c] # <<>> /\ \A i \in DOMAIN queries[c] : Accepts(queries[c][i])
===============================================================================
