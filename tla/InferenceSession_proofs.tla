----------------------- MODULE InferenceSession_proofs -----------------------
(***************************************************************************)
(* One session shared by any number of threads, with any commands, stop    *)
(* reasons and cache size: whoever is past the check finds everything      *)
(* loaded, the prompt cache stays sound, and every answer is the one of    *)
(* its own request.  The inductive invariant is                            *)
(* InferenceSession!SessionInv.                                            *)
(***************************************************************************)
EXTENDS InferenceSession, TLAPS

USE SessionAssumption

LEMMA LenParts == Len(Parts) = 3
  BY DEF Parts

LEMMA InitInv == Init => SessionInv
<1> SUFFICES ASSUME Init PROVE SessionInv
  OBVIOUS
<1>1. TypeOK
  <2>1. <<>> \in Seq(AllQueries) /\ <<>> \in Seq(Entries) /\ <<>> \in Seq(Reasons)
    OBVIOUS
  <2>2. initialized \in BOOLEAN
    BY Zenon DEF Init
  <2>3. loaded \in 0 .. Len(Parts) /\ attempts \in Nat /\ stateMutex \in Callers \union {Nothing}
    BY LenParts DEF Init
  <2> QED
    BY <2>1, <2>2, <2>3 DEF Init, TypeOK
<1>2. MutexHeld
  BY DEF Init, MutexHeld
<1>3. CacheSound
  BY DEF Init, CacheSound
<1>4. \A c \in Callers : CallFollowsRequest(c)
  BY DEF Init, CallFollowsRequest
<1> QED
  BY <1>1, <1>2, <1>3, <1>4 DEF SessionInv

------------------------------------------------------------------------------
(* The prompt cache                                                             *)

\* What is found or built for a query is an entry of that query.
LEMMA EntryFacts ==
  ASSUME TypeOK, CacheSound, NEW query \in AllQueries
  PROVE  /\ Entry(query) \in Entries
         /\ Entry(query).command = query /\ Entry(query).prompt = ParseCommand(query)
<1>1. CASE Cached(query) = {}
  BY <1>1 DEF Entry, Entries
<1>2. CASE Cached(query) # {}
  <2>1. PICK i \in Cached(query) : Entry(query) = cache[i]
    BY <1>2 DEF Entry
  <2>2. i \in DOMAIN cache /\ cache[i].command = query
    BY <2>1 DEF Cached
  <2>3. cache[i] \in Entries
    BY <2>2 DEF TypeOK
  <2> QED
    BY <2>1, <2>2, <2>3 DEF CacheSound
<1> QED
  BY <1>1, <1>2

\* A command is held once.
LEMMA HeldOnce ==
  ASSUME CacheSound, NEW i \in DOMAIN cache, NEW j \in DOMAIN cache,
         cache[i].command = cache[j].command
  PROVE  i = j
<1>1. j \in Cached(cache[i].command)
  BY DEF Cached
<1> QED
  BY <1>1 DEF CacheSound

\* Eviction moves the entries that remain down by one.
LEMMA EvictedFacts ==
  ASSUME TypeOK, CacheSound, NEW kept,
         kept = IF Len(cache) = CacheSize THEN Tail(cache) ELSE cache
  PROVE  /\ kept \in Seq(Entries) /\ Len(kept) < CacheSize
         /\ \A i \in DOMAIN kept : \E k \in DOMAIN cache : kept[i] = cache[k]
         /\ \A i, j \in DOMAIN kept : kept[i].command = kept[j].command => i = j
<1>1. cache \in Seq(Entries) /\ Len(cache) \in Nat /\ CacheSize \in Nat \ {0}
  BY DEF TypeOK
<1>2. Len(cache) <= CacheSize
  BY DEF CacheSound
<1>3. CASE Len(cache) = CacheSize
  <2>1. /\ kept = Tail(cache) /\ cache # <<>>
        /\ kept \in Seq(Entries) /\ Len(kept) = Len(cache) - 1
        /\ \A i \in DOMAIN kept : i + 1 \in DOMAIN cache /\ kept[i] = cache[i + 1]
    BY <1>1, <1>3
  <2>2. ASSUME NEW i \in DOMAIN kept, NEW j \in DOMAIN kept,
               kept[i].command = kept[j].command
        PROVE  i = j
    <3>1. i + 1 = j + 1
      BY <2>1, <2>2, HeldOnce
    <3>2. i \in Nat /\ j \in Nat
      BY <2>1
    <3> QED
      BY <3>1, <3>2
  <2> QED
    BY <1>1, <1>3, <2>1, <2>2
<1>4. CASE Len(cache) # CacheSize
  BY <1>1, <1>2, <1>4, HeldOnce
<1> QED
  BY <1>3, <1>4

\* Looking a query up, building its prompt and evicting for it keep the cache sound.
LEMMA CacheWithKeepsCache ==
  ASSUME TypeOK, CacheSound, NEW query \in AllQueries, Entry(query).prompt # Invalid,
         cache' = CacheWith(Entry(query))
  PROVE  cache' \in Seq(Entries) /\ CacheSound'
<1> DEFINE entry == Entry(query)
           kept == IF Len(cache) = CacheSize THEN Tail(cache) ELSE cache
<1>1. entry \in Entries /\ entry.command = query /\ entry.prompt = ParseCommand(query)
  BY EntryFacts
<1>2. entry.prompt # Invalid
  OBVIOUS
<1>3. cache' = IF Cached(entry.command) # {} THEN cache ELSE Append(kept, entry)
  BY DEF CacheWith
<1> HIDE DEF entry
<1>4. CASE Cached(query) # {}
  <2>1. cache' = cache
    BY <1>1, <1>3, <1>4
  <2> QED
    BY <2>1 DEF TypeOK, CacheSound, Cached
<1>5. CASE Cached(query) = {}
  <2>1. cache' = Append(kept, entry)
    BY <1>1, <1>3, <1>5
  <2>2. /\ kept \in Seq(Entries) /\ Len(kept) < CacheSize
        /\ \A i \in DOMAIN kept : \E k \in DOMAIN cache : kept[i] = cache[k]
        /\ \A i, j \in DOMAIN kept : kept[i].command = kept[j].command => i = j
    BY EvictedFacts
  <2> HIDE DEF kept
  <2>3. \A i \in DOMAIN kept : kept[i].command # query
    BY <1>5, <2>2 DEF Cached
  <2>4. /\ cache' \in Seq(Entries) /\ Len(cache') = Len(kept) + 1
        /\ DOMAIN cache' = DOMAIN kept \union {Len(kept) + 1}
        /\ Len(kept) + 1 \notin DOMAIN kept
        /\ \A i \in DOMAIN kept : cache'[i] = kept[i]
        /\ cache'[Len(kept) + 1] = entry
    BY <1>1, <2>1, <2>2
  <2>5. Len(cache') <= CacheSize
    <3>1. Len(kept) \in Nat /\ CacheSize \in Nat
      BY <2>2
    <3> QED
      BY <2>2, <2>4, <3>1
  <2>6. \A i \in DOMAIN cache' :
          cache'[i].prompt = ParseCommand(cache'[i].command) /\ cache'[i].prompt # Invalid
    <3>1. \A i \in DOMAIN kept :
            kept[i].prompt = ParseCommand(kept[i].command) /\ kept[i].prompt # Invalid
      BY <2>2 DEF CacheSound
    <3> QED
      BY <1>1, <1>2, <2>4, <3>1
  <2>7. \A i, j \in DOMAIN cache' : cache'[i].command = cache'[j].command => i = j
    BY <1>1, <2>2, <2>3, <2>4
  <2> QED
    BY <2>4, <2>5, <2>6, <2>7 DEF CacheSound, Cached
<1> QED
  BY <1>4, <1>5

------------------------------------------------------------------------------
(* A step of one thread leaves the calls of the others as they were             *)

LEMMA OthersFollow ==
  ASSUME NEW d \in Callers, CallFollowsRequest(d),
         pc'[d] = pc[d], request'[d] = request[d], queries'[d] = queries[d],
         prompts'[d] = prompts[d], results'[d] = results[d], reason'[d] = reason[d],
         answer'[d] = answer[d]
  PROVE  CallFollowsRequest(d)'
  BY DEF CallFollowsRequest, Contract!Combined

\* The places where a call uses the session.
LEMMA MutexKept ==
  ASSUME MutexHeld, NEW c \in Callers, UNCHANGED sessionVars, TypeOK,
         pc[c] # "initialize", NEW place, place # "initialize", Goto(c, place),
         place \in {"build", "prepared", "answered"} => initialized
  PROVE  MutexHeld'
  BY DEF MutexHeld, Goto, TypeOK, sessionVars

\* A call that has ended holds nothing.
LEMMA LeaveKeepsInv ==
  ASSUME SessionInv, NEW c \in Callers, pc[c] # "initialize", Leave(c),
         cache' \in Seq(Entries), CacheSound'
  PROVE  SessionInv'
<1>1. TypeOK /\ MutexHeld /\ \A d \in Callers : CallFollowsRequest(d)
  BY DEF SessionInv
<1>2. TypeOK'
  <2>1. initialized' \in BOOLEAN
    BY <1>1, Zenon DEF TypeOK, Leave, sessionVars
  <2>2. /\ loaded' \in 0 .. Len(Parts) /\ attempts' \in Nat
        /\ stateMutex' \in Callers \union {Nothing}
    BY <1>1 DEF TypeOK, Leave, sessionVars
  <2>3. <<>> \in Seq(AllQueries) /\ <<>> \in Seq(Entries) /\ <<>> \in Seq(Reasons)
    OBVIOUS
  <2> QED
    BY <1>1, <2>1, <2>2, <2>3 DEF TypeOK, Leave, Goto
<1>3. MutexHeld'
  BY <1>1, MutexKept DEF Leave
<1>4. ASSUME NEW d \in Callers PROVE CallFollowsRequest(d)'
  <2>1. CASE d = c
    BY <1>1, <2>1 DEF Leave, Goto, TypeOK, CallFollowsRequest
  <2>2. CASE d # c
    BY <1>1, <2>2, OthersFollow DEF Leave, Goto, TypeOK
  <2> QED
    BY <2>1, <2>2
<1> QED
  BY <1>2, <1>3, <1>4 DEF SessionInv

\* Steps that leave the calls alone.
LEMMA CallsKept ==
  ASSUME \A d \in Callers : CallFollowsRequest(d), NEW c \in Callers, TypeOK,
         UNCHANGED callVars, NEW place, Goto(c, place),
         {pc[c], place} \subseteq {"idle", "initialize"}
  PROVE  \A d \in Callers : CallFollowsRequest(d)'
<1> SUFFICES ASSUME NEW d \in Callers PROVE CallFollowsRequest(d)'
  OBVIOUS
<1>1. CASE d = c
  BY <1>1 DEF callVars, Goto, TypeOK, CallFollowsRequest, Contract!Combined
<1>2. CASE d # c
  BY <1>2, OthersFollow DEF callVars, Goto, TypeOK
<1> QED
  BY <1>1, <1>2

LEMMA CacheKept == CacheSound /\ UNCHANGED cache => CacheSound'
  BY DEF CacheSound, Cached

------------------------------------------------------------------------------
(* Initialize                                                                   *)

LEMMA InitializeKeepsInv ==
  ASSUME SessionInv, NEW c \in Callers,
         BeginInitialize(c) \/ LoadPart(c) \/ EndInitialize(c) \/ InitializeThrows(c)
  PROVE  SessionInv'
<1>1. TypeOK /\ MutexHeld /\ CacheSound /\ \A d \in Callers : CallFollowsRequest(d)
  BY DEF SessionInv
<1>2. UNCHANGED <<cache, callVars>>
  BY DEF BeginInitialize, LoadPart, EndInitialize, InitializeThrows
<1>3. TypeOK'
  <2>1. initialized' \in BOOLEAN
    BY <1>1, Zenon DEF TypeOK, BeginInitialize, LoadPart, EndInitialize, InitializeThrows
  <2>2. loaded' \in 0 .. Len(Parts) /\ attempts' \in Nat
    BY <1>1, LenParts DEF TypeOK, BeginInitialize, LoadPart, EndInitialize, InitializeThrows
  <2>3. stateMutex' \in Callers \union {Nothing}
    BY <1>1 DEF TypeOK, BeginInitialize, LoadPart, EndInitialize, InitializeThrows
  <2>4. pc' \in [Callers -> {"idle", "initialize", "check", "build", "prepared", "answered"}]
    BY <1>1 DEF TypeOK, BeginInitialize, LoadPart, EndInitialize, InitializeThrows, Goto
  <2> QED
    BY <1>1, <1>2, <2>1, <2>2, <2>3, <2>4 DEF TypeOK, callVars
<1>4. MutexHeld'
  <2>1. CASE BeginInitialize(c)
    BY <1>1, <2>1 DEF MutexHeld, BeginInitialize, Goto, TypeOK
  <2>2. CASE LoadPart(c)
    BY <1>1, <2>2 DEF MutexHeld, LoadPart
  <2>3. CASE EndInitialize(c)
    BY <1>1, <2>3 DEF MutexHeld, EndInitialize, Goto, TypeOK
  <2>4. CASE InitializeThrows(c)
    BY <1>1, <2>4 DEF MutexHeld, InitializeThrows, Goto, TypeOK
  <2> QED
    BY <2>1, <2>2, <2>3, <2>4
<1>5. \A d \in Callers : CallFollowsRequest(d)'
  <2>1. CASE LoadPart(c)
    BY <1>1, <1>2, <2>1, OthersFollow DEF LoadPart, callVars
  <2>2. CASE ~LoadPart(c)
    <3>1. PICK place \in {"idle", "initialize"} :
            Goto(c, place) /\ pc[c] \in {"idle", "initialize"}
      BY <2>2 DEF BeginInitialize, EndInitialize, InitializeThrows
    <3> QED
      BY <1>1, <1>2, <3>1, CallsKept DEF callVars
  <2> QED
    BY <2>1, <2>2
<1> QED
  BY <1>1, <1>2, <1>3, <1>4, <1>5, CacheKept DEF SessionInv

------------------------------------------------------------------------------
(* Prepare, PrepareQueries, Complete                                            *)

\* A step that keeps the session and the cache, and sets what one call holds.
LEMMA CallKeepsInv ==
  ASSUME SessionInv, NEW c \in Callers, UNCHANGED <<sessionVars, cache>>,
         pc[c] # "initialize", NEW place, place # "initialize", Goto(c, place),
         place \in {"build", "prepared", "answered"} => initialized,
         TypeOK', CallFollowsRequest(c)',
         \A d \in Callers : d # c =>
           /\ request'[d] = request[d] /\ queries'[d] = queries[d]
           /\ prompts'[d] = prompts[d] /\ results'[d] = results[d]
           /\ reason'[d] = reason[d] /\ answer'[d] = answer[d]
  PROVE  SessionInv'
<1>1. TypeOK /\ MutexHeld /\ CacheSound /\ \A d \in Callers : CallFollowsRequest(d)
  BY DEF SessionInv
<1>2. MutexHeld'
  BY <1>1, MutexKept
<1>3. ASSUME NEW d \in Callers, d # c PROVE CallFollowsRequest(d)'
  <2>1. pc'[d] = pc[d]
    BY <1>1, <1>3 DEF Goto, TypeOK
  <2> QED
    BY <1>1, <1>3, <2>1, OthersFollow
<1> QED
  BY <1>1, <1>2, <1>3, CacheKept DEF SessionInv

LEMMA AskKeepsInv ==
  ASSUME SessionInv, NEW c \in Callers, NEW r \in Requests, Ask(c, r)
  PROVE  SessionInv'
<1>1. TypeOK /\ CallFollowsRequest(c)
  BY DEF SessionInv
<1>2. QueriesOf(r) \in Seq(AllQueries)
  BY RequestAssumption
<1>3. TypeOK'
  <2>1. initialized' \in BOOLEAN
    BY <1>1, Zenon DEF TypeOK, Ask, sessionVars
  <2> QED
    BY <1>1, <1>2, <2>1 DEF TypeOK, Ask, Goto, sessionVars
<1>4. /\ pc'[c] = "check" /\ request'[c] = r /\ queries'[c] = QueriesOf(r)
      /\ prompts'[c] = <<>> /\ results'[c] = <<>> /\ reason'[c] = Nothing
      /\ answer'[c] = Nothing
  BY <1>1 DEF TypeOK, Ask, Goto, CallFollowsRequest
<1>5. CallFollowsRequest(c)'
  BY <1>2, <1>4 DEF CallFollowsRequest
<1> QED
  BY <1>1, <1>3, <1>5, CallKeepsInv DEF Ask, TypeOK

\* Steps that only move a call on.
LEMMA MoveKeepsInv ==
  ASSUME SessionInv, NEW c \in Callers, CheckInitialized(c) \/ RunVision(c)
  PROVE  SessionInv'
<1>1. TypeOK /\ MutexHeld /\ CallFollowsRequest(c)
  BY DEF SessionInv
<1>2. UNCHANGED <<sessionVars, cache, callVars>>
  BY DEF CheckInitialized, RunVision
<1>3. TypeOK'
  <2>1. initialized' \in BOOLEAN
    BY <1>1, <1>2, Zenon DEF TypeOK, sessionVars
  <2> QED
    BY <1>1, <1>2, <2>1 DEF TypeOK, CheckInitialized, RunVision, Goto, sessionVars, callVars
<1>4. CASE CheckInitialized(c)
  <2>1. pc[c] = "check" /\ Goto(c, "build") /\ initialized /\ queries[c] # <<>>
    BY <1>4 DEF CheckInitialized
  <2>2. CallFollowsRequest(c)'
    BY <1>1, <1>2, <2>1 DEF CallFollowsRequest, Goto, TypeOK, callVars, Contract!Combined
  <2> QED
    BY <1>2, <1>3, <2>1, <2>2, CallKeepsInv DEF callVars
<1>5. CASE RunVision(c)
  <2>1. pc[c] = "build" /\ Goto(c, "prepared") /\ initialized /\ queries[c] = <<>>
    BY <1>1, <1>5 DEF RunVision, MutexHeld
  <2>2. CallFollowsRequest(c)'
    BY <1>1, <1>2, <2>1 DEF CallFollowsRequest, Goto, TypeOK, callVars, Contract!Combined
  <2> QED
    BY <1>2, <1>3, <2>1, <2>2, CallKeepsInv DEF callVars
<1> QED
  BY <1>4, <1>5

\* One query becomes one prompt.
LEMMA OneMoved ==
  ASSUME NEW m \in Nat, NEW n \in Nat
  PROVE  (m + 1) + (n - 1) = m + n /\ \A i \in Nat : m + (i + 1) = (m + 1) + i
  OBVIOUS

LEMMA BuildKeepsInv ==
  ASSUME SessionInv, NEW c \in Callers, BuildPrompt(c)
  PROVE  SessionInv'
<1> DEFINE query == Head(queries[c])
           entry == Entry(query)
<1>1. TypeOK /\ MutexHeld /\ CacheSound /\ \A d \in Callers : CallFollowsRequest(d)
  BY DEF SessionInv
<1>2. queries[c] \in Seq(AllQueries) /\ prompts[c] \in Seq(Entries) /\ queries[c] # <<>>
  BY <1>1 DEF TypeOK, BuildPrompt
<1>3. query \in AllQueries
  BY <1>2
<1>4. entry.prompt # Invalid /\ cache' = CacheWith(entry)
  BY DEF BuildPrompt
<1>5. /\ entry \in Entries /\ entry.command = query
      /\ entry.prompt = ParseCommand(entry.command)
  BY <1>1, <1>3, EntryFacts
<1>6. cache' \in Seq(Entries) /\ CacheSound'
  BY <1>1, <1>3, <1>4, CacheWithKeepsCache
<1>7. /\ pc' = pc /\ pc[c] = "build" /\ UNCHANGED <<request, results, reason, answer, sessionVars>>
      /\ prompts' = [prompts EXCEPT ![c] = Append(@, entry)]
      /\ queries' = [queries EXCEPT ![c] = Tail(@)]
  BY DEF BuildPrompt
<1> HIDE DEF entry
<1>8. TypeOK'
  <2>1. initialized' \in BOOLEAN
    BY <1>1, <1>7, Zenon DEF TypeOK, sessionVars
  <2>2. Append(prompts[c], entry) \in Seq(Entries) /\ Tail(queries[c]) \in Seq(AllQueries)
    BY <1>2, <1>5
  <2> QED
    BY <1>1, <1>6, <1>7, <2>1, <2>2 DEF TypeOK, sessionVars
<1>9. MutexHeld'
  BY <1>1, <1>7 DEF MutexHeld, sessionVars
<1>10. ASSUME NEW d \in Callers, d # c PROVE CallFollowsRequest(d)'
  BY <1>1, <1>7, <1>10, OthersFollow DEF TypeOK
<1>11. CallFollowsRequest(c)'
  <2> DEFINE all == QueriesOf(request[c])
  <2>1. /\ prompts'[c] = Append(prompts[c], entry) /\ queries'[c] = Tail(queries[c])
        /\ pc'[c] = "build" /\ request'[c] = request[c] /\ results'[c] = results[c]
        /\ reason'[c] = reason[c] /\ answer'[c] = answer[c]
    BY <1>1, <1>7 DEF TypeOK
  <2>2. /\ request[c] \in Requests /\ results[c] = <<>> /\ answer[c] = Nothing
        /\ reason[c] = Nothing /\ Len(prompts[c]) + Len(queries[c]) = Len(all)
        /\ \A i \in DOMAIN prompts[c] :
             /\ prompts[c][i].command = all[i]
             /\ prompts[c][i].prompt = ParseCommand(prompts[c][i].command)
        /\ \A i \in DOMAIN queries[c] : queries[c][i] = all[Len(prompts[c]) + i]
    BY <1>1, <1>7 DEF CallFollowsRequest
  <2> HIDE DEF all
  <2>3. /\ Len(prompts'[c]) = Len(prompts[c]) + 1 /\ prompts'[c] # <<>>
        /\ DOMAIN prompts'[c] = DOMAIN prompts[c] \union {Len(prompts[c]) + 1}
        /\ Len(prompts[c]) + 1 \notin DOMAIN prompts[c]
        /\ \A i \in DOMAIN prompts[c] : prompts'[c][i] = prompts[c][i]
        /\ prompts'[c][Len(prompts[c]) + 1] = entry
    BY <1>2, <1>5, <2>1
  <2>4. /\ Len(queries'[c]) = Len(queries[c]) - 1
        /\ \A i \in DOMAIN queries'[c] :
             i + 1 \in DOMAIN queries[c] /\ queries'[c][i] = queries[c][i + 1] /\ i \in Nat
        /\ 1 \in DOMAIN queries[c] /\ query = queries[c][1]
    BY <1>2, <2>1
  <2>5. Len(prompts[c]) \in Nat /\ Len(queries[c]) \in Nat
    BY <1>2
  <2> HIDE DEF query
  <2>6. Len(prompts'[c]) + Len(queries'[c]) = Len(all)
    <3>1. (Len(prompts[c]) + 1) + (Len(queries[c]) - 1) = Len(prompts[c]) + Len(queries[c])
      BY <2>5, OneMoved
    <3> QED
      BY <2>2, <2>3, <2>4, <3>1, Zenon
  <2>7. \A i \in DOMAIN queries'[c] : queries'[c][i] = all[Len(prompts'[c]) + i]
    <3> SUFFICES ASSUME NEW i \in DOMAIN queries'[c]
                 PROVE  queries'[c][i] = all[Len(prompts'[c]) + i]
      OBVIOUS
    <3>1. queries'[c][i] = all[Len(prompts[c]) + (i + 1)] /\ i \in Nat
      BY <2>2, <2>4
    <3>2. Len(prompts[c]) + (i + 1) = (Len(prompts[c]) + 1) + i
      BY <2>5, <3>1, OneMoved
    <3>3. Len(prompts[c]) + (i + 1) = Len(prompts'[c]) + i
      BY <2>3, <3>2, Zenon
    <3> QED
      BY <3>1, <3>3, Zenon
  <2>8. \A i \in DOMAIN prompts'[c] :
          /\ prompts'[c][i].command = all[i]
          /\ prompts'[c][i].prompt = ParseCommand(prompts'[c][i].command)
    <3>1. entry.command = all[Len(prompts[c]) + 1]
      BY <1>5, <2>2, <2>4
    <3> QED
      BY <1>5, <2>2, <2>3, <3>1
  <2> QED
    BY <2>1, <2>2, <2>3, <2>6, <2>7, <2>8 DEF CallFollowsRequest, all
<1> QED
  BY <1>6, <1>8, <1>9, <1>10, <1>11 DEF SessionInv

\* The reason of all results, one more included.
LEMMA MergedReason ==
  ASSUME NEW sofar \in Seq(Reasons), NEW one \in Reasons
  PROVE  MergeReason(IF sofar = <<>> THEN Nothing ELSE Contract!Combined(sofar), one)
           = Contract!Combined(Append(sofar, one))
<1> DEFINE more == Append(sofar, one)
<1>1. /\ more \in Seq(Reasons) /\ more # <<>> /\ Len(sofar) + 1 \in DOMAIN more
      /\ DOMAIN more = DOMAIN sofar \union {Len(sofar) + 1} /\ more[Len(sofar) + 1] = one
      /\ \A i \in DOMAIN sofar : more[i] = sofar[i]
  OBVIOUS
<1>2. CASE sofar = <<>>
  <2>1. more = <<one>>
    BY <1>2
  <2> QED
    BY <1>2, <2>1 DEF MergeReason, Contract!Combined
<1>3. CASE sofar # <<>>
  <2>1. 1 \in DOMAIN sofar /\ sofar[1] \in Reasons /\ more[1] = sofar[1]
    BY <1>1, <1>3
  <2> HIDE DEF more
  <2>2. CASE \A i \in DOMAIN sofar : sofar[i] = sofar[1]
    BY <1>1, <1>3, <2>1, <2>2 DEF MergeReason, Contract!Combined, Contract!Mixed, Mixed
  <2>3. CASE ~ \A i \in DOMAIN sofar : sofar[i] = sofar[1]
    <3>1. Contract!Combined(sofar) = Mixed /\ Contract!Combined(more) = Mixed
      BY <1>1, <2>1, <2>3 DEF Contract!Combined, Contract!Mixed, Mixed
    <3>2. Mixed # one /\ Mixed # Nothing
      OBVIOUS
    <3> QED
      BY <1>3, <3>1, <3>2 DEF MergeReason, more
  <2> QED
    BY <2>2, <2>3 DEF more
<1> QED
  BY <1>2, <1>3

LEMMA GenerateKeepsInv ==
  ASSUME SessionInv, NEW c \in Callers, NEW one \in Reasons, Generate(c, one)
  PROVE  SessionInv'
<1>1. TypeOK /\ MutexHeld /\ CacheSound /\ \A d \in Callers : CallFollowsRequest(d)
  BY DEF SessionInv
<1>2. /\ pc' = pc /\ pc[c] = "prepared"
      /\ UNCHANGED <<sessionVars, cache, request, queries, prompts, answer>>
  BY DEF Generate
<1>3. results[c] \in Seq(Reasons)
  BY <1>1 DEF TypeOK
<1>4. Append(results[c], one) \in Seq(Reasons) /\ Append(results[c], one) # <<>>
  BY <1>3
<1>5. reason[c] = IF results[c] = <<>> THEN Nothing ELSE Contract!Combined(results[c])
  BY <1>1 DEF CallFollowsRequest
<1>6. MergeReason(reason[c], one) = Contract!Combined(Append(results[c], one))
  BY <1>3, <1>5, MergedReason
<1>7. MergeReason(reason[c], one) \in Reasons \union {Nothing, Mixed}
  BY <1>1 DEF MergeReason, TypeOK
<1>8. TypeOK'
  <2>1. initialized' \in BOOLEAN
    BY <1>1, <1>2, Zenon DEF TypeOK, sessionVars
  <2>2. results' \in [Callers -> Seq(Reasons)]
    BY <1>1, <1>4 DEF TypeOK, Generate
  <2>3. reason' \in [Callers -> Reasons \union {Nothing, Mixed}]
    BY <1>1, <1>7 DEF TypeOK, Generate
  <2> QED
    BY <1>1, <1>2, <2>1, <2>2, <2>3 DEF TypeOK, sessionVars
<1>9. MutexHeld' /\ CacheSound'
  BY <1>1, <1>2, CacheKept DEF MutexHeld, sessionVars
<1>10. ASSUME NEW d \in Callers, d # c PROVE CallFollowsRequest(d)'
  <2>1. results'[d] = results[d] /\ reason'[d] = reason[d]
    BY <1>1, <1>10 DEF TypeOK, Generate
  <2> QED
    BY <1>1, <1>2, <1>10, <2>1, OthersFollow
<1>11. CallFollowsRequest(c)'
  <2>1. results'[c] = Append(results[c], one) /\ reason'[c] = MergeReason(reason[c], one)
    BY <1>1 DEF TypeOK, Generate
  <2>2. reason'[c] = IF results'[c] = <<>> THEN Nothing ELSE Contract!Combined(results'[c])
    BY <1>4, <1>6, <2>1
  <2>3. CallFollowsRequest(c)
    BY <1>1
  <2> QED
    BY <1>2, <2>2, <2>3 DEF CallFollowsRequest, Contract!Combined
<1> QED
  BY <1>8, <1>9, <1>10, <1>11 DEF SessionInv

LEMMA PostprocessKeepsInv ==
  ASSUME SessionInv, NEW c \in Callers, Postprocess(c)
  PROVE  SessionInv'
<1>1. TypeOK /\ MutexHeld /\ CallFollowsRequest(c)
  BY DEF SessionInv
<1>2. /\ pc[c] = "prepared" /\ Goto(c, "answered") /\ initialized
      /\ UNCHANGED <<sessionVars, cache, request, queries, prompts, results, reason>>
  BY <1>1 DEF Postprocess, MutexHeld
<1>3. TypeOK'
  <2>1. initialized' \in BOOLEAN
    BY <1>1, <1>2, Zenon DEF TypeOK, sessionVars
  <2>2. DOMAIN answer' = Callers
    BY <1>1 DEF TypeOK, Postprocess
  <2> QED
    BY <1>1, <1>2, <2>1, <2>2 DEF TypeOK, Goto, sessionVars
<1>4. CallFollowsRequest(c)'
  BY <1>1, <1>2 DEF CallFollowsRequest, Goto, TypeOK, Contract!Combined
<1>5. \A d \in Callers : d # c => answer'[d] = answer[d]
  BY <1>1 DEF TypeOK, Postprocess
<1> QED
  BY <1>2, <1>3, <1>4, <1>5, CallKeepsInv

------------------------------------------------------------------------------
(* Every step, and what follows of the invariant                                *)

LEMMA ThrowsKeepInv ==
  ASSUME SessionInv, NEW c \in Callers,
         CheckThrows(c) \/ TaskThrows(c) \/ BuildThrows(c) \/ Finish(c)
  PROVE  SessionInv'
<1>1. TypeOK /\ CacheSound
  BY DEF SessionInv
<1>2. pc[c] # "initialize" /\ Leave(c)
  BY DEF CheckThrows, TaskThrows, BuildThrows, Finish
<1>3. cache' \in Seq(Entries) /\ CacheSound'
  <2>1. CASE TaskThrows(c)
    <3>1. queries[c] \in Seq(AllQueries) /\ queries[c] # <<>>
      BY <1>1, <2>1 DEF TypeOK, TaskThrows
    <3>2. Head(queries[c]) \in AllQueries
      BY <3>1
    <3>3. /\ Entry(Head(queries[c])).prompt # Invalid
          /\ cache' = CacheWith(Entry(Head(queries[c])))
      BY <2>1 DEF TaskThrows
    <3> QED
      BY <1>1, <3>2, <3>3, CacheWithKeepsCache
  <2>2. CASE UNCHANGED cache
    BY <1>1, <2>2, CacheKept DEF TypeOK
  <2> QED
    BY <2>1, <2>2 DEF CheckThrows, BuildThrows, Finish
<1> QED
  BY <1>2, <1>3, LeaveKeepsInv

LEMMA StutterKeepsInv == SessionInv /\ UNCHANGED vars => SessionInv'
<1> SUFFICES ASSUME SessionInv, UNCHANGED vars PROVE SessionInv'
  OBVIOUS
<1>1. UNCHANGED <<sessionVars, cache, pc, callVars>>
  BY DEF vars
<1>2. TypeOK'
  <2>1. initialized' \in BOOLEAN
    BY <1>1, Zenon DEF SessionInv, TypeOK, sessionVars
  <2> QED
    BY <1>1, <2>1 DEF SessionInv, TypeOK, sessionVars, callVars
<1>3. MutexHeld' /\ CacheSound'
  BY <1>1, CacheKept DEF SessionInv, MutexHeld, sessionVars
<1>4. \A d \in Callers : CallFollowsRequest(d)'
  BY <1>1, OthersFollow DEF SessionInv, callVars
<1> QED
  BY <1>2, <1>3, <1>4 DEF SessionInv

LEMMA NextKeepsInv == SessionInv /\ [Next]_vars => SessionInv'
<1> SUFFICES ASSUME SessionInv, Next PROVE SessionInv'
  BY StutterKeepsInv
<1>1. PICK c \in Callers : BeginInitialize(c) \/ (\E r \in Requests : Ask(c, r)) \/ Work(c)
  BY DEF Next
<1>2. CASE BeginInitialize(c) \/ LoadPart(c) \/ EndInitialize(c) \/ InitializeThrows(c)
  BY <1>2, InitializeKeepsInv
<1>3. CASE \E r \in Requests : Ask(c, r)
  BY <1>3, AskKeepsInv
<1>4. CASE CheckInitialized(c) \/ RunVision(c)
  BY <1>4, MoveKeepsInv
<1>5. CASE CheckThrows(c) \/ TaskThrows(c) \/ BuildThrows(c) \/ Finish(c)
  BY <1>5, ThrowsKeepInv
<1>6. CASE BuildPrompt(c)
  BY <1>6, BuildKeepsInv
<1>7. CASE \E one \in Reasons : Generate(c, one)
  BY <1>7, GenerateKeepsInv
<1>8. CASE Postprocess(c)
  BY <1>8, PostprocessKeepsInv
<1> QED
  BY <1>1, <1>2, <1>3, <1>4, <1>5, <1>6, <1>7, <1>8 DEF Work

LEMMA SessionInvariant == Spec => []SessionInv
  BY InitInv, NextKeepsInv, PTL DEF Spec

\* The types of the session and of the calls (inference.cpp).
THEOREM TypeCorrect == Spec => []TypeOK
<1>1. SessionInv => TypeOK
  BY DEF SessionInv
<1> QED
  BY <1>1, SessionInvariant, PTL

\* A thread past the test of Prepare finds everything loaded and nobody inside
\* Initialize (inference.cpp:363), for any number of threads and attempts.
THEOREM LoadedBeforeUse == Spec => []UsesLoadedParts
<1>1. SessionInv => UsesLoadedParts
  BY DEF SessionInv, MutexHeld, UsesLoadedParts
<1> QED
  BY <1>1, SessionInvariant, PTL

\* The prompt cache stays within its size, holds a command once and only with
\* the valid prompt of that command (inference.cpp:400), for any cache size.
THEOREM CacheCorrect == Spec => []CacheSound
<1>1. SessionInv => CacheSound
  BY DEF SessionInv
<1> QED
  BY <1>1, SessionInvariant, PTL

------------------------------------------------------------------------------
(* Each call implements InferenceRequest                                        *)

LEMMA InitContract == Init => Contract!Init
  BY DEF Init, Contract!Init, RequestState

\* The contract's state of a call follows its place.
LEMMA StateMoves ==
  ASSUME TypeOK, NEW c \in Callers, NEW place, Goto(c, place), NEW state,
         state = CASE place \in {"idle", "initialize"} -> "idle"
                   [] place \in {"check", "build"} -> "asked"
                   [] OTHER -> place
  PROVE  RequestState' = [RequestState EXCEPT ![c] = state]
  BY DEF RequestState, Goto, TypeOK

LEMMA StateKept ==
  ASSUME TypeOK, NEW c \in Callers, NEW place, Goto(c, place),
         \/ {pc[c], place} \subseteq {"idle", "initialize"}
         \/ {pc[c], place} \subseteq {"check", "build"}
  PROVE  RequestState' = RequestState
  BY DEF RequestState, Goto, TypeOK

\* Steps the contract does not see.
LEMMA QuietSteps ==
  ASSUME SessionInv, NEW c \in Callers,
         \/ BeginInitialize(c) \/ LoadPart(c) \/ EndInitialize(c) \/ InitializeThrows(c)
         \/ CheckInitialized(c) \/ BuildPrompt(c) \/ \E one \in Reasons : Generate(c, one)
  PROVE  UNCHANGED Contract!vars
<1>1. TypeOK
  BY DEF SessionInv
<1>2. UNCHANGED <<request, answer>>
  BY DEF BeginInitialize, LoadPart, EndInitialize, InitializeThrows, CheckInitialized,
         BuildPrompt, Generate, callVars
<1>3. RequestState' = RequestState
  <2>1. CASE pc' = pc
    BY <2>1 DEF RequestState
  <2>2. CASE BeginInitialize(c) \/ EndInitialize(c) \/ InitializeThrows(c)
    BY <1>1, <2>2, StateKept DEF BeginInitialize, EndInitialize, InitializeThrows
  <2>3. CASE CheckInitialized(c)
    BY <1>1, <2>3, StateKept DEF CheckInitialized
  <2> QED
    BY <2>1, <2>2, <2>3 DEF LoadPart, BuildPrompt, Generate
<1> QED
  BY <1>2, <1>3 DEF Contract!vars

LEMMA LeaveRefines ==
  ASSUME SessionInv, NEW c \in Callers, Leave(c), pc[c] \notin {"idle", "initialize"}
  PROVE  Contract!Leave(c)
<1>1. TypeOK
  BY DEF SessionInv
<1>2. RequestState' = [RequestState EXCEPT ![c] = "idle"]
  BY <1>1, StateMoves DEF Leave
<1>3. RequestState[c] # "idle"
  BY <1>1 DEF RequestState, TypeOK
<1> QED
  BY <1>2, <1>3 DEF Leave, Contract!Leave

LEMMA AskRefines ==
  ASSUME SessionInv, NEW c \in Callers, NEW r \in Requests, Ask(c, r)
  PROVE  Contract!Ask(c, r)
<1>1. TypeOK
  BY DEF SessionInv
<1>2. RequestState' = [RequestState EXCEPT ![c] = "asked"] /\ RequestState[c] = "idle"
  BY <1>1, StateMoves DEF Ask, RequestState
<1> QED
  BY <1>2 DEF Ask, Contract!Ask

LEMMA PrepareRefines ==
  ASSUME SessionInv, NEW c \in Callers, RunVision(c)
  PROVE  Contract!Prepare(c)
<1>1. TypeOK
  BY DEF SessionInv
<1>2. RequestState' = [RequestState EXCEPT ![c] = "prepared"] /\ RequestState[c] = "asked"
  BY <1>1, StateMoves DEF RunVision, RequestState
<1> QED
  BY <1>2 DEF RunVision, callVars, Contract!Prepare

\* The answer has the prompts of the request and the reasons of its results.
LEMMA AnswerRefines ==
  ASSUME SessionInv, NEW c \in Callers, Postprocess(c)
  PROVE  /\ RequestState[c] = "prepared" /\ request[c] \in Requests
         /\ results[c] \in [DOMAIN RequestPrompts(request[c]) -> Reasons]
         /\ Contract!Answer(c, results[c])
<1>1. TypeOK /\ CallFollowsRequest(c) /\ pc[c] = "prepared"
  BY DEF SessionInv, Postprocess
<1>2. RequestState' = [RequestState EXCEPT ![c] = "answered"] /\ RequestState[c] = "prepared"
  BY <1>1, StateMoves DEF Postprocess, RequestState
<1> DEFINE all == QueriesOf(request[c])
<1>3. /\ prompts[c] \in Seq(Entries) /\ results[c] \in Seq(Reasons)
      /\ queries[c] = <<>> /\ prompts[c] # <<>> /\ request[c] \in Requests
      /\ Len(results[c]) = Len(prompts[c])
      /\ Len(prompts[c]) + Len(queries[c]) = Len(all)
      /\ \A i \in DOMAIN prompts[c] : /\ prompts[c][i].command = all[i]
                                      /\ prompts[c][i].prompt = ParseCommand(prompts[c][i].command)
  BY <1>1 DEF TypeOK, CallFollowsRequest, Postprocess
<1>4. all \in Seq(AllQueries)
  BY <1>3, RequestAssumption
<1>5. reason[c] = Contract!Combined(results[c])
  BY <1>1, <1>3 DEF CallFollowsRequest
<1> HIDE DEF all
<1>6. Len(prompts[c]) = Len(all) /\ Len(all) \in Nat
  BY <1>3, <1>4
<1>7. DOMAIN prompts[c] = DOMAIN all /\ DOMAIN all = 1 .. Len(all)
  BY <1>3, <1>4, <1>6
<1>8. RequestPrompts(request[c]) = [i \in DOMAIN all |-> ParseCommand(all[i])]
  BY DEF RequestPrompts, all
<1>9. [i \in DOMAIN prompts[c] |-> prompts[c][i].prompt] = RequestPrompts(request[c])
  BY <1>3, <1>7, <1>8
<1>10. /\ Len(RequestPrompts(request[c])) = Len(results[c])
       /\ results[c] \in [DOMAIN RequestPrompts(request[c]) -> Reasons]
  BY <1>3, <1>6, <1>7, <1>8
<1>11. answer' = [answer EXCEPT ![c] = [prompts |-> RequestPrompts(request[c]),
                                        reason |-> Contract!Combined(results[c])]]
  BY <1>5, <1>9 DEF Postprocess
<1> QED
  BY <1>2, <1>3, <1>10, <1>11 DEF Contract!Answer, Postprocess

LEMMA StepRefines == SessionInv /\ [Next]_vars => [Contract!Next]_(Contract!vars)
<1> SUFFICES ASSUME SessionInv, [Next]_vars PROVE [Contract!Next]_(Contract!vars)
  OBVIOUS
<1>1. CASE UNCHANGED vars
  BY <1>1 DEF vars, callVars, Contract!vars, RequestState
<1>2. CASE Next
  <2>1. PICK c \in Callers : BeginInitialize(c) \/ (\E r \in Requests : Ask(c, r)) \/ Work(c)
    BY <1>2 DEF Next
  <2>2. CASE \/ BeginInitialize(c) \/ LoadPart(c) \/ EndInitialize(c) \/ InitializeThrows(c)
             \/ CheckInitialized(c) \/ BuildPrompt(c) \/ \E one \in Reasons : Generate(c, one)
    BY <2>2, QuietSteps
  <2>3. CASE \E r \in Requests : Ask(c, r)
    BY <2>3, AskRefines DEF Contract!Next
  <2>4. CASE CheckThrows(c) \/ TaskThrows(c) \/ BuildThrows(c) \/ Finish(c)
    <3>1. Leave(c) /\ pc[c] \notin {"idle", "initialize"}
      BY <2>4 DEF CheckThrows, TaskThrows, BuildThrows, Finish
    <3> QED
      BY <3>1, LeaveRefines DEF Contract!Next
  <2>5. CASE RunVision(c)
    BY <2>5, PrepareRefines DEF Contract!Next
  <2>6. CASE Postprocess(c)
    BY <2>6, AnswerRefines DEF Contract!Next
  <2> QED
    BY <2>1, <2>2, <2>3, <2>4, <2>5, <2>6 DEF Work
<1> QED
  BY <1>1, <1>2

\* Whatever the other threads ask, initialise or evict, a request fails or is
\* answered with the prompts of its own command in order and the merged reasons
\* of their results (Complete, inference.cpp:456).
THEOREM AnswersOwnRequest == Spec => ImplementsRequest
  BY InitContract, StepRefines, SessionInvariant, PTL DEF Spec, ImplementsRequest, Contract!Spec
==============================================================================
