--------------------------- MODULE InferenceRequest ---------------------------
(* What the shared core promises its callers (inference.hpp): a request fails,  *)
(* or it is prepared once and then answered with one result per prompt, in the  *)
(* order of the request, whatever the other callers do.                         *)
EXTENDS Sequences, Naturals

CONSTANTS
  Callers,
  Requests,    \* what callers may ask for
  Prompts(_),  \* the prompts of a request, in order
  Nothing,     \* no request, no answer
  Reasons      \* why a generation stopped

VARIABLES request, state, answer

vars == <<request, state, answer>>

Mixed == "mixed"

\* The one reason of all results, or Mixed.
Combined(reasons) ==
  IF \A i \in DOMAIN reasons : reasons[i] = reasons[1] THEN reasons[1] ELSE Mixed

Init ==
  /\ request = [c \in Callers |-> Nothing]
  /\ state = [c \in Callers |-> "idle"]
  /\ answer = [c \in Callers |-> Nothing]

Ask(c, r) ==
  /\ state[c] = "idle"
  /\ request' = [request EXCEPT ![c] = r]
  /\ state' = [state EXCEPT ![c] = "asked"]
  /\ UNCHANGED answer

Prepare(c) ==
  /\ state[c] = "asked"
  /\ state' = [state EXCEPT ![c] = "prepared"]
  /\ UNCHANGED <<request, answer>>

Answer(c, reasons) ==
  /\ state[c] = "prepared" /\ Len(reasons) = Len(Prompts(request[c]))
  /\ answer' = [answer EXCEPT ![c] = [prompts |-> Prompts(request[c]),
                                      reason |-> Combined(reasons)]]
  /\ state' = [state EXCEPT ![c] = "answered"]
  /\ UNCHANGED request

\* The request throws, or its answer is taken.
Leave(c) ==
  /\ state[c] # "idle"
  /\ request' = [request EXCEPT ![c] = Nothing]
  /\ state' = [state EXCEPT ![c] = "idle"]
  /\ answer' = [answer EXCEPT ![c] = Nothing]

Next ==
  \E c \in Callers :
    \/ \E r \in Requests : Ask(c, r)
    \/ Prepare(c)
    \/ /\ state[c] = "prepared"
       /\ \E reasons \in [DOMAIN Prompts(request[c]) -> Reasons] : Answer(c, reasons)
    \/ Leave(c)

Spec == Init /\ [][Next]_vars
===============================================================================
