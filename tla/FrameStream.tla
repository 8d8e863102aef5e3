----------------------------- MODULE FrameStream -----------------------------
(***************************************************************************)
(* What the ROS node promises about the image stream, without threads,     *)
(* slots or locks: a lossy first-in first-out line of at most Depth        *)
(* frames.  Every accepted frame carries the prompt that was active when   *)
(* it was received; a newcomer may displace the youngest frame of the line *)
(* (latest-frame queue) but never an older one; results leave the line     *)
(* only at its head; a frame that fails, or the whole line at shutdown,    *)
(* disappears without a result.                                            *)
(***************************************************************************)
EXTENDS Naturals, Sequences, SequencesExt

CONSTANTS
  Prompts,    \* prompts the validator accepts
  NoPrompt,   \* the prompt of a node that has not received one yet
  Depth       \* how many accepted frames can be inside at the same time

VARIABLES
  prompt,     \* prompt given to the next frame
  accepted,   \* number of frames accepted so far: the next frame's id - 1
  line,       \* frames inside, oldest first
  published   \* frames whose result was published, in publication order

vars == <<prompt, accepted, line, published>>

Init ==
  /\ prompt = NoPrompt
  /\ accepted = 0
  /\ line = <<>>
  /\ published = <<>>

SetPrompt ==
  /\ prompt' \in Prompts
  /\ UNCHANGED <<accepted, line, published>>

\* A new frame joins the line, or takes the place of the youngest one.
Accept ==
  LET frame == [id |-> accepted + 1, prompt |-> prompt] IN
  /\ prompt # NoPrompt
  /\ accepted' = accepted + 1
  /\ \/ line' = Append(line, frame)
     \/ line # <<>> /\ line' = Append(Front(line), frame)
  /\ Len(line') <= Depth
  /\ UNCHANGED <<prompt, published>>

Publish ==
  /\ line # <<>>
  /\ published' = Append(published, Head(line))
  /\ line' = Tail(line)
  /\ UNCHANGED <<prompt, accepted>>

\* Preparation or completion of one frame throws, or stops half way.
Lose ==
  /\ \E i \in DOMAIN line : line' = RemoveAt(line, i)
  /\ UNCHANGED <<prompt, accepted, published>>

\* Node teardown: what is still inside never gets a result.
Close ==
  /\ line' = <<>>
  /\ UNCHANGED <<prompt, accepted, published>>

Next == SetPrompt \/ Accept \/ Publish \/ Lose \/ Close

Spec == Init /\ [][Next]_vars
==============================================================================
