----------------------------- MODULE PromptRules -----------------------------
(* How a command becomes prompts: Validate and Build (prompt.cpp) and          *)
(* QueryCommands (inference.cpp) each trim and split it in a way of their own. *)
(* A command is its task, the items between the commas of its argument, and    *)
(* whether white space precedes it. White space elsewhere is dropped by all    *)
(* three. An item is a word, Blank (white space only) or Dot (a full stop).    *)
EXTENDS Sequences, Naturals

CONSTANTS
  QueryTasks,     \* tasks whose items QueryCommands makes commands of
  CategoryTasks,  \* tasks whose items are categories of one prompt
  Blank, Dot,     \* items that are not words
  Invalid         \* the result of an operator that throws

ASSUME PromptAssumption == Blank # Dot /\ QueryTasks \intersect CategoryTasks = {}

NotBlank(item) == item # Blank

\* The argument without its trailing period; nothing may be left of it.
Argument(items) ==
  LET n == Len(items)
      stripped == IF n > 0 /\ items[n] = Dot THEN [items EXCEPT ![n] = Blank] ELSE items
  IN  IF stripped = <<>> \/ stripped = <<Blank>> THEN Invalid ELSE stripped

\* At least one category must be left.
Categories(items) ==
  LET named == SelectSeq(items, NotBlank)
  IN  IF named = <<>> THEN Invalid ELSE named

\* The prompt a command describes. A task that takes no argument is refused with one.
ParseCommand(command) ==
  LET argument == Argument(command.items)
      query == IF command.task \in QueryTasks \union CategoryTasks
               THEN IF argument # Invalid /\ command.task \in CategoryTasks
                    THEN Categories(argument) ELSE argument
               ELSE IF command.items = <<>> THEN <<>> ELSE Invalid
  IN  IF query = Invalid THEN Invalid ELSE [task |-> command.task, query |-> query]

\* PromptBuilder::Validate does not throw.
Accepts(command) == ParseCommand(command) # Invalid

\* One command per item that is not blank; a command behind white space does not
\* begin with its task and stays as it is.
QueryCommands(command) ==
  IF command.indented \/ command.task \notin QueryTasks THEN <<command>>
  ELSE LET items == SelectSeq(command.items, NotBlank)
       IN  [i \in 1 .. Len(items) |->
              [indented |-> FALSE, task |-> command.task, items |-> <<items[i]>>]]

\* Prepare gets as far as Vision: some query, and every query has a prompt.
CanPrepare(command) ==
  LET queries == QueryCommands(command)
  IN  queries # <<>> /\ \A i \in DOMAIN queries : Accepts(queries[i])
==============================================================================
