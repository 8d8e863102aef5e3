------------------------- MODULE MCInferenceSession -------------------------
(* Small instances of InferenceSession: words a and b, a task whose items are  *)
(* queries, one whose items are categories, and the empty corners of both.     *)
EXTENDS InferenceSession

CONSTANTS a, b

Command(indented, task, items) == [indented |-> indented, task |-> task, items |-> items]

Ground(items) == Command(FALSE, "/ground", items)

MCQueryTasks == {"/ground"}
MCCategoryTasks == {"/detect"}

\* Two queries, one of them shared with a second command; categories with an
\* empty item; a leading blank; a prompt QueryCommands and Validate see alike.
MCCommands ==
  {Ground(<<a, b>>), Ground(<<b, Dot>>), Command(FALSE, "/detect", <<a, Blank>>),
   Command(TRUE, "/ground", <<a, b>>)}

\* Queries of different tasks.
MCLists == {<<Ground(<<a>>), Command(FALSE, "/detect", <<b>>)>>}

\* Every command of at most two items.
AllCommands ==
  {Command(indented, task, items) :
     indented \in BOOLEAN, task \in {"/ground", "/detect", "/text"},
     items \in UNION {[1 .. n -> {a, Blank, Dot}] : n \in 0 .. 2}}
=============================================================================
