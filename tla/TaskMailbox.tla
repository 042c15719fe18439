----------------------------- MODULE TaskMailbox -----------------------------
(***************************************************************************)
(* What the thread pool promises to the code that schedules tasks on it,   *)
(* with its locks, condition variables and bookkeeping left out: every     *)
(* worker owns a mailbox, a task is posted to one mailbox, a worker runs   *)
(* what it was posted in posting order, each task once, and it runs        *)
(* nothing after the poison operation with which threadpool::stop() ends   *)
(* it.  ThreadPool.tla is shown to implement this module.                  *)
(***************************************************************************)
EXTENDS Naturals, Sequences, Functions

CONSTANTS Worker,   \* the threads of the pool
          Task,     \* the tasks that clients schedule
          Poison    \* the operation that ends a worker

VARIABLES posted,   \* posted[w]: what was posted to w, in order
          ran       \* ran[w]: what w has started to run, in order

vars == <<posted, ran>>

Init == /\ posted = [w \in Worker |-> <<>>]
        /\ ran    = [w \in Worker |-> <<>>]

IsPosted(op) == \E w \in Worker : op \in Range(posted[w])
Closed(w)    == Poison \in Range(ran[w])

\* A task goes to one mailbox, once; the poison goes once to each.
Post(w, op) == /\ IF op = Poison THEN Poison \notin Range(posted[w]) ELSE ~IsPosted(op)
               /\ posted' = [posted EXCEPT ![w] = Append(@, op)]
               /\ UNCHANGED ran

Run(w) == /\ ~Closed(w)
          /\ Len(ran[w]) < Len(posted[w])
          /\ ran' = [ran EXCEPT ![w] = Append(@, posted[w][Len(@) + 1])]
          /\ UNCHANGED posted

Next == \E w \in Worker : Run(w) \/ \E op \in Task \cup {Poison} : Post(w, op)

Spec == Init /\ [][Next]_vars
=============================================================================
