----------------------------- MODULE AsyncStream -----------------------------
(***************************************************************************)
(* What an asynchronous stream buffer promises its reader and its writer   *)
(* (the comments of async_streambuf in async_streams.h), without blocks,   *)
(* tasks or handlers: a stream of bytes of which a prefix is consumed, and *)
(* a queue of reads that wait.  A read of n bytes is answered with n bytes *)
(* unless the writer has flushed or closed the stream, in which case it    *)
(* takes what there is.  Reads that wait are answered in order; a read     *)
(* that can be answered when it is made does not wait.                     *)
(***************************************************************************)
EXTENDS Integers, Sequences

CONSTANT Size   \* the numbers of bytes that reads ask for

VARIABLES
  written,   \* bytes the writer has put in the stream
  consumed,  \* bytes the reader has taken out of it
  flushed,   \* how many of the bytes not yet consumed the writer has flushed
  open,      \* the writer may still write
  waiting    \* the sizes of the reads that wait, in order

vars == <<written, consumed, flushed, open, waiting>>

Init == /\ written = 0
        /\ consumed = 0
        /\ flushed = 0
        /\ open = TRUE
        /\ waiting = <<>>

Unread   == written - consumed
Ready(n) == flushed > 0 \/ n <= Unread \/ ~open

\* The reader takes n bytes, or all there are when there are fewer.
Take(n) == LET taken == IF n <= Unread THEN n ELSE Unread
           IN  /\ consumed' = consumed + taken
               /\ flushed' = IF taken < flushed THEN flushed - taken ELSE 0
               /\ UNCHANGED <<written, open>>

\* The writer adds bytes, flushes those that are there, closes its end.
Write == /\ open
         /\ written' \in Nat /\ written' >= written
         /\ UNCHANGED <<consumed, flushed, open, waiting>>

Flush == /\ open
         /\ flushed' = Unread
         /\ UNCHANGED <<written, consumed, open, waiting>>

Close == /\ open' = FALSE
         /\ UNCHANGED <<written, consumed, flushed, waiting>>

\* The reader takes bytes that are there: a read answered when it is made, whether or not
\* older reads wait, or bytes it has looked at in place.
Read == /\ \E n \in 0 .. Unread : Take(n)
        /\ UNCHANGED waiting

\* A read that cannot be answered waits.
Wait == /\ \E n \in Size : ~Ready(n) /\ waiting' = Append(waiting, n)
        /\ UNCHANGED <<written, consumed, flushed, open>>

\* The oldest read that waits is answered.
Answer == /\ waiting # <<>>
          /\ Ready(Head(waiting))
          /\ Take(Head(waiting))
          /\ waiting' = Tail(waiting)

Next == Write \/ Flush \/ Close \/ Read \/ Wait \/ Answer

\* A read that can be answered does not wait for ever.
Spec == Init /\ [][Next]_vars /\ WF_vars(Answer)
=============================================================================
