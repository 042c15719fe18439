----------------------------- MODULE RequestSearch -----------------------------
(***************************************************************************)
(* How a connection finds the end of a request head                        *)
(* (crlf_nonascii_searcher in http_service.cpp): the bytes arrive in       *)
(* pieces, and after each piece asio calls the searcher on what it has not *)
(* excluded yet.  The searcher keeps no state between two calls: a match   *)
(* that is begun in one piece and ends in another is found again from      *)
(* where the searcher says it may begin.                                   *)
(*                                                                         *)
(* A byte is what the searcher tells apart.  "ctl" stands for the control  *)
(* characters but CR and LF, and for the bytes from 128, which no request  *)
(* head has: each is a match of its own.  A step scans one byte.           *)
(***************************************************************************)
EXTENDS Integers, Sequences

CONSTANT MaxInput   \* bound: the most bytes that a client sends

ASSUME SearchAssumption == MaxInput \in Nat

VARIABLES
  input,     \* the bytes the client sends
  arrived,   \* how many of them are in request_buf_
  cur,       \* bytes the searcher has passed
  excluded,  \* bytes in which no match can begin any more
  state,     \* what of a match is there: "none", "cr", "crlf" or "crlfcr"
  found      \* the searcher has found a match, which ends at cur

vars == <<input, arrived, cur, excluded, state, found>>

Kind  == {"cr", "lf", "text", "ctl"}
State == {"none", "cr", "crlf", "crlfcr"}

Init ==
  /\ input \in UNION {[1 .. n -> Kind] : n \in 0 .. MaxInput}
  /\ arrived = 0 /\ cur = 0 /\ excluded = 0 /\ state = "none" /\ found = FALSE

\* Mutant: the search goes on behind what was scanned, with nothing of the match.
SearchFrom_Scanned == cur

\* Where asio calls the searcher again: at the iterator that the last call returned.
SearchFrom == excluded

\* The searcher has ended without a match; more bytes arrive and it is called again.
Arrive ==
  /\ ~found /\ cur = arrived /\ arrived < Len(input)
  /\ arrived' \in arrived + 1 .. Len(input)
  /\ cur' = SearchFrom /\ excluded' = SearchFrom /\ state' = "none"
  /\ UNCHANGED <<input, found>>

\* A carriage return that does not go on with a match is where a match may begin.
Restarts == state # "crlf"

\* The bytes that need no look back: a control character or a non-ASCII byte.
ScanCtl ==
  /\ ~found /\ cur < arrived /\ input[cur + 1] = "ctl"
  /\ cur' = cur + 1 /\ found' = TRUE
  /\ UNCHANGED <<input, arrived, excluded, state>>

ScanText ==
  /\ ~found /\ cur < arrived /\ input[cur + 1] = "text"
  /\ cur' = cur + 1 /\ state' = "none" /\ excluded' = cur'
  /\ UNCHANGED <<input, arrived, found>>

ScanCr ==
  /\ ~found /\ cur < arrived /\ input[cur + 1] = "cr"
  /\ cur' = cur + 1
  /\ state' = IF state = "crlf" THEN "crlfcr" ELSE "cr"
  /\ excluded' = IF Restarts THEN cur ELSE excluded
  /\ UNCHANGED <<input, arrived, found>>

ScanLf ==
  /\ ~found /\ cur < arrived /\ input[cur + 1] = "lf"
  /\ cur' = cur + 1
  /\ found' = (state = "crlfcr")
  /\ state' = CASE state = "cr"                -> "crlf"
                [] state = "crlfcr"            -> state
                [] state \in {"none", "crlf"}  -> "none"
  /\ excluded' = IF state' = "none" THEN cur' ELSE excluded
  /\ UNCHANGED <<input, arrived>>

Next == Arrive \/ ScanCtl \/ ScanText \/ ScanCr \/ ScanLf

Spec == Init /\ [][Next]_vars

-----------------------------------------------------------------------------
(* Properties *)

\* The text of which the searcher stands in for a regular expression (http_service.cpp:34).
Crlfcrlf == <<"cr", "lf", "cr", "lf">>

BlankLineAt(i) ==
  /\ i + 3 <= Len(input)
  /\ \A k \in 1 .. 4 : input[i + k - 1] = Crlfcrlf[k]

\* A match ends at the byte i.
EndsAt(i) == input[i] = "ctl" \/ (i > 3 /\ BlankLineAt(i - 3))

\* In whatever pieces the bytes arrive, the searcher finds the first match of the whole text: it
\* reports one only where one ends, and has passed none when it wants more bytes.
SearchFindsEnd ==
  /\ \A i \in 1 .. cur : EndsAt(i) => found /\ i = cur
  /\ found => EndsAt(cur)
=============================================================================
