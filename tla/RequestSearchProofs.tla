-------------------------- MODULE RequestSearchProofs --------------------------
(***************************************************************************)
(* The searcher finds the first match of every text in every division.     *)
(*                                                                         *)
(* The invariant says what the two positions mean.  No match begins in the *)
(* excluded bytes, of the whole text and not only of what has arrived, so  *)
(* it stays true when the search goes back there; the bytes between the    *)
(* two positions are the beginning of a match that the state names.        *)
(***************************************************************************)
EXTENDS RequestSearch, TLAPS

\* How much of a match a state stands for.
Begun == [s \in State |-> CASE s = "none" -> 0 [] s = "cr" -> 1 [] s = "crlf" -> 2
                            [] s = "crlfcr" -> 3]

TypeOK ==
  /\ input \in Seq(Kind)
  /\ arrived \in 0 .. Len(input) /\ cur \in 0 .. arrived /\ excluded \in 0 .. cur
  /\ state \in State /\ found \in BOOLEAN

\* What is scanned has no byte that is a match by itself, and no match begins in what is excluded.
NothingPassed ==
  /\ \A i \in 1 .. cur : input[i] # "ctl"
  /\ \A i \in 1 .. excluded : ~BlankLineAt(i)

\* The bytes behind the excluded ones are the beginning of a match.
MatchBegun ==
  /\ cur = excluded + Begun[state]
  /\ state # "none" => input[excluded + 1] = "cr"
  /\ state \in {"crlf", "crlfcr"} => input[excluded + 2] = "lf"
  /\ state = "crlfcr" => input[excluded + 3] = "cr"

IInv ==
  /\ TypeOK
  /\ SearchFindsEnd
  /\ ~found => NothingPassed /\ MatchBegun

-----------------------------------------------------------------------------
\* The bytes of a blank line, one by one.
LEMMA BlankLineBytes ==
  ASSUME NEW i \in Nat
  PROVE  BlankLineAt(i) <=> /\ i + 3 <= Len(input)
                            /\ input[i] = "cr" /\ input[i + 1] = "lf"
                            /\ input[i + 2] = "cr" /\ input[i + 3] = "lf"
<1>1. 1 .. 4 = {1, 2, 3, 4}
  OBVIOUS
<1>2. /\ Crlfcrlf[1] = "cr" /\ Crlfcrlf[2] = "lf" /\ Crlfcrlf[3] = "cr" /\ Crlfcrlf[4] = "lf"
  BY DEF Crlfcrlf
<1>3. i + 1 - 1 = i /\ i + 2 - 1 = i + 1 /\ i + 3 - 1 = i + 2 /\ i + 4 - 1 = i + 3
  OBVIOUS
<1> QED
  BY <1>1, <1>2, <1>3 DEF BlankLineAt

LEMMA BegunIs ==
  Begun["none"] = 0 /\ Begun["cr"] = 1 /\ Begun["crlf"] = 2 /\ Begun["crlfcr"] = 3
  BY DEF Begun, State

LEMMA InitInv == ASSUME SearchAssumption, Init PROVE IInv
<1>1. input \in Seq(Kind)
  BY DEF Init, SearchAssumption
<1>2. TypeOK
  <2>1. Len(input) \in Nat
    BY <1>1
  <2>2. arrived \in 0 .. Len(input) /\ cur \in 0 .. arrived /\ excluded \in 0 .. cur
    BY <2>1 DEF Init
  <2>3. state \in State
    BY DEF Init, State
  <2>4. found \in BOOLEAN
    BY Zenon DEF Init
  <2> QED
    BY <1>1, <2>2, <2>3, <2>4 DEF TypeOK
<1>3. SearchFindsEnd
  BY DEF SearchFindsEnd, Init
<1>4. NothingPassed /\ MatchBegun
  BY DEF NothingPassed, MatchBegun, Init, Begun, State
<1> QED
  BY <1>2, <1>3, <1>4 DEF IInv

LEMMA ArriveKeeps == ASSUME IInv, Arrive PROVE IInv'
<1> USE DEF IInv, Arrive, SearchFrom
<1>1. TypeOK'
  BY DEF TypeOK, State
<1>2. SearchFindsEnd'
  BY DEF TypeOK, SearchFindsEnd, EndsAt, BlankLineAt
<1>3. NothingPassed'
  BY DEF TypeOK, NothingPassed, BlankLineAt
<1>4. MatchBegun'
  BY BegunIs DEF TypeOK, MatchBegun, State
<1> QED
  BY <1>1, <1>2, <1>3, <1>4

\* A step of the scan: the byte behind cur is passed.
LEMMA ScanCtlKeeps == ASSUME IInv, ScanCtl PROVE IInv'
<1> USE DEF IInv, ScanCtl
<1>1. TypeOK'
  BY DEF TypeOK
<1>2. \A i \in 1 .. cur : ~EndsAt(i)
  BY DEF SearchFindsEnd, TypeOK
<1>3. SearchFindsEnd'
  BY <1>2 DEF TypeOK, SearchFindsEnd, EndsAt, BlankLineAt
<1> QED
  BY <1>1, <1>3

\* A text byte ends whatever of a match was begun.
LEMMA ScanTextKeeps == ASSUME IInv, ScanText PROVE IInv'
<1> USE DEF IInv, ScanText
<1>1. TypeOK'
  BY DEF TypeOK, State
<1>2. ASSUME NEW i \in excluded + 1 .. cur + 1 PROVE ~BlankLineAt(i)
  <2>1. i \in Nat /\ cur + 1 \in i .. i + 3
    BY BegunIs DEF TypeOK, MatchBegun, State
  <2>2. input[cur + 1] = "text"
    OBVIOUS
  <2> QED
    BY <2>1, <2>2, BlankLineBytes
<1>3. NothingPassed'
  BY <1>2 DEF TypeOK, NothingPassed, BlankLineAt
<1>4. MatchBegun'
  BY BegunIs DEF TypeOK, MatchBegun, State
<1>5. SearchFindsEnd'
  BY <1>3 DEF TypeOK, SearchFindsEnd, EndsAt, BlankLineAt, NothingPassed
<1> QED
  BY <1>1, <1>3, <1>4, <1>5

\* A carriage return begins a match, or goes on with one.
LEMMA ScanCrKeeps == ASSUME IInv, ScanCr PROVE IInv'
<1> USE DEF IInv, ScanCr, Restarts
<1>1. TypeOK'
  BY DEF TypeOK, State
<1>2. ASSUME NEW i \in excluded + 1 .. excluded' PROVE ~BlankLineAt(i)
  <2>1. excluded \in Nat /\ cur \in Nat /\ i \in Nat /\ i > excluded /\ i <= excluded'
    BY DEF TypeOK
  <2>2. state \in State /\ cur = excluded + Begun[state] /\ MatchBegun
    BY DEF TypeOK, MatchBegun
  <2>3. /\ input[cur + 1] = "cr" /\ (state = "crlf" => excluded' = excluded)
        /\ excluded' = cur \/ excluded' = excluded
    OBVIOUS
  <2> HIDE DEF IInv, ScanCr, Restarts
  <2>4. CASE state \in {"none", "crlf"}
    BY <2>1, <2>2, <2>3, <2>4, BegunIs
  <2>5. CASE state = "cr"
    <3>1. i = excluded + 1 /\ i + 1 = cur + 1
      BY <2>1, <2>2, <2>3, <2>5, BegunIs
    <3> QED
      BY <2>1, <2>3, <3>1, BlankLineBytes
  <2>6. CASE state = "crlfcr"
    <3>1. cur = excluded + 3 /\ input[excluded + 2] = "lf"
      BY <2>2, <2>6, BegunIs DEF MatchBegun
    <3>2. i = excluded + 1 \/ i = excluded + 2 \/ i = excluded + 3
      BY <2>1, <2>3, <3>1
    <3>3. CASE i = excluded + 1
      <4>1. i + 3 = cur + 1
        BY <2>1, <3>1, <3>3
      <4> QED
        BY <2>1, <2>3, <4>1, BlankLineBytes
    <3>4. CASE i = excluded + 2
      BY <2>1, <3>1, <3>4, BlankLineBytes
    <3>5. CASE i = excluded + 3
      <4>1. i + 1 = cur + 1
        BY <2>1, <3>1, <3>5
      <4> QED
        BY <2>1, <2>3, <4>1, BlankLineBytes
    <3> QED
      BY <3>2, <3>3, <3>4, <3>5
  <2> QED
    BY <2>2, <2>4, <2>5, <2>6 DEF State
<1>3. NothingPassed'
  BY <1>2 DEF TypeOK, NothingPassed, BlankLineAt
<1>4. MatchBegun'
  BY BegunIs DEF TypeOK, MatchBegun, State
<1>5. \A i \in 1 .. cur' : ~EndsAt(i)'
  <2>1. SUFFICES ASSUME NEW i \in 1 .. cur' PROVE ~EndsAt(i)
    BY DEF EndsAt, BlankLineAt
  <2>2. CASE i <= cur
    BY <2>2 DEF TypeOK, SearchFindsEnd
  <2>3. CASE i = cur + 1
    <3>1. i > 3 => ~BlankLineAt(i - 3)
      BY <2>3, BlankLineBytes DEF TypeOK
    <3> QED
      BY <2>3, <3>1 DEF EndsAt
  <2> QED
    BY <2>2, <2>3 DEF TypeOK
<1> QED
  BY <1>1, <1>3, <1>4, <1>5 DEF SearchFindsEnd

\* A line feed ends a match, goes on with one, or leaves nothing of it.
LEMMA ScanLfKeeps == ASSUME IInv, ScanLf PROVE IInv'
<1> USE DEF IInv, ScanLf
<1>1. TypeOK'
  BY DEF TypeOK, State
<1>2. \A i \in 1 .. cur : ~EndsAt(i)
  BY DEF TypeOK, SearchFindsEnd
<1>3. EndsAt(cur + 1) <=> state = "crlfcr"
  <2>1. cur > 2 /\ BlankLineAt(cur - 2) <=> state = "crlfcr"
    <3>1. CASE state = "crlfcr"
      <4>1. cur = excluded + 3 /\ excluded \in Nat /\ cur + 1 <= Len(input)
        BY <3>1, BegunIs DEF TypeOK, MatchBegun
      <4>2. /\ input[excluded + 1] = "cr" /\ input[excluded + 2] = "lf"
            /\ input[excluded + 3] = "cr" /\ input[excluded + 4] = "lf"
        BY <3>1, <4>1 DEF MatchBegun
      <4>3. BlankLineAt(excluded + 1)
        BY <4>1, <4>2, BlankLineBytes
      <4> QED
        BY <3>1, <4>1, <4>3
    <3>2. CASE state # "crlfcr"
      <4>1. CASE cur - 2 >= 1 /\ cur - 2 <= excluded
        BY <3>2, <4>1 DEF TypeOK, NothingPassed
      <4>2. CASE cur - 2 > excluded
        BY <3>2, <4>2, BegunIs DEF TypeOK, MatchBegun, State
      <4> QED
        BY <3>2, <4>1, <4>2 DEF TypeOK
    <3> QED
      BY <3>1, <3>2
  <2> QED
    BY <2>1 DEF TypeOK, EndsAt
<1>4. SearchFindsEnd'
  <2>1. \A i : EndsAt(i)' <=> EndsAt(i)
    BY DEF EndsAt, BlankLineAt
  <2>2. \A i \in 1 .. cur' : i \in 1 .. cur \/ i = cur + 1
    BY DEF TypeOK
  <2>3. cur' = cur + 1 /\ (found' <=> state = "crlfcr")
    BY Zenon
  <2> QED
    BY <1>2, <1>3, <2>1, <2>2, <2>3 DEF SearchFindsEnd
<1>5. ~found' => NothingPassed'
  <2>1. ASSUME state \in {"none", "crlf"}, NEW i \in excluded + 1 .. cur + 1 PROVE ~BlankLineAt(i)
    <3>1. excluded \in Nat /\ cur \in Nat /\ i \in Nat /\ i > excluded /\ i <= cur + 1
      BY DEF TypeOK
    <3>2. cur = excluded + Begun[state] /\ MatchBegun /\ input[cur + 1] = "lf"
      BY DEF MatchBegun
    <3> HIDE DEF IInv, ScanLf
    <3>3. CASE i = cur + 1
      BY <3>1, <3>2, <3>3, BlankLineBytes
    <3>4. CASE i # cur + 1
      <4>1. state = "crlf" /\ cur = excluded + 2 /\ input[excluded + 2] = "lf"
        BY <2>1, <3>1, <3>2, <3>4, BegunIs DEF MatchBegun
      <4>2. CASE i = excluded + 1
        <5>1. i + 2 = cur + 1
          BY <3>1, <4>1, <4>2
        <5> QED
          BY <3>1, <3>2, <5>1, BlankLineBytes
      <4>3. CASE i = excluded + 2
        BY <3>1, <4>1, <4>3, BlankLineBytes
      <4> QED
        BY <3>1, <3>4, <4>1, <4>2, <4>3
    <3> QED
      BY <3>3, <3>4
  <2>2. excluded \in Nat /\ cur \in Nat /\ cur' = cur + 1 /\ input' = input /\ input[cur + 1] = "lf"
    BY DEF TypeOK
  <2>3. NothingPassed
    OBVIOUS
  <2>4. ~found' => state \in State \ {"crlfcr"}
    BY Zenon DEF TypeOK
  <2>5. state = "cr" => excluded' = excluded
    OBVIOUS
  <2>6. state \in {"none", "crlf"} => excluded' = cur + 1
    OBVIOUS
  <2> HIDE DEF IInv, ScanLf
  <2>7. \A i \in 1 .. cur' : input'[i] # "ctl"
    BY <2>2, <2>3 DEF NothingPassed
  <2>8. ~found' => \A i \in 1 .. excluded' : ~BlankLineAt(i)
    BY <2>1, <2>2, <2>3, <2>4, <2>5, <2>6 DEF NothingPassed, State
  <2> QED
    BY <2>2, <2>7, <2>8 DEF NothingPassed, BlankLineAt
<1>6. ~found' => MatchBegun'
  <2>1. CASE state = "crlfcr"
    <3>1. found'
      BY Zenon, <2>1
    <3> QED
      BY <3>1
  <2>2. CASE state = "cr"
    <3>1. /\ state' = "crlf" /\ excluded' = excluded /\ cur' = cur + 1 /\ input' = input
          /\ input[cur + 1] = "lf"
      BY <2>2
    <3>2. MatchBegun /\ cur = excluded + 1 /\ excluded \in Nat
      BY <2>2, BegunIs DEF TypeOK, MatchBegun
    <3> HIDE DEF ScanLf, IInv
    <3>3. cur' = excluded' + Begun[state']
      BY <3>1, <3>2, BegunIs
    <3> QED
      BY <2>2, <3>1, <3>2, <3>3 DEF MatchBegun
  <2>3. CASE state \in {"none", "crlf"}
    <3>1. state' = "none" /\ excluded' = cur' /\ cur' = cur + 1 /\ input' = input
      BY <2>3
    <3> HIDE DEF ScanLf
    <3> QED
      BY <3>1, BegunIs DEF TypeOK, MatchBegun
  <2> QED
    BY <2>1, <2>2, <2>3 DEF TypeOK, State
<1> QED
  BY <1>1, <1>4, <1>5, <1>6

LEMMA StepInv == IInv /\ [Next]_vars => IInv'
<1> SUFFICES ASSUME IInv, [Next]_vars PROVE IInv'
  OBVIOUS
<1>1. CASE UNCHANGED vars
  BY <1>1 DEF IInv, TypeOK, SearchFindsEnd, NothingPassed, MatchBegun, EndsAt, BlankLineAt, vars
<1> QED
  BY <1>1, ArriveKeeps, ScanCtlKeeps, ScanTextKeeps, ScanCrKeeps, ScanLfKeeps DEF Next

\* In whatever pieces a request arrives, the searcher (crlf_nonascii_searcher) reports the first
\* place where a head ends, and only that, for texts of any length.
THEOREM SearchFindsEndCorrect == Spec => []SearchFindsEnd
<1>1. Init => IInv
  BY InitInv, SearchAssumption
<1>2. IInv => SearchFindsEnd
  BY DEF IInv
<1> QED
  BY <1>1, <1>2, StepInv, PTL DEF Spec
=============================================================================
