------------------------------- MODULE HttpText -------------------------------
(***************************************************************************)
(* What a connection makes of the text of a request, as functions: the     *)
(* map of headers (http_service.cpp, http_headers.h), the content type and *)
(* its charset, the frame of a chunk and the reader of such frames         *)
(* (http_helpers.cpp), and the paths of a URL for which a handler is asked *)
(* (uri_utils.cpp).  The end of the head is found by RequestSearch.        *)
(*                                                                         *)
(* Each is compared with a definition of what it should give, over inputs  *)
(* up to the bounds.  A header line is its name and its value, trimmed.    *)
(***************************************************************************)
EXTENDS RequestSearch, SequencesExt

CONSTANTS Name,     \* names of headers but content-length, equal whatever their case
          Value,    \* values of headers but the empty one
          MaxLines, \* bound: header lines of a request
          MaxUrl,   \* bound: characters of a path
          MaxChunk  \* bound: bytes of a chunk

ASSUME TextAssumption == MaxLines \in Nat /\ MaxUrl \in Nat /\ MaxChunk \in Nat
\* The length of a chunk is read into an int, to which two is added (http_service.cpp:421, 430).
MaxLen == 2147483645
ASSUME ChunkAssumption == MaxChunk <= MaxLen

SeqsUpTo(S, n) == UNION {[1 .. m -> S] : m \in 0 .. n}

-----------------------------------------------------------------------------
(* Headers *)

ContentLength == "content-length"
EmptyValue    == ""

\* The lines of a head: a line with no colon, or with nothing before it, has no name.
NoName == "no name"
Line   == [name : Name \cup {ContentLength, NoName}, value : Value \cup {EmptyValue}]

\* A value in the map is the values that ", " separates.
IsEmptyValue(parts) == \A i \in 1 .. Len(parts) : Len(parts) = 1 /\ parts[i] = EmptyValue

\* Mutant: the values of every header are joined.
Combined_Always(name, parts, value) ==
  IF IsEmptyValue(parts) THEN <<value>> ELSE Append(parts, value)

\* A header line with a name that may be in the map.
Combined(name, parts, value) ==
  IF IsEmptyValue(parts) \/ name = ContentLength THEN <<value>> ELSE Append(parts, value)

\* The map after all lines.  operator[] puts an empty value in for a name that is not there.
HeadersOf(lines) ==
  LET headers[i \in 0 .. Len(lines)] ==
        IF i = 0 THEN [name \in Name \cup {ContentLength} |-> <<>>]
        ELSE [headers[i - 1] EXCEPT ![lines[i].name] = Combined(lines[i].name, @, lines[i].value)]
  IN  headers[Len(lines)]

\* match() of a header whose value is text
Match(headers, name) == [found |-> headers[name] # <<>>, value |-> headers[name]]

\* handle_headers() goes on: no line is refused.
Accepts(lines) == \A i \in 1 .. Len(lines) : lines[i].name # NoName

-----------------------------------------------------------------------------
(* The paths of a URL *)

Slash == "/"
Colon == ":"

\* find_first_of(), or 0
FirstOf(ch, text, from) ==
  LET at == {i \in from .. Len(text) : text[i] = ch}
  IN  IF at = {} THEN 0 ELSE CHOOSE i \in at : \A j \in at : i <= j

\* The path behind scheme and host; a URL that has no scheme has none.
PathOf(url) ==
  LET colon == FirstOf(Colon, url, 1)
      begin == FirstOf(Slash, url, colon + 3)
  IN  IF /\ colon > 0 /\ colon + 2 <= Len(url)
         /\ url[colon + 1] = Slash /\ url[colon + 2] = Slash /\ begin > 0
      THEN SubSeq(url, begin + 1, Len(url))
      ELSE <<>>

\* Mutant: a segment is kept also when it is empty.
Pushed_Empty(cut) == Append(cut.segs, cut.str)

\* What getline() has found up to a slash or the end is kept if it is not empty.
Pushed(cut) == IF cut.str = <<>> THEN cut.segs ELSE Append(cut.segs, cut.str)

SplitPath(url) ==
  LET path == PathOf(url)
      cut[i \in 0 .. Len(path)] ==
        CASE i = 0                     -> [segs |-> <<>>, str |-> <<>>]
          [] i > 0 /\ path[i] = Slash  -> [segs |-> Pushed(cut[i - 1]), str |-> <<>>]
          [] OTHER                     -> [cut[i - 1] EXCEPT !.str = Append(@, path[i])]
  IN  Pushed(cut[Len(path)])

\* dispatch_request_to_listener(): the paths for which it asks, in order.
AskedPaths(url) ==
  LET segs == SplitPath(url)
      path[n \in 0 .. Len(segs)] == IF n = 0 THEN <<>> ELSE path[n - 1] \o <<Slash>> \o segs[n]
  IN  [k \in 1 .. Len(segs) + 1 |-> Append(path[Len(segs) + 1 - k], Slash)]

-----------------------------------------------------------------------------
(* The content type.  Its text is taken by words and signs; the value of a charset has a sign
   that is not a semicolon. *)

Blank     == " "
Semicolon == ";"
Equal     == "="
Quote     == "quote"
Charset   == "charset"
Json      == "json"    \* one of the types of JSON
Utf8      == <<"utf-8">>
Latin1    == <<"latin1">>

Trim(text) ==
  LET ink == {i \in 1 .. Len(text) : text[i] # Blank}
  IN  IF ink = {} THEN <<>> ELSE SubSeq(text, Min(ink), Max(ink))

DefaultCharset(content) == IF content = <<Json>> THEN Utf8 ELSE Latin1

\* Mutant: the blanks behind the semicolons are left.
CharsetOf_Untrimmed(text) ==
  LET value == SubSeq(text, 1, Max({i \in 1 .. Len(text) : text[i] # Semicolon}))
  IN  IF Head(value) = Quote /\ Last(value) = Quote
      THEN Trim(SubSeq(value, 2, Len(value) - 1)) ELSE value

\* The value of a charset without the semicolons behind it and without its quotes.
CharsetOf(text) ==
  LET value == Trim(SubSeq(text, 1, Max({i \in 1 .. Len(text) : text[i] # Semicolon})))
  IN  IF Head(value) = Quote /\ Last(value) = Quote
      THEN Trim(SubSeq(value, 2, Len(value) - 1)) ELSE value

\* parse_content_type_and_charset()
ParseContentType(text) ==
  LET semicolon == FirstOf(Semicolon, text, 1)
      content   == Trim(SubSeq(text, 1, IF semicolon = 0 THEN Len(text) ELSE semicolon - 1))
      possible  == Trim(SubSeq(text, semicolon + 1, Len(text)))
      equal     == FirstOf(Equal, possible, 1)
      key       == Trim(SubSeq(possible, 1, equal - 1))
  IN  [content |-> content,
       charset |-> IF semicolon = 0 \/ equal = 0 \/ key # <<Charset>> THEN DefaultCharset(content)
                   ELSE CharsetOf(SubSeq(possible, equal + 1, Len(possible)))]

-----------------------------------------------------------------------------
(* The frame of a chunk *)

Space == 32
Cr    == 13
Lf    == 10

\* additional_encoding_space and data_offset
ExtraSpace == 12
DataOffset == ExtraSpace - 2

HexChar(d) == IF d < 10 THEN 48 + d ELSE 55 + d
HexChars   == {HexChar(d) : d \in 0 .. 15}
DigitOf(c) == CHOOSE d \in 0 .. 15 : HexChar(d) = c

\* "%8zX": left[i] is what is left of n before its last i digits.
HexField(n) ==
  LET left[i \in 0 .. 8] == IF i = 0 THEN n ELSE left[i - 1] \div 16
  IN  [i \in 1 .. 8 |-> IF i < 8 /\ left[8 - i] = 0 THEN Space ELSE HexChar(left[8 - i] % 16)]

\* Mutant: the end of the chunk comes where the data ends that begins at the start of the buffer.
ChunkEnd_NoOffset(n) == n

\* Where the end of a chunk of n bytes goes.
ChunkEnd(n) == DataOffset + n

\* add_chunked_delimiters(): the buffer, and the bytes to leave out at its front.
AddChunkedDelimiters(data, n) ==
  IF n = 0
  THEN [data |-> [i \in 1 .. Len(data) |->
                    CASE i = 8           -> HexChar(0)
                      [] i \in {9, 11}   -> Cr
                      [] i \in {10, 12}  -> Lf
                      [] OTHER           -> data[i]],
        offset |-> 7]
  ELSE [data |-> [i \in 1 .. Len(data) |->
                    CASE i <= 8               -> HexField(n)[i]
                      [] i = 9                -> Cr
                      [] i = 10               -> Lf
                      [] i = ChunkEnd(n) + 1  -> Cr
                      [] i = ChunkEnd(n) + 2  -> Lf
                      [] OTHER                -> data[i]],
        offset |-> Cardinality({i \in 1 .. 8 : HexField(n)[i] = Space})]

\* What handle_chunked_response_buff_read() sends of a buffer for n bytes.
Sent(buffer, n) ==
  LET frame == AddChunkedDelimiters(buffer, n)
  IN  SubSeq(frame.data, frame.offset + 1, ExtraSpace + n)

\* What is sent of a chunk: it was read into the buffer behind the space for the frame, where
\* the buffer has its old contents.
Framed(old, chunk) ==
  Sent([i \in 1 .. ExtraSpace + Len(chunk) |-> IF i > ExtraSpace THEN chunk[i - ExtraSpace] ELSE old],
       Len(chunk))

\* std::hex: the number that a sequence of digits stands for.
NumberOf(digits) ==
  LET value[k \in 0 .. Len(digits)] == IF k = 0 THEN 0 ELSE 16 * value[k - 1] + DigitOf(digits[k])
  IN  value[Len(digits)]

\* handle_chunked_header() and handle_chunked_body(): the number in front, a line end that is
\* not looked at, and so many bytes, with two bytes behind them.
Unframed(bytes) ==
  LET digits == CHOOSE k \in 0 .. Len(bytes) :
                  /\ \A i \in 1 .. k : bytes[i] \in HexChars
                  /\ k < Len(bytes) => bytes[k + 1] \notin HexChars
      len    == NumberOf(SubSeq(bytes, 1, digits))
  IN  [len |-> len, chunk |-> SubSeq(bytes, digits + 3, digits + 2 + len),
       rest |-> SubSeq(bytes, digits + len + 5, Len(bytes))]

-----------------------------------------------------------------------------
(* The inputs: a head in pieces, or header lines, the path of a URL, a content type, a chunk *)

VARIABLE given

Given == [what : {"lines"}, lines : SeqsUpTo(Line, MaxLines)]
         \cup {[what |-> "path", path |-> <<Slash>> \o tail] : tail \in SeqsUpTo({"a", "b", Slash}, MaxUrl)}
         \cup [what : {"type"}, type : {Json, "t"}, key : {Charset, "k"}, blanks : SUBSET (1 .. 7),
                quoted : BOOLEAN, semicolons : 0 .. 2]
         \cup [what : {"chunk"}, size : 0 .. MaxChunk, old : {0, 255}]

TextInit == Init /\ \/ given = [what |-> "head"]
                    \/ input = <<>> /\ given \in Given
TextNext == Next /\ UNCHANGED given
TextSpec == TextInit /\ [][TextNext]_<<vars, given>>

-----------------------------------------------------------------------------
(* Properties *)

\* The lines that make the value of a header: those from the first that is not empty, but the
\* last one if all are empty or the header is content-length.
KeptLines(lines, name) ==
  LET own  == {i \in 1 .. Len(lines) : lines[i].name = name}
      sent == {i \in own : \E j \in own : j <= i /\ lines[j].value # EmptyValue}
  IN  IF name # ContentLength /\ sent # {} THEN sent ELSE {i \in own : \A j \in own : j <= i}

\* A header is found if it has lines, and has their values, in their order.
AreCombined(lines) ==
  \A name \in Name \cup {ContentLength} :
    LET kept   == KeptLines(lines, name)
        header == Match(HeadersOf(lines), name)
    IN  /\ header.found <=> \E i \in 1 .. Len(lines) : lines[i].name = name
        /\ Len(header.value) = Cardinality(kept)
        /\ \A i \in kept : header.value[Cardinality({j \in kept : j <= i})] = lines[i].value

\* The lines of a header that comes more than once are joined as they were sent, whatever comes
\* between them (handle_headers).
HeadersCombine == given.what = "lines" /\ Accepts(given.lines) => AreCombined(given.lines)

\* The places of a path where a slash follows a slash
DoubleSlashes(path) == {i \in 2 .. Len(path) : path[i] = Slash /\ path[i - 1] = Slash}

\* The paths that are asked for a path behind a scheme and a host
Asked(path) == AskedPaths(<<"a", Colon, Slash, Slash, "b">> \o path)

\* Every path that leads to a resource is asked for, the longest one first, and a slash that
\* follows a slash makes no difference.  (Of a URL with no scheme only the root is asked for.)
LeadToResource(path) ==
  LET whole == IF Last(path) = Slash THEN path ELSE Append(path, Slash)
      asked == Asked(path)
  IN  /\ \A i \in 1 .. Len(asked) - 1 : Len(asked[i]) > Len(asked[i + 1])
      /\ DoubleSlashes(path) = {} =>
           ToSet(asked) = {SubSeq(whole, 1, i) : i \in {j \in 1 .. Len(whole) : whole[j] = Slash}}
      /\ \A i \in DoubleSlashes(path) : asked = Asked(RemoveAt(path, i))

\* The paths for which a handler is asked are those that lead to the resource (split_path and
\* dispatch_request_to_listener).
PathsAsked == given.what = "path" => LeadToResource(given.path)

\* A content type with a parameter as a client may write it: blanks in any place, the value in
\* quotes or not, semicolons behind it.
TypeAlone(type, blanks) == blanks[1] \o <<type>> \o blanks[2]

WithParameter(type, key, value, blanks, quoted, semicolons) ==
  LET name == <<key>> \o blanks[4]
      sent == blanks[5] \o (IF quoted THEN <<Quote, value, Quote>> ELSE <<value>>) \o blanks[6]
  IN  TypeAlone(type, blanks) \o <<Semicolon>>
      \o (blanks[3] \o (name \o <<Equal>> \o (sent \o semicolons)) \o blanks[7])

\* The type and the charset are found in every spelling; a parameter that is not the charset, or
\* no parameter, leaves the default of the type.
TypeIsRead(type, key, value, blanks, quoted, semicolons) ==
  LET default == DefaultCharset(<<type>>)
  IN  /\ ParseContentType(WithParameter(type, key, value, blanks, quoted, semicolons)) =
           [content |-> <<type>>, charset |-> IF key = Charset THEN <<value>> ELSE default]
      /\ ParseContentType(TypeAlone(type, blanks)) = [content |-> <<type>>, charset |-> default]

\* The content type of a message is read as it was meant (parse_content_type_and_charset).
ContentTypeIsRead ==
  given.what = "type" =>
    TypeIsRead(given.type, given.key, "v",
               [i \in 1 .. 7 |-> IF i \in given.blanks THEN <<Blank>> ELSE <<>>],
               given.quoted, [i \in 1 .. given.semicolons |-> Semicolon])

\* The headers, the URL and the content type of a request are understood as they were sent
\* (handle_headers, dispatch_request_to_listener, parse_content_type_and_charset).
HeadIsUnderstood == HeadersCombine /\ PathsAsked /\ ContentTypeIsRead

\* Bytes that look like digits and line ends too
SomeBytes(n) == [i \in 1 .. n |-> <<HexChar(1), Cr, Lf, Space, 200>>[(i % 5) + 1]]

\* Of any buffer, the n bytes from data_offset on are what is read back of what is sent for n
\* bytes, with nothing left over, also when they look like digits and line ends; no bytes are
\* read as the last chunk (add_chunked_delimiters).
DelimitersReadBack ==
  given.what = "chunk" =>
    LET n      == given.size
        buffer == SomeBytes(ExtraSpace + n)
    IN  Unframed(Sent(buffer, n)) =
          [len |-> n, chunk |-> SubSeq(buffer, DataOffset + 1, DataOffset + n), rest |-> <<>>]

\* The data of a chunk behind two bytes that were in the buffer, without its last two.
Shifted(old, chunk) == [i \in 1 .. Len(chunk) |-> IF i <= 2 THEN old ELSE chunk[i - 2]]

\* The response writer does not keep to that: it reads the data of a chunk to two bytes behind
\* data_offset (http_service.cpp:647), so that a client has old bytes of the buffer first and
\* misses the end of the data, in a frame of the right size.
ChunksAreShifted ==
  given.what = "chunk" /\ given.size > 0 =>
    LET chunk == SomeBytes(given.size)
    IN  Unframed(Framed(given.old, chunk)) =
          [len |-> given.size, chunk |-> Shifted(given.old, chunk), rest |-> <<>>]

\* A reader of chunks finds the end of every frame, and in it the bytes from data_offset on:
\* those that were there for any buffer, not those of the chunk as the response writer fills it.
FramesReadBack == DelimitersReadBack /\ ChunksAreShifted
=============================================================================
