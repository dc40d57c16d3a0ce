-------------------------------- MODULE RESP --------------------------------
(***************************************************************************)
(* The Redis protocol as the client of redis_batch reads it.  A text is a  *)
(* sequence of words without blanks, <<>> the empty one, and its length is *)
(* the number of its words: they stand for its bytes.  A reply is a        *)
(* sequence of tokens: a header line, which has a type and a number, or a  *)
(* byte of a bulk string, whose data is followed by CR and LF.             *)
(***************************************************************************)
EXTENDS Integers, Sequences, SequencesExt

CONSTANT Word   \* the words that texts are made of

\* Values as readResp returns them.
Str(text) == [type |-> "string", text |-> text]
Int64(n) == [type |-> "int64", n |-> n]
Arr(vs) == [type |-> "array", vs |-> vs]
NilValue == [type |-> "nil"]
RespErr == [type |-> "respErr"]

\* A strange type was read; the bytes end within the reply.
ReadErr == [type |-> "readErr"]
Eof == [type |-> "eof"]

IsErr(v) == v \in {RespErr, ReadErr, Eof}

\* What readResp returns as an error; an error of the server is a value to it.
IsBad(v) == v \in {ReadErr, Eof}

\* Texts, and the tokens that a connection carries.
Text == Seq(Word)
Prefix == {"+", "-", ":", "$", "*"}
Token == [prefix : Prefix, n : Int] \cup [byte : Word \cup {"CR", "LF"}]

-----------------------------------------------------------------------------
(* The server.                                                             *)

Header(prefix, n) == [prefix |-> prefix, n |-> n]
Bytes(text) == [i \in DOMAIN text |-> [byte |-> text[i]]]
LineEnd == <<[byte |-> "CR"], [byte |-> "LF"]>>

\* A status reply such as +PONG; the client reads a string.
Status == [type |-> "status"]

\* The bytes of a reply that is no array.
EncodePlain(v) ==
  CASE v.type = "status" -> <<Header("+", 0)>>
    [] v.type = "respErr" -> <<Header("-", 0)>>
    [] v.type = "int64" -> <<Header(":", v.n)>>
    [] v.type = "nil" -> <<Header("$", -1)>>
    [] v.type = "string" -> <<Header("$", Len(v.text))>> \o (Bytes(v.text) \o LineEnd)

\* The bytes of an array, from those of its elements.
EncodeArray(parts) == <<Header("*", Len(parts))>> \o FlattenSeq(parts)

EncodeFlat(v) ==
  IF v.type = "array" THEN EncodeArray([i \in DOMAIN v.vs |-> EncodePlain(v.vs[i])]) ELSE EncodePlain(v)

\* The bytes of a reply: of those asked for here none nests arrays more than once.
Encode(v) ==
  IF v.type = "array" THEN EncodeArray([i \in DOMAIN v.vs |-> EncodeFlat(v.vs[i])]) ELSE EncodePlain(v)

-----------------------------------------------------------------------------
(* The client.                                                             *)

\* What was read, and the bytes after it.
Got(v, rest) == [v |-> v, rest |-> rest]

\* Faulty variant of ReadBulk: the line break after the data is not read.
ReadBulkData(n, in) ==
  IF n < 0 THEN Got(NilValue, in)
  ELSE IF Len(in) < n THEN Got(Eof, <<>>)
  ELSE Got(Str([i \in 1..n |-> in[i].byte]), SubSeq(in, n + 1, Len(in)))

\* The n bytes of a bulk string and its line break; n < 0 is nil, and nothing follows.
ReadBulk(n, in) ==
  IF n < 0 THEN Got(NilValue, in)
  ELSE IF Len(in) < n + 2 THEN Got(Eof, <<>>)
  ELSE Got(Str([i \in 1..n |-> in[i].byte]), SubSeq(in, n + 3, Len(in)))

\* read n times; the first error is the result.
ReadItems(read, n, in) ==
  LET items[i \in 0..n] ==
        IF i = 0 THEN Got(Arr(<<>>), in)
        ELSE LET array == items[i - 1]
                 item == read[array.rest]
             IN  IF IsBad(array.v) THEN array
                 ELSE IF IsBad(item.v) THEN item ELSE Got(Arr(Append(array.v.vs, item.v)), item.rest)
  IN  items[n]

\* A header line and what it announces, with read for the elements of an array.
ReadReply(read, in) ==
  LET h == Head(in)
      rest == Tail(in)
  IN  IF in = <<>> THEN Got(Eof, <<>>)
      ELSE IF "prefix" \notin DOMAIN h THEN Got(ReadErr, rest)
      ELSE CASE h.prefix = "+" -> Got(Str(<<"PONG">>), rest)
             [] h.prefix = "-" -> Got(RespErr, rest)
             [] h.prefix = ":" -> Got(Int64(h.n), rest)
             [] h.prefix = "$" -> ReadBulk(h.n, rest)
             [] h.prefix = "*" -> IF h.n < 0 THEN Got(NilValue, rest) ELSE ReadItems(read, h.n, rest)

readResp[in \in Seq(Token)] == ReadReply(readResp, in)

\* toString of a nil or a string: it is given cursors, keys and fields, which the
\* server sends as bulk strings, never as numbers or arrays.
toString(v) == IF v.type = "string" THEN v.text ELSE <<>>
=============================================================================
