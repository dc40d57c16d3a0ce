------------------------------ MODULE IMDCodec ------------------------------
(***************************************************************************)
(* The text of intermediate files: encodeIMDKVs at the mapper, the         *)
(* TrimSpace of generateIMDKV at the holder of the file, decodeIMDKVs at   *)
(* the reducer.  A text is a sequence of characters, by their code points: *)
(* a message with bytes that are no UTF-8 is refused by protobuf, whose    *)
(* string fields carry the pairs, and UTF-8 keeps the order of texts.      *)
(***************************************************************************)
EXTENDS Naturals, Sequences, FiniteSetsExt, SequencesExt

Tab == 9
NewLine == 10
Space == 32

\* unicode.IsSpace: \v, \f, \r, U+0085, U+00A0 and the spaces and separators beyond Latin-1
OtherSpaces == {11, 12, 13, 133, 160, 5760, 8232, 8233, 8239, 8287, 12288} \cup 8192..8202
Blank == {Tab, NewLine, Space} \cup OtherSpaces

\* Code points; nothing depends on there being a largest one.
Char == Nat
Text == Seq(Char)
KV == [key : Text, value : Text]

LineOf(kv) == kv.key \o <<Tab>> \o kv.value

\* The text after n pairs have been written, for every n.
encodeIMDKVs(kvs) ==
  LET text[n \in 0..Len(kvs)] ==
        IF n = 0 THEN <<>> ELSE text[n - 1] \o LineOf(kvs[n]) \o <<NewLine>>
  IN  text[Len(kvs)]

\* strings.TrimSpace
TrimSpace(s) ==
  LET solid == {i \in DOMAIN s : s[i] \notin Blank}
  IN  IF solid = {} THEN <<>> ELSE SubSeq(s, Min(solid), Max(solid))

\* strings.Split, one by one: a separator begins a new part, another character goes to
\* the end of the last one.
Extend(parts, char) == [parts EXCEPT ![Len(parts)] = Append(@, char)]

Split(s, c) ==
  LET parts[n \in 0..Len(s)] ==
        IF n = 0 THEN << <<>> >>
        ELSE IF s[n] = c THEN Append(parts[n - 1], <<>>) ELSE Extend(parts[n - 1], s[n])
  IN  parts[Len(s)]

\* strings.SplitN(line, "\t", 2) of a line with a tab: a key ends at the first one.
KVOf(line) ==
  LET tab == Min({i \in DOMAIN line : line[i] = Tab})
  IN  [key |-> SubSeq(line, 1, tab - 1), value |-> SubSeq(line, tab + 1, Len(line))]

\* Faulty variant of decodeIMDKVs: a line is cut at every tab, and skipped when it
\* does not have two parts.
decodeIMDKVsSplitAll(raw) ==
  LET lines == SelectSeq(Split(TrimSpace(raw), NewLine), LAMBDA l : Len(Split(l, Tab)) = 2)
  IN  [n \in DOMAIN lines |-> [key |-> Split(lines[n], Tab)[1], value |-> Split(lines[n], Tab)[2]]]

\* The loop over the lines: one that is empty or has no tab is skipped.
decodeIMDKVs(raw) ==
  LET lines == Split(TrimSpace(raw), NewLine)
      out[n \in 0..Len(lines)] ==
        IF n = 0 THEN <<>>
        ELSE IF Contains(lines[n], Tab) THEN Append(out[n - 1], KVOf(lines[n])) ELSE out[n - 1]
  IN  out[Len(lines)]

\* GetIMDData: the holder serves the file trimmed (generateIMDKV), the caller decodes it.
GetIMDData(file) ==
  LET served == TrimSpace(file)
  IN  decodeIMDKVs(served)

\* byKey.Less: the order of strings
Less(s, t) ==
  \E i \in 1..Len(t) :
    /\ \A j \in 1..(i - 1) : j <= Len(s) /\ s[j] = t[j]
    /\ Len(s) = i - 1 \/ (i <= Len(s) /\ s[i] < t[i])

-----------------------------------------------------------------------------
\* The pairs that survive the way to the reducer: no line break inside, no tab
\* in a key, and no blank at either end of the file.
Transportable(kvs) ==
  /\ \A i \in DOMAIN kvs : ~Contains(kvs[i].key, NewLine) /\ ~Contains(kvs[i].value, NewLine)
  /\ \A i \in DOMAIN kvs : ~Contains(kvs[i].key, Tab)
  /\ kvs # <<>> =>
       /\ kvs[1].key # <<>> /\ kvs[1].key[1] \notin Blank
       /\ Last(kvs).value # <<>> /\ Last(Last(kvs).value) \notin Blank
=============================================================================
