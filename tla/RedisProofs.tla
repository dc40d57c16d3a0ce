---------------------------- MODULE RedisProofs ----------------------------
(***************************************************************************)
(* Proofs about RedisBatch.                                                *)
(*                                                                         *)
(* readResp is a recursive function of the bytes: it exists because what   *)
(* follows a header is shorter than what was given (ReadRespExists), and   *)
(* reads each reply as it was sent, and the end from any part of it        *)
(* (ReplyReads).  So a command gets its own reply or an error (DoReads),   *)
(* which is what the invariants of the flow rest on: LinkInv for the       *)
(* connection, ExportInv for the lines and the pages of SCAN, ImportInv    *)
(* for the target.                                                         *)
(***************************************************************************)
EXTENDS RedisBatch, FiniteSetTheorems, WellFoundedInduction, TLAPS

-----------------------------------------------------------------------------
(* The inductive invariants.                                               *)

\* Keys, and the hashes as HMGET returns them.
Key == Text \ {<<>>}
HashValue == [type : {"array"}, vs : [1..2 -> Field]]

\* A page of SCAN; the last one has what is not seen yet of db.
Page(c, names) == Arr(<<Str(c), Arr([i \in DOMAIN names |-> Str(names[i])])>>)

Names == [i \in DOMAIN got.vs[2].vs |-> toString(got.vs[2].vs[i])]

IsPage(db) ==
  \E c \in {Zero, More} :
    /\ got = Page(c, Names) /\ Names \in Seq(Key) /\ IsInjective(Names)
    /\ c = Zero => db \subseteq seen \cup Range(Names)

\* What a command was answered with is what it asked for, or an error.
Replied ==
  /\ pc \in {"scan", "keys", "delScan", "del", "set"}
  /\ pc \in {"keys", "del"} => page # <<>>
  /\ pc = "set" => outs # <<>>
  /\ \/ got \in {RespErr, Eof}
     \/ pc = "scan" /\ IsPage(DOMAIN source)
     \/ pc = "delScan" /\ IsPage(DOMAIN target)
     \/ /\ pc = "keys" /\ got \in HashValue
        /\ Head(page) \in DOMAIN source => source[Head(page)] = got
     \/ pc = "del" /\ got = Int64(1) /\ Head(page) \notin DOMAIN target
     \/ pc = "set" /\ got = Int64(1)

\* The line of the output for business key b.
Out(b) == Append(b, ToString(LinesOf(b)))

OutLines == {Out(b) : b \in Biz}

Tables ==
  /\ IsFiniteSet(DOMAIN source)
  /\ \A k \in DOMAIN source : k \in Key /\ source[k] \in {NotAHash} \cup HashValue
  /\ IsFiniteSet(DOMAIN target) /\ DOMAIN target \subseteq Key
  /\ target = [k \in DOMAIN target |-> target[k]]

Files ==
  /\ page \in Seq(Key)
  /\ lines \in Seq([key : Key, biz : Text])
  /\ pc \in {"open", "scan", "keys", "count"} => outs = <<>>
  /\ outs \in Seq(OutLines)

Connection ==
  /\ unread = <<>> /\ link \in Links \ {"waiting"}
  /\ told \in BOOLEAN
  /\ told => Replied

LinkInv == Tables /\ Files /\ Connection

\* Lines of key k, and lines still to come from the page.
Have(k) == Cardinality({i \in DOMAIN lines : lines[i].key = k})
Due(k) == IF k \in Range(page) THEN 1 ELSE 0

\* Nothing has been returned or written yet.
Fresh == lines = <<>> /\ seen = {} /\ page = <<>> /\ \A k \in DOMAIN source : returned[k] = 0

\* Each key has a line for each time that SCAN has returned it, but for the page at hand.
Matching ==
  /\ \A k \in DOMAIN source \cap seen : returned[k] > 0
  /\ IsInjective(page)
  /\ \A k \in DOMAIN source \ ignored :
       IF Counted(k) THEN Have(k) + Due(k) = returned[k] ELSE Have(k) = 0

ExportInv ==
  /\ returned \in [DOMAIN returned -> Nat] /\ DOMAIN source \subseteq DOMAIN returned
  /\ pc = "open" => Fresh
  /\ pc \in {"scan", "keys"} => Matching
  /\ pc = "scan" => page = <<>>
  /\ pc = "keys" /\ cursor = Zero => DOMAIN source \subseteq seen
  /\ pc \in {"count", "openSink", "delScan", "del", "set"} /\ flushed => lines # <<>>
  /\ LinesMatchScans

\* What an import has set so far: all lines but those left.
Single == \A b \in Biz : Len(b) = 1
KeptKeys == IF replace THEN NoKeys ELSE before
Merged(bs) == [k \in bs \cup DOMAIN KeptKeys |-> IF k \in bs THEN ToString(LinesOf(k)) ELSE KeptKeys[k]]
DoneBut(left) == {b \in Biz : Out(b) \notin Range(left)}

SetSoFar ==
  Single /\ (replace => ignored = {}) /\ (told => got = Int64(1)) =>
    target = Merged(DoneBut(IF told THEN Tail(outs) ELSE outs))

\* The keys that were seen are deleted, but for the page at hand.
DeletedSoFar ==
  /\ replace
  /\ ignored = {} => DOMAIN target \cap seen \subseteq Range(page)

ImportInv ==
  /\ IsInjective(outs)
  /\ pc \in {"openSink", "delScan", "del"} => OutLines \subseteq Range(outs)
  /\ pc \in {"delScan", "del"} => DeletedSoFar
  /\ pc = "delScan" => page = <<>>
  /\ pc = "del" /\ cursor = Zero => DOMAIN target \subseteq seen
  /\ pc = "set" => SetSoFar
  /\ ImportExact

-----------------------------------------------------------------------------
(* readResp is what its recursive definition says.                          *)

\* Induction, with a set in place of a predicate.
LEMMA Induct ==
  ASSUME NEW S, 0 \in S, \A n \in Nat : n \in S => n + 1 \in S
  PROVE  \A n \in Nat : n \in S
<1> DEFINE R == OpToRel(<, Nat)
           T == Nat \ S
<1>1. IsWellFoundedOn(R, Nat)
  BY NatLessThanWellFounded
<1> SUFFICES ASSUME T # {} PROVE FALSE
  OBVIOUS
<1>2. PICK x \in T : \A y \in T : ~(<<y, x>> \in R)
  <2>1. T \subseteq Nat
    OBVIOUS
  <2> HIDE DEF R, T
  <2> QED
    BY <1>1, <2>1, WFMin
<1>3. x # 0 /\ x \in Nat
  OBVIOUS
<1>4. x - 1 \in Nat /\ x - 1 < x /\ (x - 1) + 1 = x
  BY <1>3
<1>5. <<x - 1, x>> \in R
  BY <1>3, <1>4 DEF OpToRel
<1>6. x - 1 \in S
  BY <1>2, <1>4, <1>5
<1> QED
  BY <1>3, <1>4, <1>6

\* What has been read after some elements is read from the bytes after those before.
NextItem(read, array) ==
  IF IsBad(array.v) THEN array
  ELSE IF IsBad(read[array.rest].v) THEN read[array.rest]
  ELSE Got(Arr(Append(array.v.vs, read[array.rest].v)), read[array.rest].rest)

\* The values of such a function.
ItemsFrom(items, read, n, in) ==
  /\ items[0] = Got(Arr(<<>>), in)
  /\ \A i \in 1..n : items[i] = NextItem(read, items[i - 1])

\* ReadItems is the function its recursive definition describes.
LEMMA ItemsExist ==
  ASSUME NEW read, NEW n \in Nat, NEW in
  PROVE  \E items : ItemsFrom(items, read, n, in) /\ ReadItems(read, n, in) = items[n]
<1> DEFINE Step(g, i) == IF i = 0 THEN Got(Arr(<<>>), in) ELSE NextItem(read, g[i - 1])
           Good(m) == \E g : \A i \in 0..m : g[i] = Step(g, i)
           S == {m \in Nat : Good(m)}
<1>1. 0 \in S
  <2> DEFINE g == [i \in 0..0 |-> Got(Arr(<<>>), in)]
  <2>1. \A i \in 0..0 : g[i] = Step(g, i)
    OBVIOUS
  <2> HIDE DEF g
  <2>2. Good(0)
    BY <2>1
  <2> QED
    BY <2>2
<1>2. ASSUME NEW m \in Nat, m \in S PROVE m + 1 \in S
  <2>1. PICK g : \A i \in 0..m : g[i] = Step(g, i)
    BY <1>2
  <2> DEFINE h == [i \in 0..(m + 1) |-> IF i <= m THEN g[i] ELSE Step(g, i)]
  <2>2. ASSUME NEW i \in 0..(m + 1) PROVE h[i] = Step(h, i)
    <3>1. i # 0 => i - 1 \in 0..(m + 1) /\ h[i - 1] = g[i - 1]
      OBVIOUS
    <3>2. Step(h, i) = Step(g, i)
      BY <3>1
    <3>3. i <= m => g[i] = Step(g, i)
      BY <2>1
    <3> QED
      BY <3>2, <3>3
  <2> HIDE DEF h
  <2>3. Good(m + 1)
    BY <2>2
  <2> QED
    BY <2>3
<1>3. Good(n)
  <2> HIDE DEF Good
  <2>1. \A m \in Nat : m \in S
    BY <1>1, <1>2, Induct
  <2> QED
    BY <2>1
<1>4. PICK g : \A i \in 0..n : g[i] = Step(g, i)
  BY <1>3
<1> DEFINE f == [i \in 0..n |-> g[i]]
           F == CHOOSE items : items = [i \in 0..n |-> Step(items, i)]
<1>5. f = [i \in 0..n |-> Step(f, i)]
  <2>1. ASSUME NEW i \in 0..n PROVE g[i] = Step(f, i)
    BY <1>4
  <2> QED
    BY <2>1
<1>6. F = [i \in 0..n |-> Step(F, i)]
  <2> HIDE DEF f
  <2> QED
    BY <1>5
<1>7. ReadItems(read, n, in) = F[n]
  BY DEF ReadItems, NextItem
<1> HIDE DEF F
<1>8. ASSUME NEW i \in 0..n PROVE F[i] = Step(F, i)
  BY <1>6
<1>9. ItemsFrom(F, read, n, in)
  BY <1>8 DEF ItemsFrom
<1> QED
  BY <1>7, <1>9

\* A reader leaves no more bytes than it was given, up to m.
Shrinks(read, m) ==
  \A s \in Seq(Token) : Len(s) <= m => read[s].rest \in Seq(Token) /\ Len(read[s].rest) <= Len(s)

\* Two readers read the same from up to m bytes.
Agree(f, g, m) == \A s \in Seq(Token) : Len(s) <= m => f[s] = g[s]

\* Then they read the same arrays, and these leave no more bytes either.
LEMMA ItemsAgree ==
  ASSUME NEW f, NEW g, NEW m \in Nat, Shrinks(f, m), Agree(f, g, m),
         NEW n \in Nat, NEW in \in Seq(Token), Len(in) <= m
  PROVE  LET r == ReadItems(f, n, in)
         IN  r = ReadItems(g, n, in) /\ r.rest \in Seq(Token) /\ Len(r.rest) <= Len(in)
<1>1. PICK fs : ItemsFrom(fs, f, n, in) /\ ReadItems(f, n, in) = fs[n]
  BY ItemsExist
<1>2. PICK gs : ItemsFrom(gs, g, n, in) /\ ReadItems(g, n, in) = gs[n]
  BY ItemsExist
<1> DEFINE Good(i) == fs[i] = gs[i] /\ fs[i].rest \in Seq(Token) /\ Len(fs[i].rest) <= Len(in)
           S == {i \in Nat : i <= n => Good(i)}
<1>3. 0 \in S
  BY <1>1, <1>2 DEF ItemsFrom, Got
<1>4. ASSUME NEW i \in Nat, i \in S PROVE i + 1 \in S
  <2> SUFFICES ASSUME i + 1 <= n PROVE Good(i + 1)
    BY <1>4
  <2>1. Good(i)
    BY <1>4
  <2>2. fs[i + 1] = NextItem(f, fs[i]) /\ gs[i + 1] = NextItem(g, gs[i])
    <3>1. i + 1 \in 1..n /\ (i + 1) - 1 = i
      OBVIOUS
    <3> QED
      BY <1>1, <1>2, <3>1 DEF ItemsFrom
  <2> DEFINE s == fs[i].rest
  <2>3. s \in Seq(Token) /\ Len(s) <= m /\ Len(s) \in Nat /\ Len(in) \in Nat
    BY <2>1
  <2>4. f[s] = g[s] /\ f[s].rest \in Seq(Token) /\ Len(f[s].rest) <= Len(s)
    <3> HIDE DEF s
    <3> QED
      BY <2>3 DEF Agree, Shrinks
  <2>5. Len(f[s].rest) <= Len(in)
    <3>1. Len(s) <= Len(in) /\ Len(f[s].rest) \in Nat
      BY <2>1, <2>4
    <3> QED
      BY <2>3, <2>4, <3>1
  <2>6. NextItem(f, fs[i]) = NextItem(g, gs[i])
    BY <2>1, <2>4 DEF NextItem
  <2>7. NextItem(f, fs[i]) = fs[i] \/ NextItem(f, fs[i]).rest = f[s].rest
    BY DEF NextItem, Got
  <2> QED
    BY <2>1, <2>2, <2>4, <2>5, <2>6, <2>7
<1>5. Good(n)
  <2> HIDE DEF Good
  <2>1. \A i \in Nat : i \in S
    BY <1>3, <1>4, Induct
  <2> QED
    BY <2>1
<1> QED
  BY <1>1, <1>2, <1>5

\* What is left after some elements is no longer.
LEMMA SuffixShorter ==
  ASSUME NEW T, NEW s \in Seq(T), NEW n \in Nat, n + 2 <= Len(s)
  PROVE  LET r == SubSeq(s, n + 3, Len(s)) IN r \in Seq(T) /\ Len(r) <= Len(s)
  OBVIOUS

\* So they read the same from one byte more.
LEMMA ReplyAgree ==
  ASSUME NEW f, NEW g, NEW m \in Nat, Shrinks(f, m), Agree(f, g, m),
         NEW in \in Seq(Token), Len(in) <= m + 1
  PROVE  LET r == ReadReply(f, in)
         IN  r = ReadReply(g, in) /\ r.rest \in Seq(Token) /\ Len(r.rest) <= Len(in)
<1>1. CASE in = <<>>
  BY <1>1 DEF ReadReply, Got
<1>2. CASE in # <<>>
  <2> DEFINE h == Head(in)
             rest == Tail(in)
  <2>1. h \in Token /\ rest \in Seq(Token) /\ Len(rest) = Len(in) - 1 /\ Len(rest) \in Nat
    BY <1>2
  <2>2. h.n \in Nat => LET r == ReadItems(f, h.n, rest)
                      IN  r = ReadItems(g, h.n, rest) /\ r.rest \in Seq(Token) /\ Len(r.rest) <= Len(rest)
    <3> HIDE DEF h, rest
    <3>1. Len(rest) <= m
      BY <2>1
    <3> QED
      BY <2>1, <3>1, ItemsAgree
  <2>3. h.n \in Int => LET r == ReadBulk(h.n, rest) IN r.rest \in Seq(Token) /\ Len(r.rest) <= Len(rest)
    <3> HIDE DEF h, rest
    <3> SUFFICES ASSUME h.n \in Int
                 PROVE  LET r == ReadBulk(h.n, rest) IN r.rest \in Seq(Token) /\ Len(r.rest) <= Len(rest)
      OBVIOUS
    <3>1. CASE h.n < 0 \/ Len(rest) < h.n + 2
      BY <2>1, <3>1 DEF ReadBulk, Got
    <3>2. CASE ~(h.n < 0) /\ ~(Len(rest) < h.n + 2)
      <4>1. h.n \in Nat /\ h.n + 2 <= Len(rest)
        BY <2>1, <3>2
      <4>2. ReadBulk(h.n, rest).rest = SubSeq(rest, h.n + 3, Len(rest))
        BY <3>2 DEF ReadBulk, Got
      <4> QED
        BY <2>1, <4>1, <4>2, SuffixShorter
    <3> QED
      BY <3>1, <3>2
  <2>4. "prefix" \in DOMAIN h => h.n \in Int /\ h.prefix \in Prefix
    BY <2>1 DEF Token
  <2> QED
    <3> HIDE DEF h, rest
    <3>1. CASE "prefix" \notin DOMAIN h
      BY <1>2, <2>1, <3>1 DEF ReadReply, Got, h, rest
    <3>2. CASE "prefix" \in DOMAIN h
      <4>1. CASE h.prefix = "+"
        BY <1>2, <2>1, <2>4, <3>2, <4>1 DEF ReadReply, Got, h, rest
      <4>2. CASE h.prefix = "-"
        BY <1>2, <2>1, <2>4, <3>2, <4>2 DEF ReadReply, Got, h, rest
      <4>3. CASE h.prefix = ":"
        BY <1>2, <2>1, <2>4, <3>2, <4>3 DEF ReadReply, Got, h, rest
      <4>4. CASE h.prefix = "$"
        <5>1. ReadReply(f, in) = ReadBulk(h.n, rest) /\ ReadReply(g, in) = ReadBulk(h.n, rest)
          BY <1>2, <3>2, <4>4 DEF ReadReply, h, rest
        <5> QED
          BY <2>1, <2>3, <2>4, <3>2, <5>1
      <4>5. CASE h.prefix = "*"
        <5>1. CASE h.n < 0
          BY <1>2, <2>1, <2>4, <3>2, <4>5, <5>1 DEF ReadReply, Got, h, rest
        <5>2. CASE ~(h.n < 0)
          <6>1. ReadReply(f, in) = ReadItems(f, h.n, rest) /\ ReadReply(g, in) = ReadItems(g, h.n, rest)
            BY <1>2, <3>2, <4>5, <5>2 DEF ReadReply, h, rest
          <6>2. h.n \in Nat
            BY <2>4, <3>2, <5>2
          <6> QED
            BY <2>1, <2>2, <6>1, <6>2
        <5> QED
          BY <5>1, <5>2
      <4> QED
        BY <2>4, <3>2, <4>1, <4>2, <4>3, <4>4, <4>5 DEF Prefix
    <3> QED
      BY <3>1, <3>2
<1> QED
  BY <1>1, <1>2

\* A function that reads as readResp does, up to m bytes.
Reader(f, m) == \A s \in Seq(Token) : Len(s) <= m => f[s] = ReadReply(f, s)

\* Without bytes the end is read.
LEMMA NothingRead ==
  ASSUME NEW f, NEW s \in Seq(Token), Len(s) <= 0
  PROVE  ReadReply(f, s) = Got(Eof, <<>>) /\ s = <<>>
<1>1. s = <<>>
  OBVIOUS
<1> QED
  BY <1>1 DEF ReadReply

\* It leaves no more bytes than it was given.
LEMMA ReaderShrinks ==
  ASSUME NEW f, NEW m \in Nat, Reader(f, m)
  PROVE  Shrinks(f, m)
<1> DEFINE S == {k \in Nat : k <= m => Shrinks(f, k)}
<1>1. 0 \in S
  <2>1. ASSUME NEW s \in Seq(Token), Len(s) <= 0 PROVE f[s] = Got(Eof, <<>>) /\ s = <<>>
    <3>1. Len(s) <= m
      BY <2>1
    <3> QED
      BY <2>1, <3>1, NothingRead DEF Reader
  <2> QED
    BY <2>1 DEF Shrinks, Got
<1>2. ASSUME NEW k \in Nat, k \in S PROVE k + 1 \in S
  <2> SUFFICES ASSUME k + 1 <= m, NEW s \in Seq(Token), Len(s) <= k + 1
               PROVE  f[s].rest \in Seq(Token) /\ Len(f[s].rest) <= Len(s)
    BY DEF Shrinks
  <2>1. Shrinks(f, k)
    BY <1>2
  <2>2. Agree(f, f, k)
    BY DEF Agree
  <2>3. f[s] = ReadReply(f, s)
    <3>1. Len(s) <= m
      OBVIOUS
    <3> QED
      BY <3>1 DEF Reader
  <2> HIDE DEF S
  <2> QED
    BY <2>1, <2>2, <2>3, ReplyAgree
<1> HIDE DEF S
<1>3. m \in S
  BY <1>1, <1>2, Induct
<1> QED
  BY <1>3 DEF S

\* There is one way to read.
LEMMA ReadersAgree ==
  ASSUME NEW f, NEW g, NEW m \in Nat, Reader(f, m), Reader(g, m)
  PROVE  Agree(f, g, m)
<1> DEFINE S == {k \in Nat : k <= m => Agree(f, g, k)}
<1>1. 0 \in S
  <2>1. ASSUME NEW s \in Seq(Token), Len(s) <= 0 PROVE f[s] = g[s]
    <3>1. Len(s) <= m
      BY <2>1
    <3> QED
      BY <2>1, <3>1, NothingRead DEF Reader
  <2> QED
    BY <2>1 DEF Agree
<1>2. ASSUME NEW k \in Nat, k \in S PROVE k + 1 \in S
  <2> SUFFICES ASSUME k + 1 <= m, NEW s \in Seq(Token), Len(s) <= k + 1
               PROVE  f[s] = g[s]
    BY DEF Agree
  <2>1. Agree(f, g, k)
    BY <1>2
  <2>2. Shrinks(f, k)
    <3>1. Shrinks(f, m)
      BY ReaderShrinks
    <3> QED
      BY <3>1 DEF Shrinks
  <2>3. f[s] = ReadReply(f, s) /\ g[s] = ReadReply(g, s)
    <3>1. Len(s) <= m
      OBVIOUS
    <3> QED
      BY <3>1 DEF Reader
  <2> HIDE DEF S
  <2> QED
    BY <2>1, <2>2, <2>3, ReplyAgree
<1> HIDE DEF S
<1>3. m \in S
  BY <1>1, <1>2, Induct
<1> QED
  BY <1>3 DEF S

\* For every number of bytes there is one.
LEMMA ReaderExists ==
  ASSUME NEW m \in Nat
  PROVE  \E f : Reader(f, m)
<1> DEFINE S == {k \in Nat : \E f : Reader(f, k)}
<1>1. 0 \in S
  <2> DEFINE f == [s \in Seq(Token) |-> Got(Eof, <<>>)]
  <2>1. Reader(f, 0)
    <3>1. ASSUME NEW s \in Seq(Token), Len(s) <= 0 PROVE ReadReply(f, s) = Got(Eof, <<>>)
      BY <3>1, NothingRead
    <3> QED
      BY <3>1 DEF Reader
  <2> HIDE DEF f
  <2> QED
    BY <2>1
<1>2. ASSUME NEW k \in Nat, k \in S PROVE k + 1 \in S
  <2>1. PICK f : Reader(f, k)
    BY <1>2
  <2> DEFINE g == [s \in Seq(Token) |-> IF Len(s) <= k THEN f[s] ELSE ReadReply(f, s)]
  <2>2. Agree(f, g, k)
    BY DEF Agree
  <2>3. Shrinks(f, k)
    BY <2>1, ReaderShrinks
  <2>4. ASSUME NEW s \in Seq(Token), Len(s) <= k + 1 PROVE g[s] = ReadReply(g, s)
    <3>1. ReadReply(f, s) = ReadReply(g, s)
      <4> HIDE DEF g
      <4> QED
        BY <2>2, <2>3, <2>4, ReplyAgree
    <3>2. CASE Len(s) <= k
      BY <2>1, <3>1, <3>2 DEF Reader
    <3>3. CASE ~(Len(s) <= k)
      BY <3>1, <3>3
    <3> QED
      BY <3>2, <3>3
  <2> HIDE DEF g
  <2>5. Reader(g, k + 1)
    BY <2>4 DEF Reader
  <2> QED
    BY <2>5
<1> HIDE DEF S
<1>3. m \in S
  BY <1>1, <1>2, Induct
<1> QED
  BY <1>3 DEF S

\* readResp is the function its recursive definition describes.
LEMMA ReadRespExists == \A in \in Seq(Token) : readResp[in] = ReadReply(readResp, in)
<1> DEFINE F(m) == CHOOSE f : Reader(f, m)
           g == [s \in Seq(Token) |-> F(Len(s))[s]]
<1>1. ASSUME NEW m \in Nat PROVE Reader(F(m), m)
  BY ReaderExists
<1>2. ASSUME NEW m \in Nat PROVE Agree(F(m), g, m)
  <2> SUFFICES ASSUME NEW s \in Seq(Token), Len(s) <= m PROVE F(m)[s] = F(Len(s))[s]
    BY DEF Agree
  <2> DEFINE k == Len(s)
  <2>1. k \in Nat
    OBVIOUS
  <2>2. Reader(F(k), k) /\ Reader(F(m), m)
    BY <1>1, <2>1
  <2>3. Reader(F(m), k)
    BY <2>2 DEF Reader
  <2> HIDE DEF F
  <2>4. Agree(F(m), F(k), k)
    <3> HIDE DEF k
    <3> QED
      BY <2>1, <2>2, <2>3, ReadersAgree
  <2> QED
    BY <2>4 DEF Agree
<1>3. ASSUME NEW s \in Seq(Token) PROVE g[s] = ReadReply(g, s)
  <2> DEFINE m == Len(s)
  <2>1. m \in Nat /\ Len(s) <= m /\ Len(s) <= m + 1
    OBVIOUS
  <2>2. Reader(F(m), m) /\ Agree(F(m), g, m)
    BY <1>1, <1>2, <2>1
  <2> HIDE DEF F, g, m
  <2>3. ReadReply(F(m), s) = ReadReply(g, s)
    <3>1. Shrinks(F(m), m)
      BY <2>1, <2>2, ReaderShrinks
    <3> QED
      BY <2>1, <2>2, <3>1, ReplyAgree
  <2>4. F(m)[s] = ReadReply(F(m), s) /\ F(m)[s] = g[s]
    BY <2>1, <2>2 DEF Reader, Agree
  <2> QED
    BY <2>3, <2>4
<1>4. g = [s \in Seq(Token) |-> ReadReply(g, s)]
  <2>1. g = [s \in Seq(Token) |-> g[s]]
    OBVIOUS
  <2> HIDE DEF g
  <2> QED
    BY <1>3, <2>1
<1> HIDE DEF F, g
<1>5. readResp = [in \in Seq(Token) |-> ReadReply(readResp, in)]
  BY <1>4 DEF readResp
<1> QED
  BY <1>5

-----------------------------------------------------------------------------
(* Sequences put together.                                                 *)

\* Putting sequences together is associative.
LEMMA ConcatAssociates ==
  ASSUME NEW T, NEW a \in Seq(T), NEW b \in Seq(T), NEW c \in Seq(T)
  PROVE  (a \o b) \o c = a \o (b \o c) /\ a \o b \in Seq(T)
  OBVIOUS

\* The first bytes of a reply, and of those after the first part of it.
LEMMA PrefixOfFirst ==
  ASSUME NEW T, NEW a \in Seq(T), NEW b \in Seq(T), NEW n \in 0..Len(a)
  PROVE  SubSeq(a \o b, 1, n) = SubSeq(a, 1, n)
  OBVIOUS

LEMMA PrefixOfSecond ==
  ASSUME NEW T, NEW a \in Seq(T), NEW b \in Seq(T), NEW n \in 0..Len(b)
  PROVE  /\ SubSeq(a \o b, 1, Len(a) + n) = a \o SubSeq(b, 1, n)
         /\ SubSeq(b, 1, n) \in Seq(T)
  OBVIOUS

\* A header and what follows it.
LEMMA HeadTail ==
  ASSUME NEW T, NEW h \in T, NEW s \in Seq(T)
  PROVE  /\ Head(<<h>> \o s) = h /\ Tail(<<h>> \o s) = s
         /\ <<h>> \o s # <<>> /\ <<h>> \o s \in Seq(T) /\ Len(<<h>> \o s) = Len(s) + 1
  OBVIOUS

\* Sequences of the same length with the same elements are the same.
LEMMA SameSequence ==
  ASSUME NEW T, NEW a \in Seq(T), NEW b \in Seq(T), Len(a) = Len(b), \A i \in 1..Len(a) : a[i] = b[i]
  PROVE  a = b
  OBVIOUS

\* What is left after the first part of a sequence.
LEMMA DropFirst ==
  ASSUME NEW T, NEW a \in Seq(T), NEW b \in Seq(T)
  PROVE  /\ SubSeq(a \o b, Len(a) + 1, Len(a \o b)) = b
         /\ Len(a \o b) = Len(a) + Len(b) /\ a \o b \in Seq(T)
         /\ \A i \in 1..Len(a) : (a \o b)[i] = a[i]
  OBVIOUS

\* One more element of a sequence.
LEMMA PrefixAppend ==
  ASSUME NEW T, NEW s \in Seq(T), NEW n \in 0..(Len(s) - 1)
  PROVE  Append(SubSeq(s, 1, n), s[n + 1]) = SubSeq(s, 1, n + 1)
  OBVIOUS

\* A sequence is the longest of its prefixes.
LEMMA WholePrefix ==
  ASSUME NEW T, NEW s \in Seq(T)
  PROVE  SubSeq(s, 1, Len(s)) = s /\ SubSeq(s, 1, 0) = <<>> /\ s \o <<>> = s /\ <<>> \o s = s
  OBVIOUS

\* An array of n + 1 elements is one of n elements and the next one.
LEMMA ItemsStep ==
  ASSUME NEW read, NEW in
  PROVE  /\ ReadItems(read, 0, in) = Got(Arr(<<>>), in)
         /\ \A n \in Nat : ReadItems(read, n + 1, in) = NextItem(read, ReadItems(read, n, in))
<1>1. ReadItems(read, 0, in) = Got(Arr(<<>>), in)
  <2>1. PICK items : ItemsFrom(items, read, 0, in) /\ ReadItems(read, 0, in) = items[0]
    BY ItemsExist
  <2> QED
    BY <2>1 DEF ItemsFrom
<1>2. ASSUME NEW n \in Nat PROVE ReadItems(read, n + 1, in) = NextItem(read, ReadItems(read, n, in))
  <2>1. PICK f : ItemsFrom(f, read, n, in) /\ ReadItems(read, n, in) = f[n]
    BY ItemsExist
  <2>2. PICK g : ItemsFrom(g, read, n + 1, in) /\ ReadItems(read, n + 1, in) = g[n + 1]
    BY ItemsExist
  <2> DEFINE S == {i \in Nat : i <= n => f[i] = g[i]}
  <2>3. 0 \in S
    BY <2>1, <2>2 DEF ItemsFrom
  <2>4. ASSUME NEW i \in Nat, i \in S PROVE i + 1 \in S
    <3> SUFFICES ASSUME i + 1 <= n PROVE f[i + 1] = g[i + 1]
      OBVIOUS
    <3>1. i + 1 \in 1..n /\ i + 1 \in 1..(n + 1) /\ (i + 1) - 1 = i
      OBVIOUS
    <3>2. f[i + 1] = NextItem(read, f[i]) /\ g[i + 1] = NextItem(read, g[i])
      BY <2>1, <2>2, <3>1 DEF ItemsFrom
    <3> QED
      BY <2>4, <3>2
  <2> HIDE DEF S
  <2>5. n \in S
    BY <2>3, <2>4, Induct
  <2>6. f[n] = g[n]
    BY <2>5 DEF S
  <2>7. n + 1 \in 1..(n + 1) /\ (n + 1) - 1 = n
    OBVIOUS
  <2>8. g[n + 1] = NextItem(read, g[n])
    BY <2>2, <2>7 DEF ItemsFrom
  <2> QED
    BY <2>1, <2>2, <2>6, <2>8
<1> QED
  BY <1>1, <1>2

-----------------------------------------------------------------------------
(* Reading what the server writes.                                         *)

\* From w and any bytes after it v is read, and from part of w the end.
Reads(w, v) ==
  /\ w \in Seq(Token) /\ w # <<>>
  /\ \A t \in Seq(Token) : readResp[w \o t] = Got(v, t)
  /\ \A n \in 0..(Len(w) - 1) : readResp[SubSeq(w, 1, n)] = Got(Eof, <<>>)

\* A reply that is one header line.
LEMMA HeaderReads ==
  ASSUME NEW h \in Token, NEW v,
         \A t \in Seq(Token) : ReadReply(readResp, <<h>> \o t) = Got(v, t)
  PROVE  Reads(<<h>>, v)
<1>1. <<h>> \in Seq(Token) /\ <<h>> # <<>> /\ Len(<<h>>) = 1 /\ SubSeq(<<h>>, 1, 0) = <<>>
  OBVIOUS
<1>2. ASSUME NEW t \in Seq(Token) PROVE readResp[<<h>> \o t] = Got(v, t)
  <2>1. <<h>> \o t \in Seq(Token)
    BY HeadTail
  <2> QED
    BY <2>1, ReadRespExists
<1>3. <<>> \in Seq(Token) /\ Len(<<>>) <= 0
  OBVIOUS
<1>4. readResp[<<>>] = Got(Eof, <<>>)
  BY <1>3, ReadRespExists, NothingRead
<1>5. \A n \in 0..(Len(<<h>>) - 1) : n = 0
  BY <1>1
<1> QED
  BY <1>1, <1>2, <1>4, <1>5 DEF Reads

\* What one element of a reply may be.
Plain == {RespErr, NilValue} \cup [type : {"int64"}, n : Int] \cup [type : {"string"}, text : Text]

\* A header line is a token, with the type and the number it was made of.
LEMMA Headers == ASSUME NEW p \in Prefix, NEW n \in Int
                 PROVE  /\ Header(p, n) \in Token /\ "prefix" \in DOMAIN Header(p, n)
                        /\ Header(p, n).prefix = p /\ Header(p, n).n = n
BY DEF Header, Token

\* The bytes of a bulk string after its header.
LEMMA BulkBytes ==
  ASSUME NEW text \in Text
  PROVE  LET d == Bytes(text) \o LineEnd
         IN  /\ d \in Seq(Token) /\ Len(d) = Len(text) + 2
             /\ \A i \in 1..Len(text) : d[i].byte = text[i]
<1> DEFINE b == Bytes(text)
           e == LineEnd
<1>1. text \in Seq(Word) /\ Len(text) \in Nat /\ DOMAIN text = 1..Len(text)
  BY DEF Text
<1>2. b = [i \in 1..Len(text) |-> [byte |-> text[i]]]
  BY <1>1 DEF Bytes
<1>3. \A i \in 1..Len(text) : [byte |-> text[i]] \in Token
  BY <1>1 DEF Token
<1>4. b \in Seq(Token) /\ Len(b) = Len(text) /\ \A i \in 1..Len(text) : b[i] = [byte |-> text[i]]
  <2>1. b \in [1..Len(text) -> Token]
    BY <1>2, <1>3
  <2> HIDE DEF b
  <2> QED
    BY <1>1, <1>2, <2>1
<1>5. e \in Seq(Token) /\ Len(e) = 2
  BY DEF LineEnd, Token
<1> HIDE DEF b, e
<1>6. b \o e \in Seq(Token) /\ Len(b \o e) = Len(text) + 2 /\ \A i \in 1..Len(text) : (b \o e)[i] = b[i]
  <2>1. Len(b \o e) = Len(b) + Len(e) /\ b \o e \in Seq(Token) /\ \A i \in 1..Len(b) : (b \o e)[i] = b[i]
    BY <1>4, <1>5, DropFirst
  <2> QED
    BY <1>4, <1>5, <2>1
<1>7. ASSUME NEW i \in 1..Len(text) PROVE (b \o e)[i].byte = text[i]
  <2>1. (b \o e)[i] = [byte |-> text[i]]
    BY <1>4, <1>6
  <2> QED
    BY <2>1
<1> QED
  BY <1>6, <1>7 DEF b, e

\* From them the text is read, and from part of them the end.
LEMMA BulkReads ==
  ASSUME NEW text \in Text, NEW d \in Seq(Token), Len(d) = Len(text) + 2,
         \A i \in 1..Len(text) : d[i].byte = text[i]
  PROVE  /\ \A t \in Seq(Token) : ReadBulk(Len(text), d \o t) = Got(Str(text), t)
         /\ \A k \in 0..(Len(d) - 1) : ReadBulk(Len(text), SubSeq(d, 1, k)) = Got(Eof, <<>>)
<1> DEFINE n == Len(text)
<1>1. text \in Seq(Word) /\ n \in Nat /\ ~(n < 0) /\ text = [i \in 1..n |-> text[i]]
  BY DEF Text
<1>2. ASSUME NEW t \in Seq(Token) PROVE ReadBulk(n, d \o t) = Got(Str(text), t)
  <2> DEFINE in == d \o t
  <2>1. /\ in \in Seq(Token) /\ Len(in) = n + 2 + Len(t) /\ Len(t) \in Nat
        /\ SubSeq(in, n + 3, Len(in)) = t
        /\ \A i \in 1..n : in[i] = d[i]
    <3>1. /\ SubSeq(d \o t, Len(d) + 1, Len(d \o t)) = t
          /\ Len(d \o t) = Len(d) + Len(t) /\ d \o t \in Seq(Token)
          /\ \A i \in 1..Len(d) : (d \o t)[i] = d[i]
      BY DropFirst
    <3>2. Len(d) = n + 2 /\ Len(d) + 1 = n + 3 /\ Len(t) \in Nat
      BY <1>1
    <3> QED
      BY <1>1, <3>1, <3>2
  <2> HIDE DEF in, n
  <2>2. ~(Len(in) < n + 2)
    BY <1>1, <2>1
  <2>3. [i \in 1..n |-> in[i].byte] = text
    BY <1>1, <2>1 DEF n
  <2> QED
    BY <1>1, <2>1, <2>2, <2>3 DEF ReadBulk, in
<1>3. ASSUME NEW k \in 0..(Len(d) - 1) PROVE ReadBulk(n, SubSeq(d, 1, k)) = Got(Eof, <<>>)
  <2>1. Len(SubSeq(d, 1, k)) = k /\ k < n + 2
    BY <1>1
  <2> QED
    BY <1>1, <2>1 DEF ReadBulk
<1> QED
  BY <1>2, <1>3

\* A reply that is no array is read as it was sent.
LEMMA PlainReads == ASSUME NEW v \in Plain PROVE Reads(EncodePlain(v), v)
<1>1. CASE v = RespErr
  <2> DEFINE h == Header("-", 0)
  <2>1. h \in Token /\ "prefix" \in DOMAIN h /\ h.prefix = "-"
    BY Headers DEF Prefix
  <2>2. EncodePlain(v) = <<h>>
    BY <1>1 DEF EncodePlain, RespErr
  <2> HIDE DEF h
  <2>3. ASSUME NEW t \in Seq(Token) PROVE ReadReply(readResp, <<h>> \o t) = Got(v, t)
    <3>1. Head(<<h>> \o t) = h /\ Tail(<<h>> \o t) = t /\ <<h>> \o t # <<>>
      BY <2>1, HeadTail
    <3> QED
      BY <1>1, <2>1, <3>1 DEF ReadReply
  <2> QED
    BY <2>1, <2>2, <2>3, HeaderReads
<1>2. CASE v = NilValue
  <2> DEFINE h == Header("$", -1)
  <2>1. h \in Token /\ "prefix" \in DOMAIN h /\ h.prefix = "$" /\ h.n = -1
    BY Headers DEF Prefix
  <2>2. EncodePlain(v) = <<h>>
    BY <1>2 DEF EncodePlain, NilValue
  <2> HIDE DEF h
  <2>3. ASSUME NEW t \in Seq(Token) PROVE ReadReply(readResp, <<h>> \o t) = Got(v, t)
    <3>1. Head(<<h>> \o t) = h /\ Tail(<<h>> \o t) = t /\ <<h>> \o t # <<>>
      BY <2>1, HeadTail
    <3>2. ReadReply(readResp, <<h>> \o t) = ReadBulk(h.n, t)
      BY <2>1, <3>1 DEF ReadReply
    <3>3. ReadBulk(h.n, t) = Got(v, t)
      BY <1>2, <2>1 DEF ReadBulk
    <3> QED
      BY <3>2, <3>3
  <2> QED
    BY <2>1, <2>2, <2>3, HeaderReads
<1>3. CASE v \in [type : {"int64"}, n : Int]
  <2> DEFINE h == Header(":", v.n)
  <2>1. h \in Token /\ "prefix" \in DOMAIN h /\ h.prefix = ":" /\ h.n = v.n
    BY <1>3, Headers DEF Prefix
  <2>2. EncodePlain(v) = <<h>>
    BY <1>3 DEF EncodePlain
  <2> HIDE DEF h
  <2>3. ASSUME NEW t \in Seq(Token) PROVE ReadReply(readResp, <<h>> \o t) = Got(v, t)
    <3>1. Head(<<h>> \o t) = h /\ Tail(<<h>> \o t) = t /\ <<h>> \o t # <<>>
      BY <2>1, HeadTail
    <3>2. v = Int64(v.n)
      BY <1>3 DEF Int64
    <3> QED
      BY <2>1, <3>1, <3>2 DEF ReadReply
  <2> QED
    BY <2>1, <2>2, <2>3, HeaderReads
<1>4. CASE v \in [type : {"string"}, text : Text]
  <2> DEFINE h == Header("$", Len(v.text))
             d == Bytes(v.text) \o LineEnd
             w == <<h>> \o d
  <2>0. Len(v.text) \in Nat /\ v.text \in Text /\ v = Str(v.text)
    BY <1>4 DEF Text, Str
  <2>1. h \in Token /\ "prefix" \in DOMAIN h /\ h.prefix = "$" /\ h.n = Len(v.text)
    BY <2>0, Headers DEF Prefix
  <2>2. EncodePlain(v) = w
    BY <1>4 DEF EncodePlain
  <2>3. d \in Seq(Token) /\ Len(d) = Len(v.text) + 2 /\ \A i \in 1..Len(v.text) : d[i].byte = v.text[i]
    BY <2>0, BulkBytes
  <2> HIDE DEF h, d
  <2>4. /\ \A t \in Seq(Token) : ReadBulk(h.n, d \o t) = Got(v, t)
        /\ \A k \in 0..(Len(d) - 1) : ReadBulk(h.n, SubSeq(d, 1, k)) = Got(Eof, <<>>)
    BY <2>0, <2>1, <2>3, BulkReads
  <2>5. ASSUME NEW s \in Seq(Token) PROVE readResp[<<h>> \o s] = ReadBulk(h.n, s)
    <3> DEFINE in == <<h>> \o s
    <3>1. Head(in) = h /\ Tail(in) = s /\ in # <<>> /\ in \in Seq(Token)
      BY <2>1, HeadTail
    <3> HIDE DEF in
    <3>2. readResp[in] = ReadReply(readResp, in)
      BY <3>1, ReadRespExists
    <3>3. ReadReply(readResp, in) = ReadBulk(h.n, s)
      BY <2>1, <3>1 DEF ReadReply
    <3> QED
      BY <3>2, <3>3 DEF in
  <2>6. w \in Seq(Token) /\ w # <<>> /\ Len(w) = Len(d) + 1 /\ <<h>> \in Seq(Token) /\ Len(<<h>>) = 1
    BY <2>1, <2>3, HeadTail
  <2>7. ASSUME NEW t \in Seq(Token) PROVE readResp[w \o t] = Got(v, t)
    <3>1. w \o t = <<h>> \o (d \o t) /\ d \o t \in Seq(Token)
      BY <2>3, <2>6, ConcatAssociates
    <3> QED
      BY <2>4, <2>5, <3>1
  <2>8. ASSUME NEW m \in 0..(Len(w) - 1) PROVE readResp[SubSeq(w, 1, m)] = Got(Eof, <<>>)
    <3>1. CASE m = 0
      <4>1. SubSeq(w, 1, 0) = <<>> /\ <<>> \in Seq(Token) /\ Len(<<>>) <= 0
        BY <2>6, WholePrefix
      <4> QED
        BY <3>1, <4>1, ReadRespExists, NothingRead
    <3>2. CASE m # 0
      <4> DEFINE k == m - 1
      <4>1. k \in 0..(Len(d) - 1) /\ k \in 0..Len(d) /\ m = Len(<<h>>) + k
        BY <2>3, <2>6, <3>2
      <4> HIDE DEF k
      <4>2. SubSeq(w, 1, Len(<<h>>) + k) = <<h>> \o SubSeq(d, 1, k) /\ SubSeq(d, 1, k) \in Seq(Token)
        BY <2>3, <2>6, <4>1, PrefixOfSecond
      <4> QED
        BY <2>4, <2>5, <4>1, <4>2
    <3> QED
      BY <3>1, <3>2
  <2> QED
    BY <2>2, <2>6, <2>7, <2>8 DEF Reads
<1> QED
  BY <1>1, <1>2, <1>3, <1>4 DEF Plain

\* FlattenSeq puts one part after the other.
LEMMA Flattened ==
  ASSUME NEW T, NEW parts \in Seq(Seq(T))
  PROVE  \E cat : /\ cat[0] = <<>>
                  /\ \A i \in 1..Len(parts) : cat[i] = cat[i - 1] \o parts[i]
                  /\ \A i \in 0..Len(parts) : cat[i] \in Seq(T)
                  /\ FlattenSeq(parts) = cat[Len(parts)]
<1> DEFINE n == Len(parts)
           Cat(g, m) == /\ g[0] = <<>>
                        /\ \A i \in 1..m : g[i] = g[i - 1] \o parts[i]
                        /\ \A i \in 0..m : g[i] \in Seq(T)
           S == {m \in Nat : m <= n => \E g : Cat(g, m)}
<1>0. n \in Nat
  OBVIOUS
<1>1. 0 \in S
  <2> DEFINE g == [i \in 0..0 |-> <<>>]
  <2>1. Cat(g, 0)
    OBVIOUS
  <2> HIDE DEF g, Cat
  <2> QED
    BY <2>1
<1>2. ASSUME NEW m \in Nat, m \in S PROVE m + 1 \in S
  <2> SUFFICES ASSUME m + 1 <= n PROVE \E g : Cat(g, m + 1)
    <3> HIDE DEF Cat
    <3> QED
      OBVIOUS
  <2>1. PICK g : Cat(g, m)
    <3> HIDE DEF Cat
    <3> QED
      BY <1>0, <1>2
  <2> DEFINE p == parts[m + 1]
             h == [i \in 0..(m + 1) |-> IF i <= m THEN g[i] ELSE g[m] \o p]
  <2>2. p \in Seq(T) /\ g[m] \in Seq(T)
    <3>1. m + 1 \in 1..n /\ m \in 0..m
      BY <1>0
    <3> QED
      BY <2>1, <3>1
  <2>3. g[m] \o p \in Seq(T)
    BY <2>2, ConcatAssociates
  <2> HIDE DEF p
  <2>4. h[0] = <<>>
    BY <2>1
  <2>5. ASSUME NEW i \in 1..(m + 1) PROVE h[i] = h[i - 1] \o parts[i]
    <3>1. CASE i <= m
      <4>1. i \in 1..m /\ h[i] = g[i] /\ h[i - 1] = g[i - 1]
        BY <3>1
      <4> HIDE DEF h
      <4> QED
        BY <2>1, <4>1
    <3>2. CASE ~(i <= m)
      <4>1. i = m + 1 /\ i - 1 = m /\ m \in 0..(m + 1) /\ m + 1 \in 0..(m + 1) /\ ~(m + 1 <= m)
        BY <3>2
      <4>2. h[m + 1] = g[m] \o p /\ h[m] = g[m]
        BY <4>1
      <4> HIDE DEF h
      <4> QED
        BY <4>1, <4>2 DEF p
    <3> QED
      BY <3>1, <3>2
  <2>6. ASSUME NEW i \in 0..(m + 1) PROVE h[i] \in Seq(T)
    BY <2>1, <2>3
  <2> HIDE DEF h
  <2>7. Cat(h, m + 1)
    BY <2>4, <2>5, <2>6
  <2> HIDE DEF Cat
  <2> QED
    BY <2>7
<1>3. PICK cat : Cat(cat, n)
  <2>1. n \in S
    <3> HIDE DEF S, n
    <3> QED
      BY <1>0, <1>1, <1>2, Induct
  <2> HIDE DEF Cat
  <2> QED
    BY <1>0, <2>1
<1>4. CASE n = 0
  <2>1. parts = <<>>
    BY <1>4
  <2>2. FlattenSeq(parts) = <<>>
    BY <1>4, <2>1 DEF FlattenSeq
  <2> QED
    BY <1>3, <1>4, <2>2
<1>5. CASE n # 0
  <2> DEFINE Step(g, i) == IF i = 1 THEN parts[i] ELSE g[i - 1] \o parts[i]
             f == [i \in 1..n |-> cat[i]]
             F == CHOOSE flatten : flatten = [i \in 1..n |-> Step(flatten, i)]
  <2>1. f = [i \in 1..n |-> Step(f, i)]
    <3>1. ASSUME NEW i \in 1..n PROVE cat[i] = Step(f, i)
      <4>1. CASE i = 1
        <5>1. 1 \in 1..n /\ 1 - 1 = 0 /\ parts[1] \in Seq(T)
          BY <4>1
        <5>2. cat[1] = <<>> \o parts[1]
          BY <1>3, <5>1
        <5>3. <<>> \o parts[1] = parts[1]
          BY <5>1
        <5> QED
          BY <4>1, <5>2, <5>3
      <4>2. CASE i # 1
        <5>1. i - 1 \in 1..n
          BY <1>0, <4>2
        <5>2. f[i - 1] = cat[i - 1]
          BY <5>1
        <5> QED
          BY <1>3, <4>2, <5>2
      <4> QED
        BY <4>1, <4>2
    <3> QED
      BY <3>1
  <2>2. F = [i \in 1..n |-> Step(F, i)]
    <3> HIDE DEF f
    <3> QED
      BY <2>1
  <2>3. FlattenSeq(parts) = F[n]
    BY <1>5 DEF FlattenSeq
  <2> HIDE DEF F
  <2> DEFINE Q == {i \in Nat : i + 1 <= n => F[i + 1] = cat[i + 1]}
  <2>4. 0 \in Q
    <3>1. 1 \in 1..n
      BY <1>0, <1>5
    <3>2. F[1] = parts[1] /\ parts[1] \in Seq(T)
      BY <2>2, <3>1
    <3>3. cat[1] = <<>> \o parts[1]
      <4>1. 1 - 1 = 0
        OBVIOUS
      <4> QED
        BY <1>3, <3>1, <4>1
    <3>4. <<>> \o parts[1] = parts[1]
      BY <3>2
    <3> QED
      BY <3>2, <3>3, <3>4
  <2>5. ASSUME NEW i \in Nat, i \in Q PROVE i + 1 \in Q
    <3> SUFFICES ASSUME (i + 1) + 1 <= n PROVE F[(i + 1) + 1] = cat[(i + 1) + 1]
      OBVIOUS
    <3>1. (i + 1) + 1 \in 1..n /\ (i + 1) + 1 # 1 /\ ((i + 1) + 1) - 1 = i + 1 /\ i + 1 <= n
      BY <1>0
    <3>2. F[(i + 1) + 1] = F[i + 1] \o parts[(i + 1) + 1]
      BY <2>2, <3>1
    <3> QED
      BY <1>3, <2>5, <3>1, <3>2
  <2>6. \A i \in Nat : i \in Q
    <3> HIDE DEF Q
    <3> QED
      BY <2>4, <2>5, Induct
  <2>7. n - 1 \in Nat /\ (n - 1) + 1 = n /\ n <= n
    BY <1>0, <1>5
  <2>8. F[n] = cat[n]
    BY <2>6, <2>7
  <2> QED
    BY <1>3, <2>3, <2>8
<1> QED
  BY <1>4, <1>5

\* An array is no error of readResp; the end of the bytes is one.
LEMMA ArrIsGood == \A vs : ~IsBad(Arr(vs))
BY DEF IsBad, Arr, ReadErr, Eof

LEMMA EofIsBad == IsBad(Eof)
BY DEF IsBad

\* Bytes put together, and the first of them.
LEMMA BytesTogether ==
  ASSUME NEW a \in Seq(Token), NEW b \in Seq(Token)
  PROVE  /\ \A t \in Seq(Token) : (a \o b) \o t = a \o (b \o t) /\ b \o t \in Seq(Token)
         /\ \A k \in 0..Len(b) : /\ SubSeq(a \o b, 1, Len(a) + k) = a \o SubSeq(b, 1, k)
                                 /\ SubSeq(b, 1, k) \in Seq(Token)
<1>1. ASSUME NEW t \in Seq(Token) PROVE (a \o b) \o t = a \o (b \o t) /\ b \o t \in Seq(Token)
  OBVIOUS
<1>2. ASSUME NEW k \in 0..Len(b)
      PROVE  SubSeq(a \o b, 1, Len(a) + k) = a \o SubSeq(b, 1, k) /\ SubSeq(b, 1, k) \in Seq(Token)
  OBVIOUS
<1> QED
  BY <1>1, <1>2

\* An array is read from the bytes of its elements, and the end from part of them.
LEMMA ArrayReads ==
  ASSUME NEW V, NEW vs \in Seq(V), NEW parts \in Seq(Seq(Token)), Len(parts) = Len(vs),
         \A i \in 1..Len(vs) : Reads(parts[i], vs[i]) /\ ~IsBad(vs[i])
  PROVE  Reads(EncodeArray(parts), Arr(vs))
<1> DEFINE n == Len(vs)
<1>0. n \in Nat /\ Len(parts) = n
  OBVIOUS
<1>1. PICK cat : /\ cat[0] = <<>>
                 /\ \A i \in 1..n : cat[i] = cat[i - 1] \o parts[i]
                 /\ \A i \in 0..n : cat[i] \in Seq(Token)
                 /\ FlattenSeq(parts) = cat[n]
  <2> HIDE DEF n
  <2> QED
    BY <1>0, Flattened
<1> DEFINE Whole(i) == \A t \in Seq(Token) :
             ReadItems(readResp, i, cat[i] \o t) = Got(Arr(SubSeq(vs, 1, i)), t)
           Part(i) == \A m \in 0..(Len(cat[i]) - 1) :
             ReadItems(readResp, i, SubSeq(cat[i], 1, m)) = Got(Eof, <<>>)
           S == {i \in Nat : i <= n => Whole(i) /\ Part(i)}
<1>2. 0 \in S
  <2>1. Whole(0)
    <3> SUFFICES ASSUME NEW t \in Seq(Token)
                 PROVE  ReadItems(readResp, 0, cat[0] \o t) = Got(Arr(SubSeq(vs, 1, 0)), t)
      OBVIOUS
    <3>1. SubSeq(vs, 1, 0) = <<>> /\ <<>> \o t = t
      BY WholePrefix
    <3> QED
      BY <1>1, <3>1, ItemsStep
  <2>2. Part(0)
    BY <1>1
  <2> HIDE DEF Whole, Part
  <2> QED
    BY <2>1, <2>2
<1>3. ASSUME NEW i \in Nat, i \in S PROVE i + 1 \in S
  <2> SUFFICES ASSUME i + 1 <= n PROVE Whole(i + 1) /\ Part(i + 1)
    <3> HIDE DEF Whole, Part
    <3> QED
      OBVIOUS
  <2> DEFINE p == parts[i + 1]
             c == cat[i]
  <2>1. i + 1 \in 1..n /\ i \in 0..n /\ (i + 1) - 1 = i /\ i <= n /\ i \in 0..(n - 1)
    BY <1>0
  <2>2. Whole(i) /\ Part(i)
    <3> HIDE DEF Whole, Part
    <3> QED
      BY <1>3, <2>1
  <2>3. Reads(p, vs[i + 1]) /\ ~IsBad(vs[i + 1])
    BY <2>1
  <2>4. cat[i + 1] = c \o p /\ c \in Seq(Token) /\ p \in Seq(Token)
    <3>1. p \in Seq(Token)
      BY <1>0, <2>1
    <3> HIDE DEF S, Whole, Part, n
    <3>2. cat[i + 1] = cat[i] \o parts[i + 1] /\ cat[i] \in Seq(Token)
      BY <1>1, <2>1
    <3> QED
      BY <3>1, <3>2
  <2>5. Append(SubSeq(vs, 1, i), vs[i + 1]) = SubSeq(vs, 1, i + 1)
    BY <2>1, PrefixAppend
  <2>6. ASSUME NEW t \in Seq(Token) PROVE ReadItems(readResp, i, c \o t) = Got(Arr(SubSeq(vs, 1, i)), t)
    BY <2>2
  <2>7. ASSUME NEW m \in 0..(Len(c) - 1) PROVE ReadItems(readResp, i, SubSeq(c, 1, m)) = Got(Eof, <<>>)
    BY <2>2
  <2> HIDE DEF p, c
  <2> DEFINE u == SubSeq(vs, 1, i)
             v == vs[i + 1]
  <2>8. Whole(i + 1)
    <3> SUFFICES ASSUME NEW t \in Seq(Token)
                 PROVE  ReadItems(readResp, i + 1, (c \o p) \o t) = Got(Arr(SubSeq(vs, 1, i + 1)), t)
      BY <2>4
    <3>1. (c \o p) \o t = c \o (p \o t) /\ p \o t \in Seq(Token)
      <4> HIDE DEF S, Whole, Part, n
      <4> QED
        BY <2>4, BytesTogether
    <3>2. ReadItems(readResp, i, c \o (p \o t)) = Got(Arr(SubSeq(vs, 1, i)), p \o t)
      BY <2>6, <3>1
    <3>3. readResp[p \o t] = Got(vs[i + 1], t)
      <4> HIDE DEF S, Whole, Part, n
      <4> QED
        BY <2>3 DEF Reads
    <3>4. NextItem(readResp, Got(Arr(SubSeq(vs, 1, i)), p \o t)) =
            Got(Arr(Append(SubSeq(vs, 1, i), vs[i + 1])), t)
      <4> DEFINE s == p \o t
                 a == Got(Arr(u), s)
      <4>1. a.v = Arr(u) /\ a.rest = s /\ Arr(u).vs = u
        BY DEF Got, Arr
      <4>2. readResp[s].v = v /\ readResp[s].rest = t
        BY <3>3 DEF Got
      <4>3. ~IsBad(v) /\ ~IsBad(Arr(u))
        BY <2>3, ArrIsGood
      <4> HIDE DEF a, s, u, v, S, Whole, Part, n
      <4>4. NextItem(readResp, a) = Got(Arr(Append(u, v)), t)
        BY <4>1, <4>2, <4>3 DEF NextItem
      <4> QED
        BY <4>4 DEF a, s, u, v
    <3> QED
      <4>1. ReadItems(readResp, i + 1, c \o (p \o t)) = Got(Arr(Append(SubSeq(vs, 1, i), vs[i + 1])), t)
        BY <3>2, <3>4, ItemsStep
      <4> HIDE DEF S, Whole, Part, n
      <4> QED
        BY <2>5, <3>1, <4>1
  <2>9. Part(i + 1)
    <3> SUFFICES ASSUME NEW m \in 0..(Len(c \o p) - 1)
                 PROVE  ReadItems(readResp, i + 1, SubSeq(c \o p, 1, m)) = Got(Eof, <<>>)
      BY <2>4
    <3> DEFINE in == SubSeq(c \o p, 1, m)
    <3>1. ReadItems(readResp, i + 1, in) = NextItem(readResp, ReadItems(readResp, i, in))
      BY ItemsStep
    <3>2. CASE m < Len(c)
      <4>1. m \in 0..Len(c) /\ m \in 0..(Len(c) - 1)
        BY <2>4, <3>2
      <4>2. in = SubSeq(c, 1, m)
        BY <2>4, <4>1, PrefixOfFirst
      <4> HIDE DEF in
      <4>3. ReadItems(readResp, i, in) = Got(Eof, <<>>)
        BY <2>7, <4>1, <4>2
      <4> QED
        BY <3>1, <4>3, EofIsBad DEF NextItem, Got, in
    <3>3. CASE ~(m < Len(c))
      <4> DEFINE k == m - Len(c)
                 q == SubSeq(p, 1, k)
      <4>1. k \in 0..Len(p) /\ k \in 0..(Len(p) - 1) /\ m = Len(c) + k
        BY <2>4, <3>3
      <4>2. in = c \o q /\ q \in Seq(Token)
        <5> HIDE DEF k, S, Whole, Part, n
        <5>1. SubSeq(c \o p, 1, Len(c) + k) = c \o SubSeq(p, 1, k) /\ SubSeq(p, 1, k) \in Seq(Token)
          BY <2>4, <4>1, BytesTogether
        <5> QED
          BY <4>1, <5>1
      <4>3. readResp[q] = Got(Eof, <<>>)
        <5> HIDE DEF k
        <5> QED
          BY <2>3, <4>1 DEF Reads
      <4> HIDE DEF in, q
      <4>4. ReadItems(readResp, i, in) = Got(Arr(SubSeq(vs, 1, i)), q)
        BY <2>6, <4>2
      <4> QED
        BY <3>1, <4>3, <4>4, EofIsBad, ArrIsGood DEF NextItem, Got, in
    <3> QED
      BY <3>2, <3>3
  <2> QED
    BY <2>8, <2>9
<1>4. Whole(n) /\ Part(n)
  <2> HIDE DEF Whole, Part
  <2>1. \A i \in Nat : i \in S
    <3> HIDE DEF S
    <3> QED
      BY <1>2, <1>3, Induct
  <2> QED
    BY <1>0, <2>1
<1> DEFINE h == Header("*", n)
           b == cat[n]
<1>5. h \in Token /\ "prefix" \in DOMAIN h /\ h.prefix = "*" /\ h.n = n
  BY <1>0, Headers DEF Prefix
<1>6. EncodeArray(parts) = <<h>> \o b /\ b \in Seq(Token)
  BY <1>0, <1>1 DEF EncodeArray
<1>7. SubSeq(vs, 1, n) = vs
  BY WholePrefix
<1>8. ASSUME NEW t \in Seq(Token) PROVE ReadItems(readResp, n, b \o t) = Got(Arr(vs), t)
  BY <1>4, <1>7
<1>9. ASSUME NEW m \in 0..(Len(b) - 1) PROVE ReadItems(readResp, n, SubSeq(b, 1, m)) = Got(Eof, <<>>)
  BY <1>4
<1> HIDE DEF h, b, n
<1>10. ASSUME NEW s \in Seq(Token) PROVE readResp[<<h>> \o s] = ReadItems(readResp, n, s)
  <2> DEFINE in == <<h>> \o s
  <2>1. Head(in) = h /\ Tail(in) = s /\ in # <<>> /\ in \in Seq(Token)
    BY <1>5, HeadTail
  <2> HIDE DEF in
  <2>2. readResp[in] = ReadReply(readResp, in)
    BY <2>1, ReadRespExists
  <2>3. ~(n < 0)
    BY <1>0
  <2>4. ReadReply(readResp, in) = ReadItems(readResp, n, s)
    BY <1>5, <2>1, <2>3 DEF ReadReply
  <2> QED
    BY <2>2, <2>4 DEF in
<1> DEFINE w == <<h>> \o b
<1>11. w \in Seq(Token) /\ w # <<>> /\ Len(w) = Len(b) + 1
  BY <1>5, <1>6, HeadTail
<1>12. ASSUME NEW t \in Seq(Token) PROVE readResp[w \o t] = Got(Arr(vs), t)
  <2>1. <<h>> \in Seq(Token)
    BY <1>5
  <2>2. w \o t = <<h>> \o (b \o t) /\ b \o t \in Seq(Token)
    BY <1>6, <2>1, ConcatAssociates
  <2> HIDE DEF w
  <2> QED
    BY <1>8, <1>10, <2>2
<1>13. ASSUME NEW m \in 0..(Len(w) - 1) PROVE readResp[SubSeq(w, 1, m)] = Got(Eof, <<>>)
  <2>1. CASE m = 0
    <3>1. SubSeq(w, 1, 0) = <<>> /\ <<>> \in Seq(Token) /\ Len(<<>>) <= 0
      BY <1>11
    <3> HIDE DEF w
    <3> QED
      BY <2>1, <3>1, ReadRespExists, NothingRead
  <2>2. CASE m # 0
    <3> DEFINE k == m - 1
    <3>1. k \in 0..Len(b) /\ k \in 0..(Len(b) - 1) /\ m = 1 + k /\ <<h>> \in Seq(Token) /\ Len(<<h>>) = 1
      BY <1>5, <1>6, <1>11, <2>2
    <3> HIDE DEF k
    <3>2. SubSeq(w, 1, 1 + k) = <<h>> \o SubSeq(b, 1, k) /\ SubSeq(b, 1, k) \in Seq(Token)
      BY <1>6, <3>1, PrefixOfSecond
    <3> HIDE DEF w
    <3> QED
      BY <1>9, <1>10, <3>1, <3>2
  <2> QED
    BY <2>1, <2>2
<1> HIDE DEF w
<1> QED
  BY <1>6, <1>11, <1>12, <1>13 DEF Reads, w

\* The keys of a finite set in a sequence, each once.
LEMMA SetInSequence ==
  ASSUME NEW T, NEW S \in SUBSET T, IsFiniteSet(S)
  PROVE  LET s == SetToSeq(S)
         IN  s \in Seq(T) /\ IsInjective(s) /\ Range(s) = S
<1> DEFINE n == Cardinality(S)
           s == SetToSeq(S)
<1>1. n \in Nat /\ ExistsBijection(1..n, S)
  BY FS_CardinalityType
<1>2. \E f \in [1..n -> S] : IsInjective(f)
  BY <1>1 DEF ExistsBijection, Bijection, Injection
<1>3. s \in [1..n -> S] /\ IsInjective(s)
  BY <1>2 DEF SetToSeq
<1>4. Range(s) = S
  <2>1. s \in Injection(1..n, S)
    <3> HIDE DEF s, n
    <3> QED
      BY <1>3 DEF Injection
  <2>2. IsFiniteSet(1..n) /\ Cardinality(1..n) = n
    <3>1. 1 \in Int /\ n \in Int
      BY <1>1
    <3> HIDE DEF n
    <3> QED
      BY <1>1, <3>1, FS_Interval
  <2>3. s \in Surjection(1..n, S)
    <3> HIDE DEF s
    <3> QED
      BY <2>1, <2>2, FS_Injection
  <2> HIDE DEF s, n
  <2> QED
    BY <1>3, <2>3 DEF Surjection, Range
<1> HIDE DEF s, n
<1>5. s \in Seq(T)
  BY <1>1, <1>3
<1> QED
  BY <1>3, <1>4, <1>5 DEF s

-----------------------------------------------------------------------------
(* The replies of the server.                                              *)

\* Arrays of what does not nest, and what may be an element of a reply.
Flat == [type : {"array"}, vs : Seq(Plain)]
Element == Plain \cup Flat
Reply == Plain \cup [type : {"array"}, vs : Seq(Element)]

\* No such value is an error of readResp or an array.
LEMMA PlainFacts ==
  \A v \in Plain : ~IsBad(v) /\ v.type # "array" /\ v # Eof /\ v.type \in {"respErr", "nil", "int64", "string"}
BY DEF Plain, IsBad, RespErr, NilValue, ReadErr, Eof

\* An array is none either.
LEMMA ArrFacts ==
  ASSUME NEW E, NEW v \in [type : {"array"}, vs : Seq(E)]
  PROVE  v = Arr(v.vs) /\ v.vs \in Seq(E) /\ v.type = "array" /\ ~IsBad(v) /\ v # Eof
<1>1. v = Arr(v.vs) /\ v.vs \in Seq(E) /\ v.type = "array"
  BY DEF Arr
<1> QED
  BY <1>1 DEF IsBad, ReadErr, Eof

\* Each of them is read as it was sent.
LEMMA FlatReads == ASSUME NEW v \in Flat PROVE Reads(EncodeFlat(v), v)
<1> DEFINE parts == [i \in DOMAIN v.vs |-> EncodePlain(v.vs[i])]
           xs == v.vs
<1>1. v = Arr(xs) /\ xs \in Seq(Plain) /\ v.type = "array"
  BY ArrFacts DEF Flat
<1>2. ASSUME NEW i \in 1..Len(xs) PROVE Reads(EncodePlain(xs[i]), xs[i]) /\ ~IsBad(xs[i])
  <2>1. xs[i] \in Plain
    BY <1>1
  <2> QED
    BY <2>1, PlainReads, PlainFacts
<1>3. \A i \in 1..Len(xs) : EncodePlain(xs[i]) \in Seq(Token)
  BY <1>2 DEF Reads
<1>4. DOMAIN xs = 1..Len(xs) /\ Len(xs) \in Nat
  BY <1>1
<1>5. parts \in Seq(Seq(Token)) /\ Len(parts) = Len(xs) /\ \A i \in 1..Len(xs) : parts[i] = EncodePlain(xs[i])
  <2> HIDE DEF xs
  <2>1. parts = [i \in 1..Len(xs) |-> EncodePlain(xs[i])]
    BY <1>4 DEF xs
  <2> HIDE DEF parts
  <2>2. parts \in [1..Len(xs) -> Seq(Token)] /\ \A i \in 1..Len(xs) : parts[i] = EncodePlain(xs[i])
    BY <1>3, <2>1
  <2> QED
    BY <1>4, <2>2
<1>6. EncodeFlat(v) = EncodeArray(parts)
  BY <1>1 DEF EncodeFlat
<1> HIDE DEF parts, xs
<1>7. Reads(EncodeArray(parts), Arr(xs))
  BY <1>1, <1>2, <1>5, ArrayReads
<1> QED
  BY <1>1, <1>6, <1>7

\* An element is read as it was sent.
LEMMA ElementReads == ASSUME NEW v \in Element PROVE Reads(EncodeFlat(v), v) /\ ~IsBad(v)
<1>1. CASE v \in Plain
  <2>1. EncodeFlat(v) = EncodePlain(v)
    BY <1>1, PlainFacts DEF EncodeFlat
  <2> QED
    BY <1>1, <2>1, PlainReads, PlainFacts
<1>2. CASE v \in Flat
  <2>1. ~IsBad(v)
    BY <1>2, ArrFacts DEF Flat
  <2> QED
    BY <1>2, <2>1, FlatReads
<1> QED
  BY <1>1, <1>2 DEF Element

\* Every reply is read as it was sent, whatever follows it, and the end is read from
\* any part of it.
THEOREM ReplyReads == ASSUME NEW v \in Reply PROVE Reads(Encode(v), v) /\ v # Eof
<1>1. CASE v \in Plain
  <2>1. Encode(v) = EncodePlain(v)
    BY <1>1, PlainFacts DEF Encode
  <2> QED
    BY <1>1, <2>1, PlainReads, PlainFacts
<1>2. CASE v \in [type : {"array"}, vs : Seq(Element)]
  <2> DEFINE parts == [i \in DOMAIN v.vs |-> EncodeFlat(v.vs[i])]
             xs == v.vs
  <2>1. v = Arr(xs) /\ xs \in Seq(Element) /\ v.type = "array" /\ v # Eof
    BY <1>2, ArrFacts
  <2>2. ASSUME NEW i \in 1..Len(xs) PROVE Reads(EncodeFlat(xs[i]), xs[i]) /\ ~IsBad(xs[i])
    <3>1. xs[i] \in Element
      BY <2>1
    <3> QED
      BY <3>1, ElementReads
  <2>3. \A i \in 1..Len(xs) : EncodeFlat(xs[i]) \in Seq(Token)
    BY <2>2 DEF Reads
  <2>4. DOMAIN xs = 1..Len(xs) /\ Len(xs) \in Nat
    BY <2>1
  <2>5. parts \in Seq(Seq(Token)) /\ Len(parts) = Len(xs) /\ \A i \in 1..Len(xs) : parts[i] = EncodeFlat(xs[i])
    <3> HIDE DEF xs
    <3>1. parts = [i \in 1..Len(xs) |-> EncodeFlat(xs[i])]
      BY <2>4 DEF xs
    <3> HIDE DEF parts
    <3>2. parts \in [1..Len(xs) -> Seq(Token)] /\ \A i \in 1..Len(xs) : parts[i] = EncodeFlat(xs[i])
      BY <2>3, <3>1
    <3> QED
      BY <2>4, <3>2
  <2>6. Encode(v) = EncodeArray(parts)
    BY <2>1 DEF Encode
  <2> HIDE DEF parts, xs
  <2>7. Reads(EncodeArray(parts), Arr(xs))
    BY <2>1, <2>2, <2>5, ArrayReads
  <2> QED
    BY <2>1, <2>6, <2>7
<1> QED
  BY <1>1, <1>2 DEF Reply

\* PONG is read and nothing is left.
LEMMA StatusRead == readResp[Encode(Status)].rest = <<>>
<1> DEFINE h == Header("+", 0)
<1>1. h \in Token /\ "prefix" \in DOMAIN h /\ h.prefix = "+"
  BY Headers DEF Prefix
<1>2. Encode(Status) = <<h>>
  BY DEF Encode, EncodePlain, Status
<1> HIDE DEF h
<1>3. Head(<<h>>) = h /\ Tail(<<h>>) = <<>> /\ <<h>> # <<>> /\ <<h>> \in Seq(Token)
  BY <1>1
<1>4. readResp[<<h>>] = ReadReply(readResp, <<h>>)
  BY <1>3, ReadRespExists
<1>5. ReadReply(readResp, <<h>>) = Got(Str(<<"PONG">>), <<>>)
  BY <1>1, <1>3 DEF ReadReply
<1> QED
  BY <1>2, <1>4, <1>5 DEF Got

\* A command whose reply the client reads when nothing is left of earlier ones.
LEMMA DoReads ==
  ASSUME NEW r \in Reply, Do(r), unread = <<>>
  PROVE  /\ told' = TRUE /\ unread' = <<>> /\ Asking
         /\ \/ link = "up" /\ link' = "up" /\ got' = r
            \/ link' = "broken" /\ got' = Eof
<1> DEFINE w == Encode(r)
<1>1. Reads(w, r) /\ r # Eof
  BY ReplyReads
<1>2. w \in Seq(Token) /\ w # <<>> /\ Len(w) \in Nat /\ Len(w) # 0
  BY <1>1 DEF Reads
<1>3. PICK n \in IF link = "up" THEN 0..Len(w) ELSE {0} :
        LET read == readResp[unread \o SubSeq(w, 1, n)]
        IN  /\ got' = read.v
            /\ unread' = read.rest
            /\ link' = IF n < Len(w) THEN "broken" ELSE IF read.v = Eof THEN "waiting" ELSE "up"
  BY DEF Do
<1>4. told' = TRUE /\ Asking
  BY DEF Do
<1> HIDE DEF w
<1>5. n \in 0..Len(w)
  BY <1>2, <1>3
<1> DEFINE s == SubSeq(w, 1, n)
<1>6. s \in Seq(Token) /\ <<>> \o s = s
  BY <1>2, <1>5
<1>7. LET read == readResp[s]
      IN  /\ got' = read.v /\ unread' = read.rest
          /\ link' = IF n < Len(w) THEN "broken" ELSE IF read.v = Eof THEN "waiting" ELSE "up"
  BY <1>3, <1>6
<1>8. CASE n < Len(w)
  <2>1. n \in 0..(Len(w) - 1)
    BY <1>2, <1>5, <1>8
  <2>2. readResp[s] = Got(Eof, <<>>)
    BY <1>1, <2>1 DEF Reads
  <2> QED
    BY <1>4, <1>7, <1>8, <2>2 DEF Got
<1>9. CASE ~(n < Len(w))
  <2>1. n = Len(w) /\ link = "up"
    BY <1>2, <1>3, <1>5, <1>9
  <2>2. s = w /\ w \o <<>> = w /\ <<>> \in Seq(Token)
    BY <1>2, <2>1
  <2>3. readResp[s] = Got(r, <<>>)
    BY <1>1, <2>2 DEF Reads
  <2> QED
    BY <1>1, <1>4, <1>7, <1>9, <2>1, <2>3 DEF Got
<1> QED
  BY <1>8, <1>9

-----------------------------------------------------------------------------
(* LinkInv: replies are of the commands they answer.                        *)

\* An element of a sequence.
LEMMA ElementOf == ASSUME NEW T, NEW s \in Seq(T), NEW i \in DOMAIN s PROVE s[i] \in T
OBVIOUS

\* toString of what HMGET and SCAN return, and which values are elements.
LEMMA StrFacts ==
  /\ \A t \in Text : Str(t) \in Plain /\ toString(Str(t)) = t
  /\ \A n \in Int : Int64(n) \in Plain
  /\ RespErr \in Plain /\ NilValue \in Plain
  /\ Plain \subseteq Reply /\ Plain \subseteq Element
  /\ Zero \in Text /\ More \in Text /\ Zero # More
<1>1. \A t \in Text : Str(t) \in Plain /\ toString(Str(t)) = t
  BY DEF Str, toString, Plain
<1>2. \A n \in Int : Int64(n) \in Plain
  BY DEF Plain, Int64
<1>3. RespErr \in Plain /\ NilValue \in Plain
  BY DEF Plain
<1>4. Plain \subseteq Reply /\ Plain \subseteq Element
  BY DEF Reply, Element
<1>5. Zero \in Text /\ More \in Text
  BY CursorsAssumption
<1>6. Zero # More
  <2>1. Zero[1] = "0" /\ More[1] = "7"
    BY DEF Zero, More
  <2>2. "0" # "7"
    OBVIOUS
  <2> QED
    BY <2>1, <2>2
<1> QED
  BY <1>1, <1>2, <1>3, <1>4, <1>5, <1>6

\* Functions on 1..n, and pairs, are sequences.
LEMMA FunctionSeq == ASSUME NEW T, NEW n \in Nat, NEW f \in [1..n -> T] PROVE f \in Seq(T) /\ Len(f) = n
OBVIOUS

LEMMA PairSeq == ASSUME NEW T, NEW a \in T, NEW b \in T
                 PROVE  <<a, b>> \in Seq(T) /\ Len(<<a, b>>) = 2 /\ <<a, b>>[1] = a /\ <<a, b>>[2] = b
OBVIOUS

\* A page as the server sends it and the client takes it apart.
LEMMA PageFacts ==
  ASSUME NEW c \in Text, NEW names \in Seq(Key)
  PROVE  LET p == Page(c, names)
         IN  /\ p \in Reply /\ p.type = "array" /\ Len(p.vs) = 2 /\ p.vs[2].type = "array"
             /\ toString(p.vs[1]) = c
             /\ [i \in DOMAIN p.vs[2].vs |-> toString(p.vs[2].vs[i])] = names
<1> DEFINE found == [i \in DOMAIN names |-> Str(names[i])]
           p == Page(c, names)
<1>0. DOMAIN names = 1..Len(names) /\ Len(names) \in Nat /\ \A i \in DOMAIN names : names[i] \in Text
  BY DEF Key
<1>1. found \in Seq(Plain)
  <2>1. \A i \in DOMAIN names : Str(names[i]) \in Plain
    BY <1>0, StrFacts
  <2>2. found \in [1..Len(names) -> Plain]
    BY <1>0, <2>1
  <2> HIDE DEF found
  <2> QED
    BY <1>0, <2>2
<1>2. Arr(found) \in Element /\ Str(c) \in Element
  <2> HIDE DEF found
  <2>1. Arr(found) \in Flat
    BY <1>1 DEF Arr, Flat
  <2> QED
    BY <2>1, StrFacts DEF Element
<1>3. p = Arr(<<Str(c), Arr(found)>>)
  BY DEF Page
<1>4. [i \in DOMAIN found |-> toString(found[i])] = names
  <2>1. \A i \in DOMAIN names : toString(Str(names[i])) = names[i]
    BY <1>0, StrFacts
  <2>2. [i \in DOMAIN found |-> toString(found[i])] = [i \in DOMAIN names |-> names[i]]
    BY <2>1
  <2> HIDE DEF found
  <2> QED
    BY <2>2
<1> HIDE DEF found, p
<1>5. p.vs = <<Str(c), Arr(found)>> /\ p.type = "array"
  BY <1>3 DEF Arr
<1>6. p.vs \in Seq(Element) /\ Len(p.vs) = 2 /\ p.vs[1] = Str(c) /\ p.vs[2] = Arr(found)
  BY <1>2, <1>5, PairSeq
<1>7. p \in Reply
  BY <1>3, <1>5, <1>6 DEF Reply, Arr
<1>8. p.vs[2].type = "array" /\ p.vs[2].vs = found
  BY <1>6 DEF Arr
<1> QED
  BY <1>4, <1>5, <1>6, <1>7, <1>8, StrFacts DEF p

\* A hash as the server sends it.
LEMMA HashFacts ==
  /\ Hash(NilValue, NilValue) \in HashValue
  /\ \A v \in HashValue : v \in Reply /\ v.type = "array" /\ Len(v.vs) = 2 /\ ~IsErr(v) /\ v # Int64(1)
                          /\ toString(v.vs[1]) \in Text /\ toString(v.vs[2]) \in Text
<1>0. Field \subseteq Plain /\ \A f \in Field : toString(f) \in Text
  BY DEF Field, Plain, toString, NilValue, Text
<1>1. Hash(NilValue, NilValue) \in HashValue
  <2>1. NilValue \in Field
    BY DEF Field
  <2>2. <<NilValue, NilValue>> \in [1..2 -> Field]
    BY <2>1
  <2> QED
    BY <2>2 DEF Hash, HashValue, Arr
<1>2. ASSUME NEW v \in HashValue
      PROVE  v \in Reply /\ v.type = "array" /\ Len(v.vs) = 2 /\ ~IsErr(v) /\ v # Int64(1)
             /\ toString(v.vs[1]) \in Text /\ toString(v.vs[2]) \in Text
  <2>1. v.vs \in [1..2 -> Field] /\ v.type = "array"
    BY DEF HashValue
  <2>2. v.vs \in Seq(Element) /\ Len(v.vs) = 2
    <3>1. \A i \in 1..2 : v.vs[i] \in Element
      BY <1>0, <2>1, StrFacts
    <3> DEFINE w == v.vs
    <3>2. w \in [1..2 -> Element]
      BY <2>1, <3>1
    <3> HIDE DEF w
    <3>3. w \in Seq(Element) /\ Len(w) = 2
      <4>1. 2 \in Nat
        OBVIOUS
      <4> QED
        BY <3>2, <4>1, FunctionSeq
    <3> QED
      BY <3>3 DEF w
  <2>3. v \in Reply
    BY <2>2 DEF Reply, HashValue
  <2>4. v.vs[1] \in Field /\ v.vs[2] \in Field
    BY <2>1
  <2>5. ~IsErr(v) /\ v # Int64(1)
    BY <2>1 DEF IsErr, RespErr, ReadErr, Eof, Int64
  <2> QED
    BY <1>0, <2>1, <2>2, <2>3, <2>4, <2>5
<1> QED
  BY <1>1, <1>2

\* The replies of DEL and HSET, and errors.
LEMMA SmallReplies ==
  /\ Int64(1) \in Reply /\ RespErr \in Reply
  /\ Int64(1) \notin {RespErr, Eof} /\ IsErr(RespErr) /\ IsErr(Eof) /\ ~IsErr(Int64(1))
BY StrFacts DEF Int64, RespErr, Eof, IsErr, ReadErr

\* The parts of LinkInv that a command leaves alone.
OnlyReplies == UNCHANGED <<source, replace, pc, scanVars, fileVars, ignored, flowVars>>

\* The lines of the output depend on the shard file only.
LEMMA OutLinesKept == ASSUME lines' = lines PROVE OutLines' = OutLines
BY DEF OutLines, Out, Biz, LinesOf

\* A step that leaves the files alone keeps Files.
LEMMA FilesKept == ASSUME Files, UNCHANGED <<pc, page, lines, outs>> PROVE Files'
BY OutLinesKept DEF Files

\* A page has been asked for.
LEMMA ScanStep ==
  ASSUME Connection, NEW db, IsFiniteSet(db), db \subseteq Key, DoScan(db)
  PROVE  /\ told' = TRUE /\ unread' = <<>> /\ link' \in {"up", "broken"} /\ Asking
         /\ target' = target /\ OnlyReplies
         /\ got' = Eof \/ IsPage(db)'
<1>1. PICK keys \in SUBSET db, more \in BOOLEAN :
        LET names == SetToSeq(keys)
            found == Arr([i \in DOMAIN names |-> Str(names[i])])
        IN  /\ more => pages + 1 < MaxPages
            /\ ~more => db \subseteq seen \cup keys
            /\ Do(Arr(<<Str(IF more THEN More ELSE Zero), found>>))
  BY DEF DoScan
<1> DEFINE names == SetToSeq(keys)
           c == IF more THEN More ELSE Zero
           r == Page(c, names)
<1>2. names \in Seq(Key) /\ IsInjective(names) /\ Range(names) = keys
  <2>1. IsFiniteSet(keys) /\ keys \in SUBSET Key
    BY FS_Subset
  <2> QED
    BY <2>1, SetInSequence
<1>3. Do(r) /\ (c = Zero => db \subseteq seen \cup keys)
  BY <1>1, StrFacts DEF Page
<1> HIDE DEF names, c
<1>4. c \in Text /\ c \in {Zero, More}
  BY StrFacts DEF c
<1>5. r \in Reply /\ [i \in DOMAIN r.vs[2].vs |-> toString(r.vs[2].vs[i])] = names
  BY <1>2, <1>4, PageFacts
<1> HIDE DEF r
<1>6. told' = TRUE /\ unread' = <<>> /\ Asking /\ (got' = r \/ got' = Eof) /\ link' \in {"up", "broken"}
  BY <1>3, <1>5, DoReads DEF Connection
<1>7. UNCHANGED <<serverVars, pc, scanVars, fileVars, ignored, flowVars>>
  BY DEF DoScan
<1>8. target' = target /\ OnlyReplies /\ seen' = seen
  BY <1>7 DEF serverVars, scanVars, OnlyReplies
<1>9. got' = r => IsPage(db)'
  <2> SUFFICES ASSUME got' = r PROVE IsPage(db)'
    OBVIOUS
  <2>1. Names' = names
    BY <1>5 DEF Names
  <2>2. got' = Page(c, Names') /\ Names' \in Seq(Key) /\ IsInjective(Names')
    BY <1>2, <2>1 DEF r
  <2>3. c = Zero => db \subseteq seen' \cup Range(Names')
    BY <1>2, <1>3, <1>8, <2>1
  <2> QED
    BY <1>4, <2>2, <2>3 DEF IsPage
<1> QED
  BY <1>6, <1>8, <1>9

\* HMGET, DEL and HSET, or any command that is refused.
LEMMA OneReply ==
  ASSUME Connection, NEW r \in Reply, Do(r),
         UNCHANGED <<source, replace, pc, scanVars, fileVars, ignored, flowVars>>
  PROVE  /\ told' = TRUE /\ unread' = <<>> /\ link' \in {"up", "broken"} /\ Asking /\ OnlyReplies
         /\ (link = "up" /\ got' = r) \/ got' = Eof
BY DoReads DEF Connection, OnlyReplies

\* What is known before a command is known after it.
LEMMA KeptFacts ==
  ASSUME LinkInv, Asking, OnlyReplies, told' = TRUE, unread' = <<>>, link' \in {"up", "broken"},
         DOMAIN target' \subseteq Key, IsFiniteSet(DOMAIN target'),
         target' = [k \in DOMAIN target' |-> target'[k]],
         \/ got' \in {RespErr, Eof}
         \/ pc = "scan" /\ IsPage(DOMAIN source)'
         \/ pc = "delScan" /\ IsPage(DOMAIN target)'
         \/ /\ pc = "keys" /\ got' \in HashValue
            /\ Head(page) \in DOMAIN source => source[Head(page)] = got'
         \/ pc = "del" /\ got' = Int64(1) /\ Head(page) \notin DOMAIN target'
         \/ pc = "set" /\ got' = Int64(1)
  PROVE  LinkInv'
<1>1. UNCHANGED <<source, pc, page, lines, outs, seen>>
  BY DEF OnlyReplies, scanVars, fileVars
<1>2. Files'
  BY <1>1, FilesKept DEF LinkInv
<1>3. Tables'
  BY <1>1 DEF LinkInv, Tables
<1>4. Replied'
  BY <1>1 DEF Replied, Asking
<1> QED
  BY <1>2, <1>3, <1>4 DEF LinkInv, Connection, Links

\* What the client sets.
SetKey == <<Head(outs)[1]>>

\* It is a key.
LEMMA SetKeyIsKey ==
  ASSUME Files, outs # <<>>, Len(Head(outs)) >= 2
  PROVE  SetKey \in Key
<1>1. Head(outs) \in OutLines
  BY DEF Files
<1>2. PICK b \in Biz : Head(outs) = Out(b)
  BY <1>1 DEF OutLines
<1>3. b \in Text
  <2>1. PICK i \in DOMAIN lines : lines[i].biz = b
    BY DEF Biz
  <2>2. lines[i] \in [key : Key, biz : Text]
    BY ElementOf DEF Files
  <2> QED
    BY <2>1, <2>2
<1> DEFINE x == ToString(LinesOf(b))
<1>4. Head(outs) = Append(b, x)
  BY <1>2 DEF Out
<1> HIDE DEF x
<1>5. b \in Seq(Word) /\ Len(Append(b, x)) = Len(b) + 1
  BY <1>3 DEF Text
<1>6. Len(b) >= 1 /\ Append(b, x)[1] = b[1] /\ b[1] \in Word
  BY <1>4, <1>5
<1>7. <<b[1]>> \in Seq(Word) /\ <<b[1]>> # <<>>
  BY <1>6
<1> QED
  BY <1>4, <1>6, <1>7 DEF SetKey, Key, Text

\* A command: what it changes of the tables, and that the connection stays in step.
LEMMA CommandStep ==
  ASSUME LinkInv, Command
  PROVE  /\ LinkInv' /\ OnlyReplies /\ told' = TRUE /\ Asking
         /\ \/ target' = target /\ (pc = "set" => got' # Int64(1))
            \/ pc = "del" /\ page # <<>> /\ target' = [l \in DOMAIN target \ {Head(page)} |-> target[l]]
            \/ pc = "set" /\ outs # <<>> /\ target' = Put(target, SetKey, Head(outs)[2])
<1> USE DEF LinkInv
<1>1. CASE pc = "scan" /\ DoScan(DOMAIN source)
  <2>1. DOMAIN source \subseteq Key
    BY DEF Tables
  <2>2. /\ told' = TRUE /\ unread' = <<>> /\ link' \in {"up", "broken"} /\ Asking
        /\ target' = target /\ OnlyReplies
        /\ got' = Eof \/ IsPage(DOMAIN source)'
    <3>1. UNCHANGED source
      BY <1>1 DEF DoScan, serverVars
    <3> QED
      BY <1>1, <2>1, <3>1, ScanStep DEF Tables, IsPage
  <2> QED
    BY <1>1, <2>2, KeptFacts DEF Tables
<1>2. CASE pc = "keys" /\ page # <<>> /\ DoHMGet(Head(page))
  <2> DEFINE k == Head(page)
             r == IF k \notin DOMAIN source THEN Hash(NilValue, NilValue)
                  ELSE IF source[k] = NotAHash THEN RespErr ELSE source[k]
  <2>1. r \in HashValue \cup {RespErr} /\ (k \in DOMAIN source => r \in {RespErr, source[k]})
    BY HashFacts DEF Tables
  <2>2. Do(r)
    BY <1>2 DEF DoHMGet
  <2> HIDE DEF r, k
  <2>3. r \in Reply
    BY <2>1, HashFacts, SmallReplies
  <2>4. UNCHANGED <<serverVars, pc, scanVars, fileVars, ignored, flowVars>>
    BY <1>2 DEF DoHMGet
  <2>5. UNCHANGED <<source, replace, pc, scanVars, fileVars, ignored, flowVars>> /\ target' = target
    BY <2>4 DEF serverVars
  <2>6. /\ told' = TRUE /\ unread' = <<>> /\ link' \in {"up", "broken"} /\ Asking /\ OnlyReplies
        /\ (link = "up" /\ got' = r) \/ got' = Eof
    BY <2>2, <2>3, <2>5, OneReply
  <2>7. LinkInv'
    BY <1>2, <2>1, <2>5, <2>6, KeptFacts DEF Tables, k
  <2> QED
    BY <1>2, <2>5, <2>6, <2>7
<1>3. CASE pc = "delScan" /\ DoScan(DOMAIN target)
  <2>1. DOMAIN target \subseteq Key
    BY DEF Tables
  <2>2. /\ told' = TRUE /\ unread' = <<>> /\ link' \in {"up", "broken"} /\ Asking
        /\ target' = target /\ OnlyReplies
        /\ got' = Eof \/ IsPage(DOMAIN target)'
    <3>1. UNCHANGED target
      BY <1>3 DEF DoScan, serverVars
    <3> QED
      BY <1>3, <2>1, <3>1, ScanStep DEF Tables, IsPage
  <2> QED
    BY <1>3, <2>2, KeptFacts DEF Tables
<1>4. CASE pc = "del" /\ page # <<>> /\ DoDel(Head(page))
  <2> DEFINE k == Head(page)
  <2>1. /\ Do(Int64(1)) /\ UNCHANGED <<source, replace, pc, scanVars, fileVars, ignored, flowVars>>
        /\ target' = IF link = "up" THEN [l \in DOMAIN target \ {k} |-> target[l]] ELSE target
    BY <1>4 DEF DoDel
  <2> HIDE DEF k
  <2>2. /\ told' = TRUE /\ unread' = <<>> /\ link' \in {"up", "broken"} /\ Asking /\ OnlyReplies
        /\ (link = "up" /\ got' = Int64(1)) \/ got' = Eof
    BY <2>1, OneReply, SmallReplies
  <2>3. DOMAIN target' \subseteq Key /\ IsFiniteSet(DOMAIN target') /\ target' = [l \in DOMAIN target' |-> target'[l]]
    BY <2>1, FS_RemoveElement DEF Tables
  <2>4. link = "up" => k \notin DOMAIN target'
    BY <2>1
  <2>5. LinkInv'
    BY <1>4, <2>2, <2>3, <2>4, KeptFacts DEF k
  <2> QED
    BY <1>4, <2>1, <2>2, <2>5 DEF k
<1>5. CASE pc = "set" /\ outs # <<>> /\ Len(Head(outs)) >= 2 /\ DoHSet(<<Head(outs)[1]>>, Head(outs)[2])
  <2> DEFINE k == SetKey
             val == Head(outs)[2]
  <2>1. /\ Do(Int64(1)) /\ UNCHANGED <<source, replace, pc, scanVars, fileVars, ignored, flowVars>>
        /\ target' = IF link = "up" THEN Put(target, k, val) ELSE target
    BY <1>5 DEF DoHSet, SetKey
  <2>2. k \in Key
    BY <1>5, SetKeyIsKey
  <2> HIDE DEF k, val
  <2>3. /\ told' = TRUE /\ unread' = <<>> /\ link' \in {"up", "broken"} /\ Asking /\ OnlyReplies
        /\ (link = "up" /\ got' = Int64(1)) \/ got' = Eof
    BY <2>1, OneReply, SmallReplies
  <2>4. DOMAIN target' \subseteq Key /\ IsFiniteSet(DOMAIN target') /\ target' = [l \in DOMAIN target' |-> target'[l]]
    BY <2>1, <2>2, FS_AddElement DEF Tables, Put
  <2>5. LinkInv'
    BY <1>5, <2>3, <2>4, KeptFacts
  <2>6. Eof # Int64(1)
    BY SmallReplies
  <2> QED
    BY <1>5, <2>1, <2>3, <2>5, <2>6 DEF k, val
<1>6. CASE DoRefused
  <2>1. Do(RespErr) /\ UNCHANGED <<serverVars, pc, scanVars, fileVars, ignored, flowVars>>
    BY <1>6 DEF DoRefused
  <2>2. UNCHANGED <<source, replace, pc, scanVars, fileVars, ignored, flowVars>> /\ target' = target
    BY <2>1 DEF serverVars
  <2>3. /\ told' = TRUE /\ unread' = <<>> /\ link' \in {"up", "broken"} /\ Asking /\ OnlyReplies
        /\ got' = RespErr \/ got' = Eof
    BY <2>1, <2>2, OneReply, SmallReplies
  <2>4. LinkInv'
    BY <2>2, <2>3, KeptFacts DEF Tables
  <2> QED
    BY <2>2, <2>3, <2>4, SmallReplies
<1> QED
  BY <1>1, <1>2, <1>3, <1>4, <1>5, <1>6 DEF Command

\* A line of the shard file.
Line == [key : Key, biz : Text]

\* The line for a hash.
LEMMA LineFacts ==
  ASSUME NEW k \in Key, NEW v \in HashValue
  PROVE  \/ toString(v.vs[2]) = <<>> /\ LineOf(k, v) = <<>>
         \/ toString(v.vs[2]) # <<>> /\ \E l \in Line : l.key = k /\ LineOf(k, v) = <<l>>
<1> DEFINE biz == toString(v.vs[1])
           l == [key |-> k, biz |-> IF biz = <<>> THEN k ELSE biz]
<1>1. v.type = "array" /\ Len(v.vs) = 2 /\ biz \in Text
  BY HashFacts
<1>2. l \in Line /\ l.key = k
  BY <1>1 DEF Line, Key
<1>3. LineOf(k, v) = IF toString(v.vs[2]) = <<>> THEN <<>> ELSE <<l>>
  <2>1. ~(v.type # "array" \/ Len(v.vs) < 2)
    BY <1>1
  <2> QED
    BY <2>1 DEF LineOf
<1> HIDE DEF l
<1> QED
  BY <1>2, <1>3

\* Nobody waits for an answer outside of do.
LEMMA NotTold ==
  ASSUME Connection, \/ pc \in {"open", "count", "openSink", "ok", "failed"}
                     \/ pc \in {"keys", "del"} /\ page = <<>>
                     \/ pc = "set" /\ outs = <<>>
  PROVE  told = FALSE
BY DEF Connection, Replied

\* A page is taken, or the function returns with its error.
LEMMA TakePageStep ==
  ASSUME NEW from, NEW to, NEW db, TakePage(from, to), IsPage(db) \/ got \in {RespErr, Eof}
  PROVE  \/ /\ GoTo(from, to) /\ Told /\ IsPage(db)
            /\ page' = Names /\ Names \in Seq(Key) /\ IsInjective(Names)
            /\ seen' = seen \cup Range(Names)
            /\ cursor' = Zero => db \subseteq seen'
         \/ GoTo(from, "failed") /\ Close /\ UNCHANGED <<cursor, page, pages, seen>>
<1>1. CASE got \in {RespErr, Eof}
  <2>1. got.type # "array"
    BY <1>1 DEF RespErr, Eof
  <2> QED
    BY <2>1 DEF TakePage
<1>2. CASE IsPage(db)
  <2>1. PICK c \in {Zero, More} :
          /\ got = Page(c, Names) /\ Names \in Seq(Key) /\ IsInjective(Names)
          /\ c = Zero => db \subseteq seen \cup Range(Names)
    BY <1>2 DEF IsPage
  <2>2. c \in Text
    BY StrFacts
  <2>3. got.type = "array" /\ Len(got.vs) = 2 /\ got.vs[2].type = "array" /\ toString(got.vs[1]) = c
    <3> DEFINE names == Names
    <3> HIDE DEF names
    <3>1. names \in Seq(Key) /\ got = Page(c, names)
      BY <2>1 DEF names
    <3> QED
      BY <2>2, <3>1, PageFacts
  <2>4. GoTo(from, to) /\ Told /\ cursor' = c /\ page' = Names /\ seen' = seen \cup Range(page')
    BY <2>3 DEF TakePage, Names
  <2> QED
    BY <1>2, <2>1, <2>4
<1> QED
  BY <1>1, <1>2

\* A step after which no answer waits.
LEMMA Quiet ==
  ASSUME LinkInv, UNCHANGED <<source, target>>, Files', unread' = <<>>,
         link' \in Links \ {"waiting"}, told' = FALSE
  PROVE  LinkInv'
BY DEF LinkInv, Tables, Connection

\* The files when the job has not run, and when the shard file stays as it is.
LEMMA FilesEmpty ==
  ASSUME page' \in Seq(Key), lines' \in Seq(Line), outs' = <<>>
  PROVE  Files'
BY DEF Files, Line

LEMMA FilesSame ==
  ASSUME Files, page' \in Seq(Key), lines' = lines, outs' = outs,
         pc' \in {"open", "scan", "keys", "count"} => pc \in {"open", "scan", "keys", "count"}
  PROVE  Files'
<1>1. OutLines' = OutLines
  BY OutLinesKept
<1> QED
  BY <1>1 DEF Files

\* There are as many business keys as lines at most.
LEMMA BizFinite == ASSUME lines \in Seq(Line) PROVE IsFiniteSet(Biz) /\ Biz \subseteq Text
<1> DEFINE D == DOMAIN lines
           f == [i \in D |-> lines[i].biz]
<1>1. D = 1..Len(lines) /\ Len(lines) \in Nat
  OBVIOUS
<1>2. IsFiniteSet(D)
  <2>1. 1 \in Int /\ Len(lines) \in Int
    BY <1>1
  <2> QED
    BY <1>1, <2>1, FS_Interval
<1>3. f \in Surjection(D, Biz)
  BY DEF Surjection, Biz
<1>4. IsFiniteSet(Biz)
  <2> HIDE DEF f, D
  <2> QED
    BY <1>2, <1>3, FS_Surjection
<1>5. \A i \in D : lines[i].biz \in Text
  <2>1. \A i \in D : lines[i] \in Line
    BY ElementOf
  <2> QED
    BY <2>1 DEF Line
<1> QED
  BY <1>4, <1>5 DEF Biz

\* The rest of a sequence.
LEMMA TailSeq ==
  ASSUME NEW T, NEW s \in Seq(T), s # <<>>
  PROVE  /\ Tail(s) \in Seq(T) /\ Head(s) \in T /\ Len(Tail(s)) = Len(s) - 1
         /\ \A i \in 1..Len(Tail(s)) : Tail(s)[i] = s[i + 1]
OBVIOUS

\* What opening, closing and going on do to the connection.
LEMMA LinkStates == /\ \A l \in {"closed", "up", "broken", "stalled"} : l \in Links \ {"waiting"}
                /\ Links \ {"waiting"} = {"closed", "up", "broken", "stalled"}
BY DEF Links

\* LinkInv is kept by each step of the client.
LEMMA ClientLink == ASSUME LinkInv, Client PROVE LinkInv'
<1> USE DEF LinkInv
<1>0. /\ unread = <<>> /\ link \in Links \ {"waiting"} /\ page \in Seq(Key) /\ lines \in Seq(Line)
      /\ told = TRUE => Replied
      /\ Close => unread' = <<>> /\ link' \in Links \ {"waiting"} /\ told' = FALSE
      /\ Told => unread' = <<>> /\ link' \in Links \ {"waiting"} /\ told' = FALSE
      /\ openRedis => unread' = <<>> /\ link' \in Links \ {"waiting"} /\ told' = told
      /\ UNCHANGED linkVars => unread' = <<>> /\ link' \in Links \ {"waiting"} /\ told' = told
      /\ UNCHANGED serverVars => UNCHANGED <<source, target>>
      /\ UNCHANGED scanVars => page' = page
      /\ UNCHANGED fileVars => UNCHANGED <<lines, outs>>
  BY LinkStates, StatusRead DEF Connection, Files, Line, Close, Told, openRedis, linkVars,
    serverVars, scanVars, fileVars
<1>1. CASE OpenSource
  <2>1. pc = "open" /\ pc' = "scan" /\ openRedis /\ UNCHANGED <<serverVars, scanVars, fileVars>>
    BY <1>1 DEF OpenSource, GoTo
  <2>2. told = FALSE
    BY <2>1, NotTold
  <2>3. Files'
    BY <1>0, <2>1, FilesSame
  <2> QED
    BY <1>0, <2>1, <2>2, <2>3, Quiet
<1>2. CASE SourcePage
  <2>1. TakePage("scan", "keys") /\ UNCHANGED <<serverVars, fileVars>>
    BY <1>2 DEF SourcePage
  <2>2. pc = "scan" /\ pc' \in {"keys", "failed"}
    BY <2>1 DEF TakePage, GoTo
  <2>3. IsPage(DOMAIN source) \/ got \in {RespErr, Eof}
    BY <1>0, <2>1, <2>2 DEF TakePage, Replied
  <2>4. page' \in Seq(Key) /\ (Close \/ Told)
    BY <1>0, <2>1, <2>3, TakePageStep
  <2>5. Files'
    BY <1>0, <2>1, <2>2, <2>4, FilesSame
  <2> QED
    BY <1>0, <2>1, <2>4, <2>5, Quiet
<1>3. CASE Fields
  <2>1. /\ pc = "keys" /\ page # <<>> /\ Told /\ UNCHANGED <<serverVars, outs>> /\ page' = Tail(page)
        /\ lines' = IF IsErr(got) THEN lines ELSE lines \o LineOf(Head(page), got)
    BY <1>3 DEF Fields
  <2>2. page' \in Seq(Key) /\ Head(page) \in Key
    BY <1>0, <2>1, TailSeq
  <2>3. ~IsErr(got) => got \in HashValue
    BY <1>0, <2>1, SmallReplies DEF Replied, Told
  <2>4. lines' \in Seq(Line)
    <3>1. CASE IsErr(got)
      BY <1>0, <2>1, <3>1
    <3>2. CASE ~IsErr(got)
      <4> DEFINE s == LineOf(Head(page), got)
      <4>1. s \in Seq(Line)
        <5>1. s = <<>> \/ \E l \in Line : s = <<l>>
          BY <2>2, <2>3, <3>2, LineFacts
        <5> HIDE DEF s
        <5>2. <<>> \in Seq(Line) /\ \A l \in Line : <<l>> \in Seq(Line)
          OBVIOUS
        <5> QED
          BY <5>1, <5>2
      <4> HIDE DEF s
      <4> QED
        BY <1>0, <2>1, <3>2, <4>1, ConcatAssociates DEF s
    <3> QED
      BY <3>1, <3>2
  <2>5. outs' = <<>>
    BY <2>1 DEF Files
  <2>6. Files'
    BY <2>2, <2>4, <2>5, FilesEmpty
  <2> QED
    BY <1>0, <2>1, <2>6, Quiet
<1>4. CASE WriteFails
  <2>1. pc = "keys" /\ pc' = "failed" /\ Close /\ UNCHANGED <<serverVars, scanVars, fileVars>>
    BY <1>4 DEF WriteFails, GoTo
  <2>2. Files'
    BY <1>0, <2>1, FilesSame
  <2> QED
    BY <1>0, <2>1, <2>2, Quiet
<1>5. CASE NextPage
  <2>1. pc = "keys" /\ page = <<>> /\ pc' = "scan" /\ UNCHANGED <<serverVars, linkVars, scanVars, fileVars>>
    BY <1>5 DEF NextPage, GoTo
  <2>2. told = FALSE
    BY <2>1, NotTold
  <2>3. Files'
    BY <1>0, <2>1, FilesSame
  <2> QED
    BY <1>0, <2>1, <2>2, <2>3, Quiet
<1>6. CASE ExportReturns
  <2>1. /\ pc = "keys" /\ Close /\ UNCHANGED <<serverVars, scanVars, outs>>
        /\ lines' = lines \/ \E n \in 0..(Len(lines) - 1) : lines' = SubSeq(lines, 1, n)
    BY <1>6 DEF ExportReturns, GoTo
  <2>2. lines' \in Seq(Line)
    <3>1. \A n \in 0..(Len(lines) - 1) : SubSeq(lines, 1, n) \in Seq(Line)
      BY <1>0
    <3> QED
      BY <1>0, <2>1, <3>1
  <2>3. outs' = <<>>
    BY <2>1 DEF Files
  <2>4. Files'
    BY <1>0, <2>1, <2>2, <2>3, FilesEmpty
  <2> QED
    BY <1>0, <2>1, <2>4, Quiet
<1>7. CASE OpenFails
  <2>1. pc \in {"open", "openSink"} /\ pc' = "failed" /\ UNCHANGED <<serverVars, linkVars, scanVars, fileVars>>
    BY <1>7 DEF OpenFails, GoTo
  <2>2. told = FALSE
    BY <2>1, NotTold
  <2>3. Files'
    BY <1>0, <2>1, FilesSame
  <2> QED
    BY <1>0, <2>1, <2>2, <2>3, Quiet
<1>8. CASE Count
  <2>1. /\ pc = "count" /\ pc' = "openSink" /\ UNCHANGED <<serverVars, linkVars, scanVars, lines>>
        /\ outs' = LET bs == SetToSeq(Biz) IN [i \in DOMAIN bs |-> Append(bs[i], ToString(LinesOf(bs[i])))]
    BY <1>8 DEF Count, GoTo
  <2>2. told = FALSE
    BY <2>1, NotTold
  <2>3. outs' \in Seq(OutLines)
    <3> DEFINE bs == SetToSeq(Biz)
    <3>1. IsFiniteSet(Biz)
      BY <1>0, BizFinite
    <3>2. bs \in Seq(Biz)
      BY <3>1, SetInSequence
    <3>3. outs' = [i \in DOMAIN bs |-> Out(bs[i])]
      BY <2>1 DEF Out
    <3> HIDE DEF bs
    <3>4. DOMAIN bs = 1..Len(bs) /\ Len(bs) \in Nat /\ \A i \in DOMAIN bs : bs[i] \in Biz
      BY <3>2
    <3>5. outs' \in [1..Len(bs) -> OutLines]
      BY <3>3, <3>4 DEF OutLines
    <3> QED
      BY <3>4, <3>5, FunctionSeq
  <2>4. OutLines' = OutLines
    BY <2>1, OutLinesKept
  <2>5. Files'
    BY <1>0, <2>1, <2>3, <2>4 DEF Files
  <2> QED
    BY <1>0, <2>1, <2>2, <2>5, Quiet
<1>9. CASE OpenSink
  <2>1. /\ pc = "openSink" /\ pc' \in {"delScan", "set"} /\ openRedis /\ UNCHANGED <<serverVars, fileVars>>
        /\ page' = <<>>
    BY <1>9 DEF OpenSink, GoTo, NewScan
  <2>2. told = FALSE /\ <<>> \in Seq(Key)
    BY <2>1, NotTold
  <2>3. Files'
    BY <1>0, <2>1, <2>2, FilesSame
  <2> QED
    BY <1>0, <2>1, <2>2, <2>3, Quiet
<1>10. CASE TargetPage
  <2>1. TakePage("delScan", "del") /\ UNCHANGED <<serverVars, fileVars>>
    BY <1>10 DEF TargetPage
  <2>2. pc = "delScan" /\ pc' \in {"del", "failed"}
    BY <2>1 DEF TakePage, GoTo
  <2>3. IsPage(DOMAIN target) \/ got \in {RespErr, Eof}
    BY <1>0, <2>1, <2>2 DEF TakePage, Replied
  <2>4. page' \in Seq(Key) /\ (Close \/ Told)
    BY <1>0, <2>1, <2>3, TakePageStep
  <2>5. Files'
    BY <1>0, <2>1, <2>2, <2>4, FilesSame
  <2> QED
    BY <1>0, <2>1, <2>4, <2>5, Quiet
<1>11. CASE Deleted
  <2>1. pc = "del" /\ page # <<>> /\ Told /\ UNCHANGED <<serverVars, fileVars, pc>> /\ page' = Tail(page)
    BY <1>11 DEF Deleted
  <2>2. page' \in Seq(Key)
    BY <1>0, <2>1, TailSeq
  <2>3. Files'
    BY <1>0, <2>1, <2>2, FilesSame
  <2> QED
    BY <1>0, <2>1, <2>3, Quiet
<1>12. CASE DelPageDone
  <2>1. /\ pc = "del" /\ page = <<>> /\ pc' \in {"set", "delScan"}
        /\ UNCHANGED <<serverVars, linkVars, scanVars, fileVars>>
    BY <1>12 DEF DelPageDone, GoTo
  <2>2. told = FALSE
    BY <2>1, NotTold
  <2>3. Files'
    BY <1>0, <2>1, FilesSame
  <2> QED
    BY <1>0, <2>1, <2>2, <2>3, Quiet
<1>13. CASE Stored
  <2>1. /\ pc = "set" /\ pc' \in {"set", "failed"} /\ outs # <<>> /\ outs' = Tail(outs) /\ (Close \/ Told)
        /\ UNCHANGED <<serverVars, scanVars, lines>>
    BY <1>13 DEF Stored, GoTo
  <2>2. OutLines' = OutLines
    BY <2>1, OutLinesKept
  <2>3. outs' \in Seq(OutLines)
    BY <2>1, TailSeq DEF Files
  <2>4. Files'
    BY <1>0, <2>1, <2>2, <2>3 DEF Files
  <2> QED
    BY <1>0, <2>1, <2>4, Quiet
<1>14. CASE ImportReturns
  <2>1. pc = "set" /\ pc' \in {"ok", "failed"} /\ Close /\ UNCHANGED <<serverVars, scanVars, fileVars>>
    BY <1>14 DEF ImportReturns, GoTo
  <2>2. Files'
    BY <1>0, <2>1, FilesSame
  <2> QED
    BY <1>0, <2>1, <2>2, Quiet
<1> QED
  BY <1>1, <1>2, <1>3, <1>4, <1>5, <1>6, <1>7, <1>8, <1>9, <1>10, <1>11, <1>12, <1>13, <1>14
  DEF Client, Export, Import

\* LinkInv holds at first.
LEMMA LinkInit == Init => LinkInv
<1> SUFFICES ASSUME Init PROVE LinkInv
  OBVIOUS
<1>1. Tables
  <2>1. source \in Sources /\ target \in Targets
    BY DEF Init
  <2>2. IsFiniteSet(DOMAIN source) /\ \A k \in DOMAIN source : k \in Key /\ source[k] \in {NotAHash} \cup HashValue
    BY <2>1, SourcesAssumption DEF Key, HashValue
  <2>3. IsFiniteSet(DOMAIN target) /\ DOMAIN target \subseteq Key /\ target \in [DOMAIN target -> STRING]
    BY <2>1, TargetsAssumption DEF Key
  <2> QED
    BY <2>2, <2>3 DEF Tables
<1>2. Files
  BY DEF Init, Files
<1>3. Connection
  BY DEF Init, Connection, Links
<1> QED
  BY <1>1, <1>2, <1>3 DEF LinkInv

\* A key expires.
LEMMA ExpireStep ==
  ASSUME LinkInv, NEW k \in DOMAIN source, Expire(k)
  PROVE  /\ LinkInv' /\ UNCHANGED <<target, replace, pc, scanVars, fileVars, ignored, flowVars, told, got>>
         /\ DOMAIN source' \subseteq DOMAIN source /\ \A l \in DOMAIN source' : source'[l] = source[l]
<1>1. /\ pc \in {"scan", "keys"} /\ source' = [l \in DOMAIN source \ {k} |-> source[l]]
      /\ UNCHANGED <<target, replace, linkVars, pc, scanVars, fileVars, ignored, flowVars>>
  BY DEF Expire
<1>2. UNCHANGED <<link, unread, told, got, page, seen, lines, outs>>
  BY <1>1 DEF linkVars, scanVars, fileVars
<1>3. DOMAIN source' \subseteq DOMAIN source /\ \A l \in DOMAIN source' : source'[l] = source[l]
  BY <1>1
<1>4. Tables'
  BY <1>1, <1>2, <1>3, FS_Subset DEF LinkInv, Tables
<1>5. Files'
  BY <1>1, <1>2, FilesKept DEF LinkInv
<1>6. told => Replied'
  <2> SUFFICES ASSUME told PROVE Replied'
    OBVIOUS
  <2>1. Replied
    BY DEF LinkInv, Connection
  <2>2. IsPage(DOMAIN source) => IsPage(DOMAIN source)'
    BY <1>2, <1>3 DEF IsPage, Names
  <2> QED
    BY <1>1, <1>2, <1>3, <2>1, <2>2 DEF Replied
<1> QED
  BY <1>1, <1>2, <1>3, <1>4, <1>5, <1>6 DEF LinkInv, Connection

\* LinkInv is kept by a new run, when Redis stalls and by stuttering.
LEMMA RerunLink == ASSUME LinkInv, Rerun PROVE LinkInv'
<1>1. UNCHANGED <<source, target>> /\ page' = <<>> /\ lines' = <<>> /\ outs' = <<>> /\ Close
  BY DEF Rerun, NewScan, serverVars
<1>2. <<>> \in Seq(Key) /\ <<>> \in Seq(Line)
  OBVIOUS
<1>3. Files'
  BY <1>1, <1>2, FilesEmpty
<1>4. unread' = <<>> /\ link' \in Links \ {"waiting"} /\ told' = FALSE
  BY <1>1, LinkStates DEF Close
<1> QED
  BY <1>1, <1>3, <1>4, Quiet

LEMMA StallLink ==
  ASSUME LinkInv, Stall
  PROVE  /\ LinkInv' /\ UNCHANGED <<serverVars, pc, scanVars, fileVars, ignored, flowVars, told, got>>
<1>1. /\ told = FALSE /\ link' = "stalled"
      /\ UNCHANGED <<serverVars, unread, told, got, pc, scanVars, fileVars, ignored, flowVars>>
  <2>1. told \in BOOLEAN /\ (told => pc \notin {"open", "openSink"})
    BY DEF LinkInv, Connection, Replied
  <2> QED
    BY <2>1 DEF Stall, Asking
<1>2. UNCHANGED <<source, target, page, lines, outs>>
  BY <1>1 DEF serverVars, scanVars, fileVars
<1>3. Files'
  BY <1>1, <1>2, FilesKept DEF LinkInv
<1>4. unread' = <<>> /\ link' \in Links \ {"waiting"} /\ told' = FALSE
  BY <1>1, LinkStates DEF LinkInv, Connection
<1> QED
  BY <1>1, <1>2, <1>3, <1>4, Quiet

LEMMA StutterLink == ASSUME LinkInv, UNCHANGED vars PROVE LinkInv'
<1>1. UNCHANGED <<source, target, link, unread, told, got, pc, page, seen, lines, outs>>
  BY DEF vars, serverVars, linkVars, scanVars, fileVars
<1>2. Files'
  BY <1>1, FilesKept DEF LinkInv
<1>3. Tables'
  BY <1>1 DEF LinkInv, Tables
<1>4. told => Replied'
  BY <1>1 DEF LinkInv, Connection, Replied, IsPage, Names
<1> QED
  BY <1>1, <1>2, <1>3, <1>4 DEF LinkInv, Connection

\* The steps of the specification, by what they do to the connection.
LEMMA NextCases ==
  ASSUME [Next]_vars
  PROVE  \/ Command \/ Stall \/ (\E k \in DOMAIN source : Expire(k)) \/ Client \/ Rerun \/ UNCHANGED vars
BY DEF Next, Terminated

\* LinkInv is inductive.
LEMMA LinkStep == ASSUME LinkInv, [Next]_vars PROVE LinkInv'
BY NextCases, CommandStep, StallLink, ExpireStep, ClientLink, RerunLink, StutterLink

\* InStep, for all sources, targets, pages and runs: readResp and the server stay in
\* step over one connection, wherever it breaks.
THEOREM InStepHolds == Spec => []InStep
<1>1. LinkInv => InStep
  BY DEF LinkInv, Connection, InStep
<1> QED
  BY <1>1, LinkInit, LinkStep, PTL DEF Spec

-----------------------------------------------------------------------------
(* ExportInv: lines and the keys that SCAN returned.                        *)

\* The lines of key k after one more line.
LEMMA HaveFacts ==
  ASSUME NEW k, lines \in Seq(Line)
  PROVE  Have(k) \in Nat /\ (lines = <<>> => Have(k) = 0)
<1> DEFINE D == DOMAIN lines
           S == {i \in D : lines[i].key = k}
<1>1. D = 1..Len(lines) /\ Len(lines) \in Nat
  OBVIOUS
<1>2. IsFiniteSet(D)
  <2>1. 1 \in Int /\ Len(lines) \in Int
    BY <1>1
  <2> QED
    BY <1>1, <2>1, FS_Interval
<1>3. IsFiniteSet(S)
  <2>1. S \in SUBSET D
    OBVIOUS
  <2> HIDE DEF S, D
  <2> QED
    BY <1>2, <2>1, FS_Subset
<1>4. Cardinality(S) \in Nat
  BY <1>3, FS_CardinalityType
<1>5. lines = <<>> => S = {}
  OBVIOUS
<1> QED
  BY <1>4, <1>5, FS_EmptySet DEF Have

LEMMA HaveAppend ==
  ASSUME NEW k, lines \in Seq(Line), NEW l \in Line, lines' = lines \o <<l>>
  PROVE  Have(k)' = IF l.key = k THEN Have(k) + 1 ELSE Have(k)
<1> DEFINE S == {i \in DOMAIN lines : lines[i].key = k}
           n == Len(lines)
           S1 == {i \in DOMAIN lines' : lines'[i].key = k}
<1>1. DOMAIN lines = 1..n /\ n \in Nat
  OBVIOUS
<1>2. DOMAIN lines' = 1..(n + 1) /\ (\A i \in 1..n : lines'[i] = lines[i]) /\ lines'[n + 1] = l
  OBVIOUS
<1>3. IsFiniteSet(S)
  <2>1. IsFiniteSet(1..n)
    <3>1. 1 \in Int /\ n \in Int
      BY <1>1
    <3> HIDE DEF n
    <3> QED
      BY <3>1, FS_Interval
  <2>2. S \in SUBSET (1..n)
    BY <1>1
  <2> HIDE DEF S, n
  <2> QED
    BY <2>1, <2>2, FS_Subset
<1>4. n + 1 \notin S
  BY <1>1
<1>5. S1 = IF l.key = k THEN S \cup {n + 1} ELSE S
  <2> HIDE DEF n
  <2>1. 1..(n + 1) = (1..n) \cup {n + 1}
    BY <1>1
  <2> QED
    BY <1>1, <1>2, <2>1
<1>6. Have(k)' = Cardinality(S1) /\ Have(k) = Cardinality(S)
  BY DEF Have
<1> HIDE DEF S, S1, n
<1>7. Cardinality(S \cup {n + 1}) = Cardinality(S) + 1
  BY <1>3, <1>4, FS_AddElement
<1> QED
  BY <1>5, <1>6, <1>7

LEMMA HaveSame == ASSUME NEW k, lines' = lines PROVE Have(k)' = Have(k)
BY DEF Have

\* ExportInv holds at first.
LEMMA ExportInit == Init => ExportInv
<1> SUFFICES ASSUME Init PROVE ExportInv
  OBVIOUS
<1> QED
  BY DEF Init, ExportInv, Fresh, LinesMatchScans

\* It is kept by a step that leaves the export alone, and by one that is elsewhere
\* and keeps what was written.
LEMMA ExportSame ==
  ASSUME ExportInv, UNCHANGED <<source, pc, scanVars, fileVars, ignored, flowVars>>
  PROVE  ExportInv'
<1>1. UNCHANGED <<source, pc, page, cursor, seen, returned, lines, ignored, flushed>>
  BY DEF scanVars, fileVars, flowVars
<1>2. Fresh' = Fresh
  BY <1>1 DEF Fresh
<1>3. Matching' = Matching
  BY <1>1 DEF Matching, Have, Due, Counted
<1>4. LinesMatchScans' = LinesMatchScans
  BY <1>1 DEF LinesMatchScans, Counted
<1> QED
  BY <1>1, <1>2, <1>3, <1>4 DEF ExportInv

LEMMA ExportElsewhere ==
  ASSUME returned' \in [DOMAIN returned' -> Nat], DOMAIN source' \subseteq DOMAIN returned',
         pc' \in {"openSink", "delScan", "del", "set", "ok", "failed"},
         pc' # "failed" /\ flushed' => lines' # <<>>
  PROVE  ExportInv'
<1>1. LinesMatchScans'
  BY DEF LinesMatchScans
<1> QED
  BY <1>1 DEF ExportInv

\* A key that expires is no longer looked at.
LEMMA ExpireExport ==
  ASSUME LinkInv, ExportInv, NEW k \in DOMAIN source, Expire(k)
  PROVE  ExportInv'
<1>1. /\ UNCHANGED <<pc, page, cursor, seen, returned, lines, ignored, flushed>>
      /\ DOMAIN source' \subseteq DOMAIN source /\ \A l \in DOMAIN source' : source'[l] = source[l]
      /\ pc \in {"scan", "keys"}
  BY ExpireStep DEF Expire, scanVars, fileVars, flowVars
<1>2. Matching'
  <2>1. Matching
    BY <1>1 DEF ExportInv
  <2>2. \A l \in DOMAIN source' : (Counted(l)' <=> Counted(l)) /\ Have(l)' = Have(l) /\ Due(l)' = Due(l)
    BY <1>1 DEF Counted, Have, Due
  <2> QED
    BY <1>1, <2>1, <2>2 DEF Matching
<1> QED
  BY <1>1, <1>2 DEF ExportInv, LinesMatchScans

\* A new run starts with nothing written.
LEMMA RerunExport == ASSUME ExportInv, Rerun PROVE ExportInv'
<1>1. /\ pc' = "open" /\ lines' = <<>> /\ seen' = {} /\ page' = <<>> /\ source' = source
      /\ returned' = [k \in DOMAIN returned |-> 0]
  BY DEF Rerun, NewScan, serverVars
<1>2. returned' \in [DOMAIN returned' -> Nat] /\ DOMAIN source' \subseteq DOMAIN returned'
  BY <1>1 DEF ExportInv
<1>3. Fresh'
  BY <1>1, <1>2 DEF Fresh
<1> QED
  BY <1>1, <1>2, <1>3 DEF ExportInv, LinesMatchScans

\* The head and the rest of a page.
LEMMA PageSplit ==
  ASSUME NEW T, NEW s \in Seq(T), s # <<>>, IsInjective(s)
  PROVE  /\ Head(s) \notin Range(Tail(s)) /\ Range(s) = Range(Tail(s)) \cup {Head(s)}
         /\ IsInjective(Tail(s)) /\ Head(s) \in T /\ Tail(s) \in Seq(T)
<1> DEFINE n == Len(s)
           t == Tail(s)
<1>1. n \in Nat /\ n # 0 /\ DOMAIN s = 1..n /\ Head(s) = s[1] /\ s[1] \in T
  OBVIOUS
<1>2. t \in Seq(T) /\ DOMAIN t = 1..(n - 1) /\ \A i \in 1..(n - 1) : t[i] = s[i + 1]
  OBVIOUS
<1>3. \A i, j \in 1..n : s[i] = s[j] => i = j
  BY <1>1 DEF IsInjective
<1> HIDE DEF n, t
<1>4. s[1] \notin Range(t)
  BY <1>1, <1>2, <1>3 DEF Range
<1>5. IsInjective(t)
  <2> SUFFICES ASSUME NEW i \in 1..(n - 1), NEW j \in 1..(n - 1), t[i] = t[j] PROVE i = j
    BY <1>2 DEF IsInjective
  <2>1. i + 1 \in 1..n /\ j + 1 \in 1..n /\ s[i + 1] = s[j + 1]
    BY <1>1, <1>2
  <2>2. i + 1 = j + 1
    BY <1>3, <2>1
  <2> QED
    BY <1>1, <2>2
<1>6. Range(s) \subseteq Range(t) \cup {s[1]}
  <2> SUFFICES ASSUME NEW i \in 1..n, i # 1 PROVE s[i] \in Range(t)
    BY <1>1 DEF Range
  <2>1. i - 1 \in 1..(n - 1) /\ (i - 1) + 1 = i
    BY <1>1
  <2>2. t[i - 1] = s[i]
    BY <1>2, <2>1
  <2> QED
    BY <1>2, <2>1, <2>2 DEF Range
<1>7. Range(t) \cup {s[1]} \subseteq Range(s)
  <2>1. s[1] \in Range(s)
    BY <1>1 DEF Range
  <2>2. ASSUME NEW i \in 1..(n - 1) PROVE t[i] \in Range(s)
    <3>1. i + 1 \in 1..n
      BY <1>1
    <3> QED
      BY <1>1, <1>2, <3>1 DEF Range
  <2> QED
    BY <1>2, <2>1, <2>2 DEF Range
<1> QED
  BY <1>1, <1>2, <1>4, <1>5, <1>6, <1>7 DEF t

\* A page without keys.
LEMMA EmptyPage == Range(<<>>) = {} /\ IsInjective(<<>>)
BY DEF Range, IsInjective

\* Each key of a new page is returned once more and is due.
LEMMA SourcePageExport == ASSUME LinkInv, ExportInv, SourcePage PROVE ExportInv'
<1>1. /\ TakePage("scan", "keys") /\ UNCHANGED <<serverVars, fileVars, ignored, flowVars>>
      /\ returned' = [k \in DOMAIN returned |->
                        returned[k] + (IF pc' = "keys" /\ k \in Range(page') THEN 1 ELSE 0)]
  BY DEF SourcePage
<1>2. pc = "scan" /\ told
  BY <1>1 DEF TakePage, GoTo
<1>3. IsPage(DOMAIN source) \/ got \in {RespErr, Eof}
  BY <1>2 DEF LinkInv, Connection, Replied
<1>4. UNCHANGED <<source, lines, ignored, flushed>>
  BY <1>1 DEF serverVars, fileVars, flowVars
<1>5. /\ returned' \in [DOMAIN returned' -> Nat]
      /\ DOMAIN source' \subseteq DOMAIN returned' /\ DOMAIN returned' = DOMAIN returned
  BY <1>1, <1>4 DEF ExportInv
<1>6. CASE pc' = "failed"
  BY <1>5, <1>6, ExportElsewhere
<1>7. CASE pc' # "failed"
  <2>1. /\ pc' = "keys" /\ IsInjective(page') /\ seen' = seen \cup Range(page')
        /\ cursor' = Zero => DOMAIN source \subseteq seen'
    BY <1>1, <1>3, <1>7, TakePageStep DEF GoTo
  <2>2. Matching /\ page = <<>>
    BY <1>2 DEF ExportInv
  <2>3. \A k \in DOMAIN source : k \in DOMAIN returned /\ returned[k] \in Nat /\ Have(k) \in Nat
    BY HaveFacts DEF ExportInv, LinkInv, Files, Line
  <2>4. ASSUME NEW k \in DOMAIN source PROVE returned'[k] = returned[k] + Due(k)' /\ Due(k)' \in {0, 1} /\ Due(k) = 0
    BY <1>1, <2>1, <2>2, <2>3, EmptyPage DEF Due
  <2>5. ASSUME NEW k \in DOMAIN source' \cap seen' PROVE returned'[k] > 0
    <3>1. k \in DOMAIN source /\ (k \in seen \/ Due(k)' = 1)
      BY <1>4, <2>1 DEF Due
    <3> QED
      BY <2>2, <2>3, <2>4, <3>1 DEF Matching
  <2>6. ASSUME NEW k \in DOMAIN source' \ ignored'
        PROVE  IF Counted(k)' THEN Have(k)' + Due(k)' = returned'[k] ELSE Have(k)' = 0
    <3>1. k \in DOMAIN source \ ignored /\ (Counted(k)' <=> Counted(k)) /\ Have(k)' = Have(k)
      BY <1>4, HaveSame DEF Counted
    <3> QED
      BY <2>2, <2>3, <2>4, <3>1 DEF Matching
  <2>7. Matching'
    BY <2>1, <2>5, <2>6 DEF Matching
  <2> QED
    BY <1>4, <1>5, <2>1, <2>7 DEF ExportInv, LinesMatchScans
<1> QED
  BY <1>6, <1>7

\* The key at hand gets its line, or its error is ignored.
LEMMA FieldsExport == ASSUME LinkInv, ExportInv, Fields PROVE ExportInv'
<1> DEFINE h == Head(page)
<1>1. /\ pc = "keys" /\ pc' = "keys" /\ page # <<>> /\ Told /\ page' = Tail(page)
      /\ ignored' = IF IsErr(got) THEN ignored \cup {h} ELSE ignored
      /\ lines' = IF IsErr(got) THEN lines ELSE lines \o LineOf(h, got)
      /\ UNCHANGED <<source, cursor, seen, returned>>
  BY DEF Fields, serverVars
<1>2. page \in Seq(Key) /\ lines \in Seq(Line) /\ Replied
  BY <1>1 DEF LinkInv, Files, Connection, Told, Line
<1>3. Matching
  BY <1>1 DEF ExportInv
<1>4. h \notin Range(page') /\ Range(page) = Range(page') \cup {h} /\ IsInjective(page') /\ h \in Key
  BY <1>1, <1>2, <1>3, PageSplit DEF Matching
<1> HIDE DEF h
<1>5. ASSUME NEW k \in DOMAIN source' \ ignored'
      PROVE  IF Counted(k)' THEN Have(k)' + Due(k)' = returned'[k] ELSE Have(k)' = 0
  <2>1. k \in DOMAIN source \ ignored /\ (Counted(k)' <=> Counted(k)) /\ returned'[k] = returned[k]
    BY <1>1 DEF Counted
  <2>2. IF Counted(k) THEN Have(k) + Due(k) = returned[k] ELSE Have(k) = 0
    BY <1>3, <2>1 DEF Matching
  <2>3. Have(k) \in Nat
    BY <1>2, HaveFacts
  <2>4. CASE k # h
    <3>1. Due(k)' = Due(k)
      BY <1>4, <2>4 DEF Due
    <3>2. Have(k)' = Have(k)
      <4>1. CASE IsErr(got)
        BY <1>1, <4>1, HaveSame
      <4>2. CASE ~IsErr(got)
        <5>1. got \in HashValue
          BY <1>1, <1>2, <4>2, SmallReplies DEF Replied
        <5>2. LineOf(h, got) = <<>> \/ \E l \in Line : l.key = h /\ LineOf(h, got) = <<l>>
          BY <1>4, <5>1, LineFacts
        <5>3. LineOf(h, got) = <<>> => lines' = lines
          BY <1>1, <1>2, <4>2, WholePrefix
        <5> QED
          BY <1>1, <1>2, <2>4, <4>2, <5>2, <5>3, HaveSame, HaveAppend
      <4> QED
        BY <4>1, <4>2
    <3> QED
      BY <2>1, <2>2, <3>1, <3>2
  <2>5. CASE k = h
    <3>1. ~IsErr(got)
      BY <1>1, <2>5
    <3>2. got \in HashValue /\ source[h] = got
      BY <1>1, <1>2, <2>1, <2>5, <3>1, SmallReplies DEF Replied, h
    <3>3. got # NotAHash
      BY <3>2 DEF HashValue, NotAHash
    <3>4. Due(k) = 1 /\ Due(k)' = 0
      BY <1>4, <2>5 DEF Due
    <3>5. CASE toString(got.vs[2]) = <<>>
      <4>1. ~Counted(k) /\ LineOf(h, got) = <<>>
        BY <1>4, <2>5, <3>2, <3>5, LineFacts DEF Counted
      <4>2. lines' = lines
        BY <1>1, <1>2, <3>1, <4>1, WholePrefix
      <4> QED
        BY <2>1, <2>2, <4>1, <4>2, HaveSame
    <3>6. CASE toString(got.vs[2]) # <<>>
      <4>1. Counted(k) /\ \E l \in Line : l.key = h /\ LineOf(h, got) = <<l>>
        BY <1>4, <2>5, <3>2, <3>3, <3>6, LineFacts DEF Counted
      <4>2. Have(k)' = Have(k) + 1
        BY <1>1, <1>2, <2>5, <3>1, <4>1, HaveAppend
      <4> QED
        BY <2>1, <2>2, <2>3, <3>4, <4>1, <4>2
    <3> QED
      BY <3>5, <3>6
  <2> QED
    BY <2>4, <2>5
<1>6. Matching'
  BY <1>1, <1>3, <1>4, <1>5 DEF Matching
<1> QED
  BY <1>1, <1>6 DEF ExportInv, LinesMatchScans

\* After the last page every key was seen, and no line is due.
LEMMA ReturnsExport == ASSUME LinkInv, ExportInv, ExportReturns PROVE ExportInv'
<1>1. /\ page = <<>> /\ cursor = Zero /\ pc = "keys"
      /\ pc' = IF lines = <<>> THEN "ok" ELSE "count"
      /\ UNCHANGED <<source, returned, ignored>>
      /\ \/ UNCHANGED <<lines, flushed>>
         \/ flushed' = FALSE
  BY DEF ExportReturns, GoTo, serverVars, scanVars
<1>2. Matching /\ DOMAIN source \subseteq seen /\ lines \in Seq(Line)
  BY <1>1 DEF ExportInv, LinkInv, Files, Line
<1>3. LinesMatchScans'
  <2> SUFFICES ASSUME flushed', NEW k \in DOMAIN source' \ ignored'
               PROVE  returned'[k] > 0 /\ Have(k)' = IF Counted(k)' THEN returned'[k] ELSE 0
    BY DEF LinesMatchScans, Have
  <2>1. /\ k \in DOMAIN source \ ignored /\ (Counted(k)' <=> Counted(k))
        /\ Have(k)' = Have(k) /\ returned'[k] = returned[k]
    BY <1>1, HaveSame DEF Counted
  <2>2. Due(k) = 0 /\ Have(k) \in Nat
    BY <1>1, <1>2, EmptyPage, HaveFacts DEF Due
  <2> QED
    BY <1>2, <2>1, <2>2 DEF Matching
<1> QED
  BY <1>1, <1>3 DEF ExportInv

\* The other steps of the export.
LEMMA OpenExport == ASSUME LinkInv, ExportInv, OpenSource PROVE ExportInv'
<1>1. /\ pc = "open" /\ pc' = "scan" /\ UNCHANGED <<source, page, cursor, seen, returned, lines, ignored, flushed>>
  BY DEF OpenSource, GoTo, serverVars, scanVars, fileVars, flowVars
<1>2. Fresh /\ lines \in Seq(Line)
  BY <1>1 DEF ExportInv, LinkInv, Files, Line
<1>3. \A k \in DOMAIN source : Have(k) = 0 /\ Due(k) = 0 /\ returned[k] = 0
  BY <1>2, HaveFacts, EmptyPage DEF Fresh, Due
<1>4. Matching
  BY <1>2, <1>3, EmptyPage DEF Matching, Fresh
<1>5. Matching'
  BY <1>1, <1>4 DEF Matching, Have, Due, Counted
<1> QED
  BY <1>1, <1>2, <1>5 DEF ExportInv, Fresh, LinesMatchScans

LEMMA NextPageExport == ASSUME ExportInv, NextPage PROVE ExportInv'
<1>1. /\ pc = "keys" /\ page = <<>> /\ pc' = "scan"
      /\ UNCHANGED <<source, page, cursor, seen, returned, lines, ignored, flushed>>
  BY DEF NextPage, GoTo, serverVars, scanVars, fileVars, flowVars
<1>2. Matching'
  BY <1>1 DEF ExportInv, Matching, Have, Due, Counted
<1> QED
  BY <1>1, <1>2 DEF ExportInv, LinesMatchScans

\* The steps after the export and the ones that end it with an error.
LEMMA LaterExport ==
  ASSUME ExportInv, WriteFails \/ OpenFails \/ Count \/ TargetPage \/ Deleted
                      \/ DelPageDone \/ Stored \/ ImportReturns
  PROVE  ExportInv'
<1>1. UNCHANGED <<source, returned, lines, flushed>>
  BY DEF WriteFails, OpenFails, Count, TargetPage, Deleted, DelPageDone, Stored, ImportReturns,
         serverVars, scanVars, fileVars, flowVars
<1>2. /\ pc' \in {"openSink", "delScan", "del", "set", "ok", "failed"}
      /\ pc' = "failed" \/ pc \in {"count", "openSink", "delScan", "del", "set"}
  BY DEF WriteFails, OpenFails, Count, TargetPage, TakePage, Deleted, DelPageDone, Stored, ImportReturns, GoTo
<1> QED
  BY <1>1, <1>2, ExportElsewhere DEF ExportInv

\* The sink starts new counts; the export is over.
LEMMA OpenSinkExport == ASSUME ExportInv, OpenSink PROVE ExportInv'
<1>1. /\ pc = "openSink" /\ pc' \in {"delScan", "set"} /\ UNCHANGED <<source, lines, flushed>>
      /\ returned' = [k \in DOMAIN returned |-> 0]
  BY DEF OpenSink, GoTo, serverVars, fileVars
<1>2. returned' \in [DOMAIN returned' -> Nat] /\ DOMAIN source' \subseteq DOMAIN returned'
  BY <1>1 DEF ExportInv
<1> QED
  BY <1>1, <1>2, ExportElsewhere DEF ExportInv

\* ExportInv is inductive, with LinkInv.
LEMMA ExportStep == ASSUME LinkInv, ExportInv, [Next]_vars PROVE ExportInv'
<1>1. ASSUME Command PROVE ExportInv'
  <2>1. UNCHANGED <<source, pc, scanVars, fileVars, ignored, flowVars>>
    BY <1>1, CommandStep DEF OnlyReplies
  <2> QED
    BY <2>1, ExportSame
<1>2. ASSUME Stall PROVE ExportInv'
  <2>1. UNCHANGED <<source, pc, scanVars, fileVars, ignored, flowVars>>
    BY <1>2, StallLink DEF serverVars
  <2> QED
    BY <2>1, ExportSame
<1>3. ASSUME Client PROVE ExportInv'
  BY <1>3, OpenExport, SourcePageExport, FieldsExport, NextPageExport, ReturnsExport,
     OpenSinkExport, LaterExport
  DEF Client, Export, Import
<1>4. ASSUME UNCHANGED vars PROVE ExportInv'
  <2>1. UNCHANGED <<source, pc, scanVars, fileVars, ignored, flowVars>>
    BY <1>4 DEF vars, serverVars
  <2> QED
    BY <2>1, ExportSame
<1> QED
  BY <1>1, <1>2, <1>3, <1>4, NextCases, ExpireExport, RerunExport

\* LinesMatchScans, for all sources, pages and expiries: a key has a line for each time
\* that SCAN returned it, unless its HMGET failed.
THEOREM LinesMatchScansHolds == Spec => []LinesMatchScans
<1>1. Init => LinkInv /\ ExportInv
  BY LinkInit, ExportInit
<1>2. LinkInv /\ ExportInv /\ [Next]_vars => LinkInv' /\ ExportInv'
  BY LinkStep, ExportStep
<1>3. ExportInv => LinesMatchScans
  BY DEF ExportInv
<1> QED
  BY <1>1, <1>2, <1>3, PTL DEF Spec

-----------------------------------------------------------------------------
(* ImportInv: what an import has set and deleted.                           *)

\* The key of a line of the output is all of it but its last word.
LEMMA AppendInjective ==
  ASSUME NEW T, NEW b \in Seq(T), NEW c \in Seq(T), NEW x, NEW y, Append(b, x) = Append(c, y)
  PROVE  b = c
<1> DEFINE p == Append(b, x)
           q == Append(c, y)
<1>1. Len(p) = Len(b) + 1 /\ \A i \in 1..Len(b) : p[i] = b[i]
  OBVIOUS
<1>2. Len(q) = Len(c) + 1 /\ \A i \in 1..Len(c) : q[i] = c[i]
  OBVIOUS
<1>3. p = q
  OBVIOUS
<1> HIDE DEF p, q
<1>4. Len(b) = Len(c)
  BY <1>1, <1>2, <1>3
<1> QED
  BY <1>1, <1>2, <1>3, <1>4, SameSequence

\* So two keys have two lines.
LEMMA OutInjective ==
  ASSUME LinkInv, NEW b \in Biz, NEW c \in Biz, Out(b) = Out(c)
  PROVE  b = c
<1>1. b \in Seq(Word) /\ c \in Seq(Word)
  BY BizFinite DEF LinkInv, Files, Line, Text
<1> QED
  BY <1>1, AppendInjective DEF Out

\* ImportInv holds at first.
LEMMA ImportInit == Init => ImportInv
BY EmptyPage DEF Init, ImportInv, ImportExact

\* Lines, and what they count, stay as they are.
LEMMA CountsKept ==
  ASSUME UNCHANGED <<lines, replace, before>>
  PROVE  /\ Biz' = Biz /\ OutLines' = OutLines /\ (Single' <=> Single) /\ KeptKeys' = KeptKeys
         /\ \A bs : Merged(bs)' = Merged(bs)
         /\ \A left : DoneBut(left)' = DoneBut(left)
<1>1. Biz' = Biz /\ OutLines' = OutLines /\ KeptKeys' = KeptKeys
  BY OutLinesKept DEF Biz, KeptKeys
<1>2. \A k : LinesOf(k)' = LinesOf(k) /\ Out(k)' = Out(k)
  BY DEF LinesOf, Out
<1> QED
  BY <1>1, <1>2 DEF Single, Merged, DoneBut

\* Steps that leave the import alone.
LEMMA ImportSame ==
  ASSUME ImportInv, UNCHANGED <<target, replace, pc, scanVars, fileVars, ignored, flowVars>>,
         UNCHANGED <<told, got>> \/ pc # "set" \/ (told' = TRUE /\ got' # Int64(1))
  PROVE  ImportInv'
<1>1. UNCHANGED <<target, replace, pc, page, cursor, seen, lines, outs, ignored, before>>
  BY DEF scanVars, fileVars, flowVars
<1>2. OutLines' = OutLines
  BY <1>1, CountsKept
<1>3. DeletedSoFar' <=> DeletedSoFar
  BY <1>1 DEF DeletedSoFar
<1>4. ImportExact' <=> ImportExact
  BY <1>1 DEF ImportExact, Biz, LinesOf
<1>5. pc = "set" => SetSoFar'
  <2> SUFFICES ASSUME pc = "set" PROVE SetSoFar'
    OBVIOUS
  <2>1. CASE told' = TRUE /\ got' # Int64(1)
    BY <2>1 DEF SetSoFar
  <2>2. CASE UNCHANGED <<told, got>>
    <3>1. SetSoFar
      BY DEF ImportInv
    <3> DEFINE left == IF told THEN Tail(outs) ELSE outs
    <3>2. DoneBut(left)' = DoneBut(left) /\ Merged(DoneBut(left))' = Merged(DoneBut(left))
      <4> HIDE DEF left
      <4>1. left' = left
        BY <1>1, <2>2 DEF left
      <4>2. DoneBut(left') = DoneBut(left)
        BY <4>1
      <4>3. DoneBut(left)' = DoneBut(left)
        BY <1>1, <4>1, CountsKept DEF DoneBut, Out, Biz, LinesOf
      <4> QED
        BY <1>1, <4>1, <4>3 DEF Merged, KeptKeys, LinesOf
    <3> QED
      BY <1>1, <2>2, <3>1, <3>2 DEF SetSoFar, Single, Biz
  <2> QED
    BY <2>1, <2>2
<1> QED
  BY <1>1, <1>2, <1>3, <1>4, <1>5 DEF ImportInv

\* Steps elsewhere: outs stays as it is or is empty.
LEMMA ImportElsewhere ==
  ASSUME IsInjective(outs'), pc' \in {"open", "scan", "keys", "count", "failed"} \/ (pc' = "ok" /\ lines' = <<>>)
  PROVE  ImportInv'
BY DEF ImportInv, ImportExact

\* The line of a key of one word has two.
LEMMA AppendLast ==
  ASSUME NEW T, NEW s \in Seq(T), NEW x \in T
  PROVE  Append(s, x)[Len(s) + 1] = x
<1> DEFINE t == Append(s, x)
<1>1. /\ Len(s) \in Nat /\ DOMAIN s = 1..Len(s) /\ t \in Seq(T) /\ Len(t) = Len(s) + 1
      /\ t[Len(s) + 1] = x /\ \A i \in 1..Len(s) : t[i] = s[i]
  OBVIOUS
<1> QED
  BY <1>1

\* A text of one word is that word.
LEMMA OneElement ==
  ASSUME NEW T, NEW b \in Seq(T), Len(b) = 1, NEW x
  PROVE  b = <<b[1]>> /\ Append(b, x)[1] = b[1] /\ Append(b, x)[2] = x
<1> DEFINE c == <<b[1]>>
<1>1. b[1] \in T
  OBVIOUS
<1>2. c \in Seq(T) /\ Len(c) = 1 /\ c[1] = b[1]
  BY <1>1
<1> HIDE DEF c
<1>3. b = c
  BY <1>2, SameSequence
<1>4. Append(b, x)[1] = b[1] /\ Append(b, x)[2] = x
  <2>1. \A i \in 1..Len(b) : Append(b, x)[i] = b[i]
    OBVIOUS
  <2>2. Append(b, x)[Len(b) + 1] = x
    <3> DEFINE U == T \cup {x}
    <3>1. b \in Seq(U) /\ x \in U
      OBVIOUS
    <3> HIDE DEF U
    <3> QED
      BY <3>1, AppendLast
  <2>3. 1 \in 1..Len(b) /\ Len(b) + 1 = 2
    OBVIOUS
  <2> QED
    BY <2>1, <2>2, <2>3
<1> QED
  BY <1>3, <1>4 DEF c

\* HSET sets the next key of those left to its count.
LEMMA HSetImport ==
  ASSUME LinkInv, ImportInv, OnlyReplies, told = FALSE, told' = TRUE, pc = "set", outs # <<>>,
         target' = Put(target, SetKey, Head(outs)[2])
  PROVE  ImportInv'
<1>1. UNCHANGED <<replace, pc, lines, outs, ignored, before>>
  BY DEF OnlyReplies, fileVars, flowVars
<1>2. SetSoFar'
  <2>9. DoneBut(Tail(outs))' = DoneBut(Tail(outs))
    BY <1>1 DEF DoneBut, Out, Biz, LinesOf
  <2>10. Merged(DoneBut(Tail(outs)))' = Merged(DoneBut(Tail(outs)))
    BY <1>1, <2>9 DEF Merged, KeptKeys, LinesOf
  <2> SUFFICES ASSUME Single', replace => ignored = {}
               PROVE  target' = Merged(DoneBut(Tail(outs)))
    BY <1>1, <2>10 DEF SetSoFar
  <2>1. Single /\ target = Merged(DoneBut(outs))
    BY <1>1, CountsKept DEF ImportInv, SetSoFar
  <2>2. PICK b \in Biz : Head(outs) = Out(b)
    BY TailSeq DEF LinkInv, Files, OutLines
  <2> DEFINE x == ToString(LinesOf(b))
  <2>3. b \in Seq(Word) /\ Len(b) = 1
    BY <2>1, BizFinite DEF LinkInv, Files, Line, Text, Single
  <2>4. Head(outs) = Append(b, x)
    BY <2>2 DEF Out
  <2> HIDE DEF x
  <2>5. b = <<b[1]>> /\ Append(b, x)[1] = b[1] /\ Append(b, x)[2] = x
    BY <2>3, OneElement
  <2>6. SetKey = b /\ Head(outs)[2] = x
    BY <2>4, <2>5 DEF SetKey
  <2>7. DoneBut(Tail(outs)) = DoneBut(outs) \cup {b}
    <3>1. IsInjective(outs) /\ outs \in Seq(OutLines)
      BY DEF ImportInv, LinkInv, Files
    <3>2. Head(outs) \notin Range(Tail(outs)) /\ Range(outs) = Range(Tail(outs)) \cup {Head(outs)}
      BY <3>1, PageSplit
    <3>3. \A c \in Biz : Out(c) = Out(b) => c = b
      BY OutInjective
    <3> QED
      BY <2>2, <3>2, <3>3 DEF DoneBut
  <2>8. Put(Merged(DoneBut(outs)), b, x) = Merged(DoneBut(outs) \cup {b})
    BY DEF Put, Merged, x
  <2> QED
    BY <2>1, <2>6, <2>7, <2>8
<1> QED
  BY <1>1, <1>2 DEF ImportInv, ImportExact

\* DEL removes the key at hand.
LEMMA DelImport ==
  ASSUME ImportInv, OnlyReplies, pc = "del", target' = [l \in DOMAIN target \ {Head(page)} |-> target[l]]
  PROVE  ImportInv'
<1>1. UNCHANGED <<replace, pc, page, cursor, seen, lines, outs, ignored, before>>
  BY DEF OnlyReplies, scanVars, fileVars, flowVars
<1>2. DOMAIN target' \subseteq DOMAIN target
  OBVIOUS
<1>3. DeletedSoFar'
  BY <1>1, <1>2 DEF ImportInv, DeletedSoFar
<1>4. OutLines' = OutLines
  BY <1>1, OutLinesKept
<1> QED
  BY <1>1, <1>2, <1>3, <1>4 DEF ImportInv, ImportExact

\* ImportInv is kept by each command.
LEMMA CommandImport == ASSUME LinkInv, ImportInv, Command PROVE ImportInv'
<1>1. OnlyReplies /\ told' = TRUE /\ told = FALSE
  BY CommandStep DEF Asking, LinkInv, Connection
<1>2. ASSUME target' = target, pc = "set" => got' # Int64(1) PROVE ImportInv'
  <2>1. UNCHANGED <<target, replace, pc, scanVars, fileVars, ignored, flowVars>>
    BY <1>1, <1>2 DEF OnlyReplies
  <2> QED
    BY <1>1, <1>2, <2>1, ImportSame
<1> QED
  BY <1>1, <1>2, CommandStep, DelImport, HSetImport

\* The job writes one line for each business key.
LEMMA CountImport == ASSUME LinkInv, ImportInv, Count PROVE ImportInv'
<1>1. /\ pc' = "openSink" /\ UNCHANGED lines
      /\ outs' = LET bs == SetToSeq(Biz) IN [i \in DOMAIN bs |-> Append(bs[i], ToString(LinesOf(bs[i])))]
  BY DEF Count, GoTo
<1> DEFINE bs == SetToSeq(Biz)
<1>2. bs \in Seq(Biz) /\ IsInjective(bs) /\ Range(bs) = Biz
  <2>1. IsFiniteSet(Biz)
    BY BizFinite DEF LinkInv, Files, Line
  <2> QED
    BY <2>1, SetInSequence
<1>3. outs' = [i \in DOMAIN bs |-> Out(bs[i])]
  BY <1>1 DEF Out
<1> HIDE DEF bs
<1>4. \A i \in DOMAIN bs : bs[i] \in Biz
  BY <1>2 DEF Range
<1>5. IsInjective(outs')
  <2> SUFFICES ASSUME NEW i \in DOMAIN bs, NEW j \in DOMAIN bs, Out(bs[i]) = Out(bs[j]) PROVE i = j
    BY <1>3 DEF IsInjective
  <2>1. bs[i] = bs[j]
    BY <1>4, OutInjective
  <2> QED
    BY <1>2, <2>1 DEF IsInjective
<1>6. OutLines \subseteq Range(outs')
  <2> SUFFICES ASSUME NEW b \in Biz PROVE Out(b) \in Range(outs')
    BY DEF OutLines
  <2>1. PICK i \in DOMAIN bs : bs[i] = b
    BY <1>2 DEF Range
  <2> QED
    BY <1>3, <2>1 DEF Range
<1>7. OutLines' = OutLines
  BY <1>1, OutLinesKept
<1> QED
  BY <1>1, <1>5, <1>6, <1>7 DEF ImportInv, ImportExact

\* Nothing is set yet.
LEMMA NothingDone ==
  ASSUME OutLines \subseteq Range(outs)
  PROVE  DoneBut(outs) = {}
BY DEF DoneBut, OutLines

\* When the import begins the target is as it was before.
LEMMA OpenSinkImport == ASSUME LinkInv, ImportInv, OpenSink PROVE ImportInv'
<1>1. /\ pc = "openSink" /\ pc' = IF replace THEN "delScan" ELSE "set"
      /\ UNCHANGED <<target, replace, lines, outs>> /\ told' = told
      /\ before' = target /\ page' = <<>> /\ seen' = {}
  BY DEF OpenSink, GoTo, openRedis, NewScan, serverVars, fileVars
<1>2. told = FALSE
  BY <1>1, NotTold DEF LinkInv
<1>3. OutLines' = OutLines /\ OutLines \subseteq Range(outs) /\ IsInjective(outs)
  BY <1>1, OutLinesKept DEF ImportInv
<1>4. CASE replace
  <2>1. DeletedSoFar' /\ pc' = "delScan"
    BY <1>1, <1>4 DEF DeletedSoFar
  <2> QED
    BY <1>1, <1>3, <2>1 DEF ImportInv, ImportExact
<1>5. CASE ~replace
  <2>1. DoneBut(outs)' = {}
    BY <1>1, <1>3 DEF DoneBut, OutLines
  <2>2. Merged({})' = target'
    <3>1. KeptKeys' = target /\ target = [k \in DOMAIN target |-> target[k]]
      BY <1>1, <1>5 DEF KeptKeys, LinkInv, Tables
    <3>2. Merged({})' = [k \in {} \cup DOMAIN target |-> IF k \in {} THEN ToString(LinesOf(k)') ELSE target[k]]
      BY <3>1 DEF Merged
    <3>3. Merged({})' = [k \in DOMAIN target |-> target[k]]
      BY <3>2
    <3> QED
      BY <1>1, <3>1, <3>3
  <2>3. SetSoFar'
    BY <1>1, <1>2, <2>1, <2>2 DEF SetSoFar
  <2> QED
    BY <1>1, <1>3, <1>5, <2>3 DEF ImportInv, ImportExact
<1> QED
  BY <1>4, <1>5

\* A page of the target: its keys are seen and are to be deleted.
LEMMA TargetPageImport == ASSUME LinkInv, ImportInv, TargetPage PROVE ImportInv'
<1>1. TakePage("delScan", "del") /\ UNCHANGED <<target, replace, lines, outs, ignored, before>>
  BY DEF TargetPage, serverVars, fileVars, flowVars
<1>2. pc = "delScan" /\ told
  BY <1>1 DEF TakePage, GoTo
<1>3. IsPage(DOMAIN target) \/ got \in {RespErr, Eof}
  BY <1>2 DEF LinkInv, Connection, Replied
<1>4. CASE pc' = "failed"
  BY <1>1, <1>4, ImportElsewhere DEF ImportInv
<1>5. CASE pc' # "failed"
  <2>1. pc' = "del" /\ seen' = seen \cup Range(page') /\ (cursor' = Zero => DOMAIN target \subseteq seen')
    BY <1>1, <1>3, <1>5, TakePageStep DEF GoTo
  <2>2. DeletedSoFar /\ page = <<>> /\ OutLines \subseteq Range(outs) /\ OutLines' = OutLines
    BY <1>1, <1>2, OutLinesKept DEF ImportInv
  <2>3. DeletedSoFar'
    BY <1>1, <2>1, <2>2, EmptyPage DEF DeletedSoFar
  <2> QED
    BY <1>1, <2>1, <2>2, <2>3 DEF ImportInv, ImportExact
<1> QED
  BY <1>4, <1>5

\* A sequence has its head and the elements of its tail.
LEMMA HeadAndTail ==
  ASSUME NEW T, NEW s \in Seq(T), s # <<>>
  PROVE  Range(s) \subseteq Range(Tail(s)) \cup {Head(s)}
<1> DEFINE n == Len(s)
           t == Tail(s)
<1>1. /\ n \in Nat /\ DOMAIN s = 1..n /\ Head(s) = s[1] /\ DOMAIN t = 1..(n - 1)
      /\ \A i \in 1..(n - 1) : t[i] = s[i + 1]
  OBVIOUS
<1> HIDE DEF n, t
<1> SUFFICES ASSUME NEW i \in 1..n, i # 1 PROVE s[i] \in Range(t)
  BY <1>1 DEF Range, t
<1>2. i - 1 \in 1..(n - 1) /\ (i - 1) + 1 = i
  BY <1>1
<1> QED
  BY <1>1, <1>2 DEF Range

\* DEL has returned: the key is gone or the error ignored.
LEMMA DeletedImport == ASSUME LinkInv, ImportInv, Deleted PROVE ImportInv'
<1> DEFINE h == Head(page)
<1>1. /\ pc = "del" /\ pc' = "del" /\ page # <<>> /\ page' = Tail(page) /\ told
      /\ ignored' = IF IsErr(got) THEN ignored \cup {h} ELSE ignored
      /\ UNCHANGED <<target, replace, cursor, seen, lines, outs, before>>
  BY DEF Deleted, Told, serverVars, fileVars, flowVars
<1>2. DeletedSoFar /\ OutLines \subseteq Range(outs) /\ OutLines' = OutLines
  BY <1>1, OutLinesKept DEF ImportInv
<1>3. Range(page) \subseteq Range(page') \cup {h}
  BY <1>1, HeadAndTail DEF LinkInv, Files
<1>4. IsErr(got) \/ h \notin DOMAIN target
  BY <1>1, SmallReplies DEF LinkInv, Connection, Replied
<1>5. DeletedSoFar'
  BY <1>1, <1>2, <1>3, <1>4 DEF DeletedSoFar
<1> QED
  BY <1>1, <1>2, <1>5 DEF ImportInv, ImportExact

\* After the last page nothing is left, unless a DEL failed.
LEMMA DelPageDoneImport == ASSUME LinkInv, ImportInv, DelPageDone PROVE ImportInv'
<1>1. /\ pc = "del" /\ page = <<>> /\ pc' = IF cursor = Zero THEN "set" ELSE "delScan"
      /\ UNCHANGED <<target, replace, told, got, page, cursor, seen, lines, outs, ignored, before>>
  BY DEF DelPageDone, GoTo, serverVars, linkVars, scanVars, fileVars, flowVars
<1>2. DeletedSoFar /\ OutLines \subseteq Range(outs) /\ OutLines' = OutLines /\ IsInjective(outs)
  BY <1>1, OutLinesKept DEF ImportInv
<1>3. told = FALSE
  BY <1>1, NotTold DEF LinkInv
<1>4. CASE cursor # Zero
  <2>1. DeletedSoFar'
    BY <1>1, <1>2 DEF DeletedSoFar
  <2> QED
    BY <1>1, <1>2, <1>4, <2>1 DEF ImportInv, ImportExact
<1>5. CASE cursor = Zero
  <2>1. SetSoFar'
    <3> SUFFICES ASSUME ignored = {} PROVE target' = Merged(DoneBut(outs))'
      BY <1>1, <1>2, <1>3 DEF SetSoFar, DeletedSoFar
    <3>1. DOMAIN target = {} /\ target = [k \in DOMAIN target |-> target[k]]
      BY <1>1, <1>2, <1>5, EmptyPage DEF ImportInv, DeletedSoFar, LinkInv, Tables
    <3>2. DoneBut(outs)' = {}
      BY <1>1, <1>2 DEF DoneBut, OutLines
    <3>3. DOMAIN KeptKeys' = {}
      BY <1>1, <1>2 DEF KeptKeys, NoKeys, DeletedSoFar
    <3>4. DOMAIN Merged({})' = {} /\ Merged({})' = [k \in DOMAIN Merged({})' |-> Merged({})'[k]]
      BY <3>3 DEF Merged
    <3>5. target = Merged({})'
      BY <3>1, <3>4
    <3> QED
      BY <1>1, <3>2, <3>5
  <2> QED
    BY <1>1, <1>2, <1>5, <2>1 DEF ImportInv, ImportExact
<1> QED
  BY <1>4, <1>5

\* HSET has returned: the line is done, or the import fails.
LEMMA StoredImport == ASSUME LinkInv, ImportInv, Stored PROVE ImportInv'
<1>1. /\ pc = "set" /\ told /\ outs # <<>> /\ outs' = Tail(outs)
      /\ UNCHANGED <<target, replace, lines, ignored, before>>
      /\ IF IsErr(got) THEN pc' = "failed" ELSE pc' = "set" /\ Told
  BY DEF Stored, GoTo, serverVars, flowVars
<1>2. IsInjective(outs') /\ SetSoFar
  BY <1>1, PageSplit DEF ImportInv, LinkInv, Files
<1>3. CASE IsErr(got)
  BY <1>1, <1>2, <1>3, ImportElsewhere
<1>4. CASE ~IsErr(got)
  <2>1. got = Int64(1) /\ told' = FALSE /\ pc' = "set"
    BY <1>1, <1>4, SmallReplies DEF LinkInv, Connection, Replied, Told
  <2>2. SetSoFar'
    <3> SUFFICES ASSUME Single', replace => ignored = {} PROVE target' = Merged(DoneBut(outs))'
      BY <1>1, <2>1 DEF SetSoFar
    <3>1. Single
      BY <1>1, CountsKept
    <3>2. target = Merged(DoneBut(Tail(outs)))
      BY <1>1, <1>2, <2>1, <3>1 DEF SetSoFar
    <3>3. DoneBut(outs)' = DoneBut(Tail(outs))
      BY <1>1 DEF DoneBut, Out, Biz, LinesOf
    <3>4. Merged(DoneBut(outs))' = Merged(DoneBut(Tail(outs)))
      BY <1>1, <3>3 DEF Merged, KeptKeys, LinesOf
    <3> QED
      BY <1>1, <3>2, <3>4
  <2> QED
    BY <1>2, <2>1, <2>2 DEF ImportInv, ImportExact
<1> QED
  BY <1>3, <1>4

\* The import succeeds with no line left.
LEMMA ReturnsImport == ASSUME LinkInv, ImportInv, ImportReturns PROVE ImportInv'
<1>1. /\ told = FALSE /\ pc = "set"
      /\ pc' = "failed" \/ (outs = <<>> /\ pc' = "ok")
      /\ UNCHANGED <<target, replace, lines, outs, ignored, before>>
  BY DEF ImportReturns, GoTo, LinkInv, Connection, serverVars, fileVars, flowVars
<1>2. CASE pc' = "failed"
  BY <1>1, <1>2, ImportElsewhere DEF ImportInv
<1>3. CASE pc' # "failed"
  <2>1. outs = <<>> /\ pc' = "ok" /\ SetSoFar
    BY <1>1, <1>3 DEF ImportInv
  <2>2. DoneBut(outs) = Biz
    BY <2>1, EmptyPage DEF DoneBut
  <2>3. Single /\ (replace => ignored = {}) => target = Merged(Biz)
    BY <1>1, <2>1, <2>2 DEF SetSoFar
  <2>4. Biz' = Biz /\ (Single' <=> Single) /\ Merged(Biz)' = Merged(Biz)
    BY <1>1, CountsKept DEF Merged, Biz, KeptKeys, LinesOf
  <2>5. ImportExact'
    <3> SUFFICES ASSUME Single', ~(replace' /\ ignored' # {}) PROVE target' = Merged(Biz)'
      BY DEF ImportExact, Single, Merged, KeptKeys
    <3> QED
      BY <1>1, <2>3, <2>4
  <2> QED
    BY <1>1, <2>1, <2>5 DEF ImportInv
<1> QED
  BY <1>2, <1>3

\* The steps of the export, and the ends with an error, leave the import alone.
LEMMA OtherImport ==
  ASSUME LinkInv, ImportInv,
         OpenSource \/ SourcePage \/ Fields \/ WriteFails \/ NextPage \/ ExportReturns \/ OpenFails \/ Rerun
  PROVE  ImportInv'
<1>1. outs' = outs \/ outs' = <<>>
  BY DEF OpenSource, SourcePage, Fields, WriteFails, NextPage, ExportReturns, OpenFails, Rerun, fileVars
<1>2. IsInjective(outs')
  BY <1>1, EmptyPage DEF ImportInv
<1>3. ASSUME ExportReturns PROVE pc' = "count" \/ (pc' = "ok" /\ lines' = <<>>)
  <2>1. CASE lines = <<>>
    <3>1. 0..(Len(lines) - 1) = {}
      BY <2>1
    <3> QED
      BY <1>3, <2>1, <3>1 DEF ExportReturns, GoTo
  <2>2. CASE lines # <<>>
    BY <1>3, <2>2 DEF ExportReturns, GoTo
  <2> QED
    BY <2>1, <2>2
<1>4. ~ExportReturns => pc' \in {"open", "scan", "keys", "failed"}
  BY DEF OpenSource, SourcePage, TakePage, Fields, WriteFails, NextPage, OpenFails, Rerun, GoTo
<1> QED
  BY <1>2, <1>3, <1>4, ImportElsewhere

\* ImportInv is inductive, with LinkInv.
LEMMA ImportStep == ASSUME LinkInv, ImportInv, [Next]_vars PROVE ImportInv'
<1>1. ASSUME Stall PROVE ImportInv'
  <2>1. UNCHANGED <<target, replace, pc, scanVars, fileVars, ignored, flowVars, told, got>>
    BY <1>1, StallLink DEF serverVars
  <2> QED
    BY <2>1, ImportSame
<1>2. ASSUME NEW k \in DOMAIN source, Expire(k) PROVE ImportInv'
  <2>1. UNCHANGED <<target, replace, pc, scanVars, fileVars, ignored, flowVars, told, got>>
    BY <1>2, ExpireStep
  <2> QED
    BY <2>1, ImportSame
<1>3. ASSUME Client PROVE ImportInv'
  BY <1>3, CountImport, OpenSinkImport, TargetPageImport, DeletedImport, DelPageDoneImport,
     StoredImport, ReturnsImport, OtherImport
  DEF Client, Export, Import
<1>4. ASSUME UNCHANGED vars PROVE ImportInv'
  <2>1. UNCHANGED <<target, replace, pc, scanVars, fileVars, ignored, flowVars, told, got>>
    BY <1>4 DEF vars, serverVars, linkVars
  <2> QED
    BY <2>1, ImportSame
<1> QED
  BY <1>1, <1>2, <1>3, <1>4, NextCases, CommandImport, OtherImport

\* ImportExact, for all sources, targets, pages and runs: an import that succeeds has
\* set each count and left nothing else, whatever failed before it.
THEOREM ImportExactHolds == Spec => []ImportExact
<1>1. Init => LinkInv /\ ImportInv
  BY LinkInit, ImportInit
<1>2. LinkInv /\ ImportInv /\ [Next]_vars => LinkInv' /\ ImportInv'
  BY LinkStep, ImportStep
<1>3. ImportInv => ImportExact
  BY DEF ImportInv
<1> QED
  BY <1>1, <1>2, <1>3, PTL DEF Spec
=============================================================================
