----------------------------- MODULE RedisBatch -----------------------------
(***************************************************************************)
(* A flow from Redis to Redis: ExportSource scans the keys of the source   *)
(* and writes one line for each hash, the builtin count counts the lines   *)
(* of each business key, and ImportReduceOutputs of the Redis sink sets    *)
(* one field per line of the reduce outputs.                               *)
(*                                                                         *)
(* Commands go over one connection, one at a time: a command is sent and   *)
(* its reply read with readResp.  The server (external) may answer with an *)
(* error; the connection may break before, within or after a reply; or no  *)
(* reply ever comes, and then the client waits for ever, because no        *)
(* deadline is set and the context is not looked at.  SCAN promises that a *)
(* key that is there from the first page to the last is returned, perhaps  *)
(* more than once, and nothing about a key that expires on the way.        *)
(*                                                                         *)
(* Texts have no tabs, line breaks or blanks at their ends.                *)
(***************************************************************************)
EXTENDS RESP, FiniteSets, TLC

CONSTANTS
  Sources,      \* the sources to choose from: functions from keys to hashes
  Targets,      \* the targets to choose from: functions from keys to values
  MaxPages,     \* bound: pages of one SCAN
  MaxExpired,   \* bound: keys that expire
  MaxRuns       \* bound: runs of the flow

\* A key that is no hash.
NotAHash == [type |-> "other"]

\* A hash as HMGET returns it.
Hash(biz, metric) == Arr(<<biz, metric>>)

\* Nil and texts.
Field == {NilValue} \cup [type : {"string"}, text : Text]

ASSUME SourcesAssumption ==
  \A s \in Sources :
    /\ IsFiniteSet(DOMAIN s)
    /\ \A k \in DOMAIN s : k \in Text \ {<<>>} /\ s[k] \in {NotAHash} \cup [type : {"array"}, vs : [1..2 -> Field]]
ASSUME TargetsAssumption ==
  \A t \in Targets :
    IsFiniteSet(DOMAIN t) /\ t \in [DOMAIN t -> STRING] /\ \A k \in DOMAIN t : k \in Text \ {<<>>}
ASSUME BoundsAssumption == MaxPages \in Nat \ {0} /\ MaxExpired \in Nat /\ MaxRuns \in Nat \ {0}

VARIABLES
  source,     \* the keys of the source and their values
  target,     \* the keys of the target, without prefix, and the value of the field
  replace,    \* cfg.Replace
  link,       \* the connection: "closed" | "up" | "broken" | "stalled" | "waiting"
  unread,     \* the bytes that have arrived and are not read
  told,       \* do has returned
  got,        \* the value or error it has returned
  pc,         \* where the flow is
  page,       \* the keys of the page that are left to do
  cursor,     \* the cursor of the next page
  pages,      \* the pages so far
  seen,       \* the keys SCAN has returned
  returned,   \* history: how often it has returned each key of the source
  lines,      \* the lines of the shard file
  outs,       \* the fields of the lines of the reduce outputs that are left to do
  ignored,    \* history: keys whose command failed and whose error was ignored
  flushed,    \* history: the last Flush of the shard file succeeded
  before,     \* history: the target when the import began
  runs        \* runs of the flow so far

serverVars == <<source, target, replace>>
linkVars == <<link, unread, told, got>>
scanVars == <<page, cursor, pages, seen, returned>>
fileVars == <<lines, outs>>
flowVars == <<flushed, before, runs>>
vars == <<serverVars, linkVars, pc, scanVars, fileVars, ignored, flowVars>>

Zero == <<"0">>
More == <<"7">>
ASSUME CursorsAssumption == {Zero, More} \subseteq Text
NoKeys == [k \in {} |-> 0]

\* Table t with the field of key k set to val.
Put(t, k, val) == [l \in DOMAIN t \cup {k} |-> IF l = k THEN val ELSE t[l]]

Links == {"closed", "up", "broken", "stalled", "waiting"}
Steps == {"open", "scan", "keys", "count", "openSink", "delScan", "del", "set", "ok", "failed"}

\* The keys, pages and files are of the source and the target.
TypeOK ==
  /\ replace \in BOOLEAN /\ flushed \in BOOLEAN /\ told \in BOOLEAN
  /\ link \in Links /\ pc \in Steps
  /\ cursor \in {Zero, More} /\ pages \in 0..MaxPages
  /\ Range(page) \subseteq seen
  /\ \A i \in DOMAIN lines : lines[i].key \in DOMAIN returned
  /\ runs \in 1..MaxRuns

Init ==
  /\ source \in Sources /\ target \in Targets /\ replace \in BOOLEAN
  /\ link = "closed" /\ unread = <<>> /\ told = FALSE /\ got = NilValue
  /\ pc = "open"
  /\ page = <<>> /\ cursor = Zero /\ pages = 0 /\ seen = {}
  /\ returned = [k \in DOMAIN source |-> 0]
  /\ lines = <<>> /\ outs = <<>>
  /\ ignored = {} /\ flushed = TRUE
  /\ before = target
  /\ runs = 1

-----------------------------------------------------------------------------
(* The client and the server.                                              *)

\* The flow is inside do: a command is on its way.
Asking ==
  /\ ~told /\ link \in {"up", "broken"}
  /\ pc \in {"scan", "delScan"} \/ (pc \in {"keys", "del"} /\ page # <<>>) \/ (pc = "set" /\ outs # <<>>)

\* The server answers with r and the client reads that, up to where the connection
\* breaks.  A client that wants more bytes than the reply has waits for them.
Do(r) ==
  LET w == Encode(r)
  IN  /\ Asking /\ told' = TRUE
      /\ \E n \in IF link = "up" THEN 0..Len(w) ELSE {0} :
           LET read == readResp[unread \o SubSeq(w, 1, n)]
           IN  /\ got' = read.v
               /\ unread' = read.rest
               /\ link' = IF n < Len(w) THEN "broken" ELSE IF read.v = Eof THEN "waiting" ELSE "up"

\* A page of SCAN; the last one completes the promise.
DoScan(db) ==
  /\ \E keys \in SUBSET db, more \in BOOLEAN :
       LET names == SetToSeq(keys)
           found == Arr([i \in DOMAIN names |-> Str(names[i])])
       IN  /\ more => pages + 1 < MaxPages
           /\ ~more => db \subseteq seen \cup keys
           /\ Do(Arr(<<Str(IF more THEN More ELSE Zero), found>>))
  /\ UNCHANGED <<serverVars, pc, scanVars, fileVars, ignored, flowVars>>

\* HMGET of a key, which may have expired since the page.
DoHMGet(k) ==
  /\ Do(IF k \notin DOMAIN source THEN Hash(NilValue, NilValue)
        ELSE IF source[k] = NotAHash THEN RespErr ELSE source[k])
  /\ UNCHANGED <<serverVars, pc, scanVars, fileVars, ignored, flowVars>>

\* DEL of a key and HSET of a key to a value, if the connection still carries them.
DoDel(k) ==
  /\ Do(Int64(1))
  /\ target' = IF link = "up" THEN [l \in DOMAIN target \ {k} |-> target[l]] ELSE target
  /\ UNCHANGED <<source, replace, pc, scanVars, fileVars, ignored, flowVars>>

DoHSet(k, val) ==
  /\ Do(Int64(1))
  /\ target' = IF link = "up" THEN Put(target, k, val) ELSE target
  /\ UNCHANGED <<source, replace, pc, scanVars, fileVars, ignored, flowVars>>

\* The server refuses the command, or the connection breaks before it arrives.
DoRefused ==
  /\ Do(RespErr)
  /\ UNCHANGED <<serverVars, pc, scanVars, fileVars, ignored, flowVars>>

Command ==
  \/ pc = "scan" /\ DoScan(DOMAIN source)
  \/ pc = "keys" /\ page # <<>> /\ DoHMGet(Head(page))
  \/ pc = "delScan" /\ DoScan(DOMAIN target)
  \/ pc = "del" /\ page # <<>> /\ DoDel(Head(page))
  \/ pc = "set" /\ outs # <<>> /\ Len(Head(outs)) >= 2 /\ DoHSet(<<Head(outs)[1]>>, Head(outs)[2])
  \/ DoRefused

\* Redis stops answering, to a command or to openRedis's AUTH, SELECT or PING: no
\* deadline ends the wait for the reply.
Stall ==
  /\ \/ Asking /\ link = "up"
     \/ pc \in {"open", "openSink"} /\ link = "closed"
  /\ link' = "stalled"
  /\ UNCHANGED <<serverVars, unread, told, got, pc, scanVars, fileVars, ignored, flowVars>>

\* A key of the source expires while the export runs.
Expire(k) ==
  /\ pc \in {"scan", "keys"}
  /\ Cardinality(DOMAIN returned \ DOMAIN source) < MaxExpired
  /\ source' = [l \in DOMAIN source \ {k} |-> source[l]]
  /\ UNCHANGED <<target, replace, linkVars, pc, scanVars, fileVars, ignored, flowVars>>

-----------------------------------------------------------------------------
GoTo(from, to) == pc = from /\ pc' = to

\* The flow goes on with what do returned.
Told == told /\ told' = FALSE /\ got' = NilValue /\ UNCHANGED <<link, unread>>

\* The connection is closed when the function returns.
Close == link' = "closed" /\ unread' = <<>> /\ told' = FALSE /\ got' = NilValue

\* openRedis: a dial, at most 5 seconds, then AUTH and SELECT, if configured, and
\* PING, each answered with a status; see OpenFails and Stall for the other ends.
openRedis ==
  /\ link' = "up" /\ UNCHANGED <<told, got>>
  /\ unread' = readResp[Encode(Status)].rest

NewScan == page' = <<>> /\ cursor' = Zero /\ pages' = 0 /\ seen' = {}

\* The page of a SCAN, or a return with its error.
TakePage(from, to) ==
  /\ told
  /\ IF got.type = "array" /\ Len(got.vs) = 2 /\ got.vs[2].type = "array"
       THEN /\ GoTo(from, to) /\ Told
            /\ cursor' = toString(got.vs[1])
            /\ page' = [i \in DOMAIN got.vs[2].vs |-> toString(got.vs[2].vs[i])]
            /\ pages' = pages + 1
            /\ seen' = seen \cup Range(page')
       ELSE /\ GoTo(from, "failed") /\ Close
            /\ UNCHANGED <<cursor, page, pages, seen>>

-----------------------------------------------------------------------------
(* ExportSource.                                                           *)

\* Connected; the old shard files are removed and the new one is there.
OpenSource ==
  /\ GoTo("open", "scan")
  /\ openRedis
  /\ UNCHANGED <<serverVars, scanVars, fileVars, ignored, flowVars>>

\* Redis cannot be reached, or no file be created.
OpenFails ==
  /\ \E at \in {"open", "openSink"} : GoTo(at, "failed")
  /\ UNCHANGED <<serverVars, linkVars, scanVars, fileVars, ignored, flowVars>>

SourcePage ==
  /\ TakePage("scan", "keys")
  /\ returned' = [k \in DOMAIN returned |->
                    returned[k] + (IF pc' = "keys" /\ k \in Range(page') THEN 1 ELSE 0)]
  /\ UNCHANGED <<serverVars, fileVars, ignored, flowVars>>

\* The line for a key, if there is one: without two fields or without a metric there
\* is none, and without a business key the key's name is used.
LineOf(k, v) ==
  LET biz == toString(v.vs[1])
  IN  IF v.type # "array" \/ Len(v.vs) < 2 \/ toString(v.vs[2]) = <<>> THEN <<>>
      ELSE <<[key |-> k, biz |-> IF biz = <<>> THEN k ELSE biz]>>

\* Faulty variant of Fields: HMGET is tried again until it succeeds.
FieldsRetries ==
  /\ pc = "keys" /\ page # <<>>
  /\ Told
  /\ lines' = IF IsErr(got) THEN lines ELSE lines \o LineOf(Head(page), got)
  /\ page' = IF IsErr(got) THEN page ELSE Tail(page)
  /\ UNCHANGED <<serverVars, pc, cursor, pages, seen, returned, outs, ignored, flowVars>>

\* Faulty variant of Fields: the lines of a page are kept from its last key only.
FieldsOfLast ==
  /\ pc = "keys" /\ page # <<>>
  /\ Told
  /\ ignored' = IF IsErr(got) THEN ignored \cup {Head(page)} ELSE ignored
  /\ lines' = IF IsErr(got) \/ Len(page) > 1 THEN lines ELSE lines \o LineOf(Head(page), got)
  /\ page' = Tail(page)
  /\ UNCHANGED <<serverVars, pc, cursor, pages, seen, returned, outs, flowVars>>

\* What HMGET returned is a line; an error is ignored, whatever it is.
Fields ==
  /\ pc = "keys" /\ page # <<>>
  /\ Told
  /\ ignored' = IF IsErr(got) THEN ignored \cup {Head(page)} ELSE ignored
  /\ lines' = IF IsErr(got) THEN lines ELSE lines \o LineOf(Head(page), got)
  /\ page' = Tail(page)
  /\ UNCHANGED <<serverVars, pc, cursor, pages, seen, returned, outs, flowVars>>

\* The buffer is full and cannot be written to the file.
WriteFails ==
  /\ told /\ page # <<>> /\ ~IsErr(got) /\ LineOf(Head(page), got) # <<>>
  /\ GoTo("keys", "failed")
  /\ Close
  /\ UNCHANGED <<serverVars, scanVars, fileVars, ignored, flowVars>>

NextPage ==
  /\ page = <<>> /\ cursor # Zero
  /\ GoTo("keys", "scan")
  /\ UNCHANGED <<serverVars, linkVars, scanVars, fileVars, ignored, flowVars>>

\* cursor == "0".  Without lines the flow ends here, whatever the target holds.
\* The deferred Flush comes last and its error is lost, with the end of the file.
ExportReturns ==
  /\ page = <<>> /\ cursor = Zero
  /\ GoTo("keys", IF lines = <<>> THEN "ok" ELSE "count")
  /\ Close
  /\ \/ UNCHANGED <<lines, flushed>>
     \/ /\ flushed' = FALSE
        /\ \E n \in 0..(Len(lines) - 1) : lines' = SubSeq(lines, 1, n)
  /\ UNCHANGED <<serverVars, scanVars, outs, ignored, before, runs>>

-----------------------------------------------------------------------------
(* The job, with the builtin count.                                        *)

Biz == {lines[i].biz : i \in DOMAIN lines}

LinesOf(b) == Cardinality({i \in DOMAIN lines : lines[i].biz = b})

\* A line of the output is the key, a blank and the count.
Count ==
  /\ GoTo("count", "openSink")
  /\ outs' = LET bs == SetToSeq(Biz)
             IN  [i \in DOMAIN bs |-> Append(bs[i], ToString(LinesOf(bs[i])))]
  /\ UNCHANGED <<serverVars, linkVars, scanVars, lines, ignored, flowVars>>

-----------------------------------------------------------------------------
(* ImportReduceOutputs.                                                    *)

OpenSink ==
  /\ GoTo("openSink", IF replace THEN "delScan" ELSE "set")
  /\ openRedis
  /\ before' = target /\ ignored' = {}
  /\ NewScan /\ returned' = [k \in DOMAIN returned |-> 0]
  /\ UNCHANGED <<serverVars, fileVars, flushed, runs>>

TargetPage ==
  /\ TakePage("delScan", "del")
  /\ UNCHANGED <<serverVars, returned, fileVars, ignored, flowVars>>

\* DEL has returned; its error is ignored.
Deleted ==
  /\ pc = "del" /\ page # <<>>
  /\ Told
  /\ ignored' = IF IsErr(got) THEN ignored \cup {Head(page)} ELSE ignored
  /\ page' = Tail(page)
  /\ UNCHANGED <<serverVars, pc, cursor, pages, seen, returned, fileVars, flowVars>>

\* Faulty variant of DelPageDone: only the first page is deleted.
DelPageDoneFirst ==
  /\ page = <<>>
  /\ GoTo("del", "set")
  /\ UNCHANGED <<serverVars, linkVars, scanVars, fileVars, ignored, flowVars>>

DelPageDone ==
  /\ page = <<>>
  /\ GoTo("del", IF cursor = Zero THEN "set" ELSE "delScan")
  /\ UNCHANGED <<serverVars, linkVars, scanVars, fileVars, ignored, flowVars>>

\* HSET has returned; an error ends the import.
Stored ==
  /\ told /\ outs # <<>>
  /\ IF IsErr(got) THEN GoTo("set", "failed") /\ Close ELSE GoTo("set", "set") /\ Told
  /\ outs' = Tail(outs)
  /\ UNCHANGED <<serverVars, scanVars, lines, ignored, flowVars>>

\* All lines are set, or a file cannot be read.
ImportReturns ==
  /\ ~told
  /\ \/ outs = <<>> /\ GoTo("set", "ok")
     \/ outs # <<>> /\ GoTo("set", "failed")
  /\ Close
  /\ UNCHANGED <<serverVars, scanVars, fileVars, ignored, flowVars>>

-----------------------------------------------------------------------------
Export == OpenSource \/ SourcePage \/ Fields \/ WriteFails \/ NextPage \/ ExportReturns

Import == OpenSink \/ TargetPage \/ Deleted \/ DelPageDone \/ Stored \/ ImportReturns

Waits == link \in {"stalled", "waiting"}

Client == ~Waits /\ (Export \/ OpenFails \/ Count \/ Import)

Ended == pc \in {"ok", "failed"}

\* The flow is run once more.
Rerun ==
  /\ Ended /\ runs < MaxRuns
  /\ runs' = runs + 1
  /\ pc' = "open"
  /\ Close
  /\ NewScan
  /\ returned' = [k \in DOMAIN returned |-> 0]
  /\ lines' = <<>> /\ outs' = <<>>
  /\ ignored' = {} /\ flushed' = TRUE
  /\ before' = target
  /\ UNCHANGED serverVars

Terminated == ((Ended /\ runs = MaxRuns) \/ Waits) /\ UNCHANGED vars

Next ==
  \/ Command \/ Stall \/ (\E k \in DOMAIN source : Expire(k))
  \/ Client
  \/ Rerun
  \/ Terminated

Spec == Init /\ [][Next]_vars

\* The process is scheduled, and a command is answered or the connection breaks;
\* only Command makes told true.
FairSpec == Spec /\ WF_vars(Client) /\ WF_told(Asking /\ told' = TRUE)

-----------------------------------------------------------------------------
(* Properties.                                                             *)

\* Commands and replies stay in step, whatever nils, errors and arrays the replies
\* are made of: a reply is read to its end and no further, so that no command
\* gets the reply of another and the client never waits for bytes it is not owed.
InStep == link # "waiting" /\ (link = "up" => unread = <<>>)

\* A key for which the export writes lines.
Counted(k) == source[k] # NotAHash /\ toString(source[k].vs[2]) # <<>>

\* When ExportSource has returned without an error and its file is complete, each
\* key that was there throughout has been returned, and has as many lines as it
\* was returned times, unless its HMGET failed, which nobody learns of: not the
\* ones after the connection broke in the last page either.
LinesMatchScans ==
  (pc = "count" \/ (pc = "ok" /\ lines = <<>>)) /\ flushed =>
    \A k \in DOMAIN source \ ignored :
      LET n == Cardinality({i \in DOMAIN lines : lines[i].key = k})
      IN  returned[k] > 0 /\ n = IF Counted(k) THEN returned[k] ELSE 0

\* When an import has succeeded, the target has the count of each business key,
\* and besides it what was there before or, with Replace and unless a DEL failed,
\* nothing, however many imports failed or broke off before.  Keys are of one
\* word: of others the sink takes the first word and sets it to the second.
ImportExact ==
  pc = "ok" /\ lines # <<>> /\ (\A b \in Biz : Len(b) = 1) =>
    LET kept == IF replace THEN NoKeys ELSE before
    IN  \/ target = [k \in Biz \cup DOMAIN kept |-> IF k \in Biz THEN ToString(LinesOf(k)) ELSE kept[k]]
        \/ replace /\ ignored # {}

\* A run of the flow ends, unless Redis stops answering within it.
Returns == pc = "open" ~> Ended \/ link = "stalled"
=============================================================================
