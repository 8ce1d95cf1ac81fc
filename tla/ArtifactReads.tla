----------------------------- MODULE ArtifactReads -----------------------------
(***************************************************************************)
(* The tool results of a chat session: the registry that runs a turn's     *)
(* calls (tools/registry.py), the store that keeps what is too large for   *)
(* the model (artifacts/store.py, externalize.py, processor.py), the reads *)
(* and pages that fit its budget (retrieval.py, grep.py, query.py), and    *)
(* the rewriter that replaces a read a later one covers (lifecycle.py).    *)
(* Sizes are in units of the budget; a document is a list of rows.         *)
(***************************************************************************)
EXTENDS Integers, Sequences, FiniteSets

CONSTANTS
  Documents,     \* the documents a tool may produce: sequences of row sizes
  InlineMax,     \* inline_max_bytes
  Budget,        \* observation_max_bytes
  Envelope,      \* what a result needs beside its rows or matches
  PointerSize,   \* size of an _artifact_path pointer
  Offsets, Limits,  \* what the model asks for
  MaxOffset,     \* the largest offset of a query
  MaxBatch,      \* bound: calls of a turn
  MaxTimeouts,   \* bound: calls that time out
  MaxMessages    \* bound: results of a session

ASSUME ArtifactAssumption ==
  /\ Documents \subseteq Seq(Nat) /\ {InlineMax, Budget} \subseteq Nat \ {0}
  /\ {Envelope, PointerSize} \subseteq Nat
  /\ {MaxOffset, MaxBatch, MaxTimeouts, MaxMessages} \subseteq Nat
  /\ InlineMax <= Budget /\ Envelope <= Budget
  /\ Offsets \subseteq Nat /\ Limits \subseteq Nat \ {0}

VARIABLES
  documents,   \* SessionArtifactStore._documents, by reference
  lost,        \* the references of the stores before this one
  calling,       \* the calls of the turn
  results,     \* the results of those that have ended
  toolHistory,  \* the tool results of the effective history
  scope,       \* the messages before the request
  pager        \* the reader that follows next_offset through document 1

artifactVars == <<documents, lost, calling, results, toolHistory, scope, pager>>

Shapes ==
  {[op |-> "produce", safe |-> safe, ref |-> 0, at |-> 0, limit |-> 0] : safe \in BOOLEAN}
    \cup [op : {"rows"}, safe : {TRUE}, ref : {1, 2}, at : Offsets, limit : Limits]
    \cup [op : {"row"}, safe : {TRUE}, ref : {1}, at : {1}, limit : {0}]
    \cup [op : {"outline", "grep", "query"}, safe : {TRUE}, ref : {1}, at : {0}, limit : {2}]

NoPages == [next |-> 0, seen |-> <<>>]
ToolResult(kind, ref, from, to, size) ==
  [kind |-> kind, ref |-> ref, from |-> from, to |-> to, size |-> size, raw |-> TRUE]
Error(kind) == ToolResult(kind, 0, 0, 0, 1)

ArtifactInit ==
  /\ documents = <<>> /\ lost = 0 /\ calling = <<>> /\ results = <<>> /\ toolHistory = <<>>
  /\ scope = 0 /\ pager = NoPages
-----------------------------------------------------------------------------
SizeOf(rows) ==
  LET sum[n \in 0..Len(rows)] == IF n = 0 THEN 0 ELSE sum[n - 1] + rows[n]
  IN sum[Len(rows)]

(* The most of these, from the first, that fits with the envelope *)
Fitting(rows) ==
  CHOOSE n \in 0..Len(rows) :
    /\ Envelope + SizeOf(SubSeq(rows, 1, n)) <= Budget
    /\ \A m \in n + 1..Len(rows) : Envelope + SizeOf(SubSeq(rows, 1, m)) > Budget

(* build_bounded_observation: the members of a document in its order, each *)
(* whole or as a pointer, until one does not fit.                          *)
View(rows) ==
  LET used[n \in 0..Len(rows)] ==
        IF n = 0 THEN [size |-> Envelope, ended |-> FALSE]
        ELSE LET was == used[n - 1]
                 fits(s) == was.size + s <= Budget
             IN IF was.ended THEN was
                ELSE IF fits(rows[n]) THEN [was EXCEPT !.size = @ + rows[n]]
                ELSE IF fits(PointerSize) THEN [was EXCEPT !.size = @ + PointerSize]
                ELSE [was EXCEPT !.ended = TRUE]
  IN used[Len(rows)].size

(* process: a small result stays as it is, any other is stored, and shown  *)
(* whole in an envelope when it may and fits, or else as its view.         *)
Produced(rows, always) ==
  LET size == SizeOf(rows)
      ref == Len(documents) + 1
  IN IF size <= InlineMax /\ ~always THEN ToolResult("inline", 0, 0, 0, size)
     ELSE IF size <= InlineMax /\ Envelope + size <= Budget
     THEN ToolResult("whole", ref, 0, 0, Envelope + size)
     ELSE ToolResult("view", ref, 0, 0, View(rows))

(* read of a list: complete rows only, fewer than asked if need be *)
ReadRows(ref, offset, limit) ==
  LET rows == documents[ref]
      end == IF offset + limit < Len(rows) THEN offset + limit ELSE Len(rows)
      asked == SubSeq(rows, offset + 1, end)
      count == Fitting(asked)
  IN IF asked # <<>> /\ count = 0 THEN Error("too_large")
     ELSE ToolResult("rows", ref, offset, offset + count,
                     Envelope + SizeOf(SubSeq(asked, 1, count)))

(* read of one value: all of it or an error, and the outline of the root *)
ReadRow(ref, i) ==
  IF i > Len(documents[ref]) THEN Error("not_found")
  ELSE IF Envelope + documents[ref][i] > Budget THEN Error("too_large")
  ELSE ToolResult("row", ref, i, i, Envelope + documents[ref][i])

(* _grep_document and _evaluate: the matches from offset, at most limit,   *)
(* fewer if they do not fit, and where the next page begins if there is    *)
(* one.                                                                    *)
Page(rows, offset, limit) ==
  LET end == IF offset + limit < Len(rows) THEN offset + limit ELSE Len(rows)
      found == SubSeq(rows, offset + 1, end)
      count == Fitting(found)
  IN [count |-> count, fails |-> found # <<>> /\ count = 0,
      more |-> offset + limit < Len(rows) \/ count < Len(found),
      size |-> Envelope + SizeOf(SubSeq(found, 1, count))]

PageMessage(op, offset, limit) ==
  LET page == Page(documents[1], offset, limit)
  IN IF page.fails \/ (op = "query" /\ page.more /\ offset + page.count > MaxOffset)
     THEN Error("too_large") ELSE ToolResult(op, 1, offset, offset + page.count, page.size)

(* bound_result: the last check, of whatever a tool returns *)
Bounded(message) == IF message.size <= Budget THEN message ELSE Error("over_limit")
-----------------------------------------------------------------------------
(* The model asks for a turn of calls; a pager continues where it was told *)
Continues(call) == [call EXCEPT !.at = IF call.op \in {"grep", "query"} THEN pager.next ELSE @]

Turn ==
  /\ calling = <<>>
  /\ \E n \in 1..MaxBatch : \E calls \in [1..n -> Shapes] :
       /\ Len(toolHistory) + n <= MaxMessages
       /\ Cardinality({i \in 1..n : calls[i].op \in {"grep", "query"}}) <= 1
       /\ (\E i \in 1..n : calls[i].op \in {"grep", "query"}) => pager.next >= 0
       /\ calling' = [i \in 1..n |-> Continues(calls[i])]
       /\ results' = [i \in 1..n |-> <<>>]
  /\ UNCHANGED <<documents, lost, toolHistory, scope, pager>>

Ended(i) == results[i] # <<>>

(* execute_many: neighbours that are safe in parallel run together, any    *)
(* other call runs alone, in the order of the calls.                       *)
Eligible(i) ==
  \A j \in 1..i - 1 : ~Ended(j) => \A k \in j..i : calling[k].safe

(* A call ends with a result, or runs into its timeout *)
EndCall(i) ==
  /\ i \in DOMAIN calling /\ ~Ended(i) /\ Eligible(i)
  /\ LET call == calling[i]
         known == call.ref \in lost + 1..Len(documents)
         Give(message) == results' = [results EXCEPT ![i] = <<Bounded(message)>>]
     IN \/ /\ call.op = "produce"
           /\ \E rows \in Documents, always \in BOOLEAN :
                LET message == Produced(rows, always)
                IN /\ Give(message)
                   /\ documents' = IF message.ref = 0 THEN documents ELSE Append(documents, rows)
           /\ pager' = pager
        \/ /\ call.op \in {"rows", "row", "outline"}
           /\ Give(IF ~known THEN Error("not_found")
                   ELSE CASE call.op = "rows" -> ReadRows(call.ref, call.at, call.limit)
                          [] call.op = "row" -> ReadRow(call.ref, call.at)
                          [] OTHER -> ToolResult("outline", call.ref, 0, 0, Envelope))
           /\ UNCHANGED <<documents, pager>>
        \/ /\ call.op \in {"grep", "query"} /\ documents' = documents
           /\ LET message == IF ~known THEN Error("not_found")
                             ELSE PageMessage(call.op, call.at, call.limit)
              IN /\ Give(message)
                 /\ pager' = IF message.ref = 0 THEN pager
                             ELSE [next |-> IF Page(documents[1], call.at, call.limit).more
                                            THEN message.to ELSE -1,
                                   seen |-> pager.seen \o [n \in 1..message.to - message.from |->
                                                             message.from + n]]
        \/ /\ Cardinality({m \in DOMAIN toolHistory : toolHistory[m].kind = "timeout"}
                         \cup {-j : j \in {k \in DOMAIN results : results[k] = <<Error("timeout")>>}})
                < MaxTimeouts
           /\ Give(Error("timeout")) /\ UNCHANGED <<documents, pager>>
  /\ UNCHANGED <<calling, lost, toolHistory, scope>>

(* Broken variant: what was asked for is compared, not what was returned *)
CoversStart(new, old) ==
  /\ new.raw /\ old.raw /\ new.ref = old.ref /\ new.kind = old.kind
  /\ old.kind \in {"rows", "row", "outline"}
  /\ new.from <= old.from

(* _replacement_reason: the same part read again, or a list slice that a   *)
(* later one covers.                                                       *)
Covers(new, old) ==
  /\ new.raw /\ old.raw /\ new.ref = old.ref /\ new.kind = old.kind
  /\ old.kind \in {"rows", "row", "outline"}
  /\ \/ new.from = old.from /\ new.to = old.to
     \/ old.kind = "rows" /\ new.from <= old.from /\ old.to <= new.to

(* rewrite: every read of this request that a later one covers *)
Rewritten(messages) ==
  [i \in DOMAIN messages |->
     [messages[i] EXCEPT !.raw =
        @ /\ ~(i > scope /\ \E j \in i + 1..Len(messages) : Covers(messages[j], messages[i]))]]

(* The turn's results join the history in the order of its calls, and the  *)
(* whole history is rewritten.                                             *)
EndTurn ==
  /\ calling # <<>> /\ \A i \in DOMAIN calling : Ended(i)
  /\ toolHistory' = Rewritten(toolHistory \o [i \in DOMAIN results |-> results[i][1]])
  /\ calling' = <<>> /\ results' = <<>>
  /\ UNCHANGED <<documents, lost, scope, pager>>

(* The next request of the session leaves the messages before it alone *)
NextRequest ==
  /\ calling = <<>> /\ scope # Len(toolHistory) /\ scope' = Len(toolHistory)
  /\ UNCHANGED <<documents, lost, calling, results, toolHistory, pager>>

(* A new process has the session's history but none of its documents *)
LosesStore ==
  /\ calling = <<>> /\ lost < Len(documents) /\ lost' = Len(documents)
  /\ pager' = NoPages /\ scope' = Len(toolHistory)
  /\ UNCHANGED <<documents, calling, results, toolHistory>>

ArtifactNext ==
  Turn \/ EndTurn \/ NextRequest \/ LosesStore \/ \E i \in 1..MaxBatch : EndCall(i)

ArtifactSpec == ArtifactInit /\ [][ArtifactNext]_artifactVars
-----------------------------------------------------------------------------
(* What the model has read stays in its history: a read that became a      *)
(* receipt has a later one in full that covers all it returned             *)
(* (lifecycle.py 54).                                                      *)
ReceiptsAreCovered ==
  \A i \in DOMAIN toolHistory : ~toolHistory[i].raw =>
    \E j \in i + 1..Len(toolHistory) :
      LET old == toolHistory[i]
          new == toolHistory[j]
      IN new.raw /\ new.ref = old.ref /\ new.kind = old.kind
         /\ old.from..old.to \subseteq new.from..new.to

(* A reader that follows next_offset meets every match once and in order,  *)
(* also when pages were shortened to the budget, and is at the end only    *)
(* after the last (grep.py 81, query.py 201).                              *)
PagesAreComplete ==
  /\ pager.seen = [n \in 1..Len(pager.seen) |-> n]
  /\ pager.next >= 0 => Len(pager.seen) = pager.next
  /\ pager.next < 0 => Len(pager.seen) = Len(documents[1])

(* No result is larger than the budget, and none of the ways in which the  *)
(* tools make room trips the last check, which would lose it               *)
(* (registry.py 55).                                                       *)
ResultsFit ==
  \A i \in DOMAIN results : Ended(i) =>
    results[i][1].size <= Budget /\ results[i][1].kind # "over_limit"

(* What the artifact tools promise the tool loop (artifacts/query.py,      *)
(* artifacts/grep.py): receipts, pages and sizes together.                 *)
ReadsAreSound == ReceiptsAreCovered /\ PagesAreComplete /\ ResultsFit
=============================================================================
