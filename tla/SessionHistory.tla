--------------------------- MODULE SessionHistory ---------------------------
(***************************************************************************)
(* The effective history of one chat session (product/session_history.py)  *)
(* and the rule by which it is cut for compaction                          *)
(* (agent/evidence_summary_lifecycle.py).  A message keeps its kind, a     *)
(* number (the request a user message asks, the size of a tool-call batch) *)
(* and the stream that wrote it, which only the properties read.           *)
(* Every message counts as one token.                                      *)
(***************************************************************************)
EXTENDS Naturals, Sequences, FiniteSets

CONSTANT Recent    \* recent_history_tokens: what a compaction retains

ASSUME RecentAssumption == Recent \in Nat \ {0}

Message(kind, n, by) == [kind |-> kind, n |-> n, by |-> by]
User(q, by)     == Message("user", q, by)
Final(by)       == Message("final", 0, by)
Call(n, by)     == Message("call", n, by)
Rejected(n, by) == Message("rejected", n, by)
Results(k, by)  == [i \in 1..k |-> Message("result", 0, by)]

IsUser(m)  == m.kind = "user"
IsCall(m)  == m.kind \in {"call", "rejected"}

(* _group_history: a user or final message is a group of its own, a batch  *)
(* of calls is a group with exactly its results behind it, and a result    *)
(* outside a group makes the whole history unusable.                       *)
Grouped(ms) ==
  /\ \A i \in DOMAIN ms : IsCall(ms[i]) =>
       /\ i + ms[i].n <= Len(ms)
       /\ \A j \in i+1 .. i + ms[i].n : ms[j].kind = "result"
  /\ \A j \in DOMAIN ms : ms[j].kind = "result" =>
       \E i \in 1..j-1 : IsCall(ms[i]) /\ j <= i + ms[i].n

GroupStarts(ms) == {i \in DOMAIN ms : ms[i].kind # "result"}

(* select_compaction_range: whole groups from the end until Recent tokens  *)
(* are retained; the cut is the number of messages in front of them, 0     *)
(* when there is nothing in front.                                         *)
CutIndex(ms) ==
  LET enough == {s \in GroupStarts(ms) : Len(ms) - s + 1 >= Recent}
  IN  IF enough = {} THEN 0
      ELSE (CHOOSE s \in enough : \A t \in enough : t <= s) - 1

(* prepare_compaction: where the turn that the cut splits begins, 0 when   *)
(* the cut falls between turns.                                            *)
SplitTurnStart(ms, cut) ==
  LET open == {i \in 1..cut : /\ IsUser(ms[i])
                              /\ \A j \in i+1..cut : ~IsUser(ms[j]) /\ ms[j].kind # "final"}
  IN  IF IsUser(ms[cut + 1]) \/ open = {} THEN 0 ELSE CHOOSE i \in open : TRUE

(* The summaries a cut asks for: of the history before the split turn and  *)
(* of the part of that turn that is cut off, unless it reads nothing; each *)
(* is the messages it reads.                                               *)
SummaryInputs(ms, cut) ==
  LET split == SplitTurnStart(ms, cut)
  IN  IF split \in {0, 1} THEN <<SubSeq(ms, 1, cut)>>
      ELSE <<SubSeq(ms, 1, split - 1), SubSeq(ms, split, cut)>>

(* validate_compaction_cut *)
ValidCut(ms, cut) ==
  /\ Grouped(ms) /\ cut \in 1 .. Len(ms) - 1
  /\ cut + 1 \in GroupStarts(ms)
-----------------------------------------------------------------------------
(* SessionExecutionHistory.  cur is the position of the current request's  *)
(* user message in eff (one more than _current_user_index).                *)
NewHistory ==
  [ready |-> FALSE, known |-> {}, turn |-> 0, eff |-> <<>>, cur |-> 0, summary |-> FALSE]

(* begin_request, for a request it does not know and for the current one.  *)
(* boot is the dialogue the session is initialised from; it ends with the  *)
(* query itself.                                                           *)
MayBegin(h, r) == r \in h.known => r = h.turn

BeginRequest(h, r, boot, by) ==
  IF r \in h.known THEN h
  ELSE LET base == IF h.ready THEN h.eff ELSE boot
           eff  == Append(base, User(r, by))
       IN  [h EXCEPT !.ready = TRUE, !.known = @ \cup {r}, !.turn = r,
                     !.eff = eff, !.cur = Len(eff)]

(* _preserves_current_user: what set_effective and a compaction require *)
PreservesCurrentUser(h, ms) ==
  /\ h.cur \in 1..Len(ms) /\ Len(ms) >= Len(h.eff)
  /\ IsUser(ms[h.cur]) /\ ms[h.cur].n = h.turn

Accepts(h, ms) == (h.ready /\ h.cur # 0) => PreservesCurrentUser(h, ms)

SetEffective(h, ms) == [h EXCEPT !.eff = ms]

(* What is left to remove when the current user message stays *)
Removable(h, cut) == cut - (IF h.cur <= cut THEN 1 ELSE 0)

MayCommit(h, r, base, cut) ==
  /\ h.ready /\ r = h.turn /\ h.eff = base
  /\ PreservesCurrentUser(h, h.eff)
  /\ ValidCut(h.eff, cut)
  /\ Removable(h, cut) >= 1

(* commit_compaction: the current user message is pinned to the front when *)
(* the cut is behind it.                                                   *)
CommitCompaction(h, cut) ==
  LET retained == SubSeq(h.eff, cut + 1, Len(h.eff))
  IN  IF h.cur <= cut
      THEN [h EXCEPT !.summary = TRUE, !.cur = 1, !.eff = <<h.eff[h.cur]>> \o retained]
      ELSE [h EXCEPT !.summary = TRUE, !.cur = @ - cut, !.eff = retained]
=============================================================================
