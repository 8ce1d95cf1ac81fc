--------------------------- MODULE RecentWindow ---------------------------
(***************************************************************************)
(* The recent dialogue of one session: ConversationMemoryService keeps the *)
(* newest turns under a character budget in Redis, beside the dialogue in  *)
(* PostgreSQL that has them all.  An execution loads the window, answers,  *)
(* commits its turn and then brings the cache up to date, each in several  *)
(* awaits; the product chat commits turns and leaves the cache alone; an   *)
(* execution whose lease has expired goes on beside its successor.         *)
(*                                                                         *)
(* A message is its length.  The dialogue is the sequence of turns by      *)
(* index, which RunRepository shows to have no hole and never to change.   *)
(***************************************************************************)
EXTENDS Integers, Sequences

CONSTANTS
  Executions,    \* executions of the session
  Sizes,         \* [user, assistant]: lengths of a turn's messages
  MaxChars,      \* max_chars of the window
  MaxTurns,      \* bound: turns of the dialogue
  MaxFaults,     \* bound: failed Redis calls, expired leases and caches
  None           \* no window

ASSUME SizesAssumption == Sizes \subseteq [user: Nat, assistant: Nat]
ASSUME MaxCharsAssumption == MaxChars \in Nat \ {0}
ASSUME WindowBoundsAssumption == MaxTurns \in Nat /\ MaxFaults \in Nat

VARIABLES
  dialogue,      \* Seq(Sizes): chat_turns of the session
  cache,         \* the recent dialogue in Redis
  exec,          \* [Executions -> Exec]
  faults

vars == <<dialogue, cache, exec, faults>>

DialogueTurn == [index: Nat, user: Nat, assistant: Nat]
Window       == [through: Nat, truncated: BOOLEAN, turns: Seq(DialogueTurn)]

(* window: what was read from Redis, then what the answer is computed from; *)
(* next: next_turn_index read with it.                                     *)
Exec == [pc: {"idle", "loading", "counting", "reading", "scanning", "storing",
              "answering", "recording", "writing"},
         window: Window \union {None}, next: Nat]
Idle == [pc |-> "idle", window |-> None, next |-> 0]

---------------------------------------------------------------------------
(* build_recent_dialogue_window                                            *)

Least(a, b)   == IF a < b THEN a ELSE b
Greatest(a, b) == IF a < b THEN b ELSE a
Cost(t)       == t.user + t.assistant

(* A turn too long for the whole budget is cut, the user's message to a     *)
(* third at most, and stands alone.                                        *)
Cut(t) ==
  LET user == Least(t.user, Greatest(1, MaxChars \div 3)) IN
  [t EXCEPT !.user = user,
            !.assistant = Least(@, Greatest(1, MaxChars - user))]

(* The characters of the newest k turns.                                   *)
Used(turns) ==
  LET used[k \in 0..Len(turns)] ==
        IF k = 0 THEN 0 ELSE used[k - 1] + Cost(turns[Len(turns) - k + 1])
  IN  used

(* The loop from the newest turn stops before the first that does not fit.  *)
KeptCount(turns) ==
  CHOOSE k \in 0..Len(turns) :
    /\ Used(turns)[k] <= MaxChars
    /\ k = Len(turns) \/ Used(turns)[k + 1] > MaxChars

Kept(turns) ==
  LET n == Len(turns) IN
  IF n > 0 /\ Cost(turns[n]) > MaxChars THEN <<Cut(turns[n])>>
  ELSE SubSeq(turns, n - KeptCount(turns) + 1, n)

BuildWindow(turns) ==
  [through   |-> IF turns = <<>> THEN 0 ELSE turns[Len(turns)].index,
   truncated |-> Len(Kept(turns)) < Len(turns),
   turns     |-> Kept(turns)]

TurnAt(i)      == [index |-> i, user |-> dialogue[i].user, assistant |-> dialogue[i].assistant]
TurnsUpTo(n)   == [i \in 1..n |-> TurnAt(i)]

---------------------------------------------------------------------------
(* Everything has its type; no message of a window has a negative length.  *)
WindowTypeOK ==
  /\ dialogue \in Seq(Sizes)
  /\ cache \in Window \union {None}
  /\ exec \in [Executions -> Exec]
  /\ faults \in Nat

WindowInit ==
  /\ dialogue = <<>>
  /\ cache = None
  /\ exec = [x \in Executions |-> Idle]
  /\ faults = 0

At(x, pc)    == exec[x].pc = pc
Set(x, row)  == exec' = [exec EXCEPT ![x] = row]
Fault        == faults < MaxFaults /\ faults' = faults + 1
NextIndex(x) == exec[x].next

(* The session lease: executions overlap only after one has expired.       *)
Begin(x) ==
  /\ At(x, "idle")
  /\ \/ (\A o \in Executions : At(o, "idle")) /\ UNCHANGED faults
     \/ Fault
  /\ Set(x, [Idle EXCEPT !.pc = "loading"])
  /\ UNCHANGED <<dialogue, cache>>

(* load_recent_messages.  An error of Redis reads as an empty cache.       *)
ReadCache(x) ==
  /\ At(x, "loading")
  /\ \/ Set(x, [exec[x] EXCEPT !.pc = "counting", !.window = cache]) /\ UNCHANGED faults
     \/ Set(x, [exec[x] EXCEPT !.pc = "counting"]) /\ Fault
  /\ UNCHANGED <<dialogue, cache>>

(* Broken variant: whatever is cached will do.                             *)
TrustCache(x) ==
  /\ At(x, "counting")
  /\ Set(x, [exec[x] EXCEPT !.next = Len(dialogue) + 1,
                            !.pc = IF exec[x].window = None THEN "reading" ELSE "answering"])
  /\ UNCHANGED <<dialogue, cache, faults>>

(* get_next_turn_index, and a cached window that ends elsewhere is dropped. *)
CheckCache(x) ==
  LET window == exec[x].window
      fits == window # None /\ window.through = Len(dialogue) IN
  /\ At(x, "counting")
  /\ Set(x, [exec[x] EXCEPT !.next = Len(dialogue) + 1,
                            !.pc = IF fits THEN "answering" ELSE "reading"])
  /\ UNCHANGED <<dialogue, cache, faults>>

(* get_all_dialogue_turns: the session row, then the turns, in two reads.  *)
ReadSession(x) ==
  /\ At(x, "reading")
  /\ Set(x, [exec[x] EXCEPT !.next = Len(dialogue) + 1, !.pc = "scanning"])
  /\ UNCHANGED <<dialogue, cache, faults>>

ReadTurns(x) ==
  /\ At(x, "scanning")
  /\ Set(x, [exec[x] EXCEPT !.window = BuildWindow(TurnsUpTo(Len(dialogue))),
                            !.pc = "storing"])
  /\ UNCHANGED <<dialogue, cache, faults>>

(* replace_recent_dialogue; an error is dropped.                           *)
StoreWindow(x) ==
  /\ At(x, "storing")
  /\ \/ cache' = exec[x].window /\ UNCHANGED faults
     \/ Fault /\ UNCHANGED cache
  /\ Set(x, [exec[x] EXCEPT !.pc = "answering"])
  /\ UNCHANGED dialogue

---------------------------------------------------------------------------
(* complete_with_turn compares the index the answer was computed for; its   *)
(* other conditions only refuse more commits and are part of RunRepository. *)
CommitTurn(x) ==
  /\ At(x, "answering")
  /\ Len(dialogue) < MaxTurns
  /\ NextIndex(x) = Len(dialogue) + 1
  /\ \E size \in Sizes : dialogue' = Append(dialogue, size)
  /\ Set(x, [exec[x] EXCEPT !.pc = "recording"])
  /\ UNCHANGED <<cache, faults>>

(* The commit is refused, or the run pauses, fails or is cancelled.        *)
GiveUp(x) ==
  /\ At(x, "answering")
  /\ Set(x, Idle)
  /\ UNCHANGED <<dialogue, cache, faults>>

(* append_dialogue_turn of the product chat.                               *)
AppendTurn ==
  /\ Len(dialogue) < MaxTurns
  /\ \E size \in Sizes : dialogue' = Append(dialogue, size)
  /\ UNCHANGED <<cache, exec, faults>>

(* record_committed_turn reads the cache; an error ends it.                *)
ReadAgain(x) ==
  /\ At(x, "recording")
  /\ \/ Set(x, [exec[x] EXCEPT !.window = cache, !.pc = "writing"]) /\ UNCHANGED faults
     \/ Fault /\ Set(x, Idle)
  /\ UNCHANGED <<dialogue, cache>>

(* Broken variant: without a cached window the turn becomes the window by  *)
(* itself, and nothing is rebuilt.                                         *)
RecordedAlone(x) ==
  CASE exec[x].window = None -> BuildWindow(<<TurnAt(NextIndex(x))>>)
    [] exec[x].window # None /\ exec[x].window.through = NextIndex(x) - 1 ->
         BuildWindow(Append(exec[x].window.turns, TurnAt(NextIndex(x))))
    [] OTHER -> None

(* The window after the turn: built anew from the cached one if that ends   *)
(* just before the turn; otherwise the cache is invalidated.               *)
Recorded(x) ==
  CASE exec[x].window = None /\ NextIndex(x) = 1 -> BuildWindow(<<TurnAt(1)>>)
    [] exec[x].window # None /\ exec[x].window.through = NextIndex(x) - 1 ->
         BuildWindow(Append(exec[x].window.turns, TurnAt(NextIndex(x))))
    [] OTHER -> None

WriteBack(x) ==
  /\ At(x, "writing")
  /\ \/ cache' = Recorded(x) /\ UNCHANGED faults
     \/ Fault /\ UNCHANGED cache
  /\ Set(x, Idle)
  /\ UNCHANGED dialogue

(* The task is cancelled or its process dies, at any await.                *)
Abandon(x) ==
  /\ ~At(x, "idle")
  /\ Fault
  /\ Set(x, Idle)
  /\ UNCHANGED <<dialogue, cache>>

(* The key expires.                                                        *)
ExpireCache ==
  /\ cache # None
  /\ Fault
  /\ cache' = None
  /\ UNCHANGED <<dialogue, exec>>

WindowNext ==
  \/ AppendTurn
  \/ ExpireCache
  \/ \E x \in Executions :
       \/ Begin(x) \/ ReadCache(x) \/ CheckCache(x) \/ ReadSession(x) \/ ReadTurns(x)
       \/ StoreWindow(x) \/ CommitTurn(x) \/ GiveUp(x) \/ ReadAgain(x)
       \/ WriteBack(x) \/ Abandon(x)

WindowSpec == WindowInit /\ [][WindowNext]_vars

---------------------------------------------------------------------------
(* A cached window is an unbroken run of turns that ends at the turn it     *)
(* names and fits the budget, whoever wrote it last and however late.      *)
CachedIsARun ==
  cache # None =>
    LET n == Len(cache.turns) IN
    /\ cache.through <= Len(dialogue)
    /\ n = 0 <=> cache.through = 0
    /\ \A i \in 1..n : cache.turns[i].index = cache.through - n + i
    /\ \A i \in 1..n :
         cache.turns[i] \in {TurnAt(cache.turns[i].index), Cut(TurnAt(cache.turns[i].index))}
    /\ Used(cache.turns)[n] <= Greatest(2, MaxChars)

(* A turn is only stored for an answer whose history ended with the turn    *)
(* just before it, although cache, counter and turns are read one by one.  *)
AnswersSeeTheLastTurn ==
  [][\A x \in Executions :
       At(x, "answering") /\ exec'[x].pc = "recording" =>
         exec[x].window.through = Len(dialogue)]_vars

(* Adding turn after turn gives the window a rebuild from the whole         *)
(* dialogue gives, as long as no single turn exceeds the budget.           *)
CacheMatchesRebuild ==
  cache # None /\ (\A i \in 1..cache.through : Cost(TurnAt(i)) <= MaxChars) =>
    cache.turns = Kept(TurnsUpTo(cache.through))

(* Whoever wrote it last, the cached window is an unbroken run of stored    *)
(* turns within the budget, the one a rebuild would give.                  *)
WindowIsSound == WindowTypeOK /\ CachedIsARun /\ CacheMatchesRebuild
============================================================================
