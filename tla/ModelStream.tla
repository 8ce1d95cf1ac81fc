----------------------------- MODULE ModelStream -----------------------------
(***************************************************************************)
(* One streamed answer of an OpenAI-compatible provider and what the       *)
(* client makes of it (llm/openai_compatible.py): text and fragments of    *)
(* tool calls arrive interleaved, the provider may stop at its length      *)
(* limit, for another reason or without one, and the connection or a chunk *)
(* may fail.  The same answer read at once by complete() is the reference  *)
(* the stream is compared with.                                            *)
(***************************************************************************)
EXTENDS Integers, Sequences, FiniteSets, SequencesExt

CONSTANTS
  Toolset,          \* the tools of the request, in its order
  SafeName,         \* [tools -> their names with unsafe characters replaced]
  Foreign,          \* a name the model makes up
  MaxText,          \* bound: text deltas of an answer
  MaxCallCount,     \* bound: tool calls of an answer
  MaxPieces,        \* bound: argument fragments of a call
  ArgumentBytes, EdgeBytes, TotalBytes, DiagnosedCalls  \* ModelDiagnosticLimits

ASSUME StreamAssumption ==
  /\ {MaxText, MaxCallCount, MaxPieces, ArgumentBytes, EdgeBytes, TotalBytes, DiagnosedCalls}
       \subseteq Nat
  /\ Toolset \in Seq(DOMAIN SafeName) /\ IsInjective(Toolset)

VARIABLES
  said,      \* what the model would say, given the room
  sent,      \* what of it the provider has sent
  parts,     \* content_parts: text the client has collected
  yielded,   \* text the client has passed on
  fragments, \* tool_calls: the accumulators, by index
  finish,    \* finish_reason
  outcome    \* how the request has ended for its caller

modelVars == <<said, sent, parts, yielded, fragments, finish, outcome>>

(* A fragment is known by its call and its place in it. *)
Fragment(i, n) == <<i, n>>
Whole(i) == [n \in 1..said.calls[i].pieces |-> Fragment(i, n)]

SaidCalls ==
  UNION {{c \in [1..n -> [id : 1..MaxCallCount, tool : DOMAIN SafeName \cup {Foreign},
                          pieces : 0..MaxPieces, decodes : {"object", "other"}]] :
            \A i \in 1..n : c[i].id <= i /\ (c[i].tool = Foreign => i = 1)} : n \in 0..MaxCallCount}

NoCall == [id |-> 0, name |-> <<>>, args |-> <<>>]
Pending == [kind |-> "pending", text |-> 0, calls |-> <<>>]
Fails(kind) == [Pending EXCEPT !.kind = kind]

ModelInit ==
  /\ said \in [text : 0..MaxText, calls : {c \in SaidCalls : \A i \in DOMAIN c :
                                             c[i].tool \in ToSet(Toolset) \cup {Foreign}}]
  /\ sent = [text |-> 0, pieces |-> [i \in DOMAIN said.calls |-> 0],
             begun |-> {}, finish |-> "none"]
  /\ parts = 0 /\ yielded = 0 /\ fragments = <<>> /\ finish = "none" /\ outcome = Pending
-----------------------------------------------------------------------------
(* _tool_name_maps: names the provider accepts, the later of two that look *)
(* alike with a number that is free.                                       *)
ProviderNames(tools) ==
  LET names[n \in 0..Len(tools)] ==
        IF n = 0 THEN <<>>
        ELSE LET base == SafeName[tools[n]]
                 free(k) == base \o <<k>> \notin ToSet(names[n - 1])
             IN Append(names[n - 1],
                       IF base \notin ToSet(names[n - 1]) THEN base
                       ELSE base \o <<CHOOSE k \in 2..n + 1 :
                              free(k) /\ \A j \in 2..k - 1 : ~free(j)>>)
  IN names[Len(tools)]

ToProvider(tool) ==
  IF tool \in ToSet(Toolset)
  THEN ProviderNames(Toolset)[CHOOSE n \in DOMAIN Toolset : Toolset[n] = tool] ELSE <<tool>>

(* provider_to_agent.get(name, name) *)
ToAgent(name) ==
  IF name \in ToSet(ProviderNames(Toolset))
  THEN Toolset[CHOOSE n \in DOMAIN Toolset : ProviderNames(Toolset)[n] = name] ELSE name[1]

(* json.loads of a call's joined fragments: a part of an object is no JSON *)
Decodes(args) ==
  IF \E i \in DOMAIN said.calls : args = Whole(i) /\ args # <<>>
  THEN said.calls[args[1][1]].decodes ELSE "broken"

(* Broken variant: the length limit is not looked at *)
BatchWhenCut(calls, text, reason) ==
  LET answer == [kind |-> "calls", text |-> text,
                 calls |-> [n \in DOMAIN calls |-> [calls[n] EXCEPT !.name = ToAgent(@)]]]
  IN IF ~IsInjective([n \in DOMAIN calls |-> calls[n].id]) THEN Fails("protocol")
     ELSE IF \E n \in DOMAIN calls : Decodes(calls[n].args) # "object"
     THEN [answer EXCEPT !.kind = "rejected"] ELSE answer

(* _validate_tool_call_batch: one argument that is no object, or an answer *)
(* cut at the length limit, rejects the batch before any call is run.      *)
Batch(calls, text, reason) ==
  LET answer == [kind |-> "calls", text |-> text,
                 calls |-> [n \in DOMAIN calls |-> [calls[n] EXCEPT !.name = ToAgent(@)]]]
  IN IF ~IsInjective([n \in DOMAIN calls |-> calls[n].id]) THEN Fails("protocol")
     ELSE IF reason = "length" \/ \E n \in DOMAIN calls : Decodes(calls[n].args) # "object"
     THEN [answer EXCEPT !.kind = "rejected"] ELSE answer

(* _assemble_stream_response: the calls in the order of their indices *)
Assembled ==
  LET calls == SetToSortSeq(DOMAIN fragments, <)
      batch == [n \in DOMAIN calls |-> fragments[calls[n]]]
  IN IF \E n \in DOMAIN batch : batch[n].id = 0 \/ batch[n].name = <<>> THEN Fails("protocol")
     ELSE IF batch # <<>> THEN Batch(batch, parts, finish)
     ELSE IF parts = 0 THEN Fails("protocol")
     ELSE [kind |-> "final", text |-> parts, calls |-> <<>>]

(* _parse_response: what complete() makes of an answer, here of what the   *)
(* provider has sent.                                                      *)
ReadAtOnce ==
  LET begun == SetToSortSeq(sent.begun, <)
      batch == [n \in DOMAIN begun |->
                  [id |-> said.calls[begun[n]].id, name |-> ToProvider(said.calls[begun[n]].tool),
                   args |-> SubSeq(Whole(begun[n]), 1, sent.pieces[begun[n]])]]
  IN IF batch # <<>> THEN Batch(batch, sent.text, sent.finish)
     ELSE IF sent.text = 0 THEN Fails("protocol")
     ELSE [kind |-> "final", text |-> sent.text, calls |-> <<>>]
-----------------------------------------------------------------------------
AllSaid == sent.text = said.text /\ sent.begun = DOMAIN said.calls
           /\ \A i \in sent.begun : sent.pieces[i] = said.calls[i].pieces

(* _accumulate_tool_call: an entry of a chunk with its index, the call's   *)
(* header or not, and the next fragment or none.                           *)
Accumulate(i, id, name, args) ==
  LET was == IF i \in DOMAIN fragments THEN fragments[i] ELSE NoCall
  IN [j \in DOMAIN fragments \cup {i} |->
        IF j # i THEN fragments[j]
        ELSE [id |-> IF id = 0 THEN was.id ELSE id, name |-> IF name = <<>> THEN was.name ELSE name,
              args |-> was.args \o args]]

(* _consume_stream_chunk of a chunk with text: collected, then passed on,  *)
(* behind a reason to end as well                                          *)
TextChunk ==
  /\ outcome = Pending /\ sent.text < said.text
  /\ sent' = [sent EXCEPT !.text = @ + 1]
  /\ parts' = parts + 1 /\ yielded' = yielded + 1
  /\ UNCHANGED <<said, fragments, finish, outcome>>

(* A chunk with an entry of a tool call: the first names it, any later one *)
(* may name it again; a name that changed is an error.                     *)
CallChunk(i, named, renamed) ==
  /\ outcome = Pending /\ i \in DOMAIN said.calls
  /\ i \notin sent.begun => named
  /\ renamed => named /\ i \in sent.begun
  /\ LET next == sent.pieces[i] + 1
         some == next <= said.calls[i].pieces
     IN /\ ~some => i \notin sent.begun
        /\ sent' = [sent EXCEPT !.begun = @ \cup {i}, !.pieces[i] = IF some THEN next ELSE @]
        /\ fragments' = IF renamed THEN fragments
             ELSE Accumulate(i, IF named THEN said.calls[i].id ELSE 0,
                             IF named THEN ToProvider(said.calls[i].tool) ELSE <<>>,
                             IF some THEN <<Fragment(i, next)>> ELSE <<>>)
        /\ outcome' = IF renamed THEN Fails("protocol") ELSE outcome
  /\ UNCHANGED <<said, parts, yielded, finish>>

(* A chunk that says why the answer ends: at the length limit or for       *)
(* another reason, as a filter's, anywhere; with "stop" (or "tool_calls")   *)
(* the provider means that all is said.  The last reason is kept; a chunk  *)
(* of usage that follows has none of its own.                              *)
FinishChunk(reason) ==
  /\ outcome = Pending /\ reason # sent.finish
  /\ reason = "stop" => AllSaid
  /\ sent' = [sent EXCEPT !.finish = reason] /\ finish' = reason
  /\ UNCHANGED <<said, parts, yielded, fragments, outcome>>

(* [DONE]: the response is assembled and yielded, with any reason or none  *)
Done ==
  /\ outcome = Pending
  /\ outcome' = Assembled
  /\ UNCHANGED <<said, sent, parts, yielded, fragments, finish>>

(* The stream ends early: a damaged line or chunk or an end without [DONE] *)
(* is an error of the protocol, a lost connection may be retried, an error *)
(* object may say that the context is too long, and the reader may stop.   *)
Breaks(kind) ==
  /\ outcome = Pending /\ outcome' = Fails(kind)
  /\ UNCHANGED <<said, sent, parts, yielded, fragments, finish>>

(* _raise_for_status: an answer that is no stream, by status and code *)
Classified(status, code) ==
  IF status \in {400, 413, 422} /\ code = "context_length_exceeded" THEN "context"
  ELSE IF status \in {408, 500, 502, 503, 504} \/ (status = 429 /\ code # "insufficient_quota")
  THEN "transient" ELSE "http"

Refuses(status, code) ==
  /\ outcome = Pending /\ sent.text = 0 /\ sent.begun = {} /\ sent.finish = "none"
  /\ outcome' = Fails(Classified(status, code))
  /\ UNCHANGED <<said, sent, parts, yielded, fragments, finish>>

ModelNext ==
  \/ TextChunk
  \/ \E i \in 1..MaxCallCount, named \in BOOLEAN, renamed \in BOOLEAN : CallChunk(i, named, renamed)
  \/ \E reason \in {"stop", "length", "filter"} : FinishChunk(reason)
  \/ Done
  \/ \E kind \in {"protocol", "transient", "context", "closed"} : Breaks(kind)
  \/ \E status \in {400, 401, 429, 503}, code \in {"context_length_exceeded", "insufficient_quota", ""} :
       Refuses(status, code)

ModelSpec == ModelInit /\ [][ModelNext]_modelVars
-----------------------------------------------------------------------------
(* build_model_failure_diagnostics: what a failure keeps of the arguments, *)
(* a call at a time, out of one budget: all of them, or their two ends.    *)
Retained ==
  LET calls == SetToSortSeq(DOMAIN fragments, <)
      count == IF Len(calls) < DiagnosedCalls THEN Len(calls) ELSE DiagnosedCalls
      Least(S) == CHOOSE x \in S : \A y \in S : x <= y
      kept[n \in 0..count] ==
        IF n = 0 THEN 0
        ELSE LET bytes == Len(fragments[calls[n]].args)
                 left == TotalBytes - kept[n - 1]
             IN kept[n - 1] + IF bytes <= ArgumentBytes /\ bytes <= left THEN bytes
                              ELSE Least({left, 2 * EdgeBytes, bytes})
  IN kept[count]

(* A streamed answer means what it would have meant at once: whatever the  *)
(* order of its fragments, the same calls in the same order with the same  *)
(* arguments, or the same rejection; and the text passed on is its text    *)
(* (openai_compatible.py 136).                                             *)
StreamMeansComplete ==
  outcome.kind \in {"calls", "rejected", "final"} => outcome = ReadAtOnce /\ yielded = outcome.text

(* The calls the runtime is given to run are those the provider had begun, *)
(* in order, each as the model said it to the end and for the tool it      *)
(* named: no call runs with a part of its arguments, none of an answer cut *)
(* at the length limit, and all of an answer the provider calls complete.  *)
(* (An answer ended for another reason or for none may lack calls that were *)
(* not begun; openai_compatible.py 836.)                                   *)
OnlyWholeCalls ==
  outcome.kind = "calls" =>
    LET begun == SetToSortSeq(sent.begun, <) IN
    /\ sent.finish # "length"
    /\ sent.finish = "stop" => sent.begun = DOMAIN said.calls
    /\ Len(outcome.calls) = Len(begun)
    /\ \A n \in DOMAIN begun :
         /\ outcome.calls[n].args = Whole(begun[n])
         /\ outcome.calls[n].name = said.calls[begun[n]].tool
         /\ said.calls[begun[n]].decodes = "object"

(* A failure keeps bounded evidence, however many calls and fragments the  *)
(* provider sends (diagnostics.py 69).                                     *)
EvidenceIsBounded == Retained <= TotalBytes

(* The provider's name of a tool leads back to it, whatever the tools of a *)
(* request and their order (openai_compatible.py 965).                     *)
NamesLeadBack ==
  \A n \in 0..Cardinality(DOMAIN SafeName) :
    \A tools \in {s \in [1..n -> DOMAIN SafeName] : IsInjective(s)} : IsInjective(ProviderNames(tools))

(* The whole promise of the provider's stream to the tool loop, from       *)
(* openai_compatible.py (stream_chat) and its bounded diagnostics.         *)
AnswersAreWhole == StreamMeansComplete /\ OnlyWholeCalls /\ EvidenceIsBounded /\ NamesLeadBack
=============================================================================
