----------------------------- MODULE ChatTurns ------------------------------
(***************************************************************************)
(* The memory of a chat (command/chat/runtime.rs): what the events of one  *)
(* turn of the agent become for the next request to the model. The agent   *)
(* is the aikit_agent crate's; it numbers its tool calls as it likes, also *)
(* with numbers of an earlier step.                                        *)
(***************************************************************************)
EXTENDS Integers, Sequences

NoText == ""
Event(kind, id, out) == [kind |-> kind, id |-> id, out |-> out]
Turn(role, calls, body) == [role |-> role, calls |-> calls, body |-> body]
NoResult == "ERROR: no result received"

Chat == [turns |-> <<>>, uses |-> <<>>, results |-> <<>>, text |-> NoText]
Bundle(uses, results) ==
  [i \in DOMAIN uses |-> IF uses[i] \in DOMAIN results /\ (\A j \in 1 .. i - 1 : uses[j] # uses[i])
                         THEN results[uses[i]] ELSE NoResult]

\* The end of a step: its calls and, right after, a result for each of them;
\* a step without calls leaves its text and whatever results came in it.
flush(s) ==
  IF s.uses # <<>>
  THEN [s EXCEPT !.turns = @ \o <<Turn("assistant", s.uses, <<>>), Turn("tool", s.uses, Bundle(s.uses, s.results))>>,
                 !.uses = <<>>, !.results = <<>>, !.text = NoText]
  ELSE [s EXCEPT !.turns = IF s.text = NoText THEN @ ELSE Append(@, Turn("assistant", <<>>, <<s.text>>)),
                 !.text = NoText]

OnEvent(s, e) ==
  CASE e.kind = "ToolUse" -> [s EXCEPT !.uses = Append(@, e.id)]
    [] e.kind = "ToolResult" -> [s EXCEPT !.results = [i \in DOMAIN @ \cup {e.id} |-> IF i = e.id THEN e.out ELSE @[i]]]
    [] e.kind = "TextFinal" -> [s EXCEPT !.text = e.out]
    [] e.kind = "StepFinish" -> flush(s)

turns_from_events(prompt, events) ==
  LET after[n \in 0 .. Len(events)] ==
        IF n = 0 THEN [Chat EXCEPT !.turns = <<Turn("user", <<>>, <<prompt>>)>>]
        ELSE OnEvent(after[n - 1], events[n])
  IN flush(after[Len(events)]).turns

-----------------------------------------------------------------------------
(* A reference: the events of a turn are steps, each of calls with at most *)
(* one result per call, or of a text.                                      *)

StepTurns(step) ==
  IF step.calls = <<>>
  THEN <<Turn("assistant", <<>>, <<step.text>>)>>
  ELSE <<Turn("assistant", step.calls, <<>>),
         Turn("tool", step.calls,
              [i \in DOMAIN step.calls |-> IF step.calls[i] \in DOMAIN step.results
                                           THEN step.results[step.calls[i]] ELSE NoResult])>>

\* A step as the agent reports it: the calls, their results in any order and
\* beside a text.
StepEvents(step, order) ==
  LET used == [i \in DOMAIN step.calls |-> Event("ToolUse", step.calls[i], "")]
      got == [i \in DOMAIN order |-> Event("ToolResult", order[i], step.results[order[i]])]
  IN used \o got \o <<Event("TextFinal", 0, step.text), Event("StepFinish", 0, "")>>
=============================================================================
