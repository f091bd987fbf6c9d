---- MODULE ToolCall ----
(***************************************************************************)
(* A host tool called by an agent (adapters/claude/toolBridge.ts,             *)
(* adapters/codex/toolBridge.ts): the handler races against its timeout, and  *)
(* the agent has its answer when the race is decided.  A handler that does    *)
(* not heed the abort goes on after that, unheard.                            *)
(***************************************************************************)
CONSTANT Calls

VARIABLE call   \* each call: the race, what befell it, and what the agent was answered

Unanswered == [race |-> "none", timedOut |-> FALSE, answer |-> "none"]

Racing(c) == call[c].race = "open"

\* Promise.race: who comes second is not heard.
Answer(c, a) ==
  call' = IF Racing(c) THEN [call EXCEPT ![c].race = "over", ![c].answer = a] ELSE call

\* The handler is called.
Called(c) ==
  /\ call[c].race = "none"
  /\ call' = [call EXCEPT ![c].race = "open"]

\* The input fails the validation: no handler is called.
Invalid(c) ==
  /\ call[c].race = "none"
  /\ call' = [call EXCEPT ![c].race = "over", ![c].answer = "invalid"]

\* handlerTimeoutMs: the handler is asked to stop.
TimesOut(c) ==
  /\ Racing(c) /\ ~call[c].timedOut
  /\ call' = [call EXCEPT ![c].timedOut = TRUE]

\* abortGraceMs after that the agent is told that the tool gave no answer.
GraceEnds(c) == Racing(c) /\ call[c].timedOut /\ Answer(c, "gave_up")

\* The handler returns or throws.  A result that comes in spite of the abort is reported, and is still the
\* answer.  No handler of this program looks at its signal, so none throws because of it.
Returns(c, a) == Answer(c, a)
Throws(c) == Answer(c, "threw")

=============================================================================
