---- MODULE ProviderSession ----
(***************************************************************************)
(* What an agent session promises to those that listen to its events and    *)
(* read its stream (wrapper/types/runtime.ts, events.ts), whichever the     *)
(* provider is.                                                             *)
(***************************************************************************)
EXTENDS Naturals

CONSTANT Turns      \* turns, numbered in the order they are opened

VARIABLES
  turn,       \* each turn: "unborn", "open" or "ended"
  told,       \* turns that an inject has returned as delivered
  tool,       \* whether a tool is invoked and has no result
  session     \* "open", or "ended" once session_ended is out

promised == <<turn, told, tool, session>>

Open == {t \in Turns : turn[t] = "open"}

\* turn_started: no turn is open, and turns open in their order.
OpenTurn(t) ==
  /\ session = "open" /\ Open = {} /\ turn[t] = "unborn"
  /\ \A u \in Turns : u < t => turn[u] # "unborn"
  /\ turn' = [turn EXCEPT ![t] = "open"]
  /\ UNCHANGED <<told, tool, session>>

\* turn_ended, of the turn that is open.
EndTurn(t) ==
  /\ turn[t] = "open"
  /\ turn' = [turn EXCEPT ![t] = "ended"]
  /\ UNCHANGED <<told, tool, session>>

\* InjectAck "delivered": the turn that took the message is known.
Tell(t) ==
  /\ turn[t] # "unborn" /\ t \notin told
  /\ told' = told \cup {t}
  /\ UNCHANGED <<turn, tool, session>>

\* tool_invoked, and its tool_result.
Tool ==
  /\ session = "open"
  /\ tool' = ~tool
  /\ UNCHANGED <<turn, told, session>>

\* session_ended is the last event: it leaves no turn open and no tool without its result.
EndSession ==
  /\ session = "open" /\ Open = {} /\ ~tool
  /\ session' = "ended"
  /\ UNCHANGED <<turn, told, tool>>

Init == turn = [t \in Turns |-> "unborn"] /\ told = {} /\ tool = FALSE /\ session = "open"
Next == EndSession \/ Tool \/ \E t \in Turns : OpenTurn(t) \/ EndTurn(t) \/ Tell(t)
Spec == Init /\ [][Next]_promised

=============================================================================
