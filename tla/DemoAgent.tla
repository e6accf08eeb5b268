------------------------------ MODULE DemoAgent ------------------------------
(***************************************************************************)
(* The demo agent: run_session.py takes one session after the other        *)
(* through Agent.run_task (demo_agent/agent.py), which asks the model, runs *)
(* the tools the reply calls, and asks again, at most MaxTurns times.      *)
(*                                                                         *)
(* Whatever raises (a reply with an error status, a timeout, arguments     *)
(* that are no JSON or lack a key, a task without an id, an answer that is *)
(* no text) ends the whole script: a finally block closes the client, and  *)
(* the results of earlier sessions are lost.  The output file is truncated *)
(* and then written row by row; either may raise.                          *)
(***************************************************************************)
EXTENDS Integers, SequencesExt

CONSTANTS
  AgentSessions,  \* --sessions
  MaxTurns,       \* the cap of run_task on requests, 8
  MaxCalls        \* bound on the tool calls of one reply

ASSUME AgentAssumption ==
  AgentSessions \in Nat /\ MaxTurns \in Nat \ {0} /\ MaxCalls \in Nat

VARIABLES
  phase,     \* where run_task stands, or how the script ended
  messages,  \* the conversation of the session so far
  calls,     \* the tool calls of the last reply that have not been run
  keywords,  \* does the task have expected keywords?
  answered,  \* was there a final answer?
  asked,     \* requests sent for the session so far
  results,   \* results: one record per finished session
  client,    \* the httpx client is open
  csv        \* the rows of the output file

agentVars == <<phase, messages, calls, keywords, answered, asked, results, client, csv>>

Phases == {"next", "ready", "asking", "tools", "finished", "closing", "writing",
           "raised", "over"}
Prompt == [role |-> "user", calls |-> 0]
Said   == [role : {"user", "assistant", "tool"}, calls : 0..MaxCalls]
Result == [session : 1..AgentSessions, turns : 0..MaxTurns, passed : BOOLEAN]

AgentTypeOK ==
  /\ phase \in Phases
  /\ messages \in Seq(Said)
  /\ calls \in Seq(1..MaxCalls)
  /\ keywords \in BOOLEAN /\ answered \in BOOLEAN /\ client \in BOOLEAN
  /\ asked \in 0..MaxTurns
  /\ results \in Seq(Result) /\ csv \in Seq(Result)

AgentInit ==
  /\ phase = "next"
  /\ messages = << >> /\ calls = << >> /\ results = << >> /\ csv = << >>
  /\ keywords = FALSE /\ answered = FALSE
  /\ asked = 0
  /\ client = TRUE

(* run_task begins for the next session. *)
BeginTask ==
  /\ phase = "next" /\ Len(results) < AgentSessions
  /\ phase' = "ready"
  /\ messages' = <<Prompt>>
  /\ keywords' \in BOOLEAN
  /\ answered' = FALSE
  /\ asked' = 0
  /\ UNCHANGED <<calls, results, client, csv>>

Ask ==
  /\ phase = "ready" /\ asked < MaxTurns
  /\ phase' = "asking" /\ asked' = asked + 1
  /\ UNCHANGED <<messages, calls, keywords, answered, results, client, csv>>

(* The model replies with n tool calls.  It ends the task if there is none *)
(* or if finish_reason is "stop", be there calls or not.                   *)
Reply(n, stop) ==
  /\ phase = "asking"
  /\ messages' = Append(messages, [role |-> "assistant", calls |-> n])
  /\ IF n = 0 \/ stop
     THEN phase' = "finished" /\ answered' = TRUE /\ UNCHANGED calls
     ELSE phase' = "tools" /\ calls' = [k \in 1..n |-> k] /\ UNCHANGED answered
  /\ UNCHANGED <<keywords, asked, results, client, csv>>

(* Mutation of RunTool: a call of an unknown tool is skipped. *)
RunKnownTool ==
  /\ phase = "tools" /\ calls # << >>
  /\ messages' \in {messages, Append(messages, [role |-> "tool", calls |-> Head(calls)])}
  /\ calls' = Tail(calls)
  /\ UNCHANGED <<phase, keywords, answered, asked, results, client, csv>>

(* The next call is run: its output, or that the tool is unknown. *)
RunTool ==
  /\ phase = "tools" /\ calls # << >>
  /\ messages' = Append(messages, [role |-> "tool", calls |-> Head(calls)])
  /\ calls' = Tail(calls)
  /\ UNCHANGED <<phase, keywords, answered, asked, results, client, csv>>

ToolsDone ==
  /\ phase = "tools" /\ calls = << >>
  /\ phase' = IF asked < MaxTurns THEN "ready" ELSE "finished"
  /\ UNCHANGED <<messages, calls, keywords, answered, asked, results, client, csv>>

(* What the model said in this session: each of these messages is a turn. *)
Turned == {i \in 1..Len(messages) : messages[i].role = "assistant"}

(* The keywords are looked for in the answer, which is empty if there was none. *)
FinishTask ==
  /\ phase = "finished"
  /\ \E passed \in (IF ~keywords THEN {TRUE} ELSE IF answered THEN BOOLEAN ELSE {FALSE}) :
       results' = Append(results,
         [session |-> Len(results) + 1, passed |-> passed, turns |-> Cardinality(Turned)])
  /\ phase' = "next"
  /\ UNCHANGED <<messages, calls, keywords, answered, asked, client, csv>>

(* The request fails, or a tool call cannot be run, or there is something  *)
(* in the task or in the answer that no result can be made of.             *)
Raise ==
  /\ phase \in {"asking", "finished"} \/ (phase = "tools" /\ calls # << >>)
  /\ phase' = "raised"
  /\ client' = FALSE
  /\ UNCHANGED <<messages, calls, keywords, answered, asked, results, csv>>

(* All sessions are done: the finally block. *)
CloseClient ==
  /\ phase = "next" /\ Len(results) = AgentSessions
  /\ phase' = "closing"
  /\ client' = FALSE
  /\ UNCHANGED <<messages, calls, keywords, answered, asked, results, csv>>

(* The output file is opened for writing, which may fail; --output-csv may *)
(* not be given.                                                           *)
OpenResults ==
  /\ phase = "closing"
  /\ phase' \in {"writing", "raised", "over"}
  /\ UNCHANGED <<messages, calls, keywords, answered, asked, results, client, csv>>

(* Mutation of WriteResults: what there is is written after an exception, too. *)
WriteSoFar ==
  /\ phase \in {"writing", "raised"}
  /\ csv' = results
  /\ phase' = "over"
  /\ UNCHANGED <<messages, calls, keywords, answered, asked, results, client>>

WriteResults ==
  /\ phase = "writing"
  /\ \/ phase' = "over" /\ csv' = results
     \/ phase' = "raised" /\ \E n \in 0..Len(results) : csv' = SubSeq(results, 1, n)
  /\ UNCHANGED <<messages, calls, keywords, answered, asked, results, client>>

AgentNext ==
  \/ BeginTask \/ Ask \/ RunTool \/ ToolsDone \/ FinishTask \/ Raise
  \/ CloseClient \/ OpenResults \/ WriteResults
  \/ \E n \in 0..MaxCalls, stop \in BOOLEAN : Reply(n, stop)
-----------------------------------------------------------------------------
(* Properties *)

(* Whenever the agent asks, the model has got one answer for every tool    *)
(* call it made, in the order of the calls and right after the message     *)
(* that made them, unknown tools included, and it has been asked no more   *)
(* than MaxTurns times.                                                    *)
EveryCallIsAnswered ==
  phase = "asking" =>
    /\ asked <= MaxTurns
    /\ \A i \in 1..Len(messages) : messages[i].role = "assistant" =>
         /\ messages[i].calls > 0
         /\ i + messages[i].calls <= Len(messages)
         /\ \A k \in 1..messages[i].calls : messages[i + k] = [role |-> "tool", calls |-> k]

(* Nothing is written unless all sessions have a result.  The output file  *)
(* of a script that ends well has one row for every session, in order, or  *)
(* is not written; one that is cut short by a write that fails has the     *)
(* first of them.  A session whose task has keywords and that was cut off  *)
(* at the cap has not passed.                                              *)
ResultsAreWhole ==
  /\ csv # << >> =>
       /\ phase \in {"over", "raised"} /\ ~client
       /\ Len(results) = AgentSessions /\ IsPrefix(csv, results)
       /\ \A i \in 1..Len(csv) : csv[i].session = i /\ csv[i].turns \in 1..MaxTurns
  /\ phase = "over" => csv \in {<< >>, results}
  /\ phase = "next" /\ results # << >> =>
       (Last(results).passed => answered \/ ~keywords)
=============================================================================
