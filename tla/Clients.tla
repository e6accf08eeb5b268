------------------------------ MODULE Clients ------------------------------
(***************************************************************************)
(* The client programs of the repository: the load generator and replay    *)
(* (LoadGen), the load study (Study) and the demo agent (DemoAgent).  A    *)
(* behaviour is a run of one of them.                                      *)
(***************************************************************************)
EXTENDS Study, DemoAgent

VARIABLE program  \* the program that is run

Programs == {"loadgen", "study", "agent"}

clientVars == <<vars, studyVars, agentVars, program>>

ClientsTypeOK ==
  /\ TypeOK /\ StudyTypeOK /\ AgentTypeOK
  /\ program \in Programs

ClientsInit ==
  /\ Init /\ StudyInit /\ AgentInit
  /\ program \in Programs
  /\ program # "loadgen" => mode = "closed_loop" /\ ~think

RunLoadGen == program = "loadgen" /\ Next /\ UNCHANGED <<studyVars, agentVars, program>>
RunStudy   == program = "study" /\ StudyNext /\ UNCHANGED <<agentVars, program>>
RunAgent   == program = "agent" /\ AgentNext /\ UNCHANGED <<vars, studyVars, program>>

ClientsNext == RunLoadGen \/ RunStudy \/ RunAgent

ClientsSpec == ClientsInit /\ [][ClientsNext]_clientVars

(* A program goes on as long as it can: tasks that are ready run, sleeps   *)
(* end, requests end because every client has a timeout, and an exception  *)
(* that nothing catches ends the script.  That a study dies of anything    *)
(* else is not taken for granted.                                          *)
GoesOn == ClientsNext /\ (part' = "died" => writer = "raised")

ClientsFairSpec == ClientsSpec /\ WF_clientVars(GoesOn)
-----------------------------------------------------------------------------
(* Properties *)

(* Every program ends.  A load run leaves the rows of the sessions that    *)
(* did not fail in its file, unless writing raised (if there are no rows,  *)
(* the file of an earlier run stays); a study has a summary or died; the   *)
(* agent has closed its client, whatever raised.                           *)
EveryProgramEnds ==
  <>[](CASE program = "loadgen" -> \/ writer = "raised"
                                   \/ Over /\ Written /\ (rows # << >> => file = rows)
         [] program = "study"   -> part = "died" \/ (part = "ended" /\ summary)
         [] program = "agent"   -> phase \in {"raised", "over"} /\ ~client)
=============================================================================
