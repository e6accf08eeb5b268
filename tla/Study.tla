-------------------------------- MODULE Study --------------------------------
(***************************************************************************)
(* The load study (studies/run_study.py): it runs the load generator once  *)
(* per profile, one after the other, and reads the CSV of each run back;   *)
(* then it stops a backend's container, watches the gateway and starts the *)
(* container again; at last it writes summary.json.                        *)
(*                                                                         *)
(* Every profile is a closed loop without think time and has a CSV of its  *)
(* own.  The results directory is named by --run-id, so a CSV may be there *)
(* from an earlier study.  Nothing catches an exception of a load run, of  *)
(* a write or of a missing docker: the script dies where it stands.        *)
(***************************************************************************)
EXTENDS LoadGen

CONSTANTS
  Profiles,  \* number of load runs of the three studies
  Before,    \* requests sent before the container is stopped
  After      \* requests sent after that

ASSUME StudyAssumption == Profiles \in Nat /\ Before \in Nat /\ After \in Nat

VARIABLES
  part,     \* what main() is doing
  read,     \* read[k]: the rows that were read for profile k
  drill,    \* drill_rows, each with its phase and status
  server,   \* is the container running?
  summary,  \* was summary.json written?
  (* history, read by properties only *)
  got,      \* got[k]: what the sessions of profile k have measured
  docker    \* every docker command did what it says

studyVars == <<part, read, drill, server, summary, got, docker>>

Parts   == {"load", "baseline", "outage", "restart", "report", "ended", "died"}
Read    == {Earlier} \cup SUBSET Row
Gained  == [any : BOOLEAN, good : SUBSET Row]

StudyTypeOK ==
  /\ part \in Parts
  /\ read \in Seq(Read) /\ Len(read) <= Profiles
  /\ drill \in Seq([phase : {"before_kill", "after_kill"}, ok : BOOLEAN])
  /\ server \in BOOLEAN /\ summary \in BOOLEAN /\ docker \in BOOLEAN
  /\ got \in Seq(Gained)

StudyInit ==
  /\ part = "load"
  /\ read = << >> /\ got = << >> /\ drill = << >>
  /\ server = TRUE /\ docker = TRUE /\ summary = FALSE

LoadStep == part = "load" /\ Len(read) < Profiles /\ Next /\ UNCHANGED studyVars

(* Mutation of FoundInFile: a row counts whatever its status is. *)
FoundAny == IF file = Earlier THEN Earlier ELSE {file[p] : p \in 1..Len(file)}

(* _read_csv_ok at the path of the last load run: the rows of status 200. *)
FoundInFile ==
  IF file = Earlier THEN Earlier ELSE {file[p] : p \in 1..Len(file)} \cap served

(* What the sessions have that did not fail: any turn, and the turns that  *)
(* were answered with 200.                                                 *)
Measured ==
  LET done == {i \in Sessions : stage[i] = "done"}
  IN  [any  |-> \E i \in done : plan[i] > 0,
       good |-> {r \in served : r[1] \in done /\ r[2] < plan[r[1]]}]

(* A new LoadGenerator; its CSV may already be there. *)
NextProfile ==
  /\ spawned' = 0
  /\ stage' = [i \in Sessions |-> "absent"]
  /\ plan'  = [i \in Sessions |-> 0]
  /\ turn'  = [i \in Sessions |-> 0]
  /\ slots' = Concurrency
  /\ rows'  = << >> /\ served' = {}
  /\ writer' = "not yet"
  /\ file' \in {Earlier, << >>}
  /\ UNCHANGED <<mode, think>>

(* LoadGenerator.run returned. *)
Written == writer = "closed"

(* The rows of a load run are read back and kept for the summary. *)
ReadBack ==
  /\ part = "load" /\ Len(read) < Profiles
  /\ Written
  /\ read' = Append(read, FoundInFile)
  /\ got'  = Append(got, Measured)
  /\ NextProfile
  /\ UNCHANGED <<part, drill, server, summary, docker>>

(* All profiles are done; the drill follows unless --skip-drill is given. *)
LoadsAreOver ==
  /\ part = "load" /\ Len(read) = Profiles
  /\ part' \in {"baseline", "report"}
  /\ UNCHANGED <<vars, read, drill, server, summary, got, docker>>

(* One request of the drill, until there are n rows: any answer or         *)
(* exception makes a row.                                                  *)
DrillRequest(now, phase, n) ==
  /\ part = now
  /\ Len(drill) < n
  /\ \E ok \in BOOLEAN : drill' = Append(drill, [phase |-> phase, ok |-> ok])
  /\ UNCHANGED <<vars, part, read, server, summary, got, docker>>

BaselineRequest == DrillRequest("baseline", "before_kill", Before)
OutageRequest   == DrillRequest("outage", "after_kill", Before + After)

(* docker stop; its return code is not looked at. *)
StopServer ==
  /\ part = "baseline" /\ Len(drill) = Before
  /\ part' = "outage"
  /\ \/ server' = FALSE /\ UNCHANGED docker
     \/ docker' = FALSE /\ UNCHANGED server
  /\ UNCHANGED <<vars, read, drill, summary, got>>

(* failure_drill.csv is written. *)
WriteDrill ==
  /\ part = "outage" /\ Len(drill) = Before + After
  /\ part' = "restart"
  /\ UNCHANGED <<vars, read, drill, server, summary, got, docker>>

(* docker start; its return code is not looked at. *)
StartServer ==
  /\ part = "restart"
  /\ part' = "report"
  /\ \/ server' = TRUE /\ UNCHANGED docker
     \/ docker' = FALSE /\ UNCHANGED server
  /\ UNCHANGED <<vars, read, drill, summary, got>>

WriteSummary ==
  /\ part = "report"
  /\ part' = "ended" /\ summary' = TRUE
  /\ UNCHANGED <<vars, read, drill, server, got, docker>>

(* The CSV of a load run or another write fails, there is no docker, or    *)
(* the user interrupts.                                                    *)
Dies ==
  /\ part \notin {"ended", "died"}
  /\ part' = "died"
  /\ UNCHANGED <<vars, read, drill, server, summary, got, docker>>

StudyNext ==
  \/ LoadStep \/ ReadBack \/ LoadsAreOver
  \/ BaselineRequest \/ StopServer \/ OutageRequest \/ WriteDrill \/ StartServer
  \/ WriteSummary \/ Dies
-----------------------------------------------------------------------------
(* Properties *)

(* If there is a summary, its numbers are those of this study: for every   *)
(* profile the rows summarised are exactly the turns that its own load run *)
(* had answered with 200, in sessions that did not fail, and a file that   *)
(* an earlier study left behind was taken instead only if the run has no   *)
(* row of any status; the drill was either skipped or is complete, its     *)
(* requests in order; and the container runs again unless docker failed.   *)
(* A script that dies leaves no summary; it may leave the container        *)
(* stopped and part of a CSV.                                              *)
SummaryTellsThisStudy ==
  summary =>
    /\ Len(read) = Profiles
    /\ \A k \in 1..Profiles : \/ read[k] = got[k].good
                              \/ read[k] = Earlier /\ ~got[k].any
    /\ \/ drill = << >>
       \/ /\ Len(drill) = Before + After
          /\ \A i \in 1..Len(drill) : drill[i].phase = "before_kill" <=> i <= Before
    /\ docker => server
=============================================================================
