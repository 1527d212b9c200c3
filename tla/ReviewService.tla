---------------------------- MODULE ReviewService ----------------------------
(***************************************************************************)
(* A server and its clients.  A public server has visitors, who log in and *)
(* ask for memos while time passes, or put a question; a batch starts a    *)
(* server of its own on localhost, with stores of its own, and is its only *)
(* client.  A behaviour is one of the three.  The slot that memos and      *)
(* questions share is contended for among each.                            *)
(***************************************************************************)
EXTENDS MemoHandler, BatchRunner, QuestionRuns

VARIABLE service

serviceVars == <<vars, batchVars, runsVars, service>>

ServiceInit ==
  /\ Init /\ BatchInit /\ RunsInit
  /\ service \in {"visitors", "batch", "question"}
  /\ service # "visitors" => ~open
  /\ service # "batch" => kind = "memo"
  /\ service # "question" => question = CHOOSE q \in Questions : TRUE

ServiceNext ==
  /\ UNCHANGED service
  /\ \/ service = "visitors" /\ Next /\ UNCHANGED <<batchVars, runsVars>>
     \/ service = "batch" /\ BatchNext /\ UNCHANGED <<vars, runsVars>>
     \/ service = "question" /\ RunsNext /\ UNCHANGED <<vars, batchVars>>

ServiceSpec == ServiceInit /\ [][ServiceNext]_serviceVars
=============================================================================
