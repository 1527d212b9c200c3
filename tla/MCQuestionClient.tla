-------------------------- MODULE MCQuestionClient ---------------------------
(***************************************************************************)
(* Small instances of QuestionClient for TLC.                              *)
(***************************************************************************)
EXTENDS QuestionClient, TLC

CONSTANTS t1, t2, p1, p2

TwoTabs == {t1, t2}
TwoIds == {p1, p2}
Symmetry == Permutations(TwoTabs) \cup Permutations(TwoIds)

(* All plans were made, by pages that are gone; one draft is left.         *)
Planned ==
  /\ server = [k \in Operations |-> IF k.phase = "plan" THEN "answered" ELSE "absent"]
  /\ kept = [phase : {"plan"}, id : Ids]
  /\ issued = Ids
  /\ draftKey \in Ids
  /\ made = 0 /\ calls = {} /\ pointer = Nil /\ turnedAway = {}
  /\ view = [t \in Tabs |-> Blank]
  /\ todo = [t \in Tabs |-> {}]

PlannedSpec == Planned /\ [][Next]_vars
=============================================================================
