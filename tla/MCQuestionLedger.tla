-------------------------- MODULE MCQuestionLedger ---------------------------
(***************************************************************************)
(* A small instance of QuestionLedger, and with it of VersionStore.        *)
(***************************************************************************)
EXTENDS QuestionLedger

CONSTANTS t1, t2, r1

TwoTabs == {t1, t2}
OneTab == {t1}
OneRun == {r1}
=============================================================================
