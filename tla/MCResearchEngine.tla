-------------------------- MODULE MCResearchEngine ---------------------------
EXTENDS ResearchEngine, MCDecisionCases, MCReports
=============================================================================
