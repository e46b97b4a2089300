----------------------------- MODULE MCCaseStore -----------------------------
EXTENDS CaseStore
CONSTANTS c1, c2, t1, t2, i1, a, b
=============================================================================
