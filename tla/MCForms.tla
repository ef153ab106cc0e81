------------------------------ MODULE MCForms ------------------------------
EXTENDS SaleForms, TLC

MCSymmetry == Permutations(Tabs)
=============================================================================
