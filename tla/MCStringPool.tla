------------------------------ MODULE MCStringPool ------------------------------
EXTENDS StringPool, TLC

\* The medium texts are alike, and so are the loans.
Alike == Permutations(Medium) \union Permutations(Loan)
================================================================================
