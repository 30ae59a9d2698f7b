--------------------------- MODULE MCSymlinkWalk ---------------------------
EXTENDS SymlinkWalk

\* Every volume of these directories and names.
AllTrees == [Files -> Contents]
=============================================================================
