------------------------- MODULE MCTableQueryCache -------------------------
EXTENDS TableQueryCache, TLC
CONSTANTS p1, p2, w1, w2, edit
MCChange == {{edit}}
MCBody == Change \union Batch
MCSymmetry == Permutations(Widget) \union Permutations(Plan)
=============================================================================
