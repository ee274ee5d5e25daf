-------------------------- MODULE MCArticleTextView --------------------------
\* Three images: one before, one between and one behind what is deleted.
EXTENDS ArticleTextView, TLC

CONSTANTS i, j, k

MCImage == {i, j, k}
Symmetric == Permutations(MCImage)
=============================================================================
