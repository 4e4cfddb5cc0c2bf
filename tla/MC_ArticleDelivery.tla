------------------------- MODULE MC_ArticleDelivery -------------------------
(* ArticleDelivery on small sets of articles, versions and editors. *)
EXTENDS ArticleDelivery, TLC

CONSTANTS a1, a2, v1, v2, v3, v4, e1, e2

Symmetry == Permutations(Articles) \cup Permutations(Versions)
                \cup Permutations(Editors)
=============================================================================
