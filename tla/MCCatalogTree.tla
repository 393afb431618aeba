---------------------------- MODULE MCCatalogTree ----------------------------
(* One service; the courses belong to its first category.  The calls of the  *)
(* administrators are interchangeable.                                       *)
EXTENDS CatalogTree, TLC

CONSTANTS s1, k1, k2, c1, c2, a1, a2

MCServiceOf == [k \in Categories |-> s1]
MCCategoryOf == [c \in Courses |-> k1]
AdminSymmetry == Permutations({a1, a2})
=============================================================================
