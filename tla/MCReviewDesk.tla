---------------------------- MODULE MCReviewDesk -----------------------------
(* Three projects and two certificates, on pages of one row.                 *)
EXTENDS ReviewDesk, TLC

CONSTANTS p1, p2, p3, d1, d2

MCProjects == {p1, p2, p3}
MCCertificates == {d1, d2}
DeskSymmetry == Permutations(MCProjects) \cup Permutations(MCCertificates)
=============================================================================
