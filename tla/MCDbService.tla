---------------------------- MODULE MCDbService ----------------------------
(***************************************************************************)
(* Small instance of DbService.  Users are symmetric: no operation compares*)
(* ids but for equality, a friendship being an unordered pair.             *)
(***************************************************************************)
EXTENDS DbService, TLC

CONSTANTS a, b, c, guest

Symmetry == Permutations(Users)

=============================================================================
