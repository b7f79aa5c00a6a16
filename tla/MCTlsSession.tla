---------------------------- MODULE MCTlsSession ----------------------------
(***************************************************************************)
(* Small instance of TlsSession: two replies of three bytes through        *)
(* records of two and a kernel that holds two.                             *)
(***************************************************************************)
EXTENDS TlsSession

MCBytes == 0 .. MaxReplies * ReplySize

=============================================================================
