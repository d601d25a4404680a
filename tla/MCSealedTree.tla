---------------------------- MODULE MCSealedTree ----------------------------
(***************************************************************************)
(* SealedTree for TLC: a content that is the text of the link to outside,  *)
(* and beside it one with the documented warning and a forbidden one.      *)
(***************************************************************************)
EXTENDS SealedTree

MCLinkText ==
    [to \in Targets |->
        CASE to = "outside" -> 3 [] to = "directory" -> 11 [] to = "stderr" -> 12
          [] to = "work" -> 13 [] to = "nested" -> 14]
=============================================================================
