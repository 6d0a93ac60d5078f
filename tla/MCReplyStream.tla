---------------------------- MODULE MCReplyStream ----------------------------
(***************************************************************************)
(* Instances of ReplyStream for TLC.                                       *)
(***************************************************************************)
EXTENDS ReplyStream

CONSTANTS ann, root, a1, a2, g1

MCUser == {ann, root}
MCAdmins == {root}
MCAccount == {a1, a2}
MCGroup == {g1}

\* Ann belongs to the group of a1, until an edit puts her out of it.
MCGrants == {[u \in MCUser |-> IF u = ann THEN MCGroup ELSE {}]}
MCMembers == {{<<g1, a1>>}}
=============================================================================
