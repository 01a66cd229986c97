------------------------------ MODULE MCIndexer ------------------------------
(* Two forums with a statement each. *)
EXTENDS Indexer, TLC

CONSTANTS s1, s2, f1, f2

MCStatements == {s1, s2}
MCForumOf == (s1 :> f1 @@ s2 :> f2)
=============================================================================
