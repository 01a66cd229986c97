----------------------------- MODULE MCNetworks -----------------------------
EXTENDS Networks

CONSTANTS global, usa, can, b1, b2

MCNames == {global, usa, can}

MCConfig(mode, forums) == [mode |-> mode, forums |-> forums]

(* A forum is appended, inserted in the middle, or removed, or another     *)
(* registry is wanted.                                                     *)
MCFirstConfig == MCConfig("mock", <<global, usa>>)
MCConfigs ==
  {MCConfig("mock", forums) : forums \in {<<global>>, <<global, usa, can>>, <<global, can, usa>>}}
    \cup {MCFirstConfig, MCConfig("production", <<global, usa>>)}

(* With three users: a remainder, none, two forums' worth, and too much. *)
MCTargetLists == {<<3, 1>>, <<4, 2>>, <<2, 2, 1>>, <<5, 9>>}
=============================================================================
