----------------------------- MODULE MCBrowser -----------------------------
(* An instance of Browser for TLC: one statement a page, two in all. *)
EXTENDS Browser, TLC

CONSTANTS global, usa, st1, st2, qu1, qu2, alice, text1, id1, nick1

MCForums == {global, usa}
MCQueries == {qu1, qu2}
MCAccounts == {Anonymous, alice}
MCTexts == {text1}
MCNicknames == {nick1}
MCIds == {id1}
MCRankings ==
  (global :> {<<>>, <<st1>>, <<st1, st2>>, <<st2, st1>>} @@ usa :> {<<st1, st2>>})

=============================================================================
