----------------------------- MODULE MC_AksFile -----------------------------
(***************************************************************************)
(* AksFile over the paths "/", "/d", "/d/f" and "/g".  One archive has no  *)
(* /g; in the other /d is an implicit directory with a sibling.            *)
(***************************************************************************)
EXTENDS AksFile

MCRoot == << >>
MCPath == {<< >>, <<"d">>, <<"d", "f">>, <<"g">>}
MCParentOf == [p \in MCPath \ {MCRoot} |-> SubSeq(p, 1, Len(p) - 1)]
MCLineage == [p \in MCPath |-> {SubSeq(p, 1, n) : n \in 0 .. Len(p)}]

MCRaw == {"/", "d", "d/f", "g"}
MCCanon ==
  [r \in MCRaw |->
     CASE r = "/"   -> << >>
       [] r = "d"   -> <<"d">>
       [] r = "d/f" -> <<"d", "f">>
       [] r = "g"   -> <<"g">>]
MCRootRaw == "/"

MCArchives == {<<"d", "d/f">>, <<"d/f", "g">>}
=============================================================================
