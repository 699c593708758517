----------------------------- MODULE MC_AksRead -----------------------------
(***************************************************************************)
(* AksRead over the paths "/", "/d", "/d/f" and "/g", where "g" and "./g"  *)
(* are two raw pathnames of one path and /d may be an implicit directory.  *)
(***************************************************************************)
EXTENDS AksRead

CONSTANT MCMaxLen

MCRoot == << >>
MCPath == {<< >>, <<"d">>, <<"d", "f">>, <<"g">>}
MCParentOf == [p \in MCPath \ {MCRoot} |-> SubSeq(p, 1, Len(p) - 1)]
MCLineage == [p \in MCPath |-> {SubSeq(p, 1, n) : n \in 0 .. Len(p)}]

MCRaw == {"/", "d", "d/f", "g", "./g"}
MCCanon ==
  [r \in MCRaw |->
     CASE r = "/"            -> << >>
       [] r = "d"            -> <<"d">>
       [] r = "d/f"          -> <<"d", "f">>
       [] r \in {"g", "./g"} -> <<"g">>]
MCRootRaw == "/"
MCSparse == {"g"}

MCArchives == UNION {[1 .. n -> MCRaw] : n \in 0 .. MCMaxLen}

(* One archive, in which /d is an implicit directory. *)
MCOneArchive == {<<"g", "d/f">>}

MCAnyReturn == {"zero", "positive", "negative"}
MCZeroReturn == {"zero"}
=============================================================================
