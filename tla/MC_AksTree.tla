----------------------------- MODULE MC_AksTree -----------------------------
(***************************************************************************)
(* AksTree over the paths "/", "/a", "/a/b" and "/c", and every archive of *)
(* at most MCMaxLen entries with the raw pathnames of MCRaw: "a" and "./a" *)
(* are two spellings of one path, "a/b" makes the directory /a implicit.   *)
(***************************************************************************)
EXTENDS AksTree

CONSTANT MCMaxLen

MCRoot == << >>
MCPath == {<< >>, <<"a">>, <<"a", "b">>, <<"c">>}
MCParentOf == [p \in MCPath \ {MCRoot} |-> SubSeq(p, 1, Len(p) - 1)]
MCLineage == [p \in MCPath |-> {SubSeq(p, 1, n) : n \in 0 .. Len(p)}]

MCRaw == {"/", "a", "./a", "a/b", "c"}
MCCanon ==
  [r \in MCRaw |->
     CASE r = "/"             -> << >>
       [] r \in {"a", "./a"}  -> <<"a">>
       [] r = "a/b"           -> <<"a", "b">>
       [] r = "c"             -> <<"c">>]
MCRootRaw == "/"
MCSparse == {"a"}

MCArchives == UNION {[1 .. n -> MCRaw] : n \in 0 .. MCMaxLen}

MCAnyReturn == {"zero", "positive", "negative"}
MCZeroReturn == {"zero"}
=============================================================================
