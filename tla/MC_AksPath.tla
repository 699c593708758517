----------------------------- MODULE MC_AksPath -----------------------------
(***************************************************************************)
(* AksPath over the paths "/", "/d", "/d/f" and "/d/f/g".  Of the archives *)
(* one has a directory that is spelt "d/.", as in an archive made of "d/.";*)
(* in the other a directory on the way is implicit.                        *)
(***************************************************************************)
EXTENDS AksPath

MCRoot == << >>
MCPath == {<< >>, <<"d">>, <<"d", "f">>, <<"d", "f", "g">>}
MCParentOf == [p \in MCPath \ {MCRoot} |-> SubSeq(p, 1, Len(p) - 1)]
MCLineage == [p \in MCPath |-> {SubSeq(p, 1, n) : n \in 0 .. Len(p)}]

MCRaw == {"/", "d", "d/.", "d/f", "d/f/g"}
MCCanon ==
  [r \in MCRaw |->
     CASE r = "/"           -> << >>
       [] r \in {"d", "d/."} -> <<"d">>
       [] r = "d/f"         -> <<"d", "f">>
       [] r = "d/f/g"       -> <<"d", "f", "g">>]
MCRootRaw == "/"

MCName == {"/", ".", "d", "f", "g"}
MCLeafOf == [p \in MCPath \ {MCRoot} |-> p[Len(p)]]
MCBaseOf ==
  [r \in MCRaw |->
     CASE r = "/"     -> "/"
       [] r = "d"     -> "d"
       [] r = "d/."   -> "."
       [] r = "d/f"   -> "f"
       [] r = "d/f/g" -> "g"]
MCUnder ==
  [p \in MCPath |->
     [n \in MCName |->
        IF n \in {"/", "."} THEN p
        ELSE IF Append(p, n) \in MCPath THEN Append(p, n) ELSE NULL]]

MCArchives == {<<"d/.", "d/f">>, <<"d", "d/f/g">>}
=============================================================================
