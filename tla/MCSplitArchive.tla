---------------------------- MODULE MCSplitArchive ----------------------------
(* The tree, the selections and the strays of the run of SplitArchive.     *)
EXTENDS SplitArchive

(* "d" with a folder "e" that holds a file "f", an item "g" and a          *)
(* desktop.ini "m"; beside it a file "s", another "S" and a folder "o".    *)
Tree == [d |-> "top", e |-> "d", f |-> "e", g |-> "d", m |-> "d", s |-> "top",
         S |-> "o", o |-> "top", stage |-> "top"]
Places == DOMAIN Tree
Keys == [n \in Places |-> IF n = "S" THEN "s" ELSE n]
Lists == {<<"d", "s">>, <<"e", "d">>, <<"s", "S">>, <<"m", "S">>,
          <<"o", "s">>}
ToSplit == {<<"o", "s">>}
First ==
    {[d |-> "dir", e |-> "dir", f |-> "file", g |-> k, m |-> "file", s |-> "file",
      S |-> "file", o |-> "dir", stage |-> "none"] :
        k \in {"link", "unsafe link"}}
Sizes == {[n \in Places |-> IF n \in large THEN 1 ELSE 0] : large \in SUBSET {"f", "s"}}
Some == {{}, {1, 3}}
=============================================================================
