--------------------------- MODULE MCSelectionTree ---------------------------
(* Archives that share path names: nested folders, a file that sorts       *)
(* between a folder and its content, an empty folder, a folder that is not *)
(* listed itself ("e" of "e/f").  The third lists "a" as a file and twice  *)
(* as a folder, with something below it.                                   *)
EXTENDS SelectionTree

Item(archive, path, directory) ==
    [archive |-> archive, path |-> path, directory |-> directory]

ThreeArchives ==
    << Item(1, <<"a">>, TRUE),
       Item(1, <<"a", "b">>, TRUE),
       Item(1, <<"a", "b", "x">>, FALSE),
       Item(1, <<"a", "b", "y">>, FALSE),
       Item(1, <<"a", "z">>, FALSE),
       Item(1, <<"e", "f">>, FALSE),
       Item(2, <<"a">>, TRUE),
       Item(2, <<"a", "b">>, FALSE),
       Item(2, <<"a", "c">>, TRUE),
       Item(3, <<"a">>, TRUE),
       Item(3, <<"a">>, FALSE),
       Item(3, <<"a">>, TRUE),
       Item(3, <<"a", "x">>, FALSE) >>
=============================================================================
