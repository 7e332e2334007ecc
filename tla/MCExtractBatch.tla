--------------------------- MODULE MCExtractBatch ---------------------------
(* The archives of the run of ExtractBatch.                                *)
EXTENDS ExtractBatch

Names == {"", ".", "..", "a", "b", "c:"}

Plain(name, type) == [name |-> name, type |-> type, target |-> <<"">>]
Link(name, target) == [name |-> name, type |-> "link", target |-> target]

(* A folder with a file, and a file beside it; names with "." and "//".    *)
Tree == <<Plain(<<"a", "">>, "dir"), Plain(<<"a", ".", "b">>, "file"),
          Plain(<<"b">>, "file")>>
(* The file without its folder, after an entry for the root itself.        *)
Flat == <<Plain(<<".", "">>, "dir"), Plain(<<"a", "", "b">>, "file"),
          Link(<<"b">>, <<"a", "b">>)>>
(* What another program may put there: more in the folder; no folder.      *)
Grown == Append(Tree, Plain(<<"a", "a">>, "file"))
Small == <<Plain(<<"b">>, "file")>>
(* A name that comes back through "..", a link out, a special file, a      *)
(* hard link after a good entry, the same name twice, a file above another *)
(* whose folder stands already.                                            *)
Climbing  == <<Plain(<<"b">>, "file"), Plain(<<"a", "..", "..", "b">>, "file")>>
Outward   == <<Plain(<<"b">>, "file"), Link(<<"a">>, <<"..", "b">>)>>
Absolute  == <<Link(<<"a">>, <<"", "b">>)>>
Device    == <<Plain(<<"b">>, "file"), Plain(<<"a">>, "special")>>
Hard      == <<Plain(<<"b">>, "file"), Plain(<<"a">>, "hard link")>>
Twice     == <<Plain(<<"b">>, "file"), Plain(<<".", "b">>, "file")>>
Muddled   == <<Plain(<<"a", "">>, "dir"), Plain(<<"a">>, "file"),
               Plain(<<"a", "b">>, "file")>>
Drive     == <<Plain(<<"c:", "b">>, "file")>>
Deep      == <<Plain(<<"a", "b", "a", "b", "a">>, "file")>>

First  == [a \in 1..2 |->
             IF a = 1 THEN {Tree, Outward, Device, Hard, Twice, Muddled, Climbing}
                      ELSE {Flat, Drive, Deep, NoFile}]
Others == {Grown, Small, Climbing, Device, Absolute, NoFile}
=============================================================================
