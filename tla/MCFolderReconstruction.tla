----------------------- MODULE MCFolderReconstruction -----------------------
(* FolderReconstruction over names of every kind that the rules tell apart,  *)
(* and trees that meet each of the rules.                                    *)
EXTENDS FolderReconstruction

(* "e'" and "e+'" are one letter, composed and decomposed *)
MCNames == {"a", "A", "Aa", "aa", "a a", "e'", "e+'", "ae'", "a:", "a "}

MCNormalForm == [name \in MCNames |-> IF name = "e+'" THEN "e'" ELSE name]

MCUnportable == {"a:", "a "}

MCLowerCase ==
    [name \in MCNames |-> CASE name = "A" -> "a" [] name = "Aa" -> "aa" [] OTHER -> name]

MCBytes == [name \in MCNames |-> CASE name = "a a" -> 3
                                   [] name \in {"Aa", "aa", "e'", "a:", "a "} -> 2
                                   [] name \in {"e+'", "ae'"} -> 3
                                   [] OTHER -> 1]

(* the space sorts before the slash, all the others after it *)
MCByteOrder ==
    << <<"A", "end">>, <<"A", "slash">>, <<"Aa", "end">>, <<"Aa", "slash">>,
       <<"a", "end">>, <<"a ", "end">>, <<"a ", "slash">>, <<"a a", "end">>, <<"a a", "slash">>,
       <<"a", "slash">>, <<"a:", "end">>, <<"a:", "slash">>, <<"aa", "end">>, <<"aa", "slash">>,
       <<"ae'", "end">>, <<"ae'", "slash">>, <<"e+'", "end">>, <<"e+'", "slash">>,
       <<"e'", "end">>, <<"e'", "slash">> >>

Dir(path) == [path |-> path, type |-> "DIRECTORY", size |-> 0, now |-> "as picked"]
File(path, size) == [path |-> path, type |-> "FILE", size |-> size, now |-> "as picked"]

Root == <<"a">>

MCTrees ==
    {<<Dir(Root)>>,
     <<Dir(Root), File(<<"a", "a">>, 0)>>,
     \* files of several blocks, and several files of a block; "a/a a" is before "a/a/a"
     <<Dir(Root), Dir(<<"a", "a">>), File(<<"a", "a", "a">>, 1),
       File(<<"a", "e'">>, 3), File(<<"a", "a a">>, 1)>>,
     <<Dir(Root), File(<<"a", "e'">>, 1), File(<<"a", "a">>, 1),
       File(<<"a", "Aa">>, 0), File(<<"a", "ae'">>, 2)>>,
     \* a name with another normal form
     <<Dir(Root), Dir(<<"a", "e+'">>), File(<<"a", "e+'", "A">>, 2)>>,
     \* names that are one name elsewhere
     <<Dir(Root), File(<<"a", "A">>, 1), File(<<"a", "a">>, 1)>>,
     <<Dir(Root), File(<<"a", "e+'">>, 1), File(<<"a", "e'">>, 1)>>,
     <<Dir(Root), Dir(<<"a", "A">>), Dir(<<"a", "a">>), File(<<"a", "a", "a">>, 1)>>,
     \* two files of one name, picked in two places
     <<Dir(Root), File(<<"a", "a">>, 1), File(<<"a", "a">>, 1)>>,
     \* names that are not portable, and limits
     <<Dir(Root), File(<<"a", "a:">>, 1)>>,
     <<Dir(Root), File(<<"a", "a ">>, 1)>>,
     <<Dir(Root), Dir(<<"a", "a a">>), File(<<"a", "a a", "e'">>, 1)>>,
     <<Dir(Root), Dir(<<"a", "a">>), Dir(<<"a", "a", "a">>), File(<<"a", "a", "a", "a">>, 1)>>,
     \* too many entries, too many blocks, and a manifest of too many bytes
     <<Dir(Root), File(<<"a", "A">>, 0), File(<<"a", "aa">>, 0), File(<<"a", "a a">>, 0),
       File(<<"a", "e'">>, 0), File(<<"a", "ae'">>, 0)>>,
     <<Dir(Root), File(<<"a", "a">>, 9)>>,
     <<Dir(Root), File(<<"a", "A">>, 2), File(<<"a", "aa">>, 1), File(<<"a", "e'">>, 1),
       File(<<"a", "ae'">>, 1)>>}
=============================================================================
