---------------------------- MODULE MCToolViews ----------------------------
(***************************************************************************)
(* ToolViews for TLC: chunks of one to three bytes, what ripgrep may       *)
(* print, and six paths of up to four components.                          *)
(***************************************************************************)
EXTENDS ToolViews

Strings(S, m) == UNION {[1 .. n -> S] : n \in 1 .. m}

AllChunks  == Strings({"byte", "newline"}, 2) \cup {<<"byte", "newline", "byte">>}
AllOutputs == {<<>>} \cup Strings({"hit", "note"}, 5)

File(parts) == [parts |-> parts, slash |-> FALSE]
AllPaths ==
    {File(<<"a">>), File(<<"a", "b">>), File(<<"d", "e", "f">>), File(<<"d", "e", "g", "h">>),
     File(<<"d", "i">>), [parts |-> <<"d", "m">>, slash |-> TRUE]}
=============================================================================
