--------------------------- MODULE MCToolEffects ---------------------------
(***************************************************************************)
(* ToolEffects for TLC: texts of a few letters, one call of each kind that *)
(* the code tells apart, and a board of one task. The edits replace "ab":  *)
(* by nothing, so that "aabb" matches again, by "b", so that nothing does, *)
(* and by "aab", so that everything does.                                  *)
(***************************************************************************)
EXTENDS ToolEffects

CONSTANT MaxLetters  \* bound: what would be longer is cut, and none gets there

Letters == {"a", "b"}
SomeTexts == UNION {[1 .. n -> Letters] : n \in 0 .. MaxLetters}
Empty == <<>>

Old == <<"a", "b">>
SomeEdits == {[new |-> <<>>], [new |-> <<"b">>], [new |-> <<"a", "a", "b">>]}

Starts(text) == SubSeq(text, 1, 2) = Old
Rest(text, n) == SubSeq(text, n + 1, Len(text))

RECURSIVE Count(_)
Count(text) ==
    IF Len(text) < 2 THEN 0
    ELSE IF Starts(text) THEN 1 + Count(Rest(text, 2)) ELSE Count(Rest(text, 1))

RECURSIVE Put(_, _, _)
Put(new, n, text) ==
    IF Len(text) < 2 \/ n = 0 THEN text
    ELSE IF Starts(text) THEN new \o Put(new, n - 1, Rest(text, 2))
    ELSE SubSeq(text, 1, 1) \o Put(new, n, Rest(text, 1))

Cut(text) == IF Len(text) > MaxLetters THEN SubSeq(text, 1, MaxLetters) ELSE text

CountIn(e, text) == Count(text)
PutFirst(e, text) == Cut(Put(e.new, 1, text))
PutAll(e, text) == Cut(Put(e.new, Count(text), text))

SomeContents == {<<>>, <<"a", "b">>, <<"a", "a", "b", "b">>, <<"a", "b", "a", "b">>}

SomeFiles ==
    {[kind |-> "missing", big |-> FALSE, text |-> <<>>],
     [kind |-> "other", big |-> FALSE, text |-> <<>>],
     [kind |-> "file", big |-> TRUE, text |-> <<"a", "b">>]}
      \cup [kind : {"file"}, big : {FALSE}, text : SomeContents]

SomeBoards == {<<>>, <<"pending">>}

SomeCalls ==
    [tool : {"write_file"}, valid : {TRUE}, big : {FALSE}, text : {<<>>, <<"a", "b">>}]
      \cup [tool : {"edit_file"}, valid : {TRUE}, all : BOOLEAN, edit : SomeEdits]
      \cup [tool : {"update_task"}, valid : BOOLEAN, task : {1, 2}, status : {"done"}]
      \cup [tool : {"remember", "record_orientation"}, valid : {TRUE}, note : {"n1"}]
=============================================================================
