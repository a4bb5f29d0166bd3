----------------------------- MODULE MCRunLoop -----------------------------
(***************************************************************************)
(* Instances of RunLoop for TLC: the shapes of assistant turns each run    *)
(* explores, and the symmetry of run ids and of requests.                  *)
(***************************************************************************)
EXTENDS RunLoop, TLC

CoreTurns == {<<>>, <<"create_plan", "update_task">>, <<"ask_human">>, <<"done">>}
LongTurns == {<<>>, <<"create_plan", "update_task">>, <<"create_plan", "ask_human">>,
              <<"ask_human", "plain">>, <<"done", "plain">>, <<"plain", "plain">>}
AskTurns  == {<<>>, <<"ask_human">>, <<"create_plan">>, <<"plain">>}

Interchangeable == Permutations(Runs) \cup Permutations(Handlers)
==============================================================================
