----------------------------- MODULE MCPipeline -----------------------------
(***************************************************************************)
(* Pipeline 0 can conflict with each of the others, which do not conflict  *)
(* with each other; it can be larger or as large as they are, and a push   *)
(* can fail or panic.  Any of them can be empty.                           *)
(***************************************************************************)
EXTENDS Pipeline

MixedPrograms == [j \in 0 .. MaxPipelines - 1 |->
    CASE j = 0 -> {<<>>, <<"KvSet">>, <<"KvSet", "ListPush">>}
      [] j = 1 -> {<<>>, <<"ListPush">>}
      [] OTHER -> {<<>>, <<"KvSet">>}]

\* All on one store, as in the test of concurrent jobs: nothing can fail.
KvPrograms == [j \in 0 .. MaxPipelines - 1 |-> {<<>>, <<"KvSet">>}]

\* A second command that can fail.
FailingPrograms == [j \in 0 .. MaxPipelines - 1 |->
    {<<>>, <<"KvSet">>, <<"KvSet", "KvDel">>}]
=============================================================================
