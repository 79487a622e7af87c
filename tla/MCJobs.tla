------------------------------- MODULE MCJobs -------------------------------
(***************************************************************************)
(* Jobs.tla for TLC.  One job is of any kind; the other, which may push it *)
(* out of the store or be pushed out, runs in the update loop.             *)
(***************************************************************************)
EXTENDS Jobs

CONSTANTS j1, j2

BothIds == {j1, j2}
EveryKind == {"sync", "setting", "load", "edit", "plugin", "device"}
AllThenSome == [j \in BothIds |-> IF j = j1 THEN EveryKind ELSE {"sync"}]

OneId == {j1}
OneOfAny == [j \in OneId |-> EveryKind]
=============================================================================
