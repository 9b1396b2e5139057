-------------------------- MODULE MCWatchSupervision --------------------------
(* A watcher of one release and an HTTP worker of the next share a database  *)
(* that is new, of either release, or of one still to come.                  *)
EXTENDS WatchSupervision

MCUsers == {<<"watch", "main">>, <<"watch", "worker">>, <<"http", "worker">>}
MCSchema == [p \in Procs |-> IF p = "watch" THEN 1 ELSE 2]
=============================================================================
