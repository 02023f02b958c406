-------------------------- MODULE MCTaskThreadPool --------------------------
(* Two tasks of one key and one without a key: the keyed ones go to worker *)
(* 2 % 2 = 0, where the first unkeyed one goes too.                        *)
EXTENDS TaskThreadPool, TLC
CONSTANTS t1, t2, t3
MCTasks == {t1, t2, t3}
MCKeyOf == t1 :> 2 @@ t2 :> 2 @@ t3 :> NoKey
=============================================================================
