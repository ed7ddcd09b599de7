------------------------------- MODULE MCJobs -------------------------------
(* Instances of JobLifecycle for TLC.                                      *)
EXTENDS JobRefinement, TLC

CONSTANTS k1, p1, p2, t1, t2, t3, s1

(* Jobs 1 and 2 share the key k1, job 3 has no limit.                      *)
MixedKeyOf == [j \in Jobs |-> IF j = 3 THEN NoKey ELSE k1]
OneKeyOf == [j \in Jobs |-> k1]

Limit1 == [j \in Jobs |-> 1]
Limit2 == [j \in Jobs |-> 2]

(* p1 has the thread t1, p2 the others.                                    *)
FirstToP1 == [t \in Threads |-> IF t = t1 THEN p1 ELSE p2]
AllOfP1 == [t \in Threads |-> p1]

(* The two workers, each with its thread, are interchangeable when both or *)
(* neither are mortal.                                                     *)
SameWorkers ==
  {f \in Permutations({p1, p2, t1, t2}) :
     <<f[p1], f[t1], f[p2], f[t2]>> \in {<<p1, t1, p2, t2>>, <<p2, t2, p1, t1>>}}

PollEverything == [p \in Procs |-> Jobs]
=============================================================================
