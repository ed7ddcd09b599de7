----------------------------- MODULE MCPolling -----------------------------
(* Instances of Polling for TLC.                                           *)
EXTENDS PollingProperties

CONSTANTS d1, d2, w1, real_1, real_2, background

TwoOfBackground == [j \in Jobs |-> IF j = 2 THEN real_1 ELSE background]

Real == Prefix({real_1, real_2})

(* "*"; ["background", "real*"]; ["real*", "background"]; and exact names, *)
(* one of them of a queue without jobs and one with a "*" too many.        *)
Lists == [w \in Workers |->
  {<<All>>, <<Exact(background), Real>>, <<Real, Exact(background)>>,
   <<Exact(real_2), Ignored, Exact(real_1), Exact(background)>>}]

Everything == [w \in Workers |-> {<<All>>}]

(* ["real*", "real_1"]                                                     *)
Overlapping == [w \in Workers |-> {<<Real, Exact(real_1)>>}]

(* The selector does what claiming relies on with every list of at most    *)
(* three entries.                                                          *)
Entries ==
  {All, Ignored} \cup {Exact(q) : q \in Queues} \cup {Prefix(names) : names \in SUBSET Queues}

ShortLists == UNION {[1..n -> Entries] : n \in 0..3}

ASSUME SelectorOK == \A list \in ShortLists : YieldsNames(list) /\ YieldsInOrder(list)
=============================================================================
