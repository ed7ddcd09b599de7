--------------------------- MODULE QueueSelection ---------------------------
(***************************************************************************)
(* The queues a worker polls, and in which order (queue_selector.py).      *)
(*                                                                         *)
(* An entry of the worker's list is a record: its kind, and the queues     *)
(* whose name it equals ("exact") or is a prefix of ("prefix").  "*" is    *)
(* the entry of kind "all", and an entry with a "*" elsewhere is "ignored".*)
(***************************************************************************)
EXTENDS Integers, SequencesExt

Exact(q) == [kind |-> "exact", names |-> {q}]
Prefix(names) == [kind |-> "prefix", names |-> names]
All == [kind |-> "all", names |-> {}]
Ignored == [kind |-> "ignored", names |-> {}]

IncludeAllQueues(raw) == All \in ToSet(raw)

HasPrefixes(raw) == \E entry \in ToSet(raw) : entry.kind = "prefix"

(* exact_names, in the order of the list.                                  *)
ExactNames(raw) ==
  LET Name(entry) == CHOOSE q \in entry.names : TRUE
      exact == SelectSeq(raw, LAMBDA entry : entry.kind = "exact")
  IN  [i \in DOMAIN exact |-> Name(exact[i])]

(* The names in prefixed_names, which the database returns in any order:   *)
(* those of present, the queues with a ready execution, with the prefix.   *)
PrefixedNames(raw, present) ==
  {q \in present : \E entry \in ToSet(raw) : entry.kind = "prefix" /\ q \in entry.names}

(***************************************************************************)
(* in_raw_order.  Every entry of the list takes its names out of those     *)
(* that are left.  list.remove raises ValueError when the name of an exact *)
(* entry has been taken before, by a prefix or by the same name.           *)
(***************************************************************************)
NoError == [left |-> <<>>, taken |-> <<>>, raised |-> FALSE]

DeleteInOrder(state, entry) ==
  LET matches == SelectSeq(state.left, LAMBDA q : q \in entry.names)
  IN  CASE state.raised \/ entry.kind = "ignored" -> state
        [] entry.kind = "exact" /\ matches = <<>> -> [state EXCEPT !.raised = TRUE]
        [] entry.kind = "exact" /\ matches # <<>> ->
             [state EXCEPT !.left = RemoveFirst(@, Head(matches)),
                           !.taken = Append(@, Head(matches))]
        [] entry.kind = "prefix" ->
             [state EXCEPT !.left = SelectSeq(@, LAMBDA q : q \notin entry.names),
                           !.taken = @ \o matches]

InRawOrder(raw, queues) ==
  IF Len(queues) = 1 \/ ~HasPrefixes(raw)
    THEN [NoError EXCEPT !.taken = queues]
    ELSE FoldLeft(DeleteInOrder, [NoError EXCEPT !.left = queues], raw)

(***************************************************************************)
(* The results eligible_queues may have, one for each order in which the   *)
(* database may return names.                                              *)
(***************************************************************************)
EligibleQueues(raw, present) ==
  IF IncludeAllQueues(raw)
    THEN {[NoError EXCEPT !.taken = names] : names \in SetToSeqs(present)}
    ELSE {InRawOrder(raw, ExactNames(raw) \o names) :
            names \in SetToSeqs(PrefixedNames(raw, present))}

(***************************************************************************)
(* What the documentation promises: the entries are polled in order.       *)
(***************************************************************************)
Rank(raw, q) == SelectInSeq(raw, LAMBDA entry : q \in entry.names)

Names(raw, q) == IncludeAllQueues(raw) \/ Rank(raw, q) # 0
=============================================================================
