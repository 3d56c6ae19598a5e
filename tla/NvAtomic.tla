------------------------------ MODULE NvAtomic ------------------------------
(***************************************************************************)
(* What one NV module promises to its callers: a map from items to         *)
(* payloads that changes one item at a time, all at once, and only to the  *)
(* payload of the write that is running; a reset empties the whole map in  *)
(* one step.  Power may fail at any point: the write that was running has  *)
(* happened or has not.                                                    *)
(***************************************************************************)
CONSTANTS Items, Vals, Nil

VARIABLES
  store,   \* payload of each item, as a set with at most one element
  job      \* the running write, or Nil

Job == [item : Items, val : Vals]

Init == store = [i \in Items |-> {}] /\ job = Nil

Begin(j) == job = Nil /\ job' = j /\ UNCHANGED store

\* The write takes effect.  It may return, fail or be cut off before or after.
Commit == /\ job \in Job
          /\ store' = [store EXCEPT ![job.item] = {job.val}]
          /\ job' \in {job, Nil}

End == job \in Job /\ job' = Nil /\ UNCHANGED store

\* A delete removes the newest payload; an older one may reappear.
Delete(i) == /\ job = Nil /\ UNCHANGED job
             /\ store' \in {[store EXCEPT ![i] = s] : s \in {{}} \cup {{v} : v \in Vals}}

Clear == job = Nil /\ store' = [i \in Items |-> {}] /\ UNCHANGED job

Next == (\E j \in Job : Begin(j)) \/ Commit \/ End \/ (\E i \in Items : Delete(i)) \/ Clear

Spec == Init /\ [][Next]_<<store, job>>
=============================================================================
