--------------------------- MODULE JustifiedResizes ---------------------------
(***************************************************************************)
(* What the autoscaler promises the ResourceQuota of a namespace: it sets  *)
(* it to nothing but sizes that answer a demand of the namespace, for the  *)
(* quota as it was or still is, with what pods need that wait for room or  *)
(* without, and, as long as no call and no process fails, to nothing       *)
(* smaller within the minute of the last resize.                           *)
(*                                                                         *)
(* How demands, the knowledge of the quota and the calls travel, and what  *)
(* is dropped or overtaken on the way, is not its matter.                  *)
(***************************************************************************)
EXTENDS Integers

CONSTANT Sizes   \* the sizes a quota may have

VARIABLES
  hard,   \* the size of the quota
  demand, \* the size asked for
  need,   \* the size it takes for the pods that wait as well
  known,  \* what size and demand have been and are still taken to be
  asked,  \* sizes that may still be set
  recent, \* a resize has been answered within the minute
  faulty  \* a call or a process has failed

vars == <<hard, demand, need, known, asked, recent, faulty>>

Fields == {"cpu", "memory"}

\* s is at least d in each field.
AtLeastIn(s, d) == \A f \in Fields : s[f] >= d[f]

\* The least size that is at least d and e in each field.
Join(d, e) == [f \in Fields |-> IF d[f] > e[f] THEN d[f] ELSE e[f]]

\* The new size s answers the demand d on a quota of size k: it covers d, exceeds
\* it only by leaving a field alone, and raises no field while lowering another.
Answers(s, d, k) ==
  /\ s # k
  /\ AtLeastIn(s, d)
  /\ \A f \in Fields : s[f] \in {d[f], k[f]}
  /\ \A f, g \in Fields : s[f] > k[f] => s[g] >= k[g]

Copy(size, d) == [hard |-> size, demand |-> d]

Init ==
  /\ hard \in Sizes /\ demand \in Sizes /\ need = demand
  /\ known = {Copy(hard, demand)} /\ asked = {}
  /\ recent = FALSE /\ faulty = FALSE

\* What is known of the quota is that it was so, and may be forgotten.
Learn(copy) == known' \subseteq known \cup {copy}

\* What has been asked for may be dropped.
Drop == asked' \subseteq asked

\* Another size is demanded, or needed for pods that wait.
Demand ==
  /\ demand' \in Sizes /\ need' \in Sizes /\ Learn(Copy(hard, demand'))
  /\ UNCHANGED <<hard, asked, recent, faulty>>

\* The quota is looked at, the minute ends, a resize is given up.
Wait ==
  /\ Learn(Copy(hard, demand)) /\ Drop
  /\ recent' \in {recent, FALSE}
  /\ UNCHANGED <<hard, demand, need, faulty>>

\* A demand is answered for the quota as it is known, and what waits now with it.
Ask ==
  /\ \E k \in known, s \in Sizes :
       /\ \E d \in {k.demand, Join(k.demand, need)} : Answers(s, d, k.hard)
       /\ asked' = asked \cup {s}
  /\ UNCHANGED <<hard, demand, need, known, recent, faulty>>

\* A size that was asked for is set.
Resize ==
  /\ \E s \in asked :
       /\ ~faulty /\ recent => AtLeastIn(s, hard)
       /\ hard' = s
       /\ Learn(Copy(s, demand))
  /\ Drop
  /\ UNCHANGED <<demand, need, recent, faulty>>

\* The call that set it is answered.
Answered ==
  /\ recent' = TRUE /\ Drop
  /\ UNCHANGED <<hard, demand, need, known, faulty>>

\* A call fails, or the process does: a minute may begin or be forgotten.
Fail ==
  /\ faulty' = TRUE /\ recent' \in BOOLEAN
  /\ Learn(Copy(hard, demand)) /\ Drop
  /\ UNCHANGED <<hard, demand, need>>

Next == Demand \/ Wait \/ Ask \/ Resize \/ Answered \/ Fail

Spec == Init /\ [][Next]_vars
=============================================================================
