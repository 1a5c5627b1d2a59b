----------------------------- MODULE MessageLog ------------------------------
(***************************************************************************)
(* What results promise their users: each shows the messages it and what   *)
(* was merged into it were given, in that order, until it is released, and *)
(* a merge hides no failure.                                               *)
(***************************************************************************)
EXTENDS Sequences

CONSTANT
  Results      (* the result objects                                        *)

VARIABLE log   (* for each object there is: whether it is ok, its messages   *)

Init == log = [r \in {} |-> <<>>]

Live(r) == r \in DOMAIN log
OnlyAt(r) ==
  \A s \in Results \ {r} : (Live(s)' <=> Live(s)) /\ (Live(s) => log'[s] = log[s])

(* A new object has the messages it is made with.                           *)
Make(r) == ~Live(r) /\ Live(r)' /\ OnlyAt(r)

(* A call adds messages at the end and may overwrite the verdict.            *)
Give(r) ==
  /\ Live(r) /\ Live(r)' /\ OnlyAt(r)
  /\ \A j \in DOMAIN log[r].msgs :
       j \in DOMAIN log'[r].msgs /\ log'[r].msgs[j] = log[r].msgs[j]

(* What is merged is left without messages and is no success any more.       *)
Merge(d, s) ==
  /\ Live(d) /\ Live(s) /\ d # s
  /\ log' = [log EXCEPT ![d] = [ok |-> @.ok /\ log[s].ok, msgs |-> @.msgs \o log[s].msgs],
                        ![s] = [ok |-> FALSE, msgs |-> <<>>]]

Release(r) == Live(r) /\ ~Live(r)' /\ OnlyAt(r)

Next ==
  \E r \in Results :
    \/ Make(r) \/ Give(r) \/ Release(r)
    \/ \E s \in Results : Merge(r, s)

Spec == Init /\ [][Next]_log
=============================================================================
