------------------------------ MODULE Channel -------------------------------
(* What a stream of values promises: they are received one at a time, in the
   order they were sent, and each exactly once.                             *)
EXTENDS Sequences
LOCAL INSTANCE SequencesExt

CONSTANT Nothing (* what was received last before anything was              *)

VARIABLES
  queue,       (* the values on their way                                   *)
  value        (* the last one received                                     *)

Init == queue = <<>> /\ value = Nothing

(* Any number of values are sent.                                           *)
Put == /\ IsStrictPrefix(queue, queue')
       /\ UNCHANGED value

Get == /\ queue # <<>>
       /\ value' = Head(queue)
       /\ queue' = Tail(queue)

Spec == Init /\ [][Put \/ Get]_<<queue, value>>
=============================================================================
