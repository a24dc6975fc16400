--------------------------- MODULE OneSlotChannel ---------------------------
(***************************************************************************)
(* What the shared-memory transfer of HW9/54_1 promises: a channel that     *)
(* holds one item.  put is everything handed to the channel since it was    *)
(* last opened, got everything taken from it, in order.  An item may be put *)
(* only when the previous one has been taken.  The process that puts may    *)
(* crash; what is in the channel can still be taken until it is opened again.*)
(***************************************************************************)
EXTENDS Sequences

CONSTANT Item

VARIABLES put, got,
          up         \* FALSE: the process that puts has crashed

Init == put = <<>> /\ got = <<>> /\ up = TRUE

Put(d) == /\ up /\ put = got
          /\ put' = Append(put, d)
          /\ UNCHANGED <<got, up>>

Get == /\ put # got
       /\ got' = put
       /\ UNCHANGED <<put, up>>

Crash == /\ up /\ up' = FALSE
         /\ UNCHANGED <<put, got>>

\* A new transfer starts; an item is lost only if a crash left it there.
Reopen == /\ put = got \/ ~up
          /\ put' = <<>> /\ got' = <<>> /\ up' = TRUE

Next == Get \/ Crash \/ Reopen \/ \E d \in Item : Put(d)

Spec == Init /\ [][Next]_<<put, got, up>>
=============================================================================
