--------------------------- MODULE SeqnumService ---------------------------
(***************************************************************************)
(* What both sequence-number servers of HW8 promise ("the allocation of     *)
(* unique sequential numbers", fifo_seqnum_server.c 15): a run of the       *)
(* server hands out consecutive intervals of the naturals from 0, at most   *)
(* one to each client.  A new run starts from 0 again.                      *)
(***************************************************************************)
EXTENDS Naturals

CONSTANTS Clients, NoGrant,
          Lens   \* lengths a client may ask for

VARIABLES epoch,    \* number of the server run
          next,     \* first number it has not handed out
          granted   \* what each client was granted, and by which run

Init == /\ epoch = 0 /\ next = 0
        /\ granted = [c \in Clients |-> NoGrant]

Grant(c, n) ==
    /\ granted[c] = NoGrant
    /\ granted' = [granted EXCEPT ![c] = [run |-> epoch, first |-> next, len |-> n]]
    /\ next' = next + n
    /\ epoch' = epoch

Restart == /\ epoch' = epoch + 1
           /\ next' = 0
           /\ granted' = granted

Next == Restart \/ \E c \in Clients, n \in Lens : Grant(c, n)

Spec == Init /\ [][Next]_<<epoch, next, granted>>
=============================================================================
