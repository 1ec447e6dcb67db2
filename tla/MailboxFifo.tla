----------------------------- MODULE MailboxFifo -----------------------------
(***************************************************************************)
(* What one mailbox channel promises its two users, without any ring: a    *)
(* bounded first-in first-out queue of items.                              *)
(*                                                                         *)
(* Items are numbered 1, 2, 3, ... in the order the sender publishes them, *)
(* so that a lost, repeated, overwritten or reordered item is visible as a *)
(* wrong number.  A put is all or nothing and is refused exactly when it   *)
(* does not fit; a get returns a non-empty prefix of the queue, or nothing *)
(* when the queue is empty; a reset throws the unread items away.          *)
(***************************************************************************)
EXTENDS Integers, Sequences

CONSTANTS Capacity,    \* items the queue can hold
          MaxBatch,    \* largest number of items of one call
          NO_ENOUGH_BUF

VARIABLES queue,       \* published and not yet consumed, oldest first
          put,         \* number of the last published item
          wret,        \* what the last put was asked for and returned
          delivered    \* the items the last get returned

vars == <<queue, put, wret, delivered>>

Batch(n) == [i \in 1..n |-> put + i]

Init ==
    /\ queue = <<>>
    /\ put = 0
    /\ wret = <<0, 0>>
    /\ delivered = <<>>

Put(n) ==
    /\ Len(queue) + n <= Capacity
    /\ queue' = queue \o Batch(n)
    /\ put' = put + n
    /\ wret' = <<n, n>>
    /\ UNCHANGED delivered

PutRefused(n) ==
    /\ Len(queue) + n > Capacity
    /\ wret' = <<n, NO_ENOUGH_BUF>>
    /\ UNCHANGED <<queue, put, delivered>>

Get(n) ==
    /\ n \in 1..Len(queue)
    /\ delivered' = SubSeq(queue, 1, n)
    /\ queue' = SubSeq(queue, n + 1, Len(queue))
    /\ UNCHANGED <<put, wret>>

GetNone(n) ==
    /\ n = 0 \/ queue = <<>>
    /\ delivered' = <<>>
    /\ UNCHANGED <<queue, put, wret>>

Reset ==
    /\ queue' = <<>>
    /\ UNCHANGED <<put, wret, delivered>>

Next ==
    \/ \E n \in 0..MaxBatch : Put(n) \/ PutRefused(n) \/ Get(n) \/ GetNone(n)
    \/ Reset

Spec == Init /\ [][Next]_vars
=============================================================================
