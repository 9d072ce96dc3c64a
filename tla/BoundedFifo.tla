----------------------------- MODULE BoundedFifo -----------------------------
(***************************************************************************)
(* What the producer-consumer programs of pxsem and mutex compute: the     *)
(* items 0, 1, 2, ... pass in order through a buffer of bounded capacity,  *)
(* each exactly once.                                                      *)
(***************************************************************************)
EXTENDS Naturals, Sequences

CONSTANTS Capacity, Total

VARIABLES
  queue,  \* items stored and not yet consumed, oldest first
  sent    \* number of items stored so far, which is the next item

fifoVars == <<queue, sent>>

FifoInit == queue = <<>> /\ sent = 0

Put ==
  /\ sent < Total
  /\ Len(queue) < Capacity
  /\ queue' = Append(queue, sent)
  /\ sent' = sent + 1

Get ==
  /\ queue # <<>>
  /\ queue' = Tail(queue)
  /\ UNCHANGED sent

FifoSpec == FifoInit /\ [][Put \/ Get]_fifoVars
=============================================================================
