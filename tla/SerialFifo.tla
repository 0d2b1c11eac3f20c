------------------------------ MODULE SerialFifo ------------------------------
(***************************************************************************)
(* What the receive side of the CDC-ACM port promises: the bytes the       *)
(* gadget sends, numbered 1, 2, 3, ..., pass through a bounded queue in    *)
(* order and none is lost; only a Reset empties the queue.                 *)
(***************************************************************************)
EXTENDS Naturals, Sequences

CONSTANT Capacity

VARIABLES
  fifo,      \* received and not yet delivered
  received,  \* how many bytes have been received
  delivered  \* the last byte a caller of Read was given, 0 before the first

fifoVars == <<fifo, received, delivered>>

FifoInit ==
  /\ fifo = <<>>
  /\ received = 0
  /\ delivered = 0

Receive ==
  /\ Len(fifo) < Capacity
  /\ fifo' = Append(fifo, received + 1)
  /\ received' = received + 1
  /\ UNCHANGED delivered

Deliver ==
  /\ fifo # <<>>
  /\ delivered' = Head(fifo)
  /\ fifo' = Tail(fifo)
  /\ UNCHANGED received

Discard ==
  /\ fifo' = <<>>
  /\ UNCHANGED <<received, delivered>>

FifoSpec == FifoInit /\ [][Receive \/ Deliver \/ Discard]_fifoVars
=============================================================================
