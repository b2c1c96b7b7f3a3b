---------------------------- MODULE PendingRing ----------------------------
(***************************************************************************)
(* One seat's ring of pre-committed cells (PendingQueue of                 *)
(* resources/game.rs): a fixed array, a head cursor and a count.  Popped   *)
(* slots keep their bytes until they are reused, so only the cursors say   *)
(* what is queued.  Game uses the queue as a sequence; Contents is that    *)
(* sequence, and IsFifo says that the ring implements it.                  *)
(***************************************************************************)
EXTENDS Integers, Sequences

CONSTANTS
  RingCells,  \* values of an entry
  ZeroCell,   \* the entry a zeroed byte encodes
  RING_CAP    \* slots of the ring: PENDING_CAP in the code

ASSUME RingAssumption ==
  /\ ZeroCell \in RingCells
  /\ RING_CAP \in Nat \ {0}

VARIABLES cells, head, count

ringVars == <<cells, head, count>>

Slots == 0..(RING_CAP - 1)

Zeroed == cells = [i \in Slots |-> ZeroCell] /\ head = 0 /\ count = 0

RingInit == Zeroed

(* The slot k entries after the head. *)
Slot(k) == (head + k) % RING_CAP

(* push returns false, and changes nothing, when the ring is full. *)
Push(cell) ==
  /\ count # RING_CAP
  /\ cells' = [cells EXCEPT ![Slot(count)] = cell]
  /\ count' = count + 1
  /\ UNCHANGED head

PopKeepsHead ==
  /\ count # 0
  /\ count' = count - 1
  /\ UNCHANGED <<cells, head>>

(* pop returns None, and changes nothing, when the ring is empty. *)
Pop ==
  /\ count # 0
  /\ head' = Slot(1)
  /\ count' = count - 1
  /\ UNCHANGED cells

(* clear_pending replaces the ring by a zeroed one. *)
Clear ==
  /\ cells' = [i \in Slots |-> ZeroCell]
  /\ head' = 0
  /\ count' = 0

RingNext == (\E cell \in RingCells : Push(cell)) \/ Pop \/ Clear

RingSpec == RingInit /\ [][RingNext]_ringVars

---------------------------------------------------------------------------
(* Properties *)

(* The cursors stay inside the array: every index the code computes from     *)
(* them is in bounds (PendingQueue push, pop, peek).                         *)
RingTypeOK ==
  /\ cells \in [Slots -> RingCells]
  /\ head \in Slots
  /\ count \in 0..RING_CAP

(* The queue the cursors describe. *)
Contents == [i \in 1..count |-> cells[Slot(i - 1)]]

Q == INSTANCE Fifo WITH Entries <- RingCells, Capacity <- RING_CAP, queue <- Contents

(* Through any wrap-around of the head and the tail, pushes append to the    *)
(* queue and pops take its oldest entry; no stale slot is ever read.         *)
IsFifo == Q!FifoSpec

=============================================================================
