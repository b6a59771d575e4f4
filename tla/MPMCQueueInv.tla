---------------------------- MODULE MPMCQueueInv -----------------------------
(***************************************************************************)
(* The inductive invariant of the queue.  TurnInv is behind                *)
(* CellHasOneOwner and the bounds: it knows what the sequence number of an *)
(* owned cell is, and why a thread that sleeps between its check and its   *)
(* compare-and-swap may still trust the check.  RingInv and ItemInv are    *)
(* behind ImplementsFifo: they know what is in the cell of each position,  *)
(* before, while and after its item is there.                              *)
(***************************************************************************)
EXTENDS MPMCQueue

(* An owner's position was claimed, and no one else touches the sequence   *)
(* number of its cell.                                                     *)
OwnersHaveTurn ==
    \A t \in Thread : OwnsCell(t) =>
        /\ pos[t] < index[side[t]]
        /\ sequence[CellOf(pos[t])] = Turn(t)

(* Positions are claimed once. *)
ClaimsDiffer ==
    \A t, u \in Thread :
        OwnsCell(t) /\ OwnsCell(u) /\ t # u /\ side[t] = side[u]
            => pos[t] # pos[u]

(* A check stays good as long as the compare-and-swap can succeed. *)
ChecksHold ==
    \A t \in Thread :
        At(t, "claim") /\ ClaimIsMine(t) => sequence[CellOf(pos[t])] = Turn(t)

(* A thread is never ahead of the index it read. *)
NeverAhead ==
    \A t \in Thread :
        At(t, "check") \/ At(t, "claim") => pos[t] <= index[side[t]]

TurnInv == TypeOK /\ OwnersHaveTurn /\ ClaimsDiffer /\ ChecksHold /\ NeverAhead

-----------------------------------------------------------------------------
(* The same for the order of the items: where the positions in the queue   *)
(* and the free ones stand in the ring.                                    *)

(* p was claimed on side s, and its cell is not handed over yet. *)
Held(s, p) == \E t \in Thread : OwnsCell(t) /\ side[t] = s /\ pos[t] = p

(* Between the indices are the positions in the queue, a lap at most. *)
WithinOneLap == /\ index["head"] <= index["tail"]
                /\ index["tail"] <= index["head"] + Size

(* No claim passes a cell whose owner of the lap before still holds it. *)
OwnersInLap ==
    \A t \in Thread : OwnsCell(t) =>
        IF side[t] = "tail" THEN index["head"] <= pos[t]
                            ELSE index["tail"] <= pos[t] + Size

(* A position in the queue was handed to the consumers, or is being filled. *)
QueuedAreFilled ==
    \A p \in index["head"] .. index["tail"] - 1 :
        sequence[CellOf(p)] = p + 1 \/ Held("tail", p)

(* A free one was handed to the producers, or is being emptied of the item *)
(* of the lap before.                                                      *)
FreeAreEmptied ==
    \A p \in index["tail"] .. index["head"] + Size - 1 :
        sequence[CellOf(p)] = p \/ Held("head", p - Size)

(* What a producer wrote stays there until it hands the cell over. *)
WrittenIsKept ==
    \A t \in Thread :
        side[t] = "tail" /\ At(t, "hand over") => data[CellOf(pos[t])] = item[t]

IdleCarriesNothing == \A t \in Thread : At(t, "idle") => item[t] = NoItem

RingInv == WithinOneLap /\ OwnersInLap /\ QueuedAreFilled /\ FreeAreEmptied
ItemInv == WrittenIsKept /\ IdleCarriesNothing

IInv == TurnInv /\ RingInv /\ ItemInv
=============================================================================
