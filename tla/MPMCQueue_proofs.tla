-------------------------- MODULE MPMCQueue_proofs ---------------------------
(***************************************************************************)
(* MPMCQueue keeps its cells exclusive and is a bounded FIFO queue, for    *)
(* any number of threads, items and cells.  The argument rests on one fact *)
(* about the ring: positions next to each other are in different cells, so *)
(* a sequence number that tells one thread to go tells every other thread  *)
(* to wait.  The item of a position then stays until it is taken, and the  *)
(* claims in the order of their positions are the steps of the FIFO queue. *)
(***************************************************************************)
EXTENDS MPMCQueueInv, SequenceTheorems, TLAPS

LEMMA CellInRange == ASSUME NEW p \in Nat PROVE CellOf(p) \in Cell
BY SizeAssumption DEF CellOf, Cell

(* Nothing but 0 is both a multiple of Size and nearer to 0 than Size.     *)
LEMMA NoSmallMultiple ==
    ASSUME NEW k \in Int, -Size < Size * k, Size * k < Size PROVE k = 0
<1>. Size \in Nat /\ Size >= 2
  BY SizeAssumption
<1>1. CASE k >= 1
  <2>1. Size * k >= Size * 1
    BY <1>1
  <2>. QED
    BY <2>1
<1>2. CASE k <= -1
  <2>1. Size * k <= Size * (-1)
    BY <1>2
  <2>. QED
    BY <2>1
<1>. QED
  BY <1>1, <1>2

LEMMA NextCellDiffers == ASSUME NEW p \in Nat PROVE CellOf(p) # CellOf(p + 1)
<1>. Size \in Nat /\ Size >= 2
  BY SizeAssumption
<1>. SUFFICES ASSUME p % Size = (p + 1) % Size PROVE FALSE
  BY DEF CellOf
<1>. DEFINE a == p \div Size
            b == (p + 1) \div Size
<1>1. a \in Int /\ b \in Int
  OBVIOUS
<1>2. p = Size * a + (p % Size)
  OBVIOUS
<1>3. p + 1 = Size * b + ((p + 1) % Size)
  OBVIOUS
<1>. HIDE DEF a, b
<1>4. Size * b - Size * a = 1
  BY <1>1, <1>2, <1>3
<1>5. Size * (b - a) = 1
  BY <1>1, <1>4
<1>6. b - a = 0
  BY <1>1, <1>5, NoSmallMultiple
<1>. QED
  BY <1>1, <1>5, <1>6


-----------------------------------------------------------------------------
(* Owners of one cell see the same sequence number; that gives them the    *)
(* same position, or positions next to each other.                         *)
LEMMA OneOwner == TurnInv => CellHasOneOwner
<1>. SUFFICES ASSUME TurnInv,
                     NEW t \in Thread, NEW u \in Thread,
                     OwnsCell(t), OwnsCell(u), t # u,
                     CellOf(pos[t]) = CellOf(pos[u])
              PROVE  FALSE
  BY DEF CellHasOneOwner
<1>1. /\ pos[t] \in Nat /\ pos[u] \in Nat
      /\ side[t] \in Side /\ side[u] \in Side
  BY DEF TurnInv, TypeOK
<1>2. Turn(t) = Turn(u)
  BY DEF TurnInv, OwnersHaveTurn
<1>3. CASE side[t] = side[u]
  <2>1. pos[t] = pos[u]
    BY <1>1, <1>2, <1>3 DEF Turn
  <2>. QED
    BY <1>3, <2>1 DEF TurnInv, ClaimsDiffer
<1>4. CASE side[t] = "tail" /\ side[u] = "head"
  <2>1. pos[t] = pos[u] + 1
    BY <1>1, <1>2, <1>4 DEF Turn
  <2>. QED
    BY <1>1, <2>1, NextCellDiffers
<1>5. CASE side[t] = "head" /\ side[u] = "tail"
  <2>1. pos[u] = pos[t] + 1
    BY <1>1, <1>2, <1>5 DEF Turn
  <2>. QED
    BY <1>1, <2>1, NextCellDiffers
<1>. QED
  BY <1>1, <1>3, <1>4, <1>5 DEF Side

LEMMA TypeInit == Init => TypeOK
BY SizeAssumption DEF Init, TypeOK, Cell, Side, PC

LEMMA TurnInit == Init => TurnInv
<1>. SUFFICES ASSUME Init PROVE TurnInv
  OBVIOUS
<1>1. \A t \in Thread : pc[t] = "idle"
  BY DEF Init
<1>2. OwnersHaveTurn /\ ClaimsDiffer /\ ChecksHold /\ NeverAhead
  BY <1>1 DEF OwnersHaveTurn, ClaimsDiffer, ChecksHold, NeverAhead, OwnsCell, At
<1>. QED
  BY <1>2, TypeInit DEF TurnInv

LEMMA TypeNext == ASSUME TypeOK, Next PROVE TypeOK'
<1>. USE DEF TypeOK
<1>. PICK t \in Thread : Call(t) \/ Proceed(t) \/ FailClaim(t)
  BY DEF Next
<1>0. pos[t] \in Nat /\ side[t] \in Side /\ CellOf(pos[t]) \in Cell
  BY CellInRange
<1>1. CASE Call(t)
  BY <1>1 DEF Call, Goto, PC, Side
<1>2. CASE Load(t)
  BY <1>0, <1>2 DEF Load, Goto, PC
<1>3. CASE Ready(t)
  BY <1>3 DEF Ready, Goto, PC
<1>4. CASE GiveUp(t)
  BY <1>4 DEF GiveUp, Return, Goto, PC
<1>5. CASE Overtaken(t)
  BY <1>5 DEF Overtaken, Goto, PC
<1>6. CASE Claim(t)
  <2>1. index' \in [Side -> Nat]
    BY <1>0, <1>6 DEF Claim
  <2>. QED
    BY <1>6, <2>1 DEF Claim, Goto, PC
<1>7. CASE FailClaim(t)
  BY <1>0, <1>7 DEF FailClaim, Goto, PC
<1>8. CASE Move(t)
  BY <1>0, <1>8 DEF Move, Goto, PC
<1>9. CASE HandOver(t)
  <2>1. NextTurn(t) \in Nat
    BY <1>0, SizeAssumption DEF NextTurn
  <2>. QED
    BY <1>0, <1>9, <2>1 DEF HandOver, Return, Goto, PC
<1>. QED
  BY <1>1, <1>2, <1>3, <1>4, <1>5, <1>6, <1>7, <1>8, <1>9 DEF Proceed

(* A step that leaves the sequence numbers and the indices alone, makes    *)
(* nobody an owner, and sends to its compare-and-swap only a thread whose  *)
(* turn it is.                                                             *)
LEMMA LocalStep ==
    ASSUME TurnInv, TypeOK', NeverAhead', UNCHANGED << sequence, index >>,
           \A t \in Thread : OwnsCell(t)' =>
               OwnsCell(t) /\ pos'[t] = pos[t] /\ side'[t] = side[t],
           \A t \in Thread : At(t, "claim")' =>
               /\ pos'[t] = pos[t] /\ side'[t] = side[t]
               /\ At(t, "claim") \/ Diff(t) = 0
    PROVE  TurnInv'
<1>1. OwnersHaveTurn'
  BY DEF TurnInv, OwnersHaveTurn, Turn
<1>2. ClaimsDiffer'
  BY DEF TurnInv, ClaimsDiffer
<1>3. ChecksHold'
  <2>. SUFFICES ASSUME NEW t \in Thread, At(t, "claim")', ClaimIsMine(t)'
                PROVE  sequence'[CellOf(pos'[t])] = Turn(t)'
    BY DEF ChecksHold
  <2>1. /\ pos'[t] = pos[t] /\ side'[t] = side[t]
        /\ At(t, "claim") \/ Diff(t) = 0
    OBVIOUS
  <2>2. CASE At(t, "claim")
    BY <2>1, <2>2 DEF TurnInv, ChecksHold, ClaimIsMine, Turn
  <2>3. CASE Diff(t) = 0
    <3>1. /\ pos[t] \in Nat /\ Turn(t) \in Nat
          /\ sequence[CellOf(pos[t])] \in Nat
      BY CellInRange DEF TurnInv, TypeOK, Turn
    <3>2. sequence[CellOf(pos[t])] = Turn(t)
      BY <2>3, <3>1 DEF Diff
    <3>. QED
      BY <2>1, <3>2 DEF Turn
  <2>. QED
    BY <2>1, <2>2, <2>3
<1>. QED
  BY <1>1, <1>2, <1>3 DEF TurnInv

(* The new owner was checked, and is the first to claim this position.     *)
LEMMA ClaimStep ==
    ASSUME TurnInv, TypeOK', NEW t \in Thread, Claim(t) PROVE TurnInv'
<1>0. /\ side[t] \in Side /\ pos[t] \in Nat /\ index[side[t]] = pos[t]
      /\ sequence' = sequence /\ pos' = pos /\ side' = side
      /\ index' = [index EXCEPT ![side[t]] = pos[t] + 1]
      /\ OwnsCell(t)' /\ ~At(t, "claim")'
      /\ sequence[CellOf(pos[t])] = Turn(t)
  BY DEF TurnInv, TypeOK, Claim, ClaimIsMine, ChecksHold, At, Goto, OwnsCell
<1>1. \A u \in Thread \ {t} :
        /\ OwnsCell(u)' <=> OwnsCell(u)
        /\ At(u, "claim")' <=> At(u, "claim")
  BY DEF TurnInv, TypeOK, Claim, At, Goto, OwnsCell
<1>2. index \in [Side -> Nat] /\ side \in [Thread -> Side] /\ pos \in [Thread -> Nat]
  BY DEF TurnInv, TypeOK
<1>3. OwnersHaveTurn'
  <2>. SUFFICES ASSUME NEW u \in Thread, OwnsCell(u)'
                PROVE  /\ pos'[u] < index'[side'[u]]
                       /\ sequence'[CellOf(pos'[u])] = Turn(u)'
    BY DEF OwnersHaveTurn
  <2>1. CASE u = t
    BY <1>0, <1>2, <2>1 DEF Turn
  <2>2. CASE u # t
    <3>1. pos[u] < index[side[u]] /\ sequence[CellOf(pos[u])] = Turn(u)
      BY <1>1, <2>2 DEF TurnInv, OwnersHaveTurn
    <3>. QED
      BY <1>0, <1>2, <3>1 DEF Turn
  <2>. QED
    BY <2>1, <2>2
<1>4. ClaimsDiffer'
  <2>1. \A u \in Thread \ {t} :
            OwnsCell(u) /\ side[u] = side[t] => pos[u] < pos[t]
    BY <1>0 DEF TurnInv, OwnersHaveTurn
  <2>2. \A u \in Thread \ {t} :
            OwnsCell(u) /\ side[u] = side[t] => pos[u] # pos[t]
    BY <1>2, <2>1
  <2>. QED
    BY <1>0, <1>1, <2>2 DEF TurnInv, ClaimsDiffer
<1>5. ChecksHold'
  <2>. SUFFICES ASSUME NEW u \in Thread, At(u, "claim")', ClaimIsMine(u)'
                PROVE  sequence'[CellOf(pos'[u])] = Turn(u)'
    BY DEF ChecksHold
  <2>1. u # t /\ At(u, "claim")
    BY <1>0, <1>1
  <2>2. CASE side[u] # side[t]
    <3>1. ClaimIsMine(u)
      BY <1>0, <1>2, <2>2 DEF ClaimIsMine
    <3>. QED
      BY <1>0, <2>1, <3>1 DEF TurnInv, ChecksHold, Turn
  <2>3. CASE side[u] = side[t]
    <3>1. pos[u] <= pos[t]
      BY <1>0, <2>1, <2>3 DEF TurnInv, NeverAhead
    <3>2. index'[side[u]] = pos[t] + 1
      BY <1>0, <1>2, <2>3
    <3>. QED
      BY <1>0, <1>2, <3>1, <3>2 DEF ClaimIsMine
  <2>. QED
    BY <2>2, <2>3
<1>6. NeverAhead'
  <2>. SUFFICES ASSUME NEW u \in Thread, At(u, "check")' \/ At(u, "claim")'
                PROVE  pos'[u] <= index'[side'[u]]
    BY DEF NeverAhead
  <2>1. u # t /\ (At(u, "check") \/ At(u, "claim"))
    BY <1>0 DEF TurnInv, TypeOK, Claim, At, Goto
  <2>2. pos[u] <= index[side[u]]
    BY <2>1 DEF TurnInv, NeverAhead
  <2>. QED
    BY <1>0, <1>2, <2>2
<1>. QED
  BY <1>3, <1>4, <1>5, <1>6 DEF TurnInv

(* Handing the cell over changes one sequence number, that of a cell that  *)
(* is no other owner's and that no compare-and-swap depends on.            *)
LEMMA HandOverStep ==
    ASSUME TurnInv, TypeOK', NEW t \in Thread, HandOver(t) PROVE TurnInv'
<1>0. /\ side[t] \in Side /\ pos[t] \in Nat /\ OwnsCell(t)
      /\ index' = index /\ side' = side
      /\ \A u \in Thread \ {t} : pos'[u] = pos[u] /\ pc'[u] = pc[u]
      /\ pc'[t] = "idle"
      /\ pos[t] < index[side[t]] /\ sequence[CellOf(pos[t])] = Turn(t)
  BY DEF TurnInv, TypeOK, HandOver, Return, At, Goto, OwnsCell, OwnersHaveTurn
<1>1. index \in [Side -> Nat] /\ side \in [Thread -> Side]
      /\ pos \in [Thread -> Nat]
  BY DEF TurnInv, TypeOK
<1>2. \A c \in Cell : c # CellOf(pos[t]) => sequence'[c] = sequence[c]
  BY DEF TurnInv, TypeOK, HandOver
<1>3. OwnersHaveTurn'
  <2>. SUFFICES ASSUME NEW u \in Thread, OwnsCell(u)'
                PROVE  /\ pos'[u] < index'[side'[u]]
                       /\ sequence'[CellOf(pos'[u])] = Turn(u)'
    BY DEF OwnersHaveTurn
  <2>1. u # t /\ OwnsCell(u)
    BY <1>0 DEF OwnsCell
  <2>2. CellOf(pos[u]) \in Cell /\ CellOf(pos[u]) # CellOf(pos[t])
    BY <1>0, <1>1, <2>1, OneOwner, CellInRange DEF CellHasOneOwner
  <2>3. pos[u] < index[side[u]] /\ sequence[CellOf(pos[u])] = Turn(u)
    BY <2>1 DEF TurnInv, OwnersHaveTurn
  <2>. QED
    BY <1>0, <1>2, <2>1, <2>2, <2>3 DEF Turn
<1>4. ClaimsDiffer'
  <2>1. \A u \in Thread : OwnsCell(u)' => u # t /\ OwnsCell(u)
    BY <1>0 DEF OwnsCell
  <2>. QED
    BY <1>0, <2>1 DEF TurnInv, ClaimsDiffer
<1>5. ChecksHold'
  <2>. SUFFICES ASSUME NEW u \in Thread, At(u, "claim")', ClaimIsMine(u)'
                PROVE  sequence'[CellOf(pos'[u])] = Turn(u)'
    BY DEF ChecksHold
  <2>1. u # t /\ At(u, "claim") /\ ClaimIsMine(u)
    BY <1>0 DEF At, ClaimIsMine
  <2>2. sequence[CellOf(pos[u])] = Turn(u) /\ index[side[u]] = pos[u]
    BY <2>1 DEF TurnInv, ChecksHold, ClaimIsMine
  <2>3. CellOf(pos[u]) # CellOf(pos[t])
    <3>. SUFFICES ASSUME CellOf(pos[u]) = CellOf(pos[t]) PROVE FALSE
      OBVIOUS
    <3>1. Turn(u) = Turn(t)
      BY <1>0, <2>2
    <3>2. CASE side[u] = side[t]
      BY <1>0, <1>1, <2>2, <3>1, <3>2 DEF Turn
    <3>3. CASE side[u] = "tail" /\ side[t] = "head"
      <4>1. pos[u] = pos[t] + 1
        BY <1>0, <1>1, <3>1, <3>3 DEF Turn
      <4>. QED
        BY <1>0, <4>1, NextCellDiffers
    <3>4. CASE side[u] = "head" /\ side[t] = "tail"
      <4>1. pos[t] = pos[u] + 1
        BY <1>0, <1>1, <3>1, <3>4 DEF Turn
      <4>. QED
        BY <1>1, <4>1, NextCellDiffers
    <3>. QED
      BY <1>1, <3>2, <3>3, <3>4 DEF Side
  <2>4. CellOf(pos[u]) \in Cell
    BY <1>1, CellInRange
  <2>. QED
    BY <1>0, <1>2, <2>1, <2>2, <2>3, <2>4 DEF Turn
<1>6. NeverAhead'
  <2>. SUFFICES ASSUME NEW u \in Thread, At(u, "check")' \/ At(u, "claim")'
                PROVE  pos'[u] <= index'[side'[u]]
    BY DEF NeverAhead
  <2>1. u # t /\ (At(u, "check") \/ At(u, "claim"))
    BY <1>0 DEF At
  <2>. QED
    BY <1>0, <2>1 DEF TurnInv, NeverAhead
<1>. QED
  BY <1>3, <1>4, <1>5, <1>6 DEF TurnInv

LEMMA TurnNext == ASSUME TurnInv, Next PROVE TurnInv'
<1>0. TypeOK'
  BY TypeNext DEF TurnInv
<1>. PICK t \in Thread : Call(t) \/ Proceed(t) \/ FailClaim(t)
  BY DEF Next
<1>. DEFINE Local == Call(t) \/ Load(t) \/ Ready(t) \/ GiveUp(t)
                     \/ Overtaken(t) \/ FailClaim(t) \/ Move(t)
<1>1. CASE Claim(t)
  BY <1>0, <1>1, ClaimStep
<1>2. CASE HandOver(t)
  BY <1>0, <1>2, HandOverStep
<1>3. CASE Local
  <2>0. /\ pc \in [Thread -> PC] /\ side \in [Thread -> Side]
        /\ pos \in [Thread -> Nat] /\ index \in [Side -> Nat]
    BY DEF TurnInv, TypeOK
  <2>1. UNCHANGED << sequence, index >>
    BY <1>3 DEF Call, Load, Ready, GiveUp, Overtaken, FailClaim, Move
  <2>2. ASSUME NEW u \in Thread, u # t
        PROVE  pc'[u] = pc[u] /\ pos'[u] = pos[u] /\ side'[u] = side[u]
    BY <1>3, <2>0, <2>2 DEF Call, Load, Ready, GiveUp, Overtaken, FailClaim,
                            Move, Return, Goto
  <2>3. OwnsCell(t)' => /\ OwnsCell(t)
                        /\ pos'[t] = pos[t] /\ side'[t] = side[t]
    BY <1>3, <2>0 DEF Call, Load, Ready, GiveUp, Overtaken, FailClaim, Move,
                      Return, Goto, At, OwnsCell
  <2>4. At(t, "claim")' => /\ pos'[t] = pos[t] /\ side'[t] = side[t]
                           /\ At(t, "check") /\ Diff(t) = 0
    BY <1>3, <2>0 DEF Call, Load, Ready, GiveUp, Overtaken, FailClaim, Move,
                      Return, Goto, At
  <2>5. At(t, "check")' => pos'[t] = index[side[t]] /\ side'[t] = side[t]
    BY <1>3, <2>0 DEF Call, Load, Ready, GiveUp, Overtaken, FailClaim, Move,
                      Return, Goto, At
  <2>6. NeverAhead'
    <3>. SUFFICES ASSUME NEW u \in Thread, At(u, "check")' \/ At(u, "claim")'
                  PROVE  pos'[u] <= index'[side'[u]]
      BY DEF NeverAhead
    <3>1. CASE u = t /\ At(u, "check")'
      BY <2>0, <2>1, <2>5, <3>1
    <3>2. CASE u = t /\ At(u, "claim")'
      BY <2>1, <2>4, <3>2 DEF TurnInv, NeverAhead
    <3>3. CASE u # t
      BY <2>1, <2>2, <3>3 DEF TurnInv, NeverAhead, At
    <3>. QED
      BY <3>1, <3>2, <3>3
  <2>7. \A u \in Thread : OwnsCell(u)' =>
            OwnsCell(u) /\ pos'[u] = pos[u] /\ side'[u] = side[u]
    BY <2>2, <2>3 DEF OwnsCell
  <2>8. \A u \in Thread : At(u, "claim")' =>
            /\ pos'[u] = pos[u] /\ side'[u] = side[u]
            /\ At(u, "claim") \/ Diff(u) = 0
    BY <2>2, <2>4 DEF At
  <2>. QED
    BY <1>0, <2>1, <2>6, <2>7, <2>8, LocalStep
<1>. QED
  BY <1>1, <1>2, <1>3 DEF Proceed

-----------------------------------------------------------------------------
LEMMA Quotient ==
    ASSUME NEW p \in Nat
    PROVE  /\ \E a \in Int : p = Size * a + (p % Size)
           /\ p % Size \in 0 .. Size - 1
<1>. Size \in Nat /\ Size >= 2
  BY SizeAssumption
<1>. DEFINE a == p \div Size
            r == p % Size
<1>1. a \in Int /\ r \in 0 .. Size - 1 /\ p = Size * a + r
  OBVIOUS
<1>2. r = p % Size
  OBVIOUS
<1>. HIDE DEF a, r
<1>. QED
  BY <1>1, <1>2

(* Two positions less than a lap apart are in different cells. *)
LEMMA CellsDiffer ==
    ASSUME NEW p \in Nat, NEW q \in Nat, p < q, q < p + Size
    PROVE  CellOf(p) # CellOf(q)
<1>. Size \in Nat /\ Size >= 2
  BY SizeAssumption
<1>. SUFFICES ASSUME p % Size = q % Size PROVE FALSE
  BY DEF CellOf
<1>. DEFINE a == p \div Size
            b == q \div Size
<1>1. a \in Int /\ b \in Int
  OBVIOUS
<1>2. p = Size * a + (p % Size)
  OBVIOUS
<1>3. q = Size * b + (q % Size)
  OBVIOUS
<1>. HIDE DEF a, b
<1>4. Size * b - Size * a = q - p
  BY <1>1, <1>2, <1>3
<1>5. Size * (b - a) = q - p
  BY <1>1, <1>4
<1>6. b - a = 0
  BY <1>1, <1>5, NoSmallMultiple
<1>. QED
  BY <1>1, <1>5, <1>6

(* A position and the one a lap later share a cell. *)
LEMMA NextLap == ASSUME NEW p \in Nat PROVE CellOf(p + Size) = CellOf(p)
<1>. Size \in Nat /\ Size >= 2
  BY SizeAssumption
<1>. DEFINE a == p \div Size
            b == (p + Size) \div Size
            r == p % Size
            s == (p + Size) % Size
<1>1. a \in Int /\ b \in Int /\ r \in 0 .. Size - 1 /\ s \in 0 .. Size - 1
  OBVIOUS
<1>2. p = Size * a + r /\ p + Size = Size * b + s
  OBVIOUS
<1>3. r = p % Size /\ s = (p + Size) % Size
  OBVIOUS
<1>. HIDE DEF a, b, r, s
<1>4. Size * b - Size * a - Size = r - s
  BY <1>1, <1>2
<1>5. Size * (b - a - 1) = r - s
  BY <1>1, <1>4
<1>6. b - a - 1 = 0
  BY <1>1, <1>5, NoSmallMultiple
<1>. QED
  BY <1>1, <1>3, <1>5, <1>6 DEF CellOf

(* Every cell is that of one of any Size positions in a row. *)
LEMMA InWindow ==
    ASSUME NEW p \in Nat, NEW h \in Nat
    PROVE  \E q \in h .. h + Size - 1 : CellOf(q) = CellOf(p)
<1>. Size \in Nat /\ Size >= 2
  BY SizeAssumption
<1>. DEFINE a == h \div Size
            r == h % Size
            s == p % Size
<1>1. a \in Nat /\ r \in 0 .. Size - 1 /\ s \in 0 .. Size - 1
  OBVIOUS
<1>2. h = Size * a + r
  OBVIOUS
<1>3. s = p % Size
  OBVIOUS
<1>. HIDE DEF a, r, s
<1>4. ASSUME NEW q \in Nat, NEW k \in Nat, q = Size * k + s
      PROVE  CellOf(q) = CellOf(p)
  <2>1. PICK c \in Int : q = Size * c + (q % Size)
    BY Quotient
  <2>2. q % Size \in 0 .. Size - 1
    BY Quotient
  <2>3. Size * c - Size * k = s - (q % Size)
    BY <1>1, <1>4, <2>1, <2>2
  <2>4. Size * (c - k) = s - (q % Size)
    BY <2>3
  <2>5. c - k = 0
    BY <1>1, <2>2, <2>4, NoSmallMultiple
  <2>. QED
    BY <1>1, <1>3, <2>2, <2>4, <2>5 DEF CellOf
<1>5. Size * a \in Nat /\ Size * (a + 1) = Size * a + Size
  BY <1>1
<1>6. CASE r <= s
  <2>. DEFINE q == Size * a + s
  <2>1. q \in h .. h + Size - 1 /\ q \in Nat
    BY <1>1, <1>2, <1>5, <1>6
  <2>2. CellOf(q) = CellOf(p)
    BY <1>1, <1>4, <2>1
  <2>. QED
    BY <2>1, <2>2
<1>7. CASE s < r
  <2>. DEFINE q == Size * (a + 1) + s
  <2>1. q \in h .. h + Size - 1 /\ q \in Nat
    BY <1>1, <1>2, <1>5, <1>7
  <2>2. a + 1 \in Nat
    BY <1>1
  <2>3. CellOf(q) = CellOf(p)
    BY <1>4, <2>1, <2>2
  <2>. QED
    BY <2>1, <2>3
<1>. QED
  BY <1>1, <1>6, <1>7

-----------------------------------------------------------------------------
(* A producer whose turn it is finds a free position at the tail, and no   *)
(* consumer still in the cell.                                             *)
LEMMA TailIsFree ==
    ASSUME TurnInv, RingInv,
           sequence[CellOf(index["tail"])] = index["tail"]
    PROVE  /\ index["tail"] < index["head"] + Size
           /\ \A u \in Thread : OwnsCell(u) /\ side[u] = "head"
                  => index["tail"] + 1 <= pos[u] + Size
<1>. DEFINE h == index["head"]
            e == index["tail"]
<1>0. /\ h \in Nat /\ e \in Nat /\ Size \in Nat /\ Size >= 2
      /\ h <= e /\ e <= h + Size
  BY SizeAssumption DEF TurnInv, TypeOK, Side, RingInv, WithinOneLap
<1>1. e # h + Size
  <2>. SUFFICES ASSUME e = h + Size PROVE FALSE
    OBVIOUS
  <2>1. h \in h .. e - 1 /\ CellOf(e) = CellOf(h)
    BY <1>0, NextLap
  <2>2. sequence[CellOf(h)] = h + 1 \/ Held("tail", h)
    BY <2>1 DEF RingInv, QueuedAreFilled
  <2>3. Held("tail", h) => sequence[CellOf(h)] = h
    BY DEF TurnInv, OwnersHaveTurn, Held, Turn
  <2>. QED
    BY <1>0, <2>1, <2>2, <2>3
<1>2. ASSUME NEW u \in Thread, OwnsCell(u), side[u] = "head"
      PROVE  e + 1 <= pos[u] + Size
  <2>1. pos[u] \in Nat /\ e <= pos[u] + Size
    BY <1>2 DEF TurnInv, TypeOK, RingInv, OwnersInLap
  <2>2. sequence[CellOf(pos[u])] = pos[u] + 1
    BY <1>2 DEF TurnInv, OwnersHaveTurn, Turn
  <2>3. e # pos[u] + Size
    BY <1>0, <2>1, <2>2, NextLap
  <2>. QED
    BY <1>0, <2>1, <2>3
<1>. QED
  BY <1>0, <1>1, <1>2

(* A consumer whose turn it is finds an item at the head, and no producer  *)
(* still in the cell.                                                      *)
LEMMA HeadIsFilled ==
    ASSUME TurnInv, RingInv,
           sequence[CellOf(index["head"])] = index["head"] + 1
    PROVE  /\ index["head"] < index["tail"]
           /\ \A u \in Thread : OwnsCell(u) /\ side[u] = "tail"
                  => index["head"] + 1 <= pos[u]
<1>. DEFINE h == index["head"]
            e == index["tail"]
<1>0. /\ h \in Nat /\ e \in Nat /\ Size \in Nat /\ Size >= 2
      /\ h <= e /\ e <= h + Size
  BY SizeAssumption DEF TurnInv, TypeOK, Side, RingInv, WithinOneLap
<1>1. e # h
  <2>. SUFFICES ASSUME e = h PROVE FALSE
    OBVIOUS
  <2>1. h \in e .. h + Size - 1
    BY <1>0
  <2>2. Held("head", h - Size)
    BY <1>0, <2>1 DEF RingInv, FreeAreEmptied
  <2>3. PICK u \in Thread : /\ OwnsCell(u) /\ side[u] = "head"
                            /\ pos[u] = h - Size
    BY <2>2 DEF Held
  <2>4. pos[u] \in Nat /\ sequence[CellOf(pos[u])] = pos[u] + 1
    BY <2>3 DEF TurnInv, TypeOK, OwnersHaveTurn, Turn
  <2>5. pos[u] + Size = h
    BY <1>0, <2>3, <2>4
  <2>. QED
    BY <1>0, <2>4, <2>5, NextLap
<1>2. ASSUME NEW u \in Thread, OwnsCell(u), side[u] = "tail"
      PROVE  h + 1 <= pos[u]
  <2>1. pos[u] \in Nat /\ h <= pos[u]
    BY <1>2 DEF TurnInv, TypeOK, RingInv, OwnersInLap
  <2>2. sequence[CellOf(pos[u])] = pos[u]
    BY <1>2 DEF TurnInv, OwnersHaveTurn, Turn
  <2>3. h # pos[u]
    BY <1>0, <2>1, <2>2
  <2>. QED
    BY <1>0, <2>1, <2>3
<1>. QED
  BY <1>0, <1>1, <1>2

-----------------------------------------------------------------------------
(* The steps that touch neither an index nor a sequence number. *)
Local(t) == \/ Call(t) \/ Load(t) \/ Ready(t) \/ GiveUp(t) \/ Overtaken(t)
            \/ FailClaim(t) \/ Move(t)

(* They make nobody an owner, and no owner lets go. *)
LEMMA LocalKeepsOwners ==
    ASSUME TypeOK, NEW t \in Thread, Local(t)
    PROVE  /\ UNCHANGED << sequence, index >>
           /\ \A u \in Thread :
                 /\ OwnsCell(u)' <=> OwnsCell(u)
                 /\ OwnsCell(u) => pos'[u] = pos[u] /\ side'[u] = side[u]
<1>0. /\ pc \in [Thread -> PC] /\ side \in [Thread -> Side]
      /\ pos \in [Thread -> Nat]
  BY DEF TypeOK
<1>1. UNCHANGED << sequence, index >>
  BY DEF Local, Call, Load, Ready, GiveUp, Overtaken, FailClaim, Move
<1>2. ASSUME NEW u \in Thread, u # t
      PROVE  pc'[u] = pc[u] /\ pos'[u] = pos[u] /\ side'[u] = side[u]
  BY <1>0, <1>2 DEF Local, Call, Load, Ready, GiveUp, Overtaken, FailClaim,
                    Move, Return, Goto
<1>3. CASE Move(t)
  <2>1. OwnsCell(t) /\ OwnsCell(t)' /\ pos' = pos /\ side' = side
    BY <1>0, <1>3 DEF Move, Goto, At, OwnsCell
  <2>. QED
    BY <1>1, <1>2, <2>1 DEF OwnsCell
<1>4. CASE ~Move(t)
  <2>1. ~OwnsCell(t) /\ ~OwnsCell(t)'
    BY <1>0, <1>4 DEF Local, Call, Load, Ready, GiveUp, Overtaken, FailClaim,
                      Return, Goto, At, OwnsCell
  <2>. QED
    BY <1>1, <1>2, <2>1 DEF OwnsCell
<1>. QED
  BY <1>3, <1>4

LEMMA LocalRing ==
    ASSUME RingInv, UNCHANGED << sequence, index >>,
           \A u \in Thread :
              /\ OwnsCell(u)' <=> OwnsCell(u)
              /\ OwnsCell(u) => pos'[u] = pos[u] /\ side'[u] = side[u]
    PROVE  RingInv'
<1>1. WithinOneLap'
  BY DEF RingInv, WithinOneLap
<1>2. OwnersInLap'
  <2>. SUFFICES ASSUME NEW u \in Thread, OwnsCell(u)'
                PROVE  IF side'[u] = "tail" THEN index["head"] <= pos'[u]
                                            ELSE index["tail"] <= pos'[u] + Size
    BY DEF OwnersInLap
  <2>1. OwnsCell(u) /\ pos'[u] = pos[u] /\ side'[u] = side[u]
    BY DEF OwnsCell
  <2>. QED
    BY <2>1 DEF RingInv, OwnersInLap
<1>3. ASSUME NEW s, NEW p, Held(s, p) PROVE Held(s, p)'
  <2>1. PICK u \in Thread : OwnsCell(u) /\ side[u] = s /\ pos[u] = p
    BY <1>3 DEF Held
  <2>2. OwnsCell(u)' /\ pos'[u] = pos[u] /\ side'[u] = side[u]
    BY <2>1 DEF OwnsCell
  <2>. QED
    BY <2>1, <2>2 DEF Held
<1>4. QueuedAreFilled'
  BY <1>3 DEF RingInv, QueuedAreFilled
<1>5. FreeAreEmptied'
  BY <1>3 DEF RingInv, FreeAreEmptied
<1>. QED
  BY <1>1, <1>2, <1>4, <1>5 DEF RingInv

(* The new owner's position leaves the free ones, or the queue, and is     *)
(* held; every other owner is within the lap still.                        *)
LEMMA ClaimRing ==
    ASSUME TurnInv, RingInv, NEW t \in Thread, Claim(t) PROVE RingInv'
<1>. DEFINE h == index["head"]
            e == index["tail"]
<1>0. /\ h \in Nat /\ e \in Nat /\ Size \in Nat /\ Size >= 2
      /\ h <= e /\ e <= h + Size
  BY SizeAssumption DEF TurnInv, TypeOK, Side, RingInv, WithinOneLap
<1>1. /\ index \in [Side -> Nat] /\ pos \in [Thread -> Nat]
      /\ side \in [Thread -> Side] /\ pc \in [Thread -> PC]
  BY DEF TurnInv, TypeOK
<1>2. /\ UNCHANGED << sequence, pos, side >>
      /\ index[side[t]] = pos[t]
      /\ index' = [index EXCEPT ![side[t]] = pos[t] + 1]
      /\ sequence[CellOf(pos[t])] = Turn(t)
      /\ OwnsCell(t)'
  BY <1>1 DEF Claim, ClaimIsMine, At, Goto, OwnsCell, TurnInv, ChecksHold
<1>3. \A u \in Thread \ {t} : OwnsCell(u)' <=> OwnsCell(u)
  BY <1>1 DEF Claim, Goto, OwnsCell
<1>4. ~OwnsCell(t)
  BY DEF Claim, At, OwnsCell
<1>5. \A s \in Side, p \in Int : Held(s, p) => Held(s, p)'
  BY <1>2, <1>3, <1>4 DEF Held
<1>6. \A s, p : side[t] = s /\ pos[t] = p => Held(s, p)'
  BY <1>2 DEF Held
<1>7. CASE side[t] = "tail"
  <2>1. pos[t] = e /\ index'["tail"] = e + 1 /\ index'["head"] = h
        /\ sequence[CellOf(e)] = e
    BY <1>1, <1>2, <1>7 DEF Turn, Side
  <2>2. /\ e < h + Size
        /\ \A u \in Thread : OwnsCell(u) /\ side[u] = "head"
               => e + 1 <= pos[u] + Size
    BY <2>1, TailIsFree
  <2>3. WithinOneLap'
    BY <1>0, <2>1, <2>2 DEF WithinOneLap
  <2>4. OwnersInLap'
    <3>. SUFFICES ASSUME NEW u \in Thread, OwnsCell(u)'
                  PROVE  IF side[u] = "tail" THEN h <= pos[u]
                                             ELSE e + 1 <= pos[u] + Size
      BY <1>2, <2>1 DEF OwnersInLap
    <3>1. CASE u = t
      BY <1>0, <1>7, <2>1, <3>1
    <3>2. CASE u # t
      <4>1. OwnsCell(u)
        BY <1>3, <3>2
      <4>2. CASE side[u] = "tail"
        BY <4>1, <4>2 DEF RingInv, OwnersInLap
      <4>3. CASE side[u] = "head"
        BY <2>2, <4>1, <4>3
      <4>. QED
        BY <1>1, <4>2, <4>3 DEF Side
    <3>. QED
      BY <3>1, <3>2
  <2>5. QueuedAreFilled'
    <3>. SUFFICES ASSUME NEW p \in h .. e
                  PROVE  sequence[CellOf(p)] = p + 1 \/ Held("tail", p)'
      BY <1>0, <1>2, <2>1 DEF QueuedAreFilled
    <3>1. CASE p = e
      BY <1>6, <1>7, <2>1, <3>1
    <3>2. CASE p # e
      <4>1. p \in h .. e - 1 /\ p \in Int
        BY <1>0, <3>2
      <4>. QED
        BY <1>5, <4>1 DEF RingInv, QueuedAreFilled, Side
    <3>. QED
      BY <3>1, <3>2
  <2>6. FreeAreEmptied'
    <3>. SUFFICES ASSUME NEW p \in e + 1 .. h + Size - 1
                  PROVE  sequence[CellOf(p)] = p \/ Held("head", p - Size)'
      BY <1>2, <2>1 DEF FreeAreEmptied
    <3>1. p \in e .. h + Size - 1 /\ p - Size \in Int
      BY <1>0
    <3>. QED
      BY <1>5, <3>1 DEF RingInv, FreeAreEmptied, Side
  <2>. QED
    BY <2>3, <2>4, <2>5, <2>6 DEF RingInv
<1>8. CASE side[t] = "head"
  <2>1. pos[t] = h /\ index'["head"] = h + 1 /\ index'["tail"] = e
        /\ sequence[CellOf(h)] = h + 1
    BY <1>1, <1>2, <1>8 DEF Turn, Side
  <2>2. /\ h < e
        /\ \A u \in Thread : OwnsCell(u) /\ side[u] = "tail"
               => h + 1 <= pos[u]
    BY <2>1, HeadIsFilled
  <2>3. WithinOneLap'
    BY <1>0, <2>1, <2>2 DEF WithinOneLap
  <2>4. OwnersInLap'
    <3>. SUFFICES ASSUME NEW u \in Thread, OwnsCell(u)'
                  PROVE  IF side[u] = "tail" THEN h + 1 <= pos[u]
                                             ELSE e <= pos[u] + Size
      BY <1>2, <2>1 DEF OwnersInLap
    <3>1. CASE u = t
      BY <1>0, <1>8, <2>1, <3>1
    <3>2. CASE u # t
      <4>1. OwnsCell(u)
        BY <1>3, <3>2
      <4>2. CASE side[u] = "tail"
        BY <2>2, <4>1, <4>2
      <4>3. CASE side[u] = "head"
        BY <4>1, <4>3 DEF RingInv, OwnersInLap
      <4>. QED
        BY <1>1, <4>2, <4>3 DEF Side
    <3>. QED
      BY <3>1, <3>2
  <2>5. QueuedAreFilled'
    <3>. SUFFICES ASSUME NEW p \in h + 1 .. e - 1
                  PROVE  sequence[CellOf(p)] = p + 1 \/ Held("tail", p)'
      BY <1>2, <2>1 DEF QueuedAreFilled
    <3>1. p \in h .. e - 1 /\ p \in Int
      BY <1>0
    <3>. QED
      BY <1>5, <3>1 DEF RingInv, QueuedAreFilled, Side
  <2>6. FreeAreEmptied'
    <3>. SUFFICES ASSUME NEW p \in e .. h + Size
                  PROVE  sequence[CellOf(p)] = p \/ Held("head", p - Size)'
      BY <1>0, <1>2, <2>1 DEF FreeAreEmptied
    <3>1. CASE p = h + Size
      <4>1. p - Size = pos[t]
        BY <1>0, <2>1, <3>1
      <4>. QED
        BY <1>6, <1>8, <4>1
    <3>2. CASE p # h + Size
      <4>1. p \in e .. h + Size - 1 /\ p - Size \in Int
        BY <1>0, <3>2
      <4>. QED
        BY <1>5, <4>1 DEF RingInv, FreeAreEmptied, Side
    <3>. QED
      BY <3>1, <3>2
  <2>. QED
    BY <2>3, <2>4, <2>5, <2>6 DEF RingInv
<1>. QED
  BY <1>1, <1>7, <1>8 DEF Side

(* The cell handed over is that of one position of the window between the  *)
(* head and a lap later, so what is known of every other position stands.  *)
LEMMA HandOverRing ==
    ASSUME TurnInv, RingInv, NEW t \in Thread, HandOver(t) PROVE RingInv'
<1>. DEFINE h == index["head"]
            e == index["tail"]
            c == CellOf(pos[t])
<1>0. /\ h \in Nat /\ e \in Nat /\ Size \in Nat /\ Size >= 2
      /\ h <= e /\ e <= h + Size
  BY SizeAssumption DEF TurnInv, TypeOK, Side, RingInv, WithinOneLap
<1>1. /\ sequence \in [Cell -> Nat] /\ pos \in [Thread -> Nat]
      /\ side \in [Thread -> Side] /\ pc \in [Thread -> PC]
  BY DEF TurnInv, TypeOK
<1>2. /\ UNCHANGED << index, side >>
      /\ sequence' = [sequence EXCEPT ![c] = NextTurn(t)]
      /\ OwnsCell(t) /\ ~OwnsCell(t)'
  BY <1>1 DEF HandOver, Return, At, Goto, OwnsCell
<1>3. \A u \in Thread \ {t} :
          (OwnsCell(u)' <=> OwnsCell(u)) /\ pos'[u] = pos[u]
  BY <1>1 DEF HandOver, Return, Goto, OwnsCell
<1>4. c \in Cell
  BY <1>1, CellInRange
<1>5. ASSUME NEW s, NEW p, Held(s, p), ~(side[t] = s /\ pos[t] = p)
      PROVE  Held(s, p)'
  <2>1. PICK u \in Thread : OwnsCell(u) /\ side[u] = s /\ pos[u] = p
    BY <1>5 DEF Held
  <2>2. OwnsCell(u)' /\ pos'[u] = p /\ side'[u] = s
    BY <1>2, <1>3, <1>5, <2>1 DEF OwnsCell
  <2>. QED
    BY <2>2 DEF Held
<1>6. \A p \in Nat : CellOf(p) # c => sequence'[CellOf(p)] = sequence[CellOf(p)]
  BY <1>1, <1>2, CellInRange
<1>7. WithinOneLap'
  BY <1>2 DEF RingInv, WithinOneLap
<1>8. OwnersInLap'
  BY <1>2, <1>3 DEF RingInv, OwnersInLap
<1>9. CASE side[t] = "tail"
  <2>. DEFINE q == pos[t]
  <2>1. q \in Nat /\ h <= q /\ q < e /\ sequence'[c] = q + 1
    BY <1>1, <1>2, <1>4, <1>9
       DEF RingInv, OwnersInLap, TurnInv, OwnersHaveTurn, NextTurn
  <2>2. QueuedAreFilled'
    <3>. SUFFICES ASSUME NEW p \in h .. e - 1
                  PROVE  sequence'[CellOf(p)] = p + 1 \/ Held("tail", p)'
      BY <1>2 DEF QueuedAreFilled
    <3>1. p \in Nat
      BY <1>0
    <3>2. CASE p = q
      BY <2>1, <3>2
    <3>3. CASE p # q
      <4>1. CellOf(p) # c
        BY <1>0, <2>1, <3>1, <3>3, CellsDiffer
      <4>2. sequence[CellOf(p)] = p + 1 \/ Held("tail", p)
        BY DEF RingInv, QueuedAreFilled
      <4>. QED
        BY <1>5, <1>6, <3>1, <3>3, <4>1, <4>2 DEF Side
    <3>. QED
      BY <3>2, <3>3
  <2>3. FreeAreEmptied'
    <3>. SUFFICES ASSUME NEW p \in e .. h + Size - 1
                  PROVE  sequence'[CellOf(p)] = p \/ Held("head", p - Size)'
      BY <1>2 DEF FreeAreEmptied
    <3>1. p \in Nat /\ p - Size \in Int
      BY <1>0
    <3>2. CellOf(p) # c
      BY <1>0, <2>1, <3>1, CellsDiffer
    <3>3. sequence[CellOf(p)] = p \/ Held("head", p - Size)
      BY DEF RingInv, FreeAreEmptied
    <3>. QED
      BY <1>5, <1>6, <1>9, <3>1, <3>2, <3>3 DEF Side
  <2>. QED
    BY <1>7, <1>8, <2>2, <2>3 DEF RingInv
<1>10. CASE side[t] = "head"
  <2>. DEFINE q == pos[t] + Size
  <2>1. /\ q \in Nat /\ e <= q /\ q < h + Size
        /\ sequence'[c] = q /\ c = CellOf(q)
    BY <1>0, <1>1, <1>2, <1>4, <1>10, NextLap
       DEF RingInv, OwnersInLap, TurnInv, OwnersHaveTurn, NextTurn
  <2>2. QueuedAreFilled'
    <3>. SUFFICES ASSUME NEW p \in h .. e - 1
                  PROVE  sequence'[CellOf(p)] = p + 1 \/ Held("tail", p)'
      BY <1>2 DEF QueuedAreFilled
    <3>1. p \in Nat /\ p \in Int
      BY <1>0
    <3>2. CellOf(p) # c
      BY <1>0, <2>1, <3>1, CellsDiffer
    <3>3. sequence[CellOf(p)] = p + 1 \/ Held("tail", p)
      BY DEF RingInv, QueuedAreFilled
    <3>. QED
      BY <1>5, <1>6, <1>10, <3>1, <3>2, <3>3 DEF Side
  <2>3. FreeAreEmptied'
    <3>. SUFFICES ASSUME NEW p \in e .. h + Size - 1
                  PROVE  sequence'[CellOf(p)] = p \/ Held("head", p - Size)'
      BY <1>2 DEF FreeAreEmptied
    <3>1. p \in Nat /\ p - Size \in Int
      BY <1>0
    <3>2. CASE p = q
      BY <2>1, <3>2
    <3>3. CASE p # q
      <4>1. CellOf(p) # c
        BY <1>0, <2>1, <3>1, <3>3, CellsDiffer
      <4>2. sequence[CellOf(p)] = p \/ Held("head", p - Size)
        BY DEF RingInv, FreeAreEmptied
      <4>3. pos[t] # p - Size
        BY <1>0, <1>1, <3>1, <3>3
      <4>. QED
        BY <1>5, <1>6, <3>1, <4>1, <4>2, <4>3 DEF Side
    <3>. QED
      BY <3>2, <3>3
  <2>. QED
    BY <1>7, <1>8, <2>2, <2>3 DEF RingInv
<1>. QED
  BY <1>1, <1>9, <1>10 DEF Side

LEMMA InvInit == Init => IInv
<1>. SUFFICES ASSUME Init PROVE IInv
  OBVIOUS
<1>0. Size \in Nat /\ Size >= 2
  BY SizeAssumption
<1>1. \A t \in Thread : pc[t] = "idle" /\ item[t] = NoItem
  BY DEF Init
<1>2. index["head"] = 0 /\ index["tail"] = 0
  BY DEF Init, Side
<1>3. \A c \in Cell : sequence[c] = c
  BY DEF Init
<1>4. WithinOneLap /\ QueuedAreFilled
  BY <1>0, <1>2 DEF WithinOneLap, QueuedAreFilled
<1>7. OwnersInLap
  BY <1>1 DEF OwnersInLap, OwnsCell
<1>5. FreeAreEmptied
  <2>. SUFFICES ASSUME NEW p \in 0 .. Size - 1
                PROVE  sequence[CellOf(p)] = p
    BY <1>0, <1>2 DEF FreeAreEmptied
  <2>. QED
    BY <1>0, <1>3 DEF CellOf, Cell
<1>6. ItemInv
  BY <1>1 DEF ItemInv, WrittenIsKept, IdleCarriesNothing, At
<1>. QED
  BY <1>4, <1>5, <1>6, <1>7, TurnInit DEF IInv, RingInv

(* Between a claim and the hand-over a cell's data changes by its owner's  *)
(* hand only.                                                              *)
LEMMA DataStays ==
    ASSUME TurnInv, NEW t \in Thread, Call(t) \/ Proceed(t) \/ FailClaim(t),
           NEW c \in Cell, OwnsCell(t) => CellOf(pos[t]) # c
    PROVE  data'[c] = data[c]
<1>1. data \in [Cell -> Item \cup {NoItem}]
  BY DEF TurnInv, TypeOK
<1>2. CASE Move(t)
  BY <1>1, <1>2 DEF Move, At, OwnsCell
<1>3. CASE ~Move(t)
  BY <1>3 DEF Call, Proceed, Load, Ready, GiveUp, Overtaken, Claim, FailClaim,
              HandOver
<1>. QED
  BY <1>2, <1>3

LEMMA ItemNext ==
    ASSUME TurnInv, ItemInv, NEW t \in Thread,
           Call(t) \/ Proceed(t) \/ FailClaim(t)
    PROVE  ItemInv'
<1>0. /\ pc \in [Thread -> PC] /\ side \in [Thread -> Side]
      /\ pos \in [Thread -> Nat] /\ item \in [Thread -> Item \cup {NoItem}]
      /\ data \in [Cell -> Item \cup {NoItem}]
  BY DEF TurnInv, TypeOK
<1>1. ASSUME NEW u \in Thread, u # t
      PROVE  /\ pc'[u] = pc[u] /\ pos'[u] = pos[u]
             /\ side'[u] = side[u] /\ item'[u] = item[u]
  BY <1>0, <1>1 DEF Call, Proceed, Load, Ready, GiveUp, Overtaken, Claim,
                    FailClaim, Move, HandOver, Return, Goto
<1>2. IdleCarriesNothing'
  <2>1. At(t, "idle")' => item'[t] = NoItem
    BY <1>0 DEF Call, Proceed, Load, Ready, GiveUp, Overtaken, Claim,
                FailClaim, Move, HandOver, Return, Goto, At
  <2>. QED
    BY <1>1, <2>1 DEF ItemInv, IdleCarriesNothing, At
<1>3. WrittenIsKept'
  <2>. SUFFICES ASSUME NEW u \in Thread, side'[u] = "tail", pc'[u] = "hand over"
                PROVE  data'[CellOf(pos'[u])] = item'[u]
    BY DEF WrittenIsKept, At
  <2>1. CASE u = t
    <3>1. Move(t) /\ side[t] = "tail"
      BY <1>0, <2>1 DEF Call, Proceed, Load, Ready, GiveUp, Overtaken, Claim,
                        FailClaim, Move, HandOver, Return, Goto, At
    <3>. QED
      BY <1>0, <2>1, <3>1, CellInRange DEF Move
  <2>2. CASE u # t
    <3>1. /\ pc[u] = "hand over" /\ pos'[u] = pos[u]
          /\ side[u] = "tail" /\ item'[u] = item[u]
      BY <1>1, <2>2
    <3>2. data[CellOf(pos[u])] = item[u] /\ CellOf(pos[u]) \in Cell
      BY <1>0, <3>1, CellInRange DEF ItemInv, WrittenIsKept, At
    <3>3. OwnsCell(t) => CellOf(pos[t]) # CellOf(pos[u])
      BY <2>2, <3>1, OneOwner DEF CellHasOneOwner, OwnsCell
    <3>4. data'[CellOf(pos[u])] = data[CellOf(pos[u])]
      BY <3>2, <3>3, DataStays
    <3>. QED
      BY <3>1, <3>2, <3>4
  <2>. QED
    BY <2>1, <2>2
<1>. QED
  BY <1>2, <1>3 DEF ItemInv

LEMMA InvNext == IInv /\ [Next]_vars => IInv'
<1>. SUFFICES ASSUME IInv, [Next]_vars PROVE IInv'
  OBVIOUS
<1>1. CASE UNCHANGED vars
  <2>1. TurnInv'
    BY <1>1 DEF IInv, TurnInv, vars, TypeOK, OwnersHaveTurn, ClaimsDiffer,
                ChecksHold, NeverAhead, OwnsCell, Turn, At, ClaimIsMine
  <2>2. RingInv'
    BY <1>1, LocalRing DEF IInv, vars, OwnsCell
  <2>3. ItemInv'
    BY <1>1 DEF IInv, ItemInv, vars, WrittenIsKept, IdleCarriesNothing, At
  <2>. QED
    BY <2>1, <2>2, <2>3 DEF IInv
<1>2. ASSUME NEW t \in Thread, Call(t) \/ Proceed(t) \/ FailClaim(t)
      PROVE  IInv'
  <2>1. Next
    BY <1>2 DEF Next
  <2>2. TurnInv'
    BY <2>1, TurnNext DEF IInv
  <2>3. ItemInv'
    BY <1>2, ItemNext DEF IInv
  <2>4. CASE Claim(t)
    BY <2>2, <2>3, <2>4, ClaimRing DEF IInv
  <2>5. CASE HandOver(t)
    BY <2>2, <2>3, <2>5, HandOverRing DEF IInv
  <2>6. CASE Local(t)
    <3>1. RingInv'
      BY <2>6, LocalKeepsOwners, LocalRing DEF IInv, TurnInv
    <3>. QED
      BY <2>2, <2>3, <3>1 DEF IInv
  <2>. QED
    BY <1>2, <2>4, <2>5, <2>6 DEF Proceed, Local
<1>. QED
  BY <1>1, <1>2 DEF Next

-----------------------------------------------------------------------------
(* The inductive invariant holds in every reachable state.                 *)
THEOREM Invariance == Spec => []IInv
BY InvInit, InvNext, PTL DEF Spec

(* The indices, sequence numbers and cells always hold what their types    *)
(* say; no sequence number ever becomes negative.                          *)
THEOREM TypeCorrect == Spec => []TypeOK
<1>1. IInv => TypeOK
  BY DEF IInv, TurnInv
<1>. QED
  BY <1>1, Invariance, PTL

(* enqueue and dequeue never write or move the data of one cell at the     *)
(* same time, for any number of threads and any power-of-two size.         *)
THEOREM CellsAreExclusive == Spec => []CellHasOneOwner
<1>1. IInv => CellHasOneOwner
  BY OneOwner DEF IInv
<1>. QED
  BY <1>1, Invariance, PTL

-----------------------------------------------------------------------------
(* The queue that callers see. *)
Value == Item \cup {NoItem}

(* The item of a position is its producer's until that writes it, and then *)
(* its cell's.                                                             *)
ItemsKnown ==
    \A p \in Nat :
        /\ \A t \in Thread : Fills(t, p) => ItemAt(p) = item[t]
        /\ (\A t \in Thread : ~Fills(t, p)) => ItemAt(p) = data[CellOf(p)]
        /\ ItemAt(p) \in Value

LEMMA KnowItems == TurnInv => ItemsKnown
<1>. SUFFICES ASSUME TurnInv, NEW p \in Nat
              PROVE  /\ \A t \in Thread : Fills(t, p) => ItemAt(p) = item[t]
                     /\ (\A t \in Thread : ~Fills(t, p))
                           => ItemAt(p) = data[CellOf(p)]
                     /\ ItemAt(p) \in Value
  BY DEF ItemsKnown
<1>0. item \in [Thread -> Value] /\ data \in [Cell -> Value]
  BY DEF TurnInv, TypeOK, Value
<1>2. ASSUME NEW t \in Thread, Fills(t, p) PROVE ItemAt(p) = item[t]
  <2>. DEFINE u == CHOOSE x \in Thread : Fills(x, p)
  <2>1. u \in Thread /\ Fills(u, p)
    BY <1>2
  <2>2. u = t
    BY <1>2, <2>1 DEF TurnInv, ClaimsDiffer, Fills, OwnsCell, At
  <2>. QED
    BY <1>2, <2>2 DEF ItemAt
<1>3. (\A t \in Thread : ~Fills(t, p)) => ItemAt(p) = data[CellOf(p)]
  BY DEF ItemAt
<1>. QED
  BY <1>0, <1>2, <1>3, CellInRange

(* What one thread's step leaves to the others. *)
LEMMA OthersStay ==
    ASSUME TurnInv, NEW t \in Thread, Call(t) \/ Proceed(t) \/ FailClaim(t),
           NEW u \in Thread, u # t
    PROVE  /\ pc'[u] = pc[u] /\ pos'[u] = pos[u]
           /\ side'[u] = side[u] /\ item'[u] = item[u]
           /\ Phase(u)' = Phase(u)
           /\ Carried(u)' = Carried(u)
<1>0. /\ pc \in [Thread -> PC] /\ side \in [Thread -> Side]
      /\ pos \in [Thread -> Nat] /\ item \in [Thread -> Item \cup {NoItem}]
  BY DEF TurnInv, TypeOK
<1>1. /\ pc'[u] = pc[u] /\ pos'[u] = pos[u]
      /\ side'[u] = side[u] /\ item'[u] = item[u]
  BY <1>0 DEF Call, Proceed, Load, Ready, GiveUp, Overtaken, Claim, FailClaim,
              Move, HandOver, Return, Goto
<1>2. Phase(u)' = Phase(u)
  BY <1>1 DEF Phase, At, OwnsCell
<1>3. At(u, "move") => data'[CellOf(pos[u])] = data[CellOf(pos[u])]
  <2>. SUFFICES ASSUME At(u, "move")
                PROVE  data'[CellOf(pos[u])] = data[CellOf(pos[u])]
    OBVIOUS
  <2>1. CellOf(pos[u]) \in Cell
    BY <1>0, CellInRange
  <2>2. OwnsCell(t) => CellOf(pos[t]) # CellOf(pos[u])
    BY OneOwner DEF CellHasOneOwner, OwnsCell, At
  <2>. QED
    BY <2>1, <2>2, DataStays
<1>4. Carried(u)' = Carried(u)
  BY <1>1, <1>3 DEF Carried, At
<1>. QED
  BY <1>1, <1>2, <1>4

(* The item of a position in the queue is the same before and after.       *)
LEMMA ItemStays ==
    ASSUME IInv, IInv', NEW t \in Thread,
           Call(t) \/ Proceed(t) \/ FailClaim(t),
           NEW p \in index["head"] .. index["tail"] - 1
    PROVE  ItemAt(p)' = ItemAt(p)
<1>. DEFINE h == index["head"]
            e == index["tail"]
<1>0. /\ h \in Nat /\ e \in Nat /\ Size \in Nat /\ Size >= 2
      /\ h <= e /\ e <= h + Size /\ p \in Nat
  BY SizeAssumption DEF IInv, TurnInv, TypeOK, Side, RingInv, WithinOneLap
<1>1. /\ pc \in [Thread -> PC] /\ side \in [Thread -> Side]
      /\ pos \in [Thread -> Nat] /\ item \in [Thread -> Item \cup {NoItem}]
      /\ data \in [Cell -> Item \cup {NoItem}] /\ index \in [Side -> Nat]
  BY DEF IInv, TurnInv, TypeOK
<1>2. ItemsKnown /\ ItemsKnown'
  <2>1. TurnInv' => ItemsKnown'
    BY KnowItems, PTL
  <2>. QED
    BY <2>1, KnowItems DEF IInv
<1>3. \A u \in Thread : u # t => (Fills(u, p)' <=> Fills(u, p)) /\ item'[u] = item[u]
  BY OthersStay DEF IInv, Fills, At
<1>4. \A u \in Thread : Fills(u, p)' => ItemAt(p)' = item'[u]
  BY <1>0, <1>2 DEF ItemsKnown
<1>5. (\A u \in Thread : ~Fills(u, p)') => ItemAt(p)' = data'[CellOf(p)]
  BY <1>0, <1>2 DEF ItemsKnown
<1>6. \A u \in Thread : Fills(u, p) => ItemAt(p) = item[u]
  BY <1>0, <1>2 DEF ItemsKnown
<1>7. (\A u \in Thread : ~Fills(u, p)) => ItemAt(p) = data[CellOf(p)]
  BY <1>0, <1>2 DEF ItemsKnown
<1>8. ASSUME NEW u \in Thread, u # t, Fills(u, p) PROVE ItemAt(p)' = ItemAt(p)
  BY <1>3, <1>4, <1>6, <1>8
<1>9. CASE Fills(t, p)
  <2>1. Move(t) /\ side[t] = "tail" /\ pos[t] = p
    BY <1>9 DEF Call, Proceed, Load, Ready, GiveUp, Overtaken, Claim, FailClaim,
                HandOver, Fills, At
  <2>2. data'[CellOf(p)] = item[t] /\ pc'[t] = "hand over"
    BY <1>0, <1>1, <2>1, CellInRange DEF Move, Goto
  <2>3. \A u \in Thread : u # t => ~Fills(u, p)
    BY <1>9 DEF IInv, TurnInv, ClaimsDiffer, Fills, OwnsCell, At
  <2>4. \A u \in Thread : ~Fills(u, p)'
    BY <1>3, <2>2, <2>3 DEF Fills, At
  <2>. QED
    BY <1>5, <1>6, <1>9, <2>2, <2>4
<1>10. CASE \A u \in Thread : ~Fills(u, p)
  <2>1. ~Fills(t, p)'
    <3>. SUFFICES ASSUME Fills(t, p)' PROVE FALSE
      OBVIOUS
    <3>1. Claim(t) /\ pos'[t] = p /\ pos[t] = p /\ side[t] = "tail"
      BY <1>1, <1>10 DEF Call, Proceed, Load, Ready, GiveUp, Overtaken, Claim,
                         FailClaim, Move, HandOver, Return, Goto, Fills, At
    <3>2. p = e
      BY <3>1 DEF Claim, ClaimIsMine
    <3>. QED
      BY <1>0, <3>2
  <2>2. data'[CellOf(p)] = data[CellOf(p)]
    <3>1. CASE Move(t)
      <4>1. /\ OwnsCell(t) /\ At(t, "move") /\ pos[t] \in Nat
            /\ pos[t] < index[side[t]]
        BY <1>1, <3>1 DEF Move, OwnsCell, At, IInv, TurnInv, OwnersHaveTurn
      <4>2. CASE side[t] = "tail"
        <5>1. pos[t] # p /\ h <= pos[t] /\ pos[t] < e
          BY <1>10, <4>1, <4>2 DEF Fills, IInv, RingInv, OwnersInLap
        <5>2. CellOf(pos[t]) # CellOf(p)
          BY <1>0, <4>1, <5>1, CellsDiffer
        <5>. QED
          BY <1>0, <5>2, CellInRange, DataStays DEF IInv
      <4>3. CASE side[t] = "head"
        <5>1. pos[t] < h /\ e <= pos[t] + Size
          BY <4>1, <4>3 DEF IInv, RingInv, OwnersInLap
        <5>2. CellOf(pos[t]) # CellOf(p)
          BY <1>0, <4>1, <5>1, CellsDiffer
        <5>. QED
          BY <1>0, <5>2, CellInRange, DataStays DEF IInv
      <4>. QED
        BY <1>1, <4>2, <4>3 DEF Side
    <3>2. CASE ~Move(t)
      BY <3>2 DEF Call, Proceed, Load, Ready, GiveUp, Overtaken, Claim,
                  FailClaim, HandOver
    <3>. QED
      BY <3>1, <3>2
  <2>. QED
    BY <1>3, <1>5, <1>7, <1>10, <2>1, <2>2
<1>. QED
  BY <1>8, <1>9, <1>10

(* A longer and a shorter queue. *)
LEMMA IsAppend ==
    ASSUME NEW S, NEW n \in Nat, NEW f \in [1 .. n -> S], NEW x \in S,
           NEW g \in [1 .. n + 1 -> S],
           g[n + 1] = x, \A i \in 1 .. n : g[i] = f[i]
    PROVE  g = Append(f, x) /\ Len(f) = n
<1>1. f \in Seq(S) /\ Len(f) = n
  OBVIOUS
<1>2. g \in Seq(S) /\ Len(g) = n + 1
  OBVIOUS
<1>3. /\ Append(f, x) \in Seq(S) /\ Len(Append(f, x)) = n + 1
      /\ Append(f, x)[n + 1] = x
      /\ \A i \in 1 .. n : Append(f, x)[i] = f[i]
  BY <1>1
<1>4. \A i \in 1 .. Len(g) : g[i] = Append(f, x)[i]
  BY <1>2, <1>3
<1>. QED
  BY <1>1, <1>2, <1>3, <1>4, SeqEqual

LEMMA IsTail ==
    ASSUME NEW S, NEW n \in Nat, NEW f \in [1 .. n + 1 -> S],
           NEW g \in [1 .. n -> S], \A i \in 1 .. n : g[i] = f[i + 1]
    PROVE  g = Tail(f) /\ Head(f) = f[1] /\ f # << >>
<1>1. f \in Seq(S) /\ Len(f) = n + 1
  OBVIOUS
<1>2. g \in Seq(S) /\ Len(g) = n
  OBVIOUS
<1>3. f # << >>
  BY <1>1
<1>4. /\ Tail(f) \in Seq(S) /\ Len(Tail(f)) = n
      /\ \A i \in 1 .. Len(Tail(f)) : Tail(f)[i] = f[i + 1]
  BY <1>1, <1>3, HeadTailProperties
<1>5. g = Tail(f)
  BY <1>2, <1>4, SeqEqual
<1>. QED
  BY <1>1, <1>3, <1>5

QueueKnown ==
    /\ index["tail"] - index["head"] \in 0 .. Size
    /\ Queue \in [1 .. index["tail"] - index["head"] -> Value]
    /\ \A i \in 1 .. index["tail"] - index["head"] :
          \A p : p = index["head"] + i - 1 => Queue[i] = ItemAt(p)

LEMMA QueueIs == IInv => QueueKnown
<1>. SUFFICES ASSUME IInv PROVE QueueKnown
  OBVIOUS
<1>0. /\ index["head"] \in Nat /\ index["tail"] \in Nat /\ Size \in Nat
      /\ index["head"] <= index["tail"] /\ index["tail"] <= index["head"] + Size
  BY SizeAssumption DEF IInv, TurnInv, TypeOK, Side, RingInv, WithinOneLap
<1>1. ASSUME NEW i \in 1 .. index["tail"] - index["head"]
      PROVE  ItemAt(index["head"] + i - 1) \in Value
  <2>1. index["head"] + i - 1 \in Nat
    BY <1>0
  <2>. QED
    BY <2>1, KnowItems DEF IInv, ItemsKnown
<1>. QED
  BY <1>0, <1>1 DEF QueueKnown, Queue

(* A step that claims nothing leaves the queue as it is. *)
LEMMA QueueStays ==
    ASSUME IInv, IInv', NEW t \in Thread,
           Call(t) \/ Proceed(t) \/ FailClaim(t), index' = index
    PROVE  Queue' = Queue
<1>0. /\ index["head"] \in Nat /\ index["tail"] \in Nat
  BY DEF IInv, TurnInv, TypeOK, Side
<1>1. ASSUME NEW i \in 1 .. index["tail"] - index["head"]
      PROVE  ItemAt(index["head"] + i - 1)' = ItemAt(index["head"] + i - 1)
  <2>. DEFINE p == index["head"] + i - 1
  <2>1. p \in index["head"] .. index["tail"] - 1
    BY <1>0
  <2>2. \A q \in index["head"] .. index["tail"] - 1 : ItemAt(q)' = ItemAt(q)
    BY ItemStays
  <2>. QED
    BY <2>1, <2>2
<1>. QED
  BY <1>1 DEF Queue

(* A producer's claim puts its item at the end of the queue. *)
LEMMA ClaimPuts ==
    ASSUME IInv, IInv', NEW t \in Thread, Claim(t), side[t] = "tail"
    PROVE  Queue' = Append(Queue, item[t]) /\ Len(Queue) < Size
<1>. DEFINE h == index["head"]
            n == index["tail"] - index["head"]
<1>0. /\ h \in Nat /\ n \in Nat /\ Size \in Nat
      /\ index \in [Side -> Nat] /\ pos \in [Thread -> Nat]
      /\ side \in [Thread -> Side] /\ pc \in [Thread -> PC]
      /\ item \in [Thread -> Value]
  BY QueueIs, SizeAssumption DEF IInv, TurnInv, TypeOK, Side, Value, QueueKnown
<1>1. /\ index'["head"] = h /\ index'["tail"] = h + n + 1 /\ pos[t] = h + n
      /\ UNCHANGED << sequence, data, side, pos, item >> /\ pc'[t] = "move"
  BY <1>0 DEF Claim, ClaimIsMine, Goto, Side
<1>2. n < Size
  <2>1. sequence[CellOf(index["tail"])] = index["tail"]
    BY <1>0, <1>1 DEF Claim, IInv, TurnInv, ChecksHold, Turn
  <2>2. index["tail"] < h + Size
    BY <2>1, TailIsFree DEF IInv
  <2>. QED
    BY <1>0, <2>2
<1>3. /\ Queue \in [1 .. n -> Value]
      /\ \A i \in 1 .. n : \A p : p = h + i - 1 => Queue[i] = ItemAt(p)
  BY QueueIs DEF QueueKnown
<1>4. /\ Queue' \in [1 .. n + 1 -> Value]
      /\ \A i \in 1 .. n + 1 : \A p : p = h + i - 1 => Queue'[i] = ItemAt(p)'
  <2>1. IInv' => QueueKnown'
    BY QueueIs, PTL
  <2>2. index'["tail"] - index'["head"] = n + 1
    BY <1>0, <1>1
  <2>. QED
    BY <1>1, <2>1, <2>2 DEF QueueKnown
<1>5. \A i \in 1 .. n : Queue'[i] = Queue[i]
  <2>. SUFFICES ASSUME NEW i \in 1 .. n PROVE Queue'[i] = Queue[i]
    OBVIOUS
  <2>. DEFINE p == h + i - 1
  <2>1. p \in h .. index["tail"] - 1
    BY <1>0
  <2>2. \A q \in h .. index["tail"] - 1 : ItemAt(q)' = ItemAt(q)
    BY ItemStays DEF Proceed
  <2>. QED
    BY <1>0, <1>1, <1>3, <1>4, <2>1, <2>2
<1>6. Queue'[n + 1] = item[t]
  <2>1. TurnInv' => ItemsKnown'
    BY KnowItems, PTL
  <2>2. \A p \in Nat : Fills(t, p)' => ItemAt(p)' = item'[t]
    BY <2>1 DEF IInv, ItemsKnown
  <2>3. \A p \in Nat : p = h + n => ItemAt(p)' = item[t]
    BY <1>1, <2>2 DEF Fills, At
  <2>. QED
    BY <1>0, <1>1, <1>4, <2>3
<1>7. item[t] \in Value
  BY <1>0
<1>. HIDE DEF h, n
<1>8. Queue' = Append(Queue, item[t]) /\ Len(Queue) = n
  BY <1>0, <1>3, <1>4, <1>5, <1>6, <1>7, IsAppend
<1>. QED
  BY <1>2, <1>8

(* A consumer's claim takes the oldest item: it is in the cell. *)
LEMMA ClaimGets ==
    ASSUME IInv, IInv', NEW t \in Thread, Claim(t), side[t] = "head"
    PROVE  /\ Queue # << >> /\ Queue' = Tail(Queue)
           /\ Head(Queue) = data[CellOf(pos[t])]
<1>. DEFINE h == index["head"]
            n == index["tail"] - index["head"] - 1
<1>0. /\ h \in Nat /\ index["tail"] \in Nat /\ Size \in Nat
      /\ index \in [Side -> Nat] /\ pos \in [Thread -> Nat]
      /\ side \in [Thread -> Side] /\ pc \in [Thread -> PC]
  BY SizeAssumption DEF IInv, TurnInv, TypeOK, Side
<1>1. /\ index'["head"] = h + 1 /\ index'["tail"] = index["tail"] /\ pos[t] = h
  BY <1>0 DEF Claim, ClaimIsMine, Side
<1>2. sequence[CellOf(h)] = h + 1
  BY <1>0, <1>1 DEF Claim, IInv, TurnInv, ChecksHold, Turn
<1>3. /\ h < index["tail"]
      /\ \A u \in Thread : OwnsCell(u) /\ side[u] = "tail" => h + 1 <= pos[u]
  BY <1>2, HeadIsFilled DEF IInv
<1>4. n \in Nat /\ index["tail"] - index["head"] = n + 1
  BY <1>0, <1>3
<1>5. /\ Queue \in [1 .. n + 1 -> Value]
      /\ \A i \in 1 .. n + 1 : \A p : p = h + i - 1 => Queue[i] = ItemAt(p)
  BY <1>4, QueueIs DEF QueueKnown
<1>6. /\ Queue' \in [1 .. n -> Value]
      /\ \A i \in 1 .. n : \A p : p = h + i => Queue'[i] = ItemAt(p)'
  <2>1. IInv' => QueueKnown'
    BY QueueIs, PTL
  <2>2. index'["tail"] - index'["head"] = n
    BY <1>0, <1>1
  <2>3. \A i \in 1 .. n : index'["head"] + i - 1 = h + i
    BY <1>0, <1>1
  <2>. QED
    BY <1>1, <2>1, <2>2, <2>3 DEF QueueKnown
<1>7. \A i \in 1 .. n : Queue'[i] = Queue[i + 1]
  <2>. SUFFICES ASSUME NEW i \in 1 .. n PROVE Queue'[i] = Queue[i + 1]
    OBVIOUS
  <2>. DEFINE p == h + i
  <2>1. p \in h .. index["tail"] - 1 /\ p = h + (i + 1) - 1 /\ i + 1 \in 1 .. n + 1
    BY <1>0, <1>4
  <2>2. \A q \in h .. index["tail"] - 1 : ItemAt(q)' = ItemAt(q)
    BY ItemStays DEF Proceed
  <2>. QED
    BY <1>5, <1>6, <2>1, <2>2
<1>8. Queue[1] = data[CellOf(pos[t])]
  <2>1. ASSUME NEW u \in Thread, Fills(u, h) PROVE FALSE
    <3>1. OwnsCell(u) /\ side[u] = "tail" /\ pos[u] = h
      BY <2>1 DEF Fills, OwnsCell, At
    <3>2. h + 1 <= pos[u]
      BY <1>3, <3>1
    <3>. QED
      BY <1>0, <3>1, <3>2
  <2>2. ItemAt(h) = data[CellOf(h)]
    BY <1>0, <2>1, KnowItems DEF IInv, ItemsKnown
  <2>3. Queue[1] = ItemAt(h)
    BY <1>0, <1>4, <1>5
  <2>. QED
    BY <1>1, <2>2, <2>3
<1>. HIDE DEF h, n
<1>. QED
  BY <1>4, <1>5, <1>6, <1>7, <1>8, IsTail

-----------------------------------------------------------------------------
(* An enqueue that finds its cell not free answers when the queue is full, *)
(* or when a consumer has not left the cell.                               *)
LEMMA FullIsTrue ==
    ASSUME IInv, NEW t \in Thread, At(t, "check"), side[t] = "tail", Diff(t) < 0
    PROVE  \/ index["tail"] - index["head"] = Size
           \/ \E u \in Thread : OwnsCell(u) /\ side[u] = "head"
<1>. DEFINE h == index["head"]
            e == index["tail"]
            p == pos[t]
<1>0. /\ h \in Nat /\ e \in Nat /\ Size \in Nat /\ Size >= 2
      /\ h <= e /\ e <= h + Size /\ p \in Nat /\ p <= e
  BY SizeAssumption
     DEF IInv, TurnInv, TypeOK, Side, RingInv, WithinOneLap, NeverAhead
<1>1. sequence[CellOf(p)] < p
  <2>1. sequence[CellOf(p)] \in Nat
    BY <1>0, CellInRange DEF IInv, TurnInv, TypeOK
  <2>. QED
    BY <1>0, <2>1 DEF Diff, Turn
<1>2. PICK q \in h .. h + Size - 1 : CellOf(q) = CellOf(p)
  BY <1>0, InWindow
<1>3. q \in Nat
  BY <1>0
<1>4. ~(p < q /\ q < p + Size) /\ ~(q < p /\ p < q + Size)
  BY <1>0, <1>2, <1>3, CellsDiffer
<1>5. CASE q < e
  <2>1. sequence[CellOf(q)] = q + 1 \/ Held("tail", q)
    BY <1>0, <1>5 DEF IInv, RingInv, QueuedAreFilled
  <2>2. Held("tail", q) => sequence[CellOf(q)] = q
    BY DEF Held, IInv, TurnInv, OwnersHaveTurn, Turn
  <2>. QED
    BY <1>0, <1>1, <1>2, <1>3, <1>4, <2>1, <2>2
<1>6. CASE e <= q
  <2>1. sequence[CellOf(q)] = q \/ Held("head", q - Size)
    BY <1>0, <1>6 DEF IInv, RingInv, FreeAreEmptied
  <2>. QED
    BY <1>0, <1>1, <1>2, <1>3, <1>4, <2>1 DEF Held
<1>. QED
  BY <1>0, <1>3, <1>5, <1>6

(* A dequeue that finds its cell not filled answers when the queue is      *)
(* empty, or when the producer of the oldest item has not left the cell.   *)
LEMMA EmptyIsTrue ==
    ASSUME IInv, NEW t \in Thread, At(t, "check"), side[t] = "head", Diff(t) < 0
    PROVE  \/ index["tail"] = index["head"]
           \/ /\ index["head"] < index["tail"]
              /\ \E u \in Thread : /\ OwnsCell(u) /\ side[u] = "tail"
                                    /\ pos[u] = index["head"]
<1>. DEFINE h == index["head"]
            e == index["tail"]
            p == pos[t]
<1>0. /\ h \in Nat /\ e \in Nat /\ Size \in Nat /\ Size >= 2
      /\ h <= e /\ e <= h + Size /\ p \in Nat /\ p <= h
  BY SizeAssumption
     DEF IInv, TurnInv, TypeOK, Side, RingInv, WithinOneLap, NeverAhead
<1>1. sequence[CellOf(p)] <= p
  <2>1. sequence[CellOf(p)] \in Nat
    BY <1>0, CellInRange DEF IInv, TurnInv, TypeOK
  <2>. QED
    BY <1>0, <2>1 DEF Diff, Turn
<1>2. PICK q \in h .. h + Size - 1 : CellOf(q) = CellOf(p)
  BY <1>0, InWindow
<1>3. q \in Nat
  BY <1>0
<1>4. p < q => p + Size <= q
  BY <1>0, <1>2, <1>3, CellsDiffer
<1>5. CASE q < e
  <2>1. sequence[CellOf(q)] = q + 1 \/ Held("tail", q)
    BY <1>0, <1>5 DEF IInv, RingInv, QueuedAreFilled
  <2>2. Held("tail", q) => sequence[CellOf(q)] = q
    BY DEF Held, IInv, TurnInv, OwnersHaveTurn, Turn
  <2>3. q = h /\ Held("tail", q)
    BY <1>0, <1>1, <1>2, <1>3, <2>1, <2>2
  <2>. QED
    BY <1>5, <2>3 DEF Held
<1>6. CASE e <= q
  <2>1. sequence[CellOf(q)] = q \/ Held("head", q - Size)
    BY <1>0, <1>6 DEF IInv, RingInv, FreeAreEmptied
  <2>2. CASE sequence[CellOf(q)] = q
    BY <1>0, <1>1, <1>2, <1>3, <1>6, <2>2
  <2>3. CASE Held("head", q - Size)
    <3>1. PICK u \in Thread : /\ OwnsCell(u) /\ side[u] = "head"
                              /\ pos[u] = q - Size
      BY <2>3 DEF Held
    <3>2. /\ pos[u] \in Nat /\ pos[u] + Size = q
          /\ sequence[CellOf(pos[u])] = pos[u] + 1
      BY <1>0, <1>3, <3>1 DEF IInv, TurnInv, TypeOK, OwnersHaveTurn, Turn
    <3>3. CellOf(pos[u]) = CellOf(p)
      BY <1>2, <3>2, NextLap
    <3>4. pos[u] < p
      BY <1>0, <1>1, <3>2, <3>3
    <3>5. pos[u] + Size <= p
      BY <1>0, <3>2, <3>3, <3>4, CellsDiffer
    <3>. QED
      BY <1>0, <1>3, <1>6, <3>2, <3>5
  <2>. QED
    BY <2>1, <2>2, <2>3
<1>. QED
  BY <1>0, <1>3, <1>5, <1>6

-----------------------------------------------------------------------------
LEMMA InitFifo == Init => Fifo!Init
<1>. SUFFICES ASSUME Init PROVE Fifo!Init
  OBVIOUS
<1>1. index["head"] = 0 /\ index["tail"] = 0
  BY DEF Init, Side
<1>2. Queue = << >>
  BY <1>1 DEF Queue
<1>3. [t \in Thread |-> Phase(t)] = [t \in Thread |-> "idle"]
  BY DEF Init, Phase, At
<1>4. [t \in Thread |-> Carried(t)] = [t \in Thread |-> NoItem]
  BY DEF Init, Carried, At
<1>. QED
  BY <1>2, <1>3, <1>4 DEF Fifo!Init

(* Every access to shared memory is an operation of the queue, at its      *)
(* compare-and-swap or where its call begins and ends, or is not seen.     *)
LEMMA NextFifo == IInv /\ IInv' /\ [Next]_vars => [Fifo!Next]_(Fifo!vars)
<1>. SUFFICES ASSUME IInv, IInv', [Next]_vars PROVE [Fifo!Next]_(Fifo!vars)
  OBVIOUS
<1>. DEFINE phase == [t \in Thread |-> Phase(t)]
            carried == [t \in Thread |-> Carried(t)]
<1>1. CASE UNCHANGED vars
  <2>1. Queue' = Queue
    BY <1>1 DEF vars, Queue, ItemAt, Fills, At
  <2>2. phase' = phase /\ carried' = carried
    BY <1>1 DEF vars, Phase, Carried, At, OwnsCell
  <2>. QED
    BY <2>1, <2>2 DEF Fifo!vars
<1>2. ASSUME NEW t \in Thread, Call(t) \/ Proceed(t) \/ FailClaim(t)
      PROVE  [Fifo!Next]_(Fifo!vars)
  <2>0. /\ pc \in [Thread -> PC] /\ side \in [Thread -> Side]
        /\ pos \in [Thread -> Nat] /\ item \in [Thread -> Item \cup {NoItem}]
        /\ data \in [Cell -> Item \cup {NoItem}] /\ index \in [Side -> Nat]
    BY DEF IInv, TurnInv, TypeOK
  <2>1. \A u \in Thread \ {t} : Phase(u)' = Phase(u) /\ Carried(u)' = Carried(u)
    BY <1>2, OthersStay DEF IInv
  <2>2. index' = index => Queue' = Queue
    BY <1>2, QueueStays
  <2>3. ASSUME index' = index, Phase(t)' = Phase(t), Carried(t)' = Carried(t)
        PROVE  [Fifo!Next]_(Fifo!vars)
    <3>1. phase' = phase /\ carried' = carried
      BY <2>1, <2>3
    <3>. QED
      BY <2>2, <2>3, <3>1 DEF Fifo!vars
  <2>4. /\ phase' = [phase EXCEPT ![t] = Phase(t)']
        /\ carried' = [carried EXCEPT ![t] = Carried(t)']
    BY <2>1
  <2>5. phase[t] = Phase(t) /\ carried[t] = Carried(t)
    OBVIOUS
  <2>6. CASE Call(t)
    <3>1. /\ index' = index /\ item[t] = NoItem /\ Phase(t) = "idle"
          /\ pc'[t] = "load"
      BY <2>0, <2>6 DEF Call, Goto, Phase, At, IInv, ItemInv, IdleCarriesNothing
    <3>2. Carried(t)' = item'[t]
      BY <3>1 DEF Carried, At
    <3>3. \/ Phase(t)' = "putting" /\ \E x \in Item : Carried(t)' = x
          \/ Phase(t)' = "getting" /\ Carried(t)' = NoItem
      <4>1. CASE side'[t] = "tail" /\ \E x \in Item : item'[t] = x
        BY <3>1, <3>2, <4>1 DEF Phase, At, OwnsCell
      <4>2. CASE side'[t] = "head" /\ item' = item
        BY <3>1, <3>2, <4>2 DEF Phase, At, OwnsCell
      <4>. QED
        BY <2>0, <2>6, <4>1, <4>2 DEF Call
    <3>4. Fifo!Begin(t)
      BY <2>2, <2>4, <2>5, <3>1, <3>3 DEF Fifo!Begin, Fifo!Become
    <3>. QED
      BY <3>4 DEF Fifo!Next
  <2>7. CASE Load(t) \/ Ready(t) \/ Overtaken(t) \/ FailClaim(t)
    <3>1. /\ index' = index /\ side' = side /\ item' = item
          /\ pc[t] \in {"load", "check", "claim"}
          /\ pc'[t] \in {"load", "check", "claim"}
      BY <2>0, <2>7 DEF Load, Ready, Overtaken, FailClaim, Goto, At
    <3>2. Phase(t)' = Phase(t) /\ Carried(t)' = Carried(t)
      BY <3>1 DEF Phase, Carried, At, OwnsCell
    <3>. QED
      BY <2>3, <3>1, <3>2
  <2>8. CASE Move(t)
    <3>1. /\ index' = index /\ side' = side /\ pos' = pos
          /\ pc[t] = "move" /\ pc'[t] = "hand over"
          /\ side[t] = "tail" => item' = item
          /\ side[t] = "head" => item'[t] = data[CellOf(pos[t])]
      BY <2>0, <2>8 DEF Move, Goto, At
    <3>2. Phase(t)' = Phase(t)
      BY <3>1 DEF Phase, At, OwnsCell
    <3>3. Carried(t)' = Carried(t)
      BY <2>0, <3>1 DEF Carried, At, Side
    <3>. QED
      BY <2>3, <3>1, <3>2, <3>3
  <2>9. CASE HandOver(t)
    <3>1. /\ index' = index /\ pc[t] = "hand over"
          /\ pc'[t] = "idle" /\ item'[t] = NoItem
      BY <2>0, <2>9 DEF HandOver, Return, Goto, At
    <3>2. Phase(t) \in {"put", "got"}
      BY <3>1 DEF Phase, At, OwnsCell
    <3>3. Phase(t)' = "idle" /\ Carried(t)' = NoItem
      BY <3>1 DEF Phase, Carried, At
    <3>4. Fifo!End(t)
      BY <2>2, <2>4, <2>5, <3>1, <3>2, <3>3 DEF Fifo!End, Fifo!Become
    <3>. QED
      BY <3>4 DEF Fifo!Next
  <2>10. CASE GiveUp(t)
    <3>1. /\ index' = index /\ pc[t] = "check" /\ Diff(t) < 0
          /\ pc'[t] = "idle" /\ item'[t] = NoItem
      BY <2>0, <2>10 DEF GiveUp, Return, Goto, At
    <3>2. Phase(t)' = "idle" /\ Carried(t)' = NoItem
      BY <3>1 DEF Phase, Carried, At
    <3>3. CASE side[t] = "tail"
      <4>1. Phase(t) = "putting"
        BY <3>1, <3>3 DEF Phase, At, OwnsCell
      <4>2. \/ index["tail"] - index["head"] = Size
            \/ \E u \in Thread : OwnsCell(u) /\ side[u] = "head"
        BY <3>1, <3>3, FullIsTrue DEF At
      <4>3. Len(Queue) = Size \/ \E u \in Thread : Phase(u) = "got"
        <5>1. Len(Queue) = index["tail"] - index["head"]
          BY QueueIs DEF QueueKnown, Queue
        <5>. QED
          BY <4>2, <5>1 DEF Phase, At, OwnsCell
      <4>4. Fifo!AnswerFull(t)
        BY <2>2, <2>4, <2>5, <3>1, <3>2, <4>1, <4>3
           DEF Fifo!AnswerFull, Fifo!Become
      <4>. QED
        BY <4>4 DEF Fifo!Next
    <3>4. CASE side[t] = "head"
      <4>1. Phase(t) = "getting"
        BY <3>1, <3>4 DEF Phase, At, OwnsCell
      <4>2. Queue = << >> \/ \E u \in Thread :
                                Phase(u) = "put" /\ Fifo!Oldest(Carried(u), Queue)
        <5>1. CASE index["tail"] = index["head"]
          <6>1. index["tail"] - index["head"] = 0
            BY <2>0, <5>1 DEF Side
          <6>. QED
            BY <6>1 DEF Queue
        <5>2. ASSUME index["head"] < index["tail"],
                     NEW u \in Thread, OwnsCell(u), side[u] = "tail",
                     pos[u] = index["head"]
              PROVE  Phase(u) = "put" /\ Fifo!Oldest(Carried(u), Queue)
          <6>1. /\ index["head"] \in Nat /\ index["tail"] - index["head"] \in Nat
                /\ 1 \in 1 .. index["tail"] - index["head"]
                /\ Queue \in [1 .. index["tail"] - index["head"] -> Value]
                /\ index["head"] = index["head"] + 1 - 1
            BY <2>0, <5>2, QueueIs DEF Side, QueueKnown
          <6>2. Queue # << >> /\ Head(Queue) = Queue[1]
            BY <6>1
          <6>3. Queue[1] = ItemAt(index["head"])
            BY <6>1, QueueIs DEF QueueKnown
          <6>4. ItemAt(index["head"]) = item[u]
            <7>1. CASE At(u, "move")
              <8>1. Fills(u, index["head"])
                BY <5>2, <7>1 DEF Fills
              <8>. QED
                BY <6>1, <8>1, KnowItems DEF IInv, ItemsKnown
            <7>2. CASE At(u, "hand over")
              <8>1. data[CellOf(index["head"])] = item[u]
                BY <5>2, <7>2 DEF IInv, ItemInv, WrittenIsKept
              <8>2. \A v \in Thread : ~Fills(v, index["head"])
                BY <5>2, <7>2
                   DEF IInv, TurnInv, ClaimsDiffer, Fills, OwnsCell, At
              <8>. QED
                BY <6>1, <8>1, <8>2, KnowItems DEF IInv, ItemsKnown
            <7>. QED
              BY <5>2, <7>1, <7>2 DEF OwnsCell, At
          <6>5. Carried(u) = item[u] /\ Phase(u) = "put"
            BY <5>2 DEF Carried, Phase, At, OwnsCell
          <6>. QED
            BY <6>2, <6>3, <6>4, <6>5 DEF Fifo!Oldest
        <5>. QED
          BY <3>1, <3>4, <5>1, <5>2, EmptyIsTrue DEF At
      <4>3. Fifo!AnswerEmpty(t)
        BY <2>2, <2>4, <2>5, <3>1, <3>2, <4>1, <4>2
           DEF Fifo!AnswerEmpty, Fifo!Become
      <4>. QED
        BY <4>3 DEF Fifo!Next
    <3>. QED
      BY <2>0, <3>3, <3>4 DEF Side
  <2>11. CASE Claim(t)
    <3>1. /\ side' = side /\ pos' = pos /\ item' = item /\ data' = data
          /\ pc[t] = "claim" /\ pc'[t] = "move"
      BY <2>0, <2>11 DEF Claim, Goto, At
    <3>2. CASE side[t] = "tail"
      <4>1. /\ Phase(t) = "putting" /\ Phase(t)' = "put"
            /\ Carried(t) = item[t] /\ Carried(t)' = item[t]
        BY <3>1, <3>2 DEF Phase, Carried, At, OwnsCell
      <4>2. Queue' = Append(Queue, item[t]) /\ Len(Queue) < Size
        BY <2>11, <3>2, ClaimPuts
      <4>3. Fifo!Put(t)
        BY <2>4, <2>5, <4>1, <4>2 DEF Fifo!Put, Fifo!Become
      <4>. QED
        BY <4>3 DEF Fifo!Next
    <3>3. CASE side[t] = "head"
      <4>1. /\ Phase(t) = "getting" /\ Phase(t)' = "got"
            /\ Carried(t)' = data[CellOf(pos[t])]
        BY <3>1, <3>3 DEF Phase, Carried, At, OwnsCell
      <4>2. /\ Queue # << >> /\ Queue' = Tail(Queue)
            /\ Head(Queue) = data[CellOf(pos[t])]
        BY <2>11, <3>3, ClaimGets
      <4>3. Fifo!Get(t)
        BY <2>4, <2>5, <4>1, <4>2 DEF Fifo!Get, Fifo!Become
      <4>. QED
        BY <4>3 DEF Fifo!Next
    <3>. QED
      BY <2>0, <3>2, <3>3 DEF Side
  <2>. QED
    BY <1>2, <2>6, <2>7, <2>8, <2>9, <2>10, <2>11 DEF Proceed
<1>. QED
  BY <1>1, <1>2 DEF Next

(* The ring is a bounded first-in first-out queue, for any number of       *)
(* threads, any items and any power-of-two size: each call takes effect at *)
(* its compare-and-swap, and "full" and "empty" are answered only when     *)
(* they are so or another call has not ended.                              *)
THEOREM RingIsFifo == Spec => ImplementsFifo
<1>1. IInv /\ IInv' /\ [Next]_vars => [Fifo!Next]_(Fifo!vars)
  BY NextFifo
<1>. QED
  BY <1>1, InitFifo, Invariance, PTL DEF Spec, ImplementsFifo, Fifo!Spec
=============================================================================
