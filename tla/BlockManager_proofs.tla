------------------------- MODULE BlockManager_proofs -------------------------
(***************************************************************************)
(* The bitmap is the ownership, owners keep their data and no assertion    *)
(* fails: for any number of threads, blocks and bits to a bitmap block.    *)
(***************************************************************************)
EXTENDS BlockManagerInv, TLAPS

-----------------------------------------------------------------------------
(* The geometry: whatever bit the scan can reach belongs to the image.     *)
LEMMA Geometry ==
    /\ TotalBlocks \in Nat /\ BitsPerBlock \in Nat /\ BitsPerBlock > 0
    /\ DataStart \in Nat /\ DataStart < TotalBlocks
    /\ BitmapBlocks \in Nat
    /\ BitsPerBlock * BitmapBlocks <= TotalBlocks + BitsPerBlock - 1
<1>. TotalBlocks \in Nat /\ BitsPerBlock \in Nat /\ BitsPerBlock > 0
  BY GeometryAssumption
<1>. DEFINE n == TotalBlocks + BitsPerBlock - 1
            r == n % BitsPerBlock
<1>1. n \in Nat
  OBVIOUS
<1>2. n \div BitsPerBlock \in Nat /\ r \in Nat
  BY <1>1
<1>3. n = BitsPerBlock * (n \div BitsPerBlock) + r
  BY <1>1
<1>4. BitsPerBlock * (n \div BitsPerBlock) <= n
  <2>. DEFINE m == BitsPerBlock * (n \div BitsPerBlock)
  <2>1. m \in Int
    BY <1>2
  <2>2. n = m + r
    BY <1>3
  <2>. HIDE DEF m, n, r
  <2>. QED
    BY <1>1, <1>2, <2>1, <2>2
<1>. QED
  BY <1>2, <1>4, GeometryAssumption DEF BitmapBlocks

LEMMA ScannedIsInImage ==
    ASSUME NEW b \in Nat, Scanned(BitmapBlockOf(b)) PROVE b < TotalBlocks
<1>. /\ TotalBlocks \in Nat /\ BitsPerBlock \in Nat /\ BitsPerBlock > 0
     /\ BitmapBlocks \in Nat
     /\ BitsPerBlock * BitmapBlocks <= TotalBlocks + BitsPerBlock - 1
  BY Geometry
<1>. DEFINE q == b \div BitsPerBlock
            r == b % BitsPerBlock
<1>1. q \in Nat /\ r \in Nat /\ r < BitsPerBlock
  OBVIOUS
<1>2. b = BitsPerBlock * q + r
  OBVIOUS
<1>3. q + 2 <= BitmapBlocks
  BY <1>1 DEF Scanned, BitmapBlockOf, BitmapStart
<1>. HIDE DEF q, r
<1>4. BitsPerBlock * (q + 2) <= BitsPerBlock * BitmapBlocks
  BY <1>1, <1>3
<1>5. BitsPerBlock * (q + 2) = BitsPerBlock * q + 2 * BitsPerBlock
  BY <1>1
<1>. DEFINE x == BitsPerBlock * q
            y == BitsPerBlock * BitmapBlocks
<1>6. x \in Nat /\ y \in Nat
  BY <1>1
<1>. QED
  <2>1. x + 2 * BitsPerBlock <= y
    BY <1>4, <1>5
  <2>2. b = x + r
    BY <1>2
  <2>. HIDE DEF x
  <2>3. y <= TotalBlocks + BitsPerBlock - 1
    OBVIOUS
  <2>. HIDE DEF y
  <2>. QED
    BY <1>1, <1>6, <2>1, <2>2, <2>3
-----------------------------------------------------------------------------
(* Init and types. *)
LEMMA Constants ==
    /\ DataBlock \subseteq Block
    /\ 0 .. DataStart - 1 \subseteq Bit
    /\ DataBlock \subseteq Bit
    /\ FirstScanned \in BitmapStart .. InodeBitmapStart
    /\ BitmapStart \in BitmapStart .. InodeBitmapStart
    /\ \A k \in BitmapStart .. InodeBitmapStart :
            Scanned(k) => k + 1 \in BitmapStart .. InodeBitmapStart
<1>. /\ TotalBlocks \in Nat /\ BitsPerBlock \in Nat /\ BitsPerBlock > 0
     /\ DataStart \in Nat /\ DataStart < TotalBlocks
     /\ BitmapBlocks \in Nat
  BY Geometry
<1>1. DataBlock \subseteq Block
  BY DEF DataBlock, Block
<1>2. \A k \in BitmapStart .. InodeBitmapStart :
            Scanned(k) => k + 1 \in BitmapStart .. InodeBitmapStart
  BY DEF Scanned, BitmapStart, InodeBitmapStart
<1>3. BitmapStart \in BitmapStart .. InodeBitmapStart
  BY DEF BitmapStart, InodeBitmapStart
<1>4. TotalBlocks <= BitmapBlocks * BitsPerBlock
  <2>. DEFINE n == TotalBlocks + BitsPerBlock - 1
              m == BitmapBlocks * BitsPerBlock
              r == n % BitsPerBlock
  <2>1. n \in Nat
    OBVIOUS
  <2>2. n = BitsPerBlock * (n \div BitsPerBlock) + r /\ r \in Nat /\ r < BitsPerBlock
    BY <2>1
  <2>3. BitsPerBlock * (n \div BitsPerBlock) = m
    BY <2>1 DEF BitmapBlocks
  <2>4. m \in Int
    OBVIOUS
  <2>5. n = m + r
    BY <2>2, <2>3
  <2>6. r < BitsPerBlock /\ r \in Nat
    BY <2>2
  <2>7. n = TotalBlocks + BitsPerBlock - 1
    OBVIOUS
  <2>. HIDE DEF n, m, r
  <2>8. TotalBlocks <= m
    BY <2>4, <2>5, <2>6, <2>7
  <2>. QED
    BY <2>8 DEF m
<1>5. DataBlock \subseteq Bit /\ 0 .. DataStart - 1 \subseteq Bit
  <2>. DEFINE m == BitmapBlocks * BitsPerBlock
  <2>1. m \in Int /\ TotalBlocks <= m
    BY <1>4
  <2>. HIDE DEF m
  <2>2. DataBlock \subseteq 0 .. m - 1 /\ 0 .. DataStart - 1 \subseteq 0 .. m - 1
    BY <2>1 DEF DataBlock
  <2>. QED
    BY <2>2 DEF Bit, m
<1>6. FirstScanned \in BitmapStart .. InodeBitmapStart
  <2>. DEFINE d == DataStart \div BitsPerBlock
  <2>1. d \in Nat /\ d <= DataStart
    <3>. DEFINE r == DataStart % BitsPerBlock
    <3>1. d \in Nat /\ r \in Nat /\ DataStart = BitsPerBlock * d + r
      OBVIOUS
    <3>. HIDE DEF d, r
    <3>2. BitsPerBlock * d >= d
      BY <3>1
    <3>. DEFINE x == BitsPerBlock * d
    <3>3. x \in Nat /\ x >= d /\ DataStart = x + r
      BY <3>1, <3>2
    <3>. HIDE DEF x
    <3>. QED
      BY <3>1, <3>3
  <2>2. d <= BitmapBlocks
    <3>1. SUFFICES ASSUME d >= BitmapBlocks + 1 PROVE FALSE
      BY <2>1
    <3>. DEFINE r == DataStart % BitsPerBlock
                x == BitsPerBlock * d
                m == BitmapBlocks * BitsPerBlock
    <3>2. r \in Nat /\ DataStart = x + r
      OBVIOUS
    <3>3. TotalBlocks <= m /\ m \in Int
      BY <1>4
    <3>4. x >= m /\ x \in Int
      <4>. HIDE DEF d
      <4>1. BitsPerBlock * d >= BitsPerBlock * (BitmapBlocks + 1)
        BY <2>1, <3>1
      <4>2. BitsPerBlock * (BitmapBlocks + 1) = m + BitsPerBlock
        OBVIOUS
      <4>3. x = BitsPerBlock * d /\ x \in Int
        BY <2>1
      <4>. HIDE DEF x, m
      <4>. QED
        BY <3>3, <4>1, <4>2, <4>3
    <3>. HIDE DEF x, m, r, d
    <3>. QED
      BY <3>2, <3>3, <3>4
  <2>. HIDE DEF d
  <2>3. BitmapStart + d \in BitmapStart .. InodeBitmapStart
    BY <2>1, <2>2 DEF BitmapStart, InodeBitmapStart
  <2>. QED
    BY <2>3 DEF FirstScanned, BitmapBlockOf, d
<1>. QED
  BY <1>1, <1>2, <1>3, <1>5, <1>6

LEMMA InvInit == Init => IInv
<1>. SUFFICES ASSUME Init PROVE IInv
  OBVIOUS
<1>1. TypeOK
  BY Constants DEF Init, TypeOK, PC
<1>2. \A t \in Thread : pc[t] = "idle" /\ held[t] = {}
  BY DEF Init
<1>3. DataBlock \cap allocated = {}
  BY Geometry DEF Init, DataBlock
<1>4. CallsFit /\ HolderSeesOwnData /\ NeverAborts /\ BitmapIsOwnership
  BY <1>2, <1>3 DEF CallsFit, HolderSeesOwnData, NeverAborts, BitmapIsOwnership,
                   Owns, At
<1>5. FreeIsClear
  BY <1>2, Constants DEF Init, FreeIsClear, At
<1>. QED
  BY <1>1, <1>4, <1>5 DEF IInv

-----------------------------------------------------------------------------
(* What a step of t leaves alone, and what follows for the other threads.  *)
Others(t) == /\ DOMAIN pc' = Thread /\ DOMAIN blk' = Thread
             /\ \A u \in Thread \ {t} :
                  pc'[u] = pc[u] /\ blk'[u] = blk[u] /\ held'[u] = held[u]

(* A step that gives out and takes back nothing: bitmap, ownership and     *)
(* data of the owned blocks stay.                                          *)
LEMMA QuietStep ==
    ASSUME IInv, TypeOK', NEW t \in Thread, Others(t),
           UNCHANGED << allocated, held, content, written >>,
           pc'[t] \notin {"clear", "unset", "aborted"},
           pc[t] \notin {"clear", "unset"},
           pc'[t] \in {"check read", "read", "check write", "write"}
               => blk'[t] \in held[t]
    PROVE  IInv'
<1>1. CallsFit'
  BY DEF IInv, CallsFit, Others
<1>2. \A u \in Thread, b \in DataBlock : Owns(u, b)' <=> Owns(u, b)
  BY DEF Owns, Others
<1>3. BitmapIsOwnership'
  BY <1>2 DEF IInv, BitmapIsOwnership
<1>4. FreeIsClear'
  BY DEF IInv, FreeIsClear, Others, At
<1>5. HolderSeesOwnData' /\ NeverAborts'
  BY DEF IInv, HolderSeesOwnData, NeverAborts, Others, At
<1>. QED
  BY <1>1, <1>3, <1>4, <1>5 DEF IInv

LEMMA AllocStep ==
    ASSUME IInv, NEW t \in Thread, AllocBit(t) PROVE IInv'
<1>. USE DEF TypeOK
<1>0. PICK b \in FreeBits(scan[t]) :
        /\ allocated' = allocated \cup {b}
        /\ LcAssert(t, b < TotalBlocks, "idle")
        /\ held' = [held EXCEPT ![t] = @ \cup ({b} \cap Block)]
        /\ written' = [x \in Block |-> IF x = b THEN Zero ELSE written[x]]
  BY DEF AllocBit
<1>1. b \in Bit /\ b \in Nat /\ b \notin allocated /\ b >= DataStart
      /\ Scanned(BitmapBlockOf(b))
  BY DEF FreeBits, AllocBit, Bit
<1>2. b < TotalBlocks
  BY <1>1, ScannedIsInImage
<1>3. b \in DataBlock /\ b \in Block
  BY <1>1, <1>2, Geometry, Constants DEF DataBlock
<1>4. /\ At(t, "scan") /\ pc' = [pc EXCEPT ![t] = "idle"]
      /\ blk' = blk /\ content' = content
      /\ held' = [held EXCEPT ![t] = @ \cup {b}]
      /\ scan' = [scan EXCEPT ![t] = BitmapStart]
  <2>1. {b} \cap Block = {b}
    BY <1>3
  <2>. QED
    BY <1>0, <1>2, <2>1 DEF AllocBit, LcAssert, Goto
<1>5. TypeOK'
  <2>1. pc' \in [Thread -> PC]
    BY <1>4 DEF IInv, PC
  <2>2. held' \in [Thread -> SUBSET DataBlock]
    BY <1>3, <1>4 DEF IInv
  <2>3. scan' \in [Thread -> BitmapStart .. InodeBitmapStart]
    BY <1>4, Constants DEF IInv
  <2>4. written' \in [Block -> Value \cup {Zero}]
    BY <1>0 DEF IInv
  <2>. QED
    BY <1>0, <1>1, <1>4, <2>1, <2>2, <2>3, <2>4 DEF IInv
<1>6. CallsFit'
  BY <1>4 DEF IInv, CallsFit
<1>7. \A u \in Thread : ~Owns(u, b)
  BY <1>1, <1>3 DEF IInv, BitmapIsOwnership
<1>8. \A u \in Thread, x \in DataBlock :
        Owns(u, x)' <=> Owns(u, x) \/ (u = t /\ x = b)
  BY <1>4 DEF IInv, Owns, At
<1>9. BitmapIsOwnership'
  BY <1>0, <1>7, <1>8 DEF IInv, BitmapIsOwnership
<1>10. FreeIsClear'
  BY <1>0, <1>4 DEF IInv, FreeIsClear, At
<1>11. HolderSeesOwnData'
  <2>. SUFFICES ASSUME NEW u \in Thread, NEW x \in held'[u]
                PROVE  content'[x] = written'[x]
    BY DEF HolderSeesOwnData
  <2>1. CASE x = b
    BY <1>0, <1>1, <1>3, <1>4, <2>1 DEF IInv, FreeIsClear
  <2>2. CASE x # b
    <3>1. x \in held[u]
      BY <1>4, <2>2 DEF IInv
    <3>2. x \in Block
      BY <3>1, Constants DEF IInv
    <3>. QED
      BY <1>0, <1>4, <2>2, <3>1, <3>2 DEF IInv, HolderSeesOwnData
  <2>. QED
    BY <2>1, <2>2
<1>12. NeverAborts'
  BY <1>4 DEF IInv, NeverAborts, At
<1>. QED
  BY <1>5, <1>6, <1>9, <1>10, <1>11, <1>12 DEF IInv

LEMMA WriteStep ==
    ASSUME IInv, NEW t \in Thread, Write(t) PROVE IInv'
<1>. DEFINE b == blk[t]
<1>1. b \in held[t] /\ b \in DataBlock /\ b \in Block
  BY Constants DEF IInv, CallsFit, Write, At, TypeOK
<1>2. PICK v \in Value : /\ content' = [content EXCEPT ![b] = v]
                         /\ written' = [written EXCEPT ![b] = v]
  BY DEF Write
<1>3. /\ pc' = [pc EXCEPT ![t] = "idle"] /\ blk' = [blk EXCEPT ![t] = NoBlock]
      /\ allocated' = allocated /\ held' = held /\ scan' = scan
      /\ At(t, "write")
  BY DEF Write, Return, Goto
<1>4. TypeOK'
  BY <1>2, <1>3 DEF IInv, TypeOK, PC
<1>5. CallsFit'
  BY <1>3 DEF IInv, CallsFit, TypeOK
<1>6. \A u \in Thread, x \in DataBlock : Owns(u, x)' <=> Owns(u, x)
  BY <1>3 DEF IInv, Owns, At, TypeOK
<1>7. BitmapIsOwnership'
  BY <1>3, <1>6 DEF IInv, BitmapIsOwnership
<1>8. Owns(t, b) /\ b \in allocated
  BY <1>1 DEF IInv, BitmapIsOwnership, Owns
<1>9. FreeIsClear'
  <2>1. \A x \in DataBlock \ allocated' : content'[x] = Zero
    BY <1>2, <1>3, <1>8, Constants DEF IInv, FreeIsClear, TypeOK
  <2>2. ASSUME NEW u \in Thread, At(u, "unset")' PROVE content'[blk'[u]] = Zero
    <3>1. u # t /\ At(u, "unset") /\ blk'[u] = blk[u]
      BY <1>3, <2>2 DEF IInv, TypeOK, At
    <3>2. blk[u] \in DataBlock /\ Owns(u, blk[u])
      BY <3>1 DEF IInv, CallsFit, Owns, At
    <3>3. blk[u] # b
      BY <1>1, <1>8, <3>1, <3>2 DEF IInv, BitmapIsOwnership
    <3>4. content[blk[u]] = Zero
      BY <3>1 DEF IInv, FreeIsClear
    <3>. QED
      BY <1>2, <3>1, <3>2, <3>3, <3>4, Constants DEF IInv, TypeOK
  <2>. QED
    BY <2>1, <2>2 DEF FreeIsClear
<1>10. HolderSeesOwnData'
  <2>1. \A u \in Thread : \A x \in held[u] : x \in Block /\ content[x] = written[x]
    BY Constants DEF IInv, HolderSeesOwnData, TypeOK
  <2>. QED
    BY <1>2, <1>3, <2>1 DEF HolderSeesOwnData, IInv, TypeOK
<1>11. NeverAborts'
  BY <1>3 DEF IInv, NeverAborts, At, TypeOK
<1>. QED
  BY <1>4, <1>5, <1>7, <1>9, <1>10, <1>11 DEF IInv

LEMMA BeginFreeStep ==
    ASSUME IInv, NEW t \in Thread, BeginFree(t) PROVE IInv'
<1>1. PICK b \in held[t] : /\ blk' = [blk EXCEPT ![t] = b]
                           /\ held' = [held EXCEPT ![t] = @ \ {b}]
  BY DEF BeginFree
<1>2. b \in DataBlock /\ b \in Block
  BY Constants DEF IInv, TypeOK
<1>3. /\ pc' = [pc EXCEPT ![t] = "clear"] /\ At(t, "idle")
      /\ UNCHANGED << allocated, content, scan, written >>
  BY DEF BeginFree, Goto, FreeOrder
<1>4. TypeOK'
  BY <1>1, <1>2, <1>3 DEF IInv, TypeOK, PC
<1>5. CallsFit'
  BY <1>1, <1>2, <1>3 DEF IInv, CallsFit, TypeOK
<1>6. \A u \in Thread, x \in DataBlock : Owns(u, x)' <=> Owns(u, x)
  <2>. SUFFICES ASSUME NEW u \in Thread, NEW x \in DataBlock
                PROVE  Owns(u, x)' <=> Owns(u, x)
    OBVIOUS
  <2>1. CASE u = t
    <3>1. held'[t] = held[t] \ {b} /\ blk'[t] = b /\ pc'[t] = "clear"
          /\ pc[t] = "idle"
      BY <1>1, <1>3 DEF IInv, TypeOK, At
    <3>. QED
      BY <2>1, <3>1 DEF Owns
  <2>2. CASE u # t
    BY <1>1, <1>3, <2>2 DEF IInv, TypeOK, Owns
  <2>. QED
    BY <2>1, <2>2
<1>7. BitmapIsOwnership'
  BY <1>3, <1>6 DEF IInv, BitmapIsOwnership
<1>8. FreeIsClear'
  BY <1>1, <1>3 DEF IInv, FreeIsClear, TypeOK, At
<1>9. HolderSeesOwnData'
  BY <1>1, <1>3 DEF IInv, HolderSeesOwnData, TypeOK
<1>10. NeverAborts'
  BY <1>3 DEF IInv, NeverAborts, At, TypeOK
<1>. QED
  BY <1>4, <1>5, <1>7, <1>8, <1>9, <1>10 DEF IInv

LEMMA ClearStep ==
    ASSUME IInv, NEW t \in Thread, Clear(t) PROVE IInv'
<1>. DEFINE b == blk[t]
<1>1. b \in DataBlock /\ b \in Block /\ b \notin held[t] /\ Owns(t, b)
  BY Constants DEF IInv, CallsFit, Clear, At, Owns
<1>2. /\ pc' = [pc EXCEPT ![t] = "unset"] /\ At(t, "clear")
      /\ content' = [content EXCEPT ![b] = Zero]
      /\ UNCHANGED << allocated, blk, scan, held, written >>
  BY DEF Clear, AfterFreeStep, Goto, FreeOrder
<1>3. TypeOK'
  BY <1>2 DEF IInv, TypeOK, PC
<1>4. CallsFit'
  BY <1>1, <1>2 DEF IInv, CallsFit, TypeOK
<1>5. \A u \in Thread, x \in DataBlock : Owns(u, x)' <=> Owns(u, x)
  BY <1>2 DEF IInv, TypeOK, Owns, At
<1>6. BitmapIsOwnership'
  BY <1>2, <1>5 DEF IInv, BitmapIsOwnership
<1>7. FreeIsClear'
  <2>1. \A x \in DataBlock \ allocated' : content'[x] = Zero
    BY <1>2, Constants DEF IInv, FreeIsClear, TypeOK
  <2>2. ASSUME NEW u \in Thread, At(u, "unset")' PROVE content'[blk'[u]] = Zero
    <3>1. CASE u = t
      BY <1>1, <1>2, <3>1 DEF IInv, TypeOK
    <3>2. CASE u # t
      <4>1. At(u, "unset")
        BY <1>2, <2>2, <3>2 DEF IInv, TypeOK, At
      <4>2. blk[u] \in Block /\ content[blk[u]] = Zero
        BY <4>1, Constants DEF IInv, CallsFit, FreeIsClear, At
      <4>. QED
        BY <1>2, <4>2 DEF IInv, TypeOK
    <3>. QED
      BY <3>1, <3>2
  <2>. QED
    BY <2>1, <2>2 DEF FreeIsClear
<1>8. HolderSeesOwnData'
  <2>. SUFFICES ASSUME NEW u \in Thread, NEW x \in held[u]
                PROVE  content'[x] = written[x]
    BY <1>2 DEF HolderSeesOwnData
  <2>1. x \in DataBlock /\ Owns(u, x) /\ content[x] = written[x]
    BY DEF IInv, HolderSeesOwnData, TypeOK, Owns
  <2>2. x # b
    BY <1>1, <2>1 DEF IInv, BitmapIsOwnership
  <2>. QED
    BY <1>2, <2>1, <2>2, Constants DEF IInv, TypeOK
<1>9. NeverAborts'
  BY <1>2 DEF IInv, NeverAborts, At, TypeOK
<1>. QED
  BY <1>3, <1>4, <1>6, <1>7, <1>8, <1>9 DEF IInv

LEMMA UnsetStep ==
    ASSUME IInv, NEW t \in Thread, Unset(t) PROVE IInv'
<1>. DEFINE b == blk[t]
<1>1. b \in DataBlock /\ b \notin held[t] /\ Owns(t, b) /\ b \in allocated
  <2>1. b \in DataBlock /\ b \notin held[t] /\ Owns(t, b)
    BY DEF IInv, CallsFit, Unset, At, Owns
  <2>. QED
    BY <2>1 DEF IInv, BitmapIsOwnership
<1>2. /\ pc' = [pc EXCEPT ![t] = "idle"] /\ At(t, "unset")
      /\ blk' = [blk EXCEPT ![t] = NoBlock]
      /\ allocated' = allocated \ {b}
      /\ UNCHANGED << content, scan, held, written >>
  BY <1>1 DEF Unset, AfterFreeStep, Return, Goto, FreeOrder, Without
<1>3. TypeOK'
  BY <1>2 DEF IInv, TypeOK, PC
<1>4. CallsFit'
  BY <1>2 DEF IInv, CallsFit, TypeOK
<1>5. \A u \in Thread, x \in DataBlock :
        Owns(u, x)' <=> Owns(u, x) /\ ~(u = t /\ x = b)
  <2>. SUFFICES ASSUME NEW u \in Thread, NEW x \in DataBlock
                PROVE  Owns(u, x)' <=> Owns(u, x) /\ ~(u = t /\ x = b)
    OBVIOUS
  <2>1. CASE u = t
    BY <1>1, <1>2, <2>1 DEF IInv, TypeOK, Owns, At
  <2>2. CASE u # t
    BY <1>2, <2>2 DEF IInv, TypeOK, Owns
  <2>. QED
    BY <2>1, <2>2
<1>6. BitmapIsOwnership'
  BY <1>1, <1>2, <1>5 DEF IInv, BitmapIsOwnership
<1>7. FreeIsClear'
  BY <1>2 DEF IInv, FreeIsClear, TypeOK, At
<1>8. HolderSeesOwnData' /\ NeverAborts'
  BY <1>2 DEF IInv, HolderSeesOwnData, NeverAborts, At, TypeOK
<1>. QED
  BY <1>3, <1>4, <1>6, <1>7, <1>8 DEF IInv

-----------------------------------------------------------------------------
LEMMA InvNext == ASSUME IInv, Next PROVE IInv'
<1>. PICK t \in Thread :
        \/ BeginAlloc(t) \/ AllocBit(t) \/ SkipFull(t) \/ FindNone(t)
        \/ BeginAccess(t, "check read") \/ Check(t, "check read", "read")
        \/ Read(t)
        \/ BeginAccess(t, "check write") \/ Check(t, "check write", "write")
        \/ Write(t)
        \/ BeginFree(t) \/ Clear(t) \/ Unset(t)
  BY DEF Next
<1>0. /\ pc \in [Thread -> PC] /\ blk \in [Thread -> Block \cup {NoBlock}]
      /\ held \in [Thread -> SUBSET DataBlock]
      /\ scan \in [Thread -> BitmapStart .. InodeBitmapStart]
      /\ DataBlock \subseteq Block
  BY Constants DEF IInv, TypeOK
<1>1. CASE BeginAlloc(t) \/ SkipFull(t) \/ FindNone(t)
  <2>1. /\ pc[t] \in {"idle", "scan"} /\ pc'[t] \in {"idle", "scan"}
        /\ Others(t)
        /\ UNCHANGED << allocated, held, content, written, blk >>
    BY <1>0, <1>1 DEF BeginAlloc, SkipFull, FindNone, Goto, At, Others
  <2>2. pc' \in [Thread -> PC]
    BY <1>0, <1>1 DEF BeginAlloc, SkipFull, FindNone, Goto, PC
  <2>3. scan' \in [Thread -> BitmapStart .. InodeBitmapStart]
    <3>1. CASE BeginAlloc(t)
      BY <1>0, <3>1, Constants DEF BeginAlloc
    <3>2. CASE SkipFull(t)
      <4>1. scan[t] + 1 \in BitmapStart .. InodeBitmapStart
        BY <1>0, <3>2, Constants DEF SkipFull
      <4>. QED
        BY <1>0, <3>2, <4>1 DEF SkipFull
    <3>3. CASE FindNone(t)
      BY <1>0, <3>3, Constants DEF FindNone
    <3>. QED
      BY <1>1, <3>1, <3>2, <3>3
  <2>4. TypeOK'
    BY <2>1, <2>2, <2>3 DEF IInv, TypeOK
  <2>. QED
    BY <2>1, <2>4, QuietStep
<1>2. ASSUME NEW p \in {"check read", "check write"}, BeginAccess(t, p)
      PROVE  IInv'
  <2>1. /\ pc[t] = "idle" /\ pc'[t] = p /\ blk'[t] \in held[t]
        /\ Others(t)
        /\ UNCHANGED << allocated, held, content, written, scan >>
    BY <1>0, <1>2 DEF BeginAccess, Goto, At, Others
  <2>2. pc' \in [Thread -> PC]
    BY <1>0, <1>2 DEF BeginAccess, Goto, PC
  <2>3. blk' \in [Thread -> Block \cup {NoBlock}]
    BY <1>0, <1>2 DEF BeginAccess
  <2>4. TypeOK'
    BY <2>1, <2>2, <2>3 DEF IInv, TypeOK
  <2>. QED
    BY <2>1, <2>4, QuietStep
<1>3. ASSUME NEW p \in {"check read", "check write"},
             NEW q \in {"read", "write"}, Check(t, p, q)
      PROVE  IInv'
  <2>0. blk[t] \in held[t]
    BY <1>3 DEF IInv, CallsFit, Check, At
  <2>1. blk[t] \in allocated
    BY <1>0, <2>0 DEF IInv, BitmapIsOwnership, Owns
  <2>2. /\ pc[t] = p /\ pc' = [pc EXCEPT ![t] = q]
        /\ UNCHANGED << allocated, held, content, written, blk, scan >>
    BY <1>3, <2>1 DEF Check, LcAssert, Goto, At
  <2>3. Others(t) /\ pc'[t] = q
    BY <1>0, <2>2 DEF Others
  <2>4. TypeOK'
    BY <1>0, <2>2 DEF IInv, TypeOK, PC
  <2>. QED
    BY <2>0, <2>2, <2>3, <2>4, QuietStep
<1>4. CASE Read(t)
  <2>1. /\ pc[t] = "read" /\ pc' = [pc EXCEPT ![t] = "idle"]
        /\ blk' = [blk EXCEPT ![t] = NoBlock]
        /\ UNCHANGED << allocated, held, content, written, scan >>
    BY <1>4 DEF Read, Return, Goto, At
  <2>2. Others(t) /\ pc'[t] = "idle"
    BY <1>0, <2>1 DEF Others
  <2>3. TypeOK'
    BY <1>0, <2>1 DEF IInv, TypeOK, PC
  <2>. QED
    BY <2>1, <2>2, <2>3, QuietStep
<1>. QED
  BY <1>1, <1>2, <1>3, <1>4, AllocStep, WriteStep, BeginFreeStep, ClearStep,
     UnsetStep

LEMMA InvStutter == ASSUME IInv, UNCHANGED vars PROVE IInv'
BY DEF IInv, vars, TypeOK, CallsFit, FreeIsClear, BitmapIsOwnership,
       HolderSeesOwnData, NeverAborts, Owns, At

-----------------------------------------------------------------------------
(* The inductive invariant holds in every reachable state.                 *)
THEOREM Invariance == Spec => []IInv
<1>1. IInv /\ [Next]_vars => IInv'
  BY InvNext, InvStutter
<1>. QED
  BY <1>1, InvInit, PTL DEF Spec

(* Every variable keeps its type: in particular alloc_block gives out      *)
(* nothing but data blocks.                                                *)
THEOREM TypeCorrect == Spec => []TypeOK
<1>1. IInv => TypeOK
  BY DEF IInv
<1>. QED
  BY <1>1, Invariance, PTL

(* No block is ever given to two callers, lost, or free while it is in     *)
(* use, whatever allocations and frees overlap.                            *)
THEOREM BitmapIsExact == Spec => []BitmapIsOwnership
<1>1. IInv => BitmapIsOwnership
  BY DEF IInv
<1>. QED
  BY <1>1, Invariance, PTL

(* A caller never sees another caller's data in its block, nor loses its   *)
(* own to a free_block that was under way when it got the block.           *)
THEOREM OwnDataIsKept == Spec => []HolderSeesOwnData
<1>1. IInv => HolderSeesOwnData
  BY DEF IInv
<1>. QED
  BY <1>1, Invariance, PTL

(* Lines 59, 167 and 200: the assertions of the manager hold for callers   *)
(* that use only blocks they hold.                                         *)
THEOREM AssertionsHold == Spec => []NeverAborts
<1>1. IInv => NeverAborts
  BY DEF IInv
<1>. QED
  BY <1>1, Invariance, PTL
=============================================================================
