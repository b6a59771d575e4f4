--------------------------- MODULE Directory_proofs ---------------------------
(***************************************************************************)
(* Theorems about Directory, for directories of any size whose inode is    *)
(* the first of its block, and callers that use add_dir_entry only while   *)
(* an entry is empty and remove nothing behind an empty entry.             *)
(***************************************************************************)
EXTENDS Directory, TLAPS

Discipline == FirstSlot /\ ~AddsToFull /\ ~RemovesBehind

Entry == {NoEntry} \cup [name : Name, ino : Child]
InodeType == [blocks : Nat, mapped : SUBSET Ptr]

TypeOK == /\ inode \in InodeType
          /\ stored \in InodeType
          /\ entries \in [Ptr -> [Slot -> Entry]]
          /\ listed \in [Name -> Child \cup {NoInode}]

\* The block under pointer k names n, for c, in its entry s.
Shows(n, c, k, s) == /\ k \in inode.mapped
                     /\ entries[k][s] = [name |-> n, ino |-> c]

\* blocks counts past every pointer there is, and a clean frame is a copy.
InodeFits == /\ \A k \in inode.mapped : k < inode.blocks
             /\ dirty \/ stored = inode

\* A name is shown once, for what it was added for, and shown if it was added.
ShownOnce ==
    \A n \in Name, c, d \in Child, k, l \in Ptr, s, u \in Slot :
        Shows(n, c, k, s) /\ Shows(n, d, l, u) => k = l /\ s = u
ShownIsListed ==
    \A n \in Name, c \in Child, k \in Ptr, s \in Slot :
        Shows(n, c, k, s) => listed[n] = c
ListedIsShown ==
    Running => \A n \in Name : listed[n] # NoInode =>
                  \E c \in Child, k \in Ptr, s \in Slot : Shows(n, c, k, s)

IInv == TypeOK /\ InodeFits /\ ShownOnce /\ ShownIsListed /\ ListedIsShown

-------------------------------------------------------------------------------
\* What the loops over the entries come by.
LEMMA PlacesAre ==
    ASSUME TypeOK, InodeFits, NEW p
    PROVE  p \in Places <=> \E k \in inode.mapped, s \in Slot : p = << k, s >>
<1>1. inode.mapped \subseteq Ptr
  BY DEF TypeOK, InodeType
<1>2. {k \in inode.mapped : k < inode.blocks} = inode.mapped
  BY DEF InodeFits
<1> QED
  BY <1>2 DEF Places

\* An entry that names n.
LEMMA EntryIs ==
    ASSUME NEW e \in Entry, NEW n
    PROVE  e.ino # NoInode /\ e.name = n
              <=> \E c \in Child : e = [name |-> n, ino |-> c]
<1>1. \A c \in Child : /\ [name |-> n, ino |-> c].ino = c
                       /\ [name |-> n, ino |-> c].name = n
                       /\ c # NoInode
  BY DirectoryAssumption
<1>2. CASE e = NoEntry
  <2>1. e.ino = NoInode
    BY <1>2 DEF NoEntry
  <2> QED
    BY <1>1, <2>1
<1>3. CASE e \in [name : Name, ino : Child]
  <2>1. e = [name |-> e.name, ino |-> e.ino] /\ e.ino \in Child
    BY <1>3
  <2> QED
    BY <1>1, <2>1
<1> QED
  BY <1>2, <1>3 DEF Entry

\* The places of the entries that name n.
LEMMA NamedAre ==
    ASSUME TypeOK, InodeFits, NEW n \in Name, NEW p
    PROVE  p \in Named(n) <=> \E c \in Child, k \in Ptr, s \in Slot :
                                 p = << k, s >> /\ Shows(n, c, k, s)
<1>1. inode.mapped \subseteq Ptr
  BY DEF TypeOK, InodeType
<1>2. ASSUME NEW k \in Ptr, NEW s \in Slot
      PROVE  entries[k][s].ino # NoInode /\ entries[k][s].name = n
                <=> \E c \in Child : entries[k][s] = [name |-> n, ino |-> c]
  <2>1. entries[k][s] \in Entry
    BY DEF TypeOK
  <2> QED
    BY <2>1, EntryIs
<1>3. p \in Named(n) <=> \E k \in inode.mapped, s \in Slot :
         p = << k, s >> /\ entries[k][s].ino # NoInode /\ entries[k][s].name = n
  <2>1. ASSUME NEW k, NEW s PROVE At(<< k, s >>) = entries[k][s]
    BY DEF At
  <2> QED
    BY <2>1, PlacesAre DEF Named
<1> QED
  BY <1>1, <1>2, <1>3 DEF Shows

\* The first of one place is that place.
LEMMA FirstOfOne ==
    ASSUME NEW k \in Ptr, NEW s \in Slot
    PROVE  First({<< k, s >>}) = {<< k, s >>}
<1>1. k <= k /\ s <= s
  BY DirectoryAssumption DEF Ptr, Slot
<1> QED
  BY <1>1 DEF First

\* What lookup returns.
LEMMA LookupIs ==
    ASSUME TypeOK, InodeFits, ShownOnce, NEW n \in Name
    PROVE  /\ (\A c \in Child, k \in Ptr, s \in Slot : ~Shows(n, c, k, s))
                 => Lookup(n) = NoInode
           /\ \A c \in Child, k \in Ptr, s \in Slot :
                 Shows(n, c, k, s) => Lookup(n) = c
<1>1. ASSUME \A c \in Child, k \in Ptr, s \in Slot : ~Shows(n, c, k, s)
      PROVE  Lookup(n) = NoInode
  <2>1. Named(n) = {}
    BY <1>1, NamedAre
  <2> QED
    BY <2>1 DEF Lookup, Found
<1>2. ASSUME NEW c \in Child, NEW k \in Ptr, NEW s \in Slot, Shows(n, c, k, s)
      PROVE  Lookup(n) = c
  <2>1. Named(n) = {<< k, s >>}
    <3>1. << k, s >> \in Named(n)
      BY <1>2, NamedAre
    <3>2. ASSUME NEW p \in Named(n) PROVE p = << k, s >>
      <4>1. PICK d \in Child, l \in Ptr, u \in Slot :
              p = << l, u >> /\ Shows(n, d, l, u)
        BY NamedAre
      <4> QED
        BY <1>2, <4>1 DEF ShownOnce
    <3> QED
      BY <3>1, <3>2
  <2>2. (CHOOSE p \in First(Named(n)) : TRUE) = << k, s >>
    BY <2>1, FirstOfOne
  <2>3. At(<< k, s >>).ino = c
    BY <1>2 DEF At, Shows
  <2> QED
    BY <2>1, <2>2, <2>3 DEF Lookup, Found
<1> QED
  BY <1>1, <1>2

-------------------------------------------------------------------------------
\* An entry in an empty place, for a name that is not shown.
LEMMA NewEntryShows ==
    ASSUME TypeOK, InodeFits, NEW n \in Name, NEW c \in Child,
           Fill(n, c) \/ Grow(n, c)
    PROVE  /\ inode' \in InodeType /\ entries' \in [Ptr -> [Slot -> Entry]]
           /\ \A k \in inode'.mapped : k < inode'.blocks
           /\ \E l \in Ptr, u \in Slot :
                \A m \in Name, d \in Child, k \in Ptr, s \in Slot :
                   /\ ~Shows(m, d, l, u)
                   /\ Shows(m, d, k, s)' <=> \/ Shows(m, d, k, s)
                                             \/ m = n /\ d = c /\ k = l /\ s = u
<1> DEFINE e == [name |-> n, ino |-> c]
<1>1. e \in Entry /\ NoEntry \in Entry /\ 1 \in Slot
  BY DirectoryAssumption DEF Entry, Slot
<1>2. \A m \in Name, d \in Child : [name |-> m, ino |-> d] # NoEntry
  BY DirectoryAssumption DEF NoEntry
<1>3. \A m \in Name, d \in Child :
         [name |-> m, ino |-> d] = e <=> m = n /\ d = c
  OBVIOUS
<1>4. CASE Fill(n, c)
  <2>1. PICK p \in First(Holes) :
          entries' = [entries EXCEPT ![p[1]][p[2]] = e]
    BY <1>4 DEF Fill
  <2>2. p \in Places /\ At(p).ino = NoInode
    BY <2>1 DEF First, Holes
  <2>3. PICK l \in inode.mapped, u \in Slot : p = << l, u >>
    BY <2>2, PlacesAre
  <2>4. l \in Ptr /\ inode' = inode
    BY <1>4 DEF TypeOK, InodeType, Fill
  <2>5. entries' = [entries EXCEPT ![l][u] = e] /\ entries[l][u].ino = NoInode
    BY <2>1, <2>2, <2>3 DEF At
  <2>6. \A k \in Ptr, s \in Slot :
           entries'[k][s] = IF k = l /\ s = u THEN e ELSE entries[k][s]
    BY <2>4, <2>5 DEF TypeOK
  <2>7. \A m \in Name, d \in Child : entries[l][u] # [name |-> m, ino |-> d]
    BY <2>5, DirectoryAssumption
  <2>8. entries' \in [Ptr -> [Slot -> Entry]]
    BY <1>1, <2>4, <2>5 DEF TypeOK
  <2>9. \A m \in Name, d \in Child, k \in Ptr, s \in Slot :
           /\ ~Shows(m, d, l, u)
           /\ Shows(m, d, k, s)' <=> \/ Shows(m, d, k, s)
                                     \/ m = n /\ d = c /\ k = l /\ s = u
    BY <1>3, <2>3, <2>4, <2>6, <2>7 DEF Shows
  <2> QED
    BY <2>3, <2>4, <2>8, <2>9 DEF TypeOK, InodeFits
<1>5. CASE Grow(n, c)
  <2> DEFINE l == inode.blocks
  <2>1. /\ l \in Ptr
        /\ inode' = [blocks |-> l + 2, mapped |-> inode.mapped \cup {l}]
        /\ entries' = [entries EXCEPT ![l] = [EmptyBlock EXCEPT ![1] = e]]
    BY <1>5 DEF Grow
  <2>2. l \notin inode.mapped /\ l \in Nat /\ inode.mapped \subseteq Ptr
    BY <2>1, DirectoryAssumption DEF InodeFits, TypeOK, InodeType, Ptr
  <2>3. inode'.mapped = inode.mapped \cup {l} /\ inode'.blocks = l + 2
    BY <2>1
  <2>4. \A k \in inode'.mapped : k < inode'.blocks
    BY <2>2, <2>3, DirectoryAssumption DEF InodeFits, Ptr
  <2>5. [EmptyBlock EXCEPT ![1] = e] \in [Slot -> Entry]
    BY <1>1 DEF EmptyBlock
  <2>6. entries' \in [Ptr -> [Slot -> Entry]] /\ inode' \in InodeType
    BY <2>1, <2>2, <2>5 DEF TypeOK, InodeType
  <2>7. \A k \in Ptr, s \in Slot :
           entries'[k][s] = IF k # l THEN entries[k][s]
                            ELSE IF s = 1 THEN e ELSE NoEntry
    BY <1>1, <2>1 DEF TypeOK, EmptyBlock
  <2>8. \A m \in Name, d \in Child, k \in Ptr, s \in Slot :
           /\ ~Shows(m, d, l, 1)
           /\ Shows(m, d, k, s)' <=> \/ Shows(m, d, k, s)
                                     \/ m = n /\ d = c /\ k = l /\ s = 1
    BY <1>2, <1>3, <2>2, <2>3, <2>7 DEF Shows
  <2>9. \E i \in Ptr, u \in Slot :
          \A m \in Name, d \in Child, k \in Ptr, s \in Slot :
             /\ ~Shows(m, d, i, u)
             /\ Shows(m, d, k, s)' <=> \/ Shows(m, d, k, s)
                                       \/ m = n /\ d = c /\ k = i /\ s = u
    <3>1. l \in Ptr /\ 1 \in Slot
      BY <1>1, <2>1
    <3> HIDE DEF l
    <3> QED
      BY <2>8, <3>1
  <2> QED
    BY <2>4, <2>6, <2>9
<1> QED
  BY <1>4, <1>5

\* add_dir_entry for a name that lookup does not find, in a frame that is marked
\* or whose inode it leaves alone.
LEMMA AddKeeps ==
    ASSUME IInv, Running, NEW n \in Name, NEW c \in Child, NEW losing,
           Lookup(n) = NoInode, AddEntry(n, c, losing),
           dirty' \/ stored' = inode'
    PROVE  IInv'
<1> USE DEF IInv
<1>1. listed' = [listed EXCEPT ![n] = c] /\ stored' = stored
  BY DEF AddEntry
<1>2. \A d \in Child, k \in Ptr, s \in Slot : ~Shows(n, d, k, s)
  <2>1. \A d \in Child : d # NoInode
    BY DirectoryAssumption
  <2> QED
    BY <2>1, LookupIs
<1>3. c # NoInode
  BY DirectoryAssumption
<1>4. CASE Fill(n, c) \/ Grow(n, c)
  <2>1. TypeOK' /\ InodeFits'
    BY <1>1, <1>4, NewEntryShows DEF InodeFits, TypeOK
  <2>2. PICK l \in Ptr, u \in Slot :
           \A m \in Name, d \in Child, k \in Ptr, s \in Slot :
              /\ ~Shows(m, d, l, u)
              /\ Shows(m, d, k, s)' <=> \/ Shows(m, d, k, s)
                                        \/ m = n /\ d = c /\ k = l /\ s = u
    BY <1>4, NewEntryShows
  <2>3. ShownOnce' /\ ShownIsListed'
    BY <1>1, <1>2, <2>2 DEF ShownOnce, ShownIsListed, TypeOK
  <2>4. ListedIsShown'
    <3> SUFFICES ASSUME NEW m \in Name, listed'[m] # NoInode
                 PROVE  \E d \in Child, k \in Ptr, s \in Slot : Shows(m, d, k, s)'
      BY DEF ListedIsShown
    <3>1. CASE m = n
      BY <1>1, <2>2, <3>1 DEF TypeOK
    <3>2. CASE m # n
      <4>1. listed'[m] = listed[m]
        BY <1>1, <3>2 DEF TypeOK
      <4> QED
        BY <2>2, <4>1 DEF ListedIsShown
    <3> QED
      BY <3>1, <3>2
  <2> QED
    BY <2>1, <2>3, <2>4
<1>5. CASE ~(Fill(n, c) \/ Grow(n, c))
  <2>1. Miss /\ "entry" \in lost'
    BY <1>5 DEF AddEntry
  <2> DEFINE b == inode.blocks + IF inode.blocks \in Ptr THEN 2 ELSE 1
  <2>2. b \in Nat /\ b >= inode.blocks
    BY DEF TypeOK, InodeType
  <2>3. /\ inode' \in InodeType /\ inode'.mapped = inode.mapped
        /\ inode'.blocks = b /\ entries' = entries
    <3>1. inode' = [inode EXCEPT !.blocks = b] /\ entries' = entries
      BY <2>1 DEF Miss
    <3> HIDE DEF b
    <3> QED
      BY <2>2, <3>1 DEF TypeOK, InodeType
  <2> HIDE DEF b
  <2>4. TypeOK'
    BY <1>1, <2>3 DEF TypeOK
  <2>5. InodeFits'
    BY <2>2, <2>3 DEF InodeFits, TypeOK, InodeType, Ptr
  <2>6. \A m \in Name, d \in Child, k \in Ptr, s \in Slot :
           Shows(m, d, k, s)' <=> Shows(m, d, k, s)
    BY <2>3 DEF Shows
  <2>7. ShownOnce' /\ ShownIsListed'
    BY <1>1, <1>2, <2>6 DEF ShownOnce, ShownIsListed, TypeOK
  <2>8. ListedIsShown'
    BY <2>1 DEF ListedIsShown, Running
  <2> QED
    BY <2>4, <2>5, <2>7, <2>8
<1> QED
  BY <1>4, <1>5

-------------------------------------------------------------------------------
\* Nothing stands behind an empty entry, so the entry of the name goes.
LEMMA RemoveKeeps ==
    ASSUME Discipline, IInv, NEW n \in Name, RemoveDirEntry(n)
    PROVE  IInv'
<1> USE DEF IInv
<1>1. /\ Removable(n) = Named(n)
      /\ listed' = [listed EXCEPT ![n] = NoInode]
      /\ UNCHANGED << inode, dirty, stored, lost >>
  BY DEF RemoveDirEntry, Discipline
<1>2. /\ entries' \in [Ptr -> [Slot -> Entry]]
      /\ \A m \in Name, d \in Child, k \in Ptr, s \in Slot :
            Shows(m, d, k, s)' <=> Shows(m, d, k, s) /\ m # n
  <2>1. CASE Named(n) = {}
    <3>1. entries' = entries
      BY <1>1, <2>1 DEF RemoveDirEntry, First
    <3>2. \A d \in Child, k \in Ptr, s \in Slot : ~Shows(n, d, k, s)
      BY <2>1, NamedAre
    <3> QED
      BY <1>1, <3>1, <3>2 DEF Shows, TypeOK
  <2>2. CASE Named(n) # {}
    <3>1. PICK p \in Named(n) : entries' = [entries EXCEPT ![p[1]][p[2]] = NoEntry]
      BY <1>1, <2>2 DEF RemoveDirEntry, First
    <3>2. PICK c \in Child, l \in Ptr, u \in Slot :
            p = << l, u >> /\ Shows(n, c, l, u)
      BY NamedAre
    <3>3. entries' = [entries EXCEPT ![l][u] = NoEntry]
      BY <3>1, <3>2
    <3>4. \A k \in Ptr, s \in Slot :
             entries'[k][s] = IF k = l /\ s = u THEN NoEntry ELSE entries[k][s]
      BY <3>2, <3>3 DEF TypeOK
    <3>5. \A m \in Name, d \in Child : [name |-> m, ino |-> d] # NoEntry
      BY DirectoryAssumption DEF NoEntry
    <3>6. NoEntry \in Entry
      BY DEF Entry
    <3>7. entries' \in [Ptr -> [Slot -> Entry]]
      BY <3>2, <3>3, <3>6 DEF TypeOK
    <3> SUFFICES ASSUME NEW m \in Name, NEW d \in Child, NEW k \in Ptr, NEW s \in Slot
                 PROVE  Shows(m, d, k, s)' <=> Shows(m, d, k, s) /\ m # n
      BY <3>7
    <3>8. CASE k = l /\ s = u
      <4>1. ~Shows(m, d, k, s)'
        BY <3>4, <3>5, <3>8 DEF Shows
      <4>2. Shows(m, d, k, s) => m = n
        <5>1. [name |-> m, ino |-> d] = [name |-> n, ino |-> c] => m = n
          OBVIOUS
        <5> QED
          BY <3>2, <3>8, <5>1 DEF Shows
      <4> QED
        BY <4>1, <4>2
    <3>9. CASE ~(k = l /\ s = u)
      <4>1. Shows(m, d, k, s)' <=> Shows(m, d, k, s)
        BY <1>1, <3>4, <3>9 DEF Shows
      <4>2. ~Shows(n, d, k, s)
        BY <3>2, <3>9 DEF ShownOnce
      <4> QED
        BY <4>1, <4>2
    <3> QED
      BY <3>8, <3>9
  <2> QED
    BY <2>1, <2>2
<1>3. TypeOK' /\ InodeFits'
  BY <1>1, <1>2 DEF TypeOK, InodeFits
<1>4. ShownOnce' /\ ShownIsListed'
  BY <1>1, <1>2 DEF ShownOnce, ShownIsListed, TypeOK
<1>5. ListedIsShown'
  <2> SUFFICES ASSUME Running', NEW m \in Name, listed'[m] # NoInode
               PROVE  \E d \in Child, k \in Ptr, s \in Slot : Shows(m, d, k, s)'
    BY DEF ListedIsShown
  <2>1. m # n /\ listed'[m] = listed[m] /\ Running
    BY <1>1 DEF TypeOK, Running
  <2> QED
    BY <1>2, <2>1 DEF ListedIsShown
<1> QED
  BY <1>3, <1>4, <1>5

\* Steps that leave the directory as it is.
LEMMA SameKeeps ==
    ASSUME IInv, UNCHANGED << inode, entries, listed >>,
           stored' \in InodeType, dirty' \/ stored' = inode', Running' => Running
    PROVE  IInv'
<1> USE DEF IInv
<1>1. \A m \in Name, d \in Child, k \in Ptr, s \in Slot :
         Shows(m, d, k, s)' <=> Shows(m, d, k, s)
  BY DEF Shows
<1>2. TypeOK' /\ InodeFits'
  BY DEF TypeOK, InodeFits
<1>3. ShownOnce'
  BY <1>1 DEF ShownOnce
<1>4. ShownIsListed' /\ ListedIsShown'
  BY <1>1 DEF ShownIsListed, ListedIsShown
<1> QED
  BY <1>2, <1>3, <1>4

\* Nothing that only an eviction forgets was in the frame.
LEMMA EvictKeeps ==
    ASSUME Discipline, IInv, Evict \/ UNCHANGED vars PROVE IInv'
<1>1. /\ UNCHANGED << inode, entries, listed, lost >>
      /\ stored' \in InodeType /\ (dirty' \/ stored' = inode')
  BY DEF Discipline, IInv, Evict, vars, InodeFits, TypeOK
<1>2. Running' => Running
  BY <1>1 DEF Running
<1> QED
  BY <1>1, <1>2, SameKeeps

\* The invariant of the directory.
LEMMA Invariant == ASSUME Discipline PROVE Spec => []IInv
<1>1. Init => IInv
  BY DirectoryAssumption
     DEF Init, IInv, TypeOK, InodeType, InodeFits, ShownOnce, ShownIsListed,
         ListedIsShown, Shows, EmptyBlock, Entry
<1>2. ASSUME IInv, [Next]_vars PROVE IInv'
  <2>1. ASSUME NEW n \in Name, NEW c \in Child, AddDirEntry(n, c) PROVE IInv'
    <3>1. Holes # {} /\ listed[n] = NoInode /\ dirty' = dirty
          /\ Running /\ AddEntry(n, c, {})
      BY <2>1 DEF AddDirEntry, Discipline
    <3>2. inode' = inode /\ stored' = stored
      BY <3>1 DEF AddEntry, Fill, Grow, Miss
    <3>3. Lookup(n) = NoInode
      <4>1. \A d \in Child, k \in Ptr, s \in Slot : ~Shows(n, d, k, s)
        BY <1>2, <3>1, DirectoryAssumption DEF IInv, ShownIsListed
      <4> QED
        BY <1>2, <4>1, LookupIs DEF IInv
    <3> QED
      BY <1>2, <3>1, <3>2, <3>3, AddKeeps DEF IInv, InodeFits
  <2>2. ASSUME NEW n \in Name, NEW c \in Child, CreateDirectory(n, c) PROVE IInv'
    BY <1>2, <2>2, AddKeeps DEF CreateDirectory, Marked
  <2>3. ASSUME NEW n \in Name, CreateExisting(n) PROVE IInv'
    <3>1. /\ UNCHANGED << inode, dirty, stored, entries, listed >>
          /\ Running' => Running
      BY <2>3 DEF CreateExisting, Running
    <3> QED
      BY <1>2, <3>1, SameKeeps DEF IInv, TypeOK, InodeFits
  <2>4. ASSUME NEW n \in Name, RemoveDirEntry(n) PROVE IInv'
    BY <1>2, <2>4, RemoveKeeps
  <2>5. CASE Evict \/ UNCHANGED vars
    BY <1>2, <2>5, EvictKeeps
  <2> QED
    BY <1>2, <2>1, <2>2, <2>3, <2>4, <2>5 DEF Next
<1> QED
  BY <1>1, <1>2, PTL DEF Spec

-------------------------------------------------------------------------------
\* lookup finds exactly what was added and not removed, with its inode, in a
\* directory whose inode is the first of its block.
THEOREM EntriesAreFound == ASSUME Discipline PROVE Spec => []EntriesFound
<1>1. ASSUME IInv, Running, NEW n \in Name PROVE Lookup(n) = listed[n]
  <2>1. CASE listed[n] = NoInode
    <3>1. \A c \in Child, k \in Ptr, s \in Slot : ~Shows(n, c, k, s)
      BY <1>1, <2>1, DirectoryAssumption DEF IInv, ShownIsListed
    <3> QED
      BY <1>1, <2>1, <3>1, LookupIs DEF IInv
  <2>2. CASE listed[n] # NoInode
    <3>1. PICK c \in Child, k \in Ptr, s \in Slot : Shows(n, c, k, s)
      BY <1>1, <2>2 DEF IInv, ListedIsShown
    <3> QED
      BY <1>1, <3>1, LookupIs DEF IInv, ShownIsListed
  <2> QED
    BY <2>1, <2>2
<1>2. IInv => EntriesFound
  BY <1>1 DEF EntriesFound
<1> QED
  BY <1>2, Invariant, PTL

\* No name has two entries, under the same conditions.
THEOREM NamesAreUnique == ASSUME Discipline PROVE Spec => []NamesUnique
<1>1. ASSUME IInv, NEW n \in Name, NEW p \in Named(n), NEW q \in Named(n)
      PROVE  p = q
  <2>1. PICK c \in Child, k \in Ptr, s \in Slot :
          p = << k, s >> /\ Shows(n, c, k, s)
    BY <1>1, NamedAre DEF IInv
  <2>2. PICK d \in Child, l \in Ptr, u \in Slot :
          q = << l, u >> /\ Shows(n, d, l, u)
    BY <1>1, NamedAre DEF IInv
  <2> QED
    BY <1>1, <2>1, <2>2 DEF IInv, ShownOnce
<1>2. IInv => NamesUnique
  BY <1>1 DEF NamesUnique
<1> QED
  BY <1>2, Invariant, PTL
===============================================================================
