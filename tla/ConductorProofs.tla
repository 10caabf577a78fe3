--------------------------- MODULE ConductorProofs ---------------------------
(***************************************************************************)
(* Proofs about the client conductor: the registry loses and duplicates    *)
(* nothing, and nothing that is in use is unmapped, for any number of      *)
(* goroutines, resources and images, any capacity of the lingering channel *)
(* and any faults.                                                         *)
(***************************************************************************)
EXTENDS ConductorInvariant

\* First-order steps are the rule; those with arithmetic say so.
USE Zenon

-----------------------------------------------------------------------------
(* An image that becomes available.                                        *)

LEMMA ReceiveAvailableImageStep ==
    ASSUME ConductorInv, ReceiveAvailableImage PROVE ConductorInv'
<1>1. PICK L : L = "onAvailableImage"
  OBVIOUS
<1>2. PICK i \in 1..MaxImages, r \in RegIDs :
          /\ owner[i] = Nil /\ Receive(L, r, i) /\ owner' = [owner EXCEPT ![i] = r]
          /\ available' = available \cup {i} /\ UNCHANGED asked
  BY <1>1 DEF ReceiveAvailableImage
<1>3. r \in 0..MaxRegs /\ i \in 0..MaxImages /\ r # Nil /\ i # Nil /\ r \in Int /\ r # -1 /\ r # -2
  BY SMT, ConductorAssumption DEF RegIDs, Nil
<1>4. PICK M : Received(L, r, i, M)
  BY <1>2, <1>3, ReceiveMoves
<1>5. /\ L \in PCs /\ L \notin {"empty", "emptySet", "release", "lock", "push", "walk"}
      /\ L \notin {"onReady", "onErrorResponse", "addImage", "removeImage", "linger", "requeue"}
      /\ "idle" # "walk"
  BY SMT, <1>1 DEF PCs, QuietLabels
<1>6. /\ pc'[Conductor] = L /\ my'[Conductor] = M /\ Conductor \in Actors
      /\ pc[Conductor] \notin {"push", "removeImage"}
  BY <1>4, <1>5, ActorFacts, Moves, Labels DEF ConductorInv, TypeInv, LocalsKnown, Received
<1>7. CallInv(Conductor)'
  BY <1>4, <1>5, <1>6 DEF CallInv, InClose, Received
<1>8. /\ owner' \in [1..MaxImages -> 0..MaxRegs] /\ owner'[i] = r
      /\ \A j \in 1..MaxImages : j # i => owner'[j] = owner[j]
  BY <1>2, <1>3 DEF ConductorInv, TypeInv, BaseType
<1>9. HandlerInv'
  BY <1>4, <1>5, <1>6, <1>8 DEF HandlerInv, OnImage, Received
<1>10. BaseType'
  <2>1. available' \subseteq 1..MaxImages /\ \A j \in available' : owner'[j] # Nil
    BY <1>2, <1>3, <1>8 DEF ConductorInv, TypeInv, BaseType
  <2> QED BY <1>2, <1>4, <1>8, <2>1 DEF ConductorInv, TypeInv, BaseType, Received
<1>11. EnvStep
  BY <1>2, <1>4, <1>8 DEF EnvStep, KindsGrow, ClosedGrow, OwnersGrow, Received
<1>12. \A x : Released(x)' => Released(x)
  BY <1>4, <1>5, <1>6, ReleasedKept DEF Received
<1>13. LogsInv' /\ ImagesInv'
  <2>1. KeepsImages /\ imageList' = imageList
    BY <1>4, HeapKeeps DEF Received
  <2> QED BY <1>5, <1>6, <1>11, <1>12, <2>1, LingerBase
<1>14. ~Released(Image(i))
  BY <1>2 DEF ConductorInv, LingerInv, ImagesInv
<1>15. ~Contains(imageList[r], i)
  <2>1. PICK s : s = imageList[r]
    OBVIOUS
  <2>2. s \in Slices /\ Known(s, r)
    BY <2>1, ListNow DEF KnownImages
  <2>3. ASSUME NEW k \in 1..s.len, Cell(s.arr, k) = i PROVE FALSE
    <3>1. Belongs(i, r)
      BY <1>3, <2>2, <2>3, SliceBelongs
    <3> QED BY <1>2, <1>3, <3>1 DEF Belongs
  <2> QED BY <2>1, <2>3 DEF Contains
<1>16. AddingInv'
  <2>1. ~Released(Image(i))' /\ ~Contains(imageList[r], i)'
    BY <1>4, <1>12, <1>14, <1>15 DEF Contains, Cell, Received
  <2>2. M.reg = r /\ M.image = i
    BY <1>4 DEF Received
  <2> QED BY <1>5, <1>6, <2>1, <2>2 DEF AddingInv
<1>17. RemovingInv'
  BY <1>5, <1>6 DEF RemovingInv
<1>18. LingerInv'
  BY <1>13, <1>16, <1>17 DEF LingerInv
<1>19. \A q \in RegIDs : KnownImages(imageList'[q], q)
  BY <1>4, ListNow DEF Received
<1> QED BY <1>4, <1>5, <1>6, <1>7, <1>9, <1>10, <1>11, <1>18, <1>19, EnvKept DEF Received, LockStep

\* The handler has found the subscription, or not.
LEMMA OnAvailableImageStep ==
    ASSUME ConductorInv, OnAvailableImage PROVE ConductorInv'
<1>1. PICK l, r, i, s : l = my[Conductor] /\ r = l.reg /\ i = l.image /\ s = imageList[r]
  OBVIOUS
<1>2. /\ pc[Conductor] = "onAvailableImage" /\ adminLock = Nil
      /\ UNCHANGED <<running, heap, pubs, subs, counters, regs, asked, sent, imageList, owner, available,
                     lingering, closes>>
  BY DEF OnAvailableImage, Handling, flags, registry, imageVars
<1>3. r \in RegIDs /\ i \in 1..MaxImages /\ owner[i] = r /\ Conductor \in Actors
  BY <1>1, <1>2, ActorFacts DEF ConductorInv, HandlerInv, OnImage
<1>4. LocalsKnown(l) /\ s \in Slices /\ KnownImages(s, r)
  BY <1>1, <1>3, KnownLocals, ListNow
<1>5. PICK N : N = [l EXCEPT !.images = s]
  OBVIOUS
<1>6. /\ LocalsKnown(N) /\ N.reg = r /\ N.image = i /\ N.images = s /\ N.back = l.back /\ N.index = l.index
  <2>1. LocalsKnown(N)
    BY <1>1, <1>4, <1>5, LocalsUpdates
  <2> QED BY <1>1, <1>4, <1>5, <2>1 DEF LocalsKnown, Locals
<1>7. ASSUME NEW L \in {"addImage", "loop"}, NEW M, MoveTo(Conductor, L, M),
             L = "addImage" => M = N /\ adminLock' = Conductor, L = "loop" => M = NoLocals /\ adminLock' = adminLock
      PROVE  ConductorInv'
  <2>1. /\ L \in PCs /\ L \notin {"empty", "emptySet", "release", "lock", "push", "walk"}
        /\ L \notin {"onReady", "onErrorResponse", "onAvailableImage", "onUnavailableImage", "removeImage",
                     "linger", "requeue"}
        /\ NoLocals.back # "walk"
        /\ "onAvailableImage" # "push" /\ "onAvailableImage" # "removeImage" /\ "loop" # "addImage"
    BY SMT DEF PCs, QuietLabels, NoLocals
  <2>2. LocalsKnown(M)
    BY <1>6, <1>7, KnownLocals
  <2>3. pc'[Conductor] = L /\ my'[Conductor] = M
    BY <1>3, <1>7, <2>1, <2>2, Moves DEF ConductorInv, TypeInv, LocalsKnown
  <2>4. CallInv(Conductor)'
    <3>1. M.back = "walk" => ~running' /\ M.index \in Nat \ {0}
      BY <1>1, <1>2, <1>3, <1>6, <1>7, <2>1 DEF ConductorInv, CallInv
    <3> QED BY <2>1, <2>3, <3>1 DEF CallInv, InClose
  <2>5. HandlerInv'
    BY <1>2, <1>3, <1>6, <1>7, <2>1, <2>3 DEF HandlerInv, OnImage
  <2>6. BaseType' /\ LockStep(Conductor) /\ EnvStep
    <3>1. adminLock' \in Actors \cup {Nil}
      BY <1>2, <1>3, <1>7
    <3> QED BY <1>2, <3>1 DEF ConductorInv, TypeInv, BaseType, LockStep, EnvStep, KindsGrow, ClosedGrow, OwnersGrow
  <2>7. \A x : Released(x)' => Released(x)
    BY <1>2, <2>1, <2>3, ReleasedKept
  <2>8. LogsInv' /\ ImagesInv'
    BY <1>2, <2>1, <2>3, <2>6, <2>7, HeapKeeps, LingerBase
  <2>9. AddingInv'
    <3>1. IsOpen(r) => ~Released(Image(i)) /\ ~Contains(imageList[r], i)
      BY <1>1, <1>2 DEF ConductorInv, LingerInv, AddingInv
    <3>2. IsOpen(r)' => ~Released(Image(i))' /\ ~Contains(imageList[r], i)' /\ imageList'[r] = s
      BY <1>1, <1>2, <2>7, <3>1 DEF IsOpen, Contains, Cell
    <3> QED BY <1>6, <1>7, <2>1, <2>3, <3>2 DEF AddingInv
  <2>10. RemovingInv'
    BY <2>1, <2>3 DEF RemovingInv
  <2>11. LingerInv'
    BY <2>8, <2>9, <2>10 DEF LingerInv
  <2>12. \A q \in RegIDs : KnownImages(imageList'[q], q)
    BY <1>2, ListNow
  <2> QED BY <1>2, <1>3, <1>7, <2>1, <2>2, <2>4, <2>5, <2>6, <2>11, <2>12, KeptStep
<1>8. CASE Listed(r)
  <2>1. MoveTo(Conductor, "addImage", N) /\ adminLock' = Conductor /\ "addImage" # "loop"
    BY <1>1, <1>5, <1>8, Labels DEF OnAvailableImage, Goto, MoveTo
  <2> QED BY <1>7, <2>1
<1>9. CASE ~Listed(r)
  <2>1. MoveTo(Conductor, "loop", NoLocals) /\ adminLock' = adminLock /\ "addImage" # "loop"
    BY <1>1, <1>9 DEF OnAvailableImage, BackToLoop, Goto, MoveTo
  <2> QED BY <1>7, <2>1
<1> QED BY <1>8, <1>9

\* The list with x behind it.
LEMMA GrownList ==
    ASSUME NEW s \in Slices, NEW s2 \in Slices, NEW x, s2.len = s.len + 1, Grown(s.arr, s.len, x, s2.arr)
    PROVE  /\ \A y : Contains(s2, y)' => y = x \/ Contains(s, y)
           /\ Unique(s) /\ ~Contains(s, x) => Unique(s2)'
           /\ NoNil(s) /\ x # Nil => NoNil(s2)'
<1>1. s.len \in Nat
  BY DEF Slices
<1>2. \A k \in 1..s2.len : k = s.len + 1 \/ k \in 1..s.len
  BY SMT, <1>1
<1>3. Cell(s2.arr, s.len + 1)' = x /\ \A k \in 1..s.len : Cell(s2.arr, k)' = Cell(s.arr, k)
  BY DEF Grown
<1>4. \A y : Contains(s2, y)' => y = x \/ Contains(s, y)
  BY <1>2, <1>3 DEF Contains
<1>5. Unique(s) /\ ~Contains(s, x) => Unique(s2)'
  BY <1>2, <1>3 DEF Unique, Contains
<1>6. NoNil(s) /\ x # Nil => NoNil(s2)'
  BY <1>2, <1>3 DEF NoNil
<1> QED BY <1>4, <1>5, <1>6

\* addImage stores the list with the image behind it.
LEMMA AddImageStep ==
    ASSUME ConductorInv, AddImage PROVE ConductorInv'
<1>1. PICK l, r, i, s, s2 : /\ l = my[Conductor] /\ r = l.reg /\ i = l.image /\ s = l.images
                            /\ s2 = Appended(s, i).slice
  OBVIOUS
<1>2. /\ pc[Conductor] = "addImage" /\ heap' = Appended(s, i).heap /\ imageList' = [imageList EXCEPT ![r] = s2]
      /\ adminLock' = Nil /\ BackToLoop
      /\ UNCHANGED <<running, pubs, subs, counters, regs, asked, sent, owner, available, lingering, closes>>
  BY <1>1 DEF AddImage, flags
<1>3. r \in RegIDs /\ i \in 1..MaxImages /\ owner[i] = r /\ adminLock = Conductor /\ Conductor \in Actors
  BY <1>1, <1>2, ActorFacts DEF ConductorInv, HandlerInv, OnImage
<1>4. r \in Int /\ r \in 0..MaxRegs /\ r # -1 /\ r # -2 /\ i \in Nat /\ i # Nil
  BY SMT, <1>3, ConductorAssumption DEF RegIDs, Nil
<1>5. s \in Slices /\ Known(s, r) /\ NoNil(s)
  BY <1>1, <1>3, KnownLocals DEF LocalsKnown, KnownImages, Locals
<1>6. s.arr \in 1..ArrayCount /\ s.len <= Size(s.arr)
  BY <1>5, KnownSize
<1>7. s2 \in Slices /\ s2.len = s.len + 1 /\ Grown(s.arr, s.len, i, s2.arr)
  BY <1>1, <1>2, <1>4, <1>5, <1>6, AppendGrows DEF ConductorInv, TypeInv
<1>8. EnvStep
  BY <1>2 DEF EnvStep, KindsGrow, ClosedGrow, OwnersGrow
<1>9. Belongs(i, r)'
  BY <1>2, <1>3 DEF Belongs
<1>10. PICK tag2 : GoodTags(tag2) /\ IsSlice(s2, r, tag2)'
  BY <1>4, <1>5, <1>7, <1>8, <1>9, GrownHeap
<1>11. /\ "loop" \in OutsideLabels /\ LocalsKnown(NoLocals) /\ NoLocals.back # "walk"
       /\ MoveTo(Conductor, "loop", NoLocals)
  BY <1>2, BackToLoopMoves
<1>12. PICK L : L = "loop"
  OBVIOUS
<1>13. /\ L \in PCs /\ L \notin {"push", "onAvailableImage", "addImage", "removeImage", "linger", "requeue"}
       /\ "addImage" \notin {"push", "removeImage", "linger", "requeue"}
  BY SMT, <1>12 DEF PCs, QuietLabels
<1>14. pc'[Conductor] = L /\ my'[Conductor] = NoLocals /\ OthersKept(Conductor)
  BY <1>3, <1>11, <1>12, <1>13, Moves DEF ConductorInv, TypeInv, LocalsKnown
<1>15. CallInv(Conductor)' /\ HandlerInv'
  BY <1>2, <1>3, <1>11, OutsideCalls
<1>16. \A q \in RegIDs : imageList'[q] = IF q = r THEN s2 ELSE imageList[q]
  BY <1>2 DEF ConductorInv, TypeInv, BaseType
<1>17. HeapInv'
  <2>1. NoNil(s2)'
    BY <1>4, <1>5, <1>7, GrownList
  <2>2. LocalsNext(NoLocals, tag2)
    BY <1>10, <1>11, KnownNext
  <2>3. \A q \in RegIDs : \A w : w = imageList'[q] => IsSlice(w, q, tag2)' /\ NoNil(w)'
    BY <1>10, <1>16, <2>1, KnownNext
  <2>4. (\A q : q = pubs' => IsSlice(q, -1, tag2)') /\ (\A q : q = subs' => IsSlice(q, -2, tag2)')
    BY <1>2, <1>10, KnownNext
  <2> QED BY <1>3, <1>10, <1>14, <2>2, <2>3, <2>4, ChangedHeap
<1>18. RegistryInv'
  <2>1. ASSUME NEW kind \in {"pub", "sub"}, NEW q \in Slices, q = SliceOf(kind) PROVE CellsKept(q)
    <3>1. PICK t : t = RegistryTag(kind)
      OBVIOUS
    <3>2. t \in Int /\ t # r
      BY <1>4, <3>1, Tag DEF RegistryTag
    <3>3. Known(q, t)
      BY <2>1, <3>1, SliceNow
    <3> QED BY <1>4, <1>5, <1>7, <3>2, <3>3, GrownApart
  <2>2. KeepsRegistry
    BY <2>1 DEF KeepsRegistry
  <2>3. CutsKept
    BY <1>2, <1>13, <1>14 DEF CutsKept, OthersKept
  <2>4. \A kind \in {"pub", "sub"} : Registered(kind)' = Registered(kind)
    BY <1>2 DEF Registered
  <2> QED BY <1>2, <1>8, <2>2, <2>3, <2>4, RegistryCells
<1>19. BaseType' /\ UnusedInv' /\ LockStep(Conductor)
  <2>1. imageList' \in [RegIDs -> Slices]
    BY <1>2, <1>7 DEF ConductorInv, TypeInv, BaseType
  <2> QED BY <1>2, <1>3, <2>1 DEF ConductorInv, TypeInv, BaseType, UnusedInv, LockStep
<1>20. \A x : Released(x)' => Released(x)
  BY <1>2, <1>13, <1>14, ReleasedKept
<1>21. ASSUME NEW q \in RegIDs, IsOpen(q)
       PROVE  /\ Unique(imageList[q])'
              /\ \A j : Contains(imageList[q], j)' => Contains(imageList[q], j) \/ (q = r /\ j = i)
  <2>1. PICK w : w = imageList[q]
    OBVIOUS
  <2>2. w \in Slices /\ Known(w, q) /\ Unique(w)
    BY <1>2, <1>13, <1>21, <2>1, ListNow DEF KnownImages, ConductorInv, LingerInv, ImagesInv, List
  <2>3. CASE q = r
    <3>1. s = w /\ ~Contains(w, i) /\ imageList'[q] = s2
      BY <1>1, <1>2, <1>16, <1>21, <2>1, <2>3 DEF ConductorInv, LingerInv, AddingInv
    <3>2. Unique(s2)' /\ \A j : Contains(s2, j)' => j = i \/ Contains(w, j)
      BY <1>5, <1>7, <2>2, <3>1, GrownList
    <3> QED BY <2>1, <2>3, <3>1, <3>2 DEF Unique, Contains
  <2>4. CASE q # r
    <3>1. q \in Int
      BY SMT DEF RegIDs
    <3>2. CellsKept(w) /\ imageList'[q] = w
      BY <1>4, <1>5, <1>7, <1>16, <2>1, <2>2, <2>4, <3>1, GrownApart
    <3> QED BY <2>1, <2>2, <3>2 DEF Unique, Contains, CellsKept
  <2> QED BY <2>3, <2>4
<1>22. ImagesInv'
  <2>1. ASSUME NEW j \in 1..MaxImages, Released(Image(j))'
        PROVE  owner'[j] # Nil /\ (IsOpen(owner[j])' => ~Contains(imageList[owner[j]], j)')
    <3>1. PICK q : q = owner[j]
      OBVIOUS
    <3>2. q # Nil /\ Released(Image(j)) /\ owner'[j] = q /\ (IsOpen(q) => ~Contains(imageList[q], j))
      BY <1>2, <1>20, <2>1, <3>1 DEF ConductorInv, LingerInv, ImagesInv
    <3>3. q \in RegIDs
      BY SMT, <3>1, <3>2, ConductorAssumption DEF RegIDs, Nil, ConductorInv, TypeInv, BaseType
    <3>4. ASSUME IsOpen(q)' PROVE ~Contains(imageList[q], j)'
      <4>1. IsOpen(q)
        BY <1>2, <3>4 DEF IsOpen
      <4>2. q = r => j # i
        BY <1>1, <1>2, <3>2, <4>1 DEF ConductorInv, LingerInv, AddingInv
      <4> QED BY <1>21, <3>2, <3>3, <4>1, <4>2
    <3> QED BY <3>2, <3>4 DEF IsOpen, Contains
  <2>2. ASSUME NEW q \in RegIDs, IsOpen(q)' PROVE Unique(List(q))'
    <3>1. IsOpen(q) /\ List(q)' = imageList'[q]
      BY <1>2, <1>13, <1>14, <2>2 DEF IsOpen, List
    <3>2. Unique(imageList[q])'
      BY <1>21, <3>1
    <3> QED BY <3>1, <3>2 DEF Unique
  <2> QED BY <2>1, <2>2 DEF ImagesInv
<1>23. LingerInv'
  <2>1. LogsInv'
    BY <1>2, <1>20 DEF ConductorInv, LingerInv, LogsInv
  <2> QED BY <1>13, <1>14, <1>22, <2>1 DEF LingerInv, AddingInv, RemovingInv
<1>24. HeapType' /\ NoLocals \in Locals
  BY <1>7, <1>11 DEF Grown, LocalsKnown
<1> QED BY <1>3, <1>8, <1>11, <1>12, <1>13, <1>15, <1>17, <1>18, <1>19, <1>23, <1>24, AnyStep

-----------------------------------------------------------------------------
(* An image that becomes unavailable.                                      *)

\* The list x was taken out of, before (s) and after (s2) it is cut.
LEMMA ShrunkList ==
    ASSUME NEW s \in Slices, NEW s2 \in Slices, NEW x, NEW last, s.len # 0, s.len <= Size(s.arr),
           Size(s.arr) \in Nat, s2.arr = s.arr, s2.len = s.len - 1,
           last = Cell(s.arr, s.len), Shrunk(s.arr, s.len, x, last)
    PROVE  /\ \A y : Contains(s, y)' => Contains(s, y)
           /\ Unique(s) => Unique(s2)' /\ ~Contains(s2, x)'
<1>1. PICK A, n : A = s.arr /\ n = s.len
  OBVIOUS
<1>2. n \in Nat /\ n # 0 /\ n <= Size(A) /\ s2.arr = A /\ s2.len = n - 1 /\ Size(A) \in Nat
  BY <1>1 DEF Slices
<1>3. /\ n \in 1..n /\ (\A k \in 1..n : k \in 1..Size(A))
      /\ \A k \in 1..(n - 1) : k \in 1..n /\ k # n /\ k \in 1..Size(A)
  BY SMT, <1>2
<1>4. PICK j \in 1..n : /\ Cell(A, j) = x /\ (j # n => Cell(A, j)' = Cell(A, n))
                        /\ \A k \in 1..Size(A) : (k # j /\ k # n) => Cell(A, k)' = Cell(A, k)
  BY <1>1 DEF Shrunk
<1>5. Cell(A, n)' = Cell(A, n)
  BY <1>1 DEF Shrunk
<1>6. \A k \in 1..n : Cell(A, k)' = Cell(A, k) \/ (k = j /\ Cell(A, k)' = Cell(A, n))
  BY <1>3, <1>4, <1>5
<1>7. \A y : Contains(s, y)' => Contains(s, y)
  BY <1>1, <1>3, <1>6 DEF Contains
<1>8. ASSUME Unique(s) PROVE Unique(s2)' /\ ~Contains(s2, x)'
  <2>1. \A k, m \in 1..n : Cell(A, k) = Cell(A, m) => k = m
    BY <1>1, <1>8 DEF Unique
  <2>2. \A k \in 1..(n - 1) : Cell(A, k)' = (IF k = j THEN Cell(A, n) ELSE Cell(A, k))
    BY <1>3, <1>4
  <2>3. \A k, m \in 1..(n - 1) : Cell(A, k)' = Cell(A, m)' => k = m
    BY <1>3, <2>1, <2>2
  <2>4. \A k \in 1..(n - 1) : Cell(A, k)' # x
    BY <1>3, <1>4, <2>1, <2>2
  <2> QED BY <1>2, <2>3, <2>4 DEF Unique, Contains
<1> QED BY <1>7, <1>8

\* The subscription is there, and the image is in its list: the last one takes its place.
ImageMoved(l, r, i, s, last, s2, M) ==
    /\ l = my[Conductor] /\ r = l.reg /\ i = l.image /\ s = imageList[r] /\ last = heap[s.arr][s.len]
    /\ s2 = [s EXCEPT !.len = s.len - 1] /\ M = [l EXCEPT !.images = s2, !.item = Fresh(Image(i))]
    /\ pc[Conductor] = "onUnavailableImage" /\ adminLock = Nil /\ adminLock' = Conductor /\ i \in Entries(s)
    /\ heap' = Moved(s, i, last) /\ MoveTo(Conductor, "removeImage", M)
    /\ UNCHANGED <<running, pubs, subs, counters, regs, asked, sent, imageList, owner, available,
                   lingering, closes>>

LEMMA ImageMovedStep ==
    ASSUME ConductorInv, NEW l, NEW r, NEW i, NEW s, NEW last, NEW s2, NEW M, ImageMoved(l, r, i, s, last, s2, M)
    PROVE  ConductorInv'
<1>now. /\ l = my[Conductor] /\ r = l.reg /\ i = l.image /\ s = imageList[r] /\ last = heap[s.arr][s.len]
        /\ pc[Conductor] = "onUnavailableImage" /\ adminLock = Nil /\ i \in Entries(s)
  BY DEF ImageMoved
<1>kept. /\ running' = running /\ pubs' = pubs /\ subs' = subs /\ counters' = counters /\ regs' = regs
         /\ asked' = asked /\ sent' = sent /\ imageList' = imageList /\ owner' = owner /\ available' = available
         /\ lingering' = lingering /\ closes' = closes /\ adminLock' = Conductor
  BY DEF ImageMoved
<1>moved. heap' = Moved(s, i, last) /\ MoveTo(Conductor, "removeImage", M)
  BY DEF ImageMoved
<1>1. r \in RegIDs /\ i \in 1..MaxImages /\ owner[i] = r /\ Conductor \in Actors
  BY <1>now, ActorFacts DEF ConductorInv, HandlerInv, OnImage
<1>2. r \in Int /\ r \in 0..MaxRegs /\ r # -1 /\ r # -2 /\ i \in Nat /\ i # Nil
  BY SMT, <1>1, ConductorAssumption DEF RegIDs, Nil
<1>3. s \in Slices /\ Known(s, r) /\ NoNil(s) /\ KnownImages(s, r)
  BY <1>now, <1>1, ListNow DEF KnownImages
<1>4. s.arr \in 1..ArrayCount /\ s.len <= Size(s.arr) /\ Size(s.arr) \in Nat /\ s.len \in Nat
  BY <1>3, KnownSize
<1>5. s.len # 0 /\ s.len \in 1..s.len /\ s.len \in 1..Size(s.arr) /\ (\A k \in 1..(s.len - 1) : k \in 1..s.len)
      /\ s.len - 1 <= s.len /\ s.len - 1 \in Nat /\ s.len - 1 <= Size(s.arr) /\ (s.len - 1) + 1 = s.len
  <2>1. PICK k \in 1..s.len : heap[s.arr][k] = i
    BY <1>now DEF Entries
  <2> QED BY SMT, <1>4, <2>1
<1>6. last = Cell(s.arr, s.len) /\ last \in Nat /\ last # Nil
  BY <1>now, <1>3, <1>4, <1>5, HeapTypes DEF Cell, NoNil, ConductorInv, TypeInv
<1>7. Shrunk(s.arr, s.len, i, last)
  BY <1>now, <1>moved, <1>3, <1>4, <1>6, RemovalShrinks DEF ConductorInv, TypeInv
<1>8. EnvStep
  BY <1>kept DEF EnvStep, KindsGrow, ClosedGrow, OwnersGrow
<1>9. PICK tag2 : GoodTags(tag2)
  BY <1>2, <1>3, <1>5, <1>6, <1>7, <1>8, ShrunkHeap
<1>10. s2 \in Slices /\ s2.arr = s.arr /\ s2.len = s.len - 1 /\ KnownImages(s2, r)
  <2>1. s2 \in Slices /\ s2.arr = s.arr /\ s2.len = s.len - 1
    <3>1. s2 = [s EXCEPT !.len = s.len - 1]
      BY DEF ImageMoved
    <3> QED BY <1>3, <1>5, <3>1 DEF Slices
  <2>2. Known(s2, r)
    <3>1. \A tag \in Tags : IsSlice(s, r, tag) => IsSlice(s2, r, tag)
      BY <1>5, <2>1 DEF IsSlice
    <3> QED BY <1>3, <3>1 DEF Known
  <2>3. NoNil(s2)
    BY <1>3, <1>5, <2>1 DEF NoNil
  <2> QED BY <2>1, <2>2, <2>3 DEF KnownImages
<1>11. /\ LocalsKnown(M) /\ M.reg = r /\ M.image = i /\ M.images = s2 /\ M.item.resource = Image(i)
       /\ M.back = l.back /\ M.index = l.index
  <2>1. PICK N, e : N = [l EXCEPT !.images = s2] /\ e = Fresh(Image(i))
    OBVIOUS
  <2>2. e \in Items /\ e.resource = Image(i)
    <3>1. Image(i) \in Resources
      BY <1>1, ResourceFacts
    <3> QED BY SMT, <2>1, <3>1 DEF Fresh, Items
  <2>3. LocalsKnown(l) /\ LocalsKnown(N)
    BY <1>now, <1>1, <1>10, <2>1, KnownLocals, LocalsUpdates
  <2>4. M = [N EXCEPT !.item = e]
    BY <2>1 DEF ImageMoved
  <2>5. LocalsKnown(M)
    BY <2>2, <2>3, <2>4, LocalsUpdates
  <2>6. N.reg = r /\ N.image = i /\ N.images = s2 /\ N.back = l.back /\ N.index = l.index
    BY <1>now, <2>1, <2>3 DEF LocalsKnown, Locals
  <2> QED BY <2>2, <2>3, <2>4, <2>5, <2>6 DEF LocalsKnown, Locals
<1>12. PICK L : L = "removeImage"
  OBVIOUS
<1>13. /\ L \in PCs /\ L \notin {"empty", "emptySet", "release", "lock", "push", "walk"}
       /\ L \notin {"onReady", "onErrorResponse", "onAvailableImage", "addImage", "linger", "requeue"}
       /\ "onUnavailableImage" # "push" /\ "onUnavailableImage" # "removeImage"
  BY SMT, <1>12 DEF PCs, QuietLabels
<1>14. pc'[Conductor] = L /\ my'[Conductor] = M /\ OthersKept(Conductor)
  BY <1>moved, <1>1, <1>11, <1>12, <1>13, Moves DEF ConductorInv, TypeInv, LocalsKnown
<1>15. CallInv(Conductor)'
  <2>1. M.back = "walk" => ~running' /\ M.index \in Nat \ {0}
    BY <1>now, <1>kept, <1>1, <1>11 DEF ConductorInv, CallInv
  <2> QED BY <1>13, <1>14, <2>1 DEF CallInv, InClose
<1>16. HandlerInv'
  BY <1>kept, <1>1, <1>11, <1>13, <1>14 DEF HandlerInv, OnImage
<1>17. HeapInv'
  <2>1. LocalsNext(M, tag2)
    BY <1>9, <1>11, KnownNext
  <2>2. \A q \in RegIDs : \A w : w = imageList'[q] => IsSlice(w, q, tag2)' /\ NoNil(w)'
    BY <1>kept, <1>9, KnownNext
  <2>3. (\A q : q = pubs' => IsSlice(q, -1, tag2)') /\ (\A q : q = subs' => IsSlice(q, -2, tag2)')
    BY <1>kept, <1>9, KnownNext
  <2> QED BY <1>1, <1>9, <1>14, <2>1, <2>2, <2>3, ChangedHeap
<1>18. ASSUME NEW q \in Slices, NEW t \in Int, Known(q, t), t # r PROVE CellsKept(q)
  BY <1>2, <1>3, <1>5, <1>7, <1>18, ShrunkApart
<1>19. RegistryInv'
  <2>1. KeepsRegistry
    <3>1. ASSUME NEW kind \in {"pub", "sub"}, NEW q \in Slices, q = SliceOf(kind) PROVE CellsKept(q)
      <4>1. PICK t : t = RegistryTag(kind)
        OBVIOUS
      <4>2. t \in Int /\ t # r
        BY <1>2, <4>1, Tag DEF RegistryTag
      <4> QED BY <1>18, <3>1, <4>1, <4>2, SliceNow
    <3> QED BY <3>1 DEF KeepsRegistry
  <2>2. CutsKept
    BY <1>now, <1>13, <1>14 DEF CutsKept, OthersKept
  <2>3. \A kind \in {"pub", "sub"} : Registered(kind)' = Registered(kind)
    BY <1>kept DEF Registered
  <2> QED BY <1>kept, <1>8, <2>1, <2>2, <2>3, RegistryCells
<1>20. BaseType' /\ UnusedInv' /\ LockStep(Conductor)
  BY <1>now, <1>kept, <1>1 DEF ConductorInv, TypeInv, BaseType, UnusedInv, LockStep
<1>21. \A x : Released(x)' => Released(x)
  BY <1>kept, <1>13, <1>14, ReleasedKept
<1>22. ASSUME NEW q \in RegIDs, IsOpen(q)
       PROVE  /\ \A j : Contains(imageList[q], j)' => Contains(imageList[q], j)
              /\ q # r => Unique(imageList[q])'
              /\ q = r => Unique(s2)' /\ ~Contains(s2, i)'
  <2>1. PICK w : w = imageList[q]
    OBVIOUS
  <2>2. w \in Slices /\ Known(w, q) /\ Unique(w)
    BY <1>now, <1>13, <1>22, <2>1, ListNow DEF KnownImages, ConductorInv, LingerInv, ImagesInv, List
  <2>3. CASE q = r
    <3>1. /\ \A j : Contains(s, j)' => Contains(s, j)
          /\ Unique(s2)' /\ ~Contains(s2, i)'
      BY <1>now, <1>3, <1>4, <1>5, <1>6, <1>7, <1>10, <2>1, <2>2, <2>3, ShrunkList
    <3> QED BY <1>now, <1>kept, <2>3, <3>1 DEF Contains
  <2>4. CASE q # r
    <3>1. q \in Int
      BY SMT, <1>22 DEF RegIDs
    <3>2. CellsKept(w)
      BY <1>18, <2>2, <2>4, <3>1
    <3>3. \A k \in 1..w.len : Cell(w.arr, k)' = Cell(w.arr, k)
      BY <3>2 DEF CellsKept
    <3>4. Unique(w)' /\ \A j : Contains(w, j)' => Contains(w, j)
      BY <2>2, <3>3 DEF Unique, Contains
    <3>5. imageList'[q] = w
      BY <1>kept, <2>1
    <3> QED BY <2>1, <2>4, <3>4, <3>5 DEF Unique, Contains
  <2> QED BY <2>3, <2>4
<1>23. ImagesInv'
  <2>1. ASSUME NEW j \in 1..MaxImages, Released(Image(j))'
        PROVE  owner'[j] # Nil /\ (IsOpen(owner[j])' => ~Contains(imageList[owner[j]], j)')
    <3>1. PICK q : q = owner[j]
      OBVIOUS
    <3>2. q # Nil /\ owner'[j] = q /\ (IsOpen(q) => ~Contains(imageList[q], j))
      BY <1>kept, <1>21, <2>1, <3>1 DEF ConductorInv, LingerInv, ImagesInv
    <3>3. q \in RegIDs
      BY SMT, <3>1, <3>2, ConductorAssumption DEF RegIDs, Nil, ConductorInv, TypeInv, BaseType
    <3>4. ASSUME IsOpen(q)' PROVE ~Contains(imageList[q], j)'
      <4>1. IsOpen(q)
        BY <1>kept, <3>4 DEF IsOpen
      <4> QED BY <1>22, <3>2, <3>3, <4>1
    <3> QED BY <1>kept, <3>1, <3>2, <3>4 DEF IsOpen, Contains
  <2>2. ASSUME NEW q \in RegIDs, IsOpen(q)' PROVE Unique(List(q))'
    <3>1. IsOpen(q)
      BY <1>kept, <2>2 DEF IsOpen
    <3>2. CASE q = r
      <4>1. List(q)' = s2
        BY <1>11, <1>12, <1>14, <3>2 DEF List
      <4>2. Unique(s2)'
        BY <1>22, <3>1, <3>2
      <4> QED BY <4>1, <4>2 DEF Unique
    <3>3. CASE q # r
      <4>1. List(q)' = imageList'[q]
        BY <1>11, <1>14, <3>3 DEF List
      <4>2. Unique(imageList[q])'
        BY <1>22, <3>1, <3>3
      <4> QED BY <4>1, <4>2 DEF Unique
    <3> QED BY <3>2, <3>3
  <2> QED BY <2>1, <2>2 DEF ImagesInv
<1>24. LingerInv'
  <2>1. LogsInv'
    BY <1>kept, <1>21 DEF ConductorInv, LingerInv, LogsInv
  <2>2. AddingInv'
    BY <1>13, <1>14 DEF AddingInv
  <2>3. IsOpen(r)' => ~Contains(s2, i)' /\ s2.arr = imageList'[r].arr /\ s2.len + 1 = imageList'[r].len
    BY <1>now, <1>kept, <1>1, <1>5, <1>10, <1>22 DEF IsOpen
  <2>4. RemovingInv'
    BY <1>11, <1>14, <2>3 DEF RemovingInv, Contains
  <2> QED BY <1>23, <2>1, <2>2, <2>4 DEF LingerInv
<1>25. HeapType' /\ M \in Locals
  BY <1>7, <1>11 DEF Shrunk, LocalsKnown
<1> QED BY <1>moved, <1>1, <1>8, <1>12, <1>13, <1>15, <1>16, <1>17, <1>19, <1>20, <1>24, <1>25, AnyStep

LEMMA OnUnavailableImageStep ==
    ASSUME ConductorInv, OnUnavailableImage PROVE ConductorInv'
<1>1. PICK l, r, i, s, last, s2 :
          /\ l = my[Conductor] /\ r = l.reg /\ i = l.image /\ s = imageList[r]
          /\ last = heap[s.arr][s.len] /\ s2 = [s EXCEPT !.len = s.len - 1]
  OBVIOUS
<1>2. /\ pc[Conductor] = "onUnavailableImage" /\ adminLock = Nil
      /\ UNCHANGED <<running, pubs, subs, counters, regs, asked, sent, imageList, owner, available,
                     lingering, closes>>
  BY DEF OnUnavailableImage, Handling, flags, imageVars
<1>3. r \in RegIDs /\ i \in 1..MaxImages /\ owner[i] = r /\ Conductor \in Actors
  BY <1>1, <1>2, ActorFacts DEF ConductorInv, HandlerInv, OnImage
<1>4. CASE ~Listed(r)
  <2>1. BackToLoop /\ UNCHANGED <<heap, adminLock>>
    BY <1>1, <1>4 DEF OnUnavailableImage
  <2>2. /\ "loop" \in OutsideLabels /\ LocalsKnown(NoLocals) /\ NoLocals.back # "walk"
        /\ MoveTo(Conductor, "loop", NoLocals) /\ pc[Conductor] \in QuietLabels
    BY <1>2, <2>1, BackToLoopMoves DEF QuietLabels
  <2> QED BY <1>2, <1>3, <2>1, <2>2, OutsideStep, TypesNow
<1>5. CASE Listed(r) /\ i \in Entries(s)
  <2>1. PICK M : M = [l EXCEPT !.images = s2, !.item = Fresh(Image(i))]
    OBVIOUS
  <2>2. MoveTo(Conductor, "removeImage", M)
    <3>1. PICK f, g : f = [my EXCEPT ![Conductor].images = s2] /\ g = [f EXCEPT ![Conductor].item = Fresh(Image(i))]
      OBVIOUS
    <3>2. /\ Goto(Conductor, "removeImage")
          /\ my' = [my EXCEPT ![Conductor].images = s2, ![Conductor].item = Fresh(Image(i))]
      BY <1>1, <1>5 DEF OnUnavailableImage, RemovedImage
    <3>3. Conductor \in DOMAIN my /\ f[Conductor] = [l EXCEPT !.images = s2] /\ DOMAIN f = DOMAIN my
      BY <1>1, <1>3, <3>1 DEF ConductorInv, TypeInv, LocalsType
    <3>4. g = [my EXCEPT ![Conductor] = M]
      BY <1>1, <2>1, <3>1, <3>3
    <3>5. my' = g
      BY <3>1, <3>2
    <3> QED BY <3>2, <3>4, <3>5 DEF Goto, MoveTo
  <2>3. adminLock' = Conductor /\ heap' = Moved(s, i, last)
    BY <1>1, <1>5 DEF OnUnavailableImage
  <2>4. ImageMoved(l, r, i, s, last, s2, M)
    BY <1>1, <1>2, <1>5, <2>1, <2>2, <2>3 DEF ImageMoved
  <2> QED BY <2>4, ImageMovedStep
<1>6. CASE Listed(r) /\ i \notin Entries(s)
  <2>1. PICK M, L, e : M = [l EXCEPT !.item = e] /\ L = "linger" /\ e = Fresh(NoImage)
    OBVIOUS
  <2>2. adminLock' = Conductor /\ heap' = heap /\ MoveTo(Conductor, L, M)
    BY <1>1, <1>6, <2>1 DEF OnUnavailableImage, Goto, MoveTo
  <2>3. e \in Items /\ e.resource = NoImage
    BY SMT, <2>1 DEF Fresh, Items
  <2>4. LocalsKnown(l) /\ LocalsKnown(M) /\ M.item = e /\ M.back = l.back /\ M.index = l.index
    <3>1. LocalsKnown(l) /\ LocalsKnown(M)
      BY <1>1, <1>3, <2>1, <2>3, KnownLocals, LocalsUpdates
    <3> QED BY <2>1, <3>1 DEF LocalsKnown, Locals
  <2>5. /\ L \in PCs /\ L \notin {"empty", "emptySet", "release", "lock", "push", "walk"}
        /\ L \notin {"onReady", "onErrorResponse", "onAvailableImage", "addImage", "onUnavailableImage", "removeImage"}
        /\ "onUnavailableImage" # "push" /\ "onUnavailableImage" # "removeImage"
    BY SMT, <2>1 DEF PCs, QuietLabels
  <2>6. pc'[Conductor] = L /\ my'[Conductor] = M
    BY <1>3, <2>2, <2>4, <2>5, Moves DEF ConductorInv, TypeInv, LocalsKnown
  <2>7. CallInv(Conductor)'
    <3>1. M.back = "walk" => ~running' /\ M.index \in Nat \ {0}
      BY <1>1, <1>2, <1>3, <2>4 DEF ConductorInv, CallInv
    <3> QED BY <2>5, <2>6, <3>1 DEF CallInv, InClose
  <2>8. HandlerInv'
    BY <2>2, <2>5, <2>6 DEF HandlerInv, OnImage
  <2>9. BaseType' /\ LockStep(Conductor) /\ EnvStep
    BY <1>2, <1>3, <2>2
       DEF ConductorInv, TypeInv, BaseType, LockStep, EnvStep, KindsGrow, ClosedGrow, OwnersGrow
  <2>10. \A x \in Resources : Released(x)' => Released(x)
    <3>1. \A x \in Resources : x # NoImage
      BY SMT DEF Resources, Log, Image, NoImage
    <3> QED BY <1>2, <2>3, <2>4, <2>6, <3>1 DEF Released
  <2>11. LingerInv'
    BY <1>2, <2>2, <2>5, <2>6, <2>9, <2>10, ResourceFacts, LingerStep
  <2>12. \A q \in RegIDs : KnownImages(imageList'[q], q)
    BY <1>2, ListNow
  <2> QED BY <1>2, <1>3, <2>2, <2>4, <2>5, <2>7, <2>8, <2>9, <2>11, <2>12, KeptStep
<1> QED BY <1>4, <1>5, <1>6

-----------------------------------------------------------------------------
(* The registry: an entry is added, and an entry is taken out.             *)

LEMMA ExactGrows ==
    ASSUME NEW kind, NEW A, NEW B, NEW n \in Nat, NEW x, Exact(A, n, kind), Grown(A, n, x, B),
           x \notin Registered(kind), Registered(kind)' = Registered(kind) \cup {x}
    PROVE  Exact(B, n + 1, kind)'
<1>1. (\A k \in 1..(n + 1) : k = n + 1 \/ k \in 1..n) /\ (\A k \in 1..n : k \in 1..(n + 1)) /\ n + 1 \in 1..(n + 1)
  BY SMT
<1>2. Cell(B, n + 1)' = x /\ \A k \in 1..n : Cell(B, k)' = Cell(A, k)
  BY DEF Grown
<1>3. \A y : y \in Registered(kind)' <=> y \in Registered(kind) \/ y = x
  OBVIOUS
<1>4. \A k \in 1..(n + 1) : Cell(B, k)' \in Registered(kind)'
  BY <1>1, <1>2, <1>3 DEF Exact
<1>5. \A r \in Registered(kind)' : \E k \in 1..(n + 1) : Cell(B, k)' = r
  BY <1>1, <1>2, <1>3 DEF Exact
<1>6. ASSUME NEW i \in 1..(n + 1), NEW j \in 1..(n + 1), Cell(B, i)' = Cell(B, j)' PROVE i = j
  <2>1. \A k \in 1..n : Cell(B, k)' = Cell(A, k) /\ Cell(A, k) \in Registered(kind) /\ Cell(A, k) # x
    BY <1>2 DEF Exact
  <2>2. CASE i \in 1..n /\ j \in 1..n
    BY <1>6, <2>1, <2>2 DEF Exact
  <2>3. CASE i = n + 1 /\ j \in 1..n
    BY <1>2, <1>6, <2>1, <2>3
  <2>4. CASE j = n + 1 /\ i \in 1..n
    BY <1>2, <1>6, <2>1, <2>4
  <2> QED BY <1>1, <2>2, <2>3, <2>4
<1> QED BY <1>4, <1>5, <1>6 DEF Exact

LEMMA ExactShrinks ==
    ASSUME NEW kind, NEW A, NEW n \in Nat, n # 0, n <= Size(A), Size(A) \in Nat, NEW x, NEW last,
           Exact(A, n, kind), Shrunk(A, n, x, last), Registered(kind)' = Registered(kind) \ {x}
    PROVE  Exact(A, n - 1, kind)'
<1>1. PICK j \in 1..n : /\ Cell(A, j) = x /\ (j # n => Cell(A, j)' = Cell(A, n))
                        /\ \A k \in 1..Size(A) : (k # j /\ k # n) => Cell(A, k)' = Cell(A, k)
  BY DEF Shrunk
<1>2. /\ n \in 1..n /\ (\A k \in 1..(n - 1) : k \in 1..n /\ k # n /\ k \in 1..Size(A))
      /\ \A k \in 1..n : k = n \/ k \in 1..(n - 1)
  BY SMT
<1>3. \A k \in 1..(n - 1) : Cell(A, k)' = (IF k = j THEN Cell(A, n) ELSE Cell(A, k))
  BY <1>1, <1>2
<1>4. \A y : y \in Registered(kind)' <=> y \in Registered(kind) /\ y # x
  OBVIOUS
<1>5. \A k, m \in 1..n : Cell(A, k) = Cell(A, m) => k = m
  BY DEF Exact
<1>6. ASSUME NEW k \in 1..(n - 1) PROVE Cell(A, k)' \in Registered(kind)'
  <2>1. CASE k = j
    BY <1>1, <1>2, <1>3, <1>4, <1>5, <2>1 DEF Exact
  <2>2. CASE k # j
    <3>1. Cell(A, k)' = Cell(A, k) /\ k \in 1..n
      BY <1>2, <1>3, <2>2
    <3>2. Cell(A, k) \in Registered(kind) /\ Cell(A, k) # x
      BY <1>1, <1>5, <2>2, <3>1 DEF Exact
    <3> QED BY <1>4, <3>1, <3>2
  <2> QED BY <2>1, <2>2
<1>7. ASSUME NEW r \in Registered(kind)' PROVE \E k \in 1..(n - 1) : Cell(A, k)' = r
  <2>1. r \in Registered(kind) /\ r # x
    BY <1>4, <1>7
  <2>2. PICK m \in 1..n : Cell(A, m) = r
    BY <2>1 DEF Exact
  <2>3. CASE m = n
    <3>1. j \in 1..(n - 1) /\ Cell(A, j)' = r
      BY <1>1, <1>2, <1>3, <2>1, <2>2, <2>3
    <3> QED BY <3>1
  <2>4. CASE m # n
    <3>1. m \in 1..(n - 1) /\ Cell(A, m)' = r
      BY <1>1, <1>2, <1>3, <2>1, <2>2, <2>4
    <3> QED BY <3>1
  <2> QED BY <2>3, <2>4
<1>8. \A k, m \in 1..(n - 1) : Cell(A, k)' = Cell(A, m)' => k = m
  BY <1>2, <1>3, <1>5
<1> QED BY <1>6, <1>7, <1>8 DEF Exact

\* The lock is free: nobody is between the removal of an entry and the cut.
LEMMA NobodyCuts ==
    ASSUME ConductorInv, adminLock = Nil
    PROVE  /\ \A b \in Actors : pc[b] # "push"
           /\ running => \A kind \in {"pub", "sub"} : Exact(SliceOf(kind).arr, SliceOf(kind).len, kind)
<1>1. \A b \in Actors : pc[b] # "push"
  BY ActorFacts DEF ConductorInv, CallInv
<1>2. \A b \in Actors, kind \in {"pub", "sub"} : ~Cutting(b, kind)
  BY <1>1 DEF Cutting
<1> QED BY <1>1, <1>2 DEF ConductorInv, RegistryInv

LEMMA AddStep ==
    ASSUME ConductorInv, NEW u \in Users, NEW r \in RegIDs, NEW kind \in {"pub", "sub"}, Register(u, kind, r),
           NEW s, s = SliceOf(kind), NEW s2, s2 = Appended(s, r).slice,
           heap' = Appended(s, r).heap, SetSlice(kind, s2), pc' = pc
    PROVE  ConductorInv'
<1>1. /\ UNCHANGED <<running, adminLock, counters, sent, imageList, owner, available, lingering, closes, my>>
      /\ pc[u] = "idle" /\ adminLock = Nil
  BY DEF Register, flags, imageVars, SetSlice
<1>2. /\ regs' \in [RegIDs -> Registrations] /\ KindsGrow /\ ClosedGrow /\ UnusedInv' /\ asked' \subseteq RegIDs
      /\ regs'[r].kind = kind /\ (\A q \in RegIDs : regs'[q].closed = regs[q].closed)
      /\ Registered(kind)' = Registered(kind) \cup {r} /\ r \notin Registered(kind)
      /\ \A other \in {"pub", "sub"} \ {kind} : Registered(other)' = Registered(other)
  <2>1. kind \in {"pub", "sub", "counter"}
    OBVIOUS
  <2> QED BY <2>1, NewRegistration
<1>3. PICK t : t = RegistryTag(kind)
  OBVIOUS
<1>4. /\ t \in Int /\ t \notin 0..MaxRegs /\ r \in Nat /\ r # Nil
      /\ (kind = "pub" /\ t = -1) \/ (kind = "sub" /\ t = -2)
  BY SMT, <1>3, ConductorAssumption DEF RegistryTag, RegIDs, Nil
<1>5. s \in Slices /\ Known(s, t)
  BY <1>3, SliceNow
<1>6. s.arr \in 1..ArrayCount /\ s.len <= Size(s.arr) /\ s.len \in Nat
  BY <1>5, KnownSize
<1>7. s2 \in Slices /\ s2.len = s.len + 1 /\ Grown(s.arr, s.len, r, s2.arr)
  BY <1>4, <1>5, <1>6, AppendGrows DEF ConductorInv, TypeInv
<1>8. EnvStep /\ LockStep(u)
  BY <1>1, <1>2 DEF EnvStep, OwnersGrow, LockStep
<1>9. Belongs(r, t)'
  BY <1>2, <1>4 DEF Belongs
<1>10. PICK tag2 : GoodTags(tag2) /\ IsSlice(s2, t, tag2)'
  BY <1>4, <1>5, <1>7, <1>8, <1>9, GrownHeap
<1>11. PICK M : M = my[u]
  OBVIOUS
<1>12. LocalsKnown(M) /\ u \in Actors /\ "idle" \in OutsideLabels
  BY <1>11, KnownLocals, ActorFacts DEF OutsideLabels
<1>13. MoveTo(u, "idle", M)
  BY <1>1, <1>11 DEF MoveTo, ConductorInv, TypeInv, LocalsType
<1>14. "idle" \in QuietLabels /\ "idle" \in PCs /\ CallInv(u)' /\ (u = Conductor => HandlerInv')
  BY <1>1, <1>11, <1>12, <1>13, OutsideCalls, Labels
<1>15. /\ SliceOf(kind)' = s2 /\ \A k \in {"pub", "sub"} : k # kind => SliceOf(k)' = SliceOf(k)
       /\ kind = "pub" => pubs' = s2 /\ subs' = subs
       /\ kind = "sub" => subs' = s2 /\ pubs' = pubs
  BY Tag DEF SetSlice, SliceOf
<1>16. HeapInv'
  <2>1. OthersKept(u) /\ my'[u] = M
    BY <1>1, <1>11 DEF OthersKept
  <2>2. LocalsNext(M, tag2)
    BY <1>10, <1>12, KnownNext
  <2>3. \A q \in RegIDs : \A w : w = imageList'[q] => IsSlice(w, q, tag2)' /\ NoNil(w)'
    BY <1>1, <1>10, KnownNext
  <2>4. \A q : q = pubs' => IsSlice(q, -1, tag2)'
    BY <1>4, <1>10, <1>15, KnownNext
  <2>5. \A q : q = subs' => IsSlice(q, -2, tag2)'
    BY <1>4, <1>10, <1>15, KnownNext
  <2> QED BY <1>10, <1>12, <2>1, <2>2, <2>3, <2>4, <2>5, ChangedHeap
<1>17. RegistryInv'
  <2> SUFFICES ASSUME running', NEW k \in {"pub", "sub"} PROVE Exact(SliceOf(k).arr, SliceOf(k).len, k)'
    BY <1>1, NobodyCuts DEF RegistryInv, Cutting
  <2>1. running /\ \A q \in {"pub", "sub"} : Exact(SliceOf(q).arr, SliceOf(q).len, q)
    BY <1>1, NobodyCuts
  <2>2. CASE k = kind
    <3>1. Exact(s.arr, s.len, k)
      BY <2>1, <2>2
    <3>2. Exact(s2.arr, s.len + 1, k)'
      BY <1>2, <1>6, <1>7, <2>2, <3>1, ExactGrows
    <3>3. SliceOf(k)'.arr = s2.arr /\ SliceOf(k)'.len = s.len + 1
      BY <1>7, <1>15, <2>2
    <3> QED BY SMT, <3>2, <3>3 DEF Exact
  <2>3. CASE k # kind
    <3>1. PICK w, p : w = SliceOf(k) /\ p = RegistryTag(k)
      OBVIOUS
    <3>2. p \in Int /\ p # t
      BY SMT, <1>3, <2>3, <3>1 DEF RegistryTag
    <3>3. w \in Slices /\ Known(w, p) /\ Exact(w.arr, w.len, k)
      BY <2>1, <3>1, SliceNow
    <3>4. \A m \in 1..w.len : Cell(w.arr, m)' = Cell(w.arr, m)
      BY <1>4, <1>5, <1>7, <3>2, <3>3, GrownApart DEF CellsKept
    <3>5. Exact(w.arr, w.len, k)'
      BY <1>2, <2>3, <3>3, <3>4, ExactMoves
    <3>6. SliceOf(k)' = w
      BY <1>15, <2>3, <3>1
    <3> QED BY SMT, <3>5, <3>6 DEF Exact
  <2> QED BY <2>2, <2>3
<1>18. BaseType'
  <2>1. pubs' \in Slices /\ subs' \in Slices
    BY <1>7, <1>15 DEF ConductorInv, TypeInv, BaseType
  <2> QED BY <1>1, <1>2, <2>1 DEF ConductorInv, TypeInv, BaseType
<1>19. LingerInv'
  <2>1. KeepsImages
    <3>1. ASSUME NEW q \in Slices, NEW p \in RegIDs, KnownImages(q, p) PROVE CellsKept(q)
      <4>1. p \in Int /\ p # t /\ Known(q, p)
        BY SMT, <1>4, <3>1, ConductorAssumption DEF RegIDs, KnownImages
      <4> QED BY <1>4, <1>5, <1>7, <4>1, GrownApart
    <3> QED BY <3>1 DEF KeepsImages
  <2>2. \A x : Released(x)' => Released(x)
    BY <1>1, ReleasedKept
  <2> QED BY <1>1, <1>8, <2>1, <2>2, LingerCells
<1>20. HeapType' /\ M \in Locals
  BY <1>7, <1>12 DEF Grown, LocalsKnown
<1> QED BY <1>2, <1>8, <1>12, <1>13, <1>14, <1>16, <1>17, <1>18, <1>19, <1>20, AnyStep

LEMMA AddsStep ==
    ASSUME ConductorInv, NEW u \in Users, NEW r \in RegIDs, AddPublication(u, r) \/ AddSubscription(u, r)
    PROVE  ConductorInv'
<1>1. CASE AddPublication(u, r)
  <2>1. PICK s, s2 : s = SliceOf("pub") /\ s2 = Appended(s, r).slice
    OBVIOUS
  <2>2. s = pubs
    BY <2>1 DEF SliceOf
  <2> QED BY <1>1, <2>1, <2>2, AddStep DEF AddPublication
<1>2. CASE AddSubscription(u, r)
  <2>1. PICK s, s2 : s = SliceOf("sub") /\ s2 = Appended(s, r).slice
    OBVIOUS
  <2>2. s = subs
    BY <2>1, Tag DEF SliceOf
  <2> QED BY <1>2, <2>1, <2>2, AddStep DEF AddSubscription
<1> QED BY <1>1, <1>2

\* The entry is taken out of the array; the slice is cut later.
LEMMA ReleaseStep ==
    ASSUME ConductorInv, NEW a \in Actors, Release(a) PROVE ConductorInv'
<1>1. PICK l, r, kind, s, n, M, L :
          /\ l = my[a] /\ r = l.reg /\ kind = regs[r].kind /\ s = SliceOf(kind) /\ n = s.len
          /\ M = [l EXCEPT !.kept = n - 1] /\ L = "push"
  OBVIOUS
<1>2. /\ pc[a] = "lock" /\ adminLock = Nil /\ adminLock' = a /\ Listed(r) /\ kind # "counter"
      /\ sent' = [sent EXCEPT ![r] = sent[r] + 1] /\ heap' = Moved(s, r, Nil) /\ MoveTo(a, L, M)
      /\ UNCHANGED <<running, pubs, subs, counters, regs, asked, imageList, owner, available, lingering, closes>>
  BY <1>1 DEF Release, Goto, MoveTo, flags, imageVars
<1>3. r \in RegIDs /\ regs[r].closed /\ regs[r] \in Registrations
  BY <1>1, <1>2 DEF ConductorInv, CallInv, InClose, TypeInv, BaseType
<1>4. kind \in {"pub", "sub"} /\ kind # "none"
  <2>1. kind # "none" /\ kind \in {"none", "pub", "sub", "counter"}
    BY <1>1, <1>2, <1>3, ListedKind DEF Registrations
  <2> QED BY <1>2, <2>1
<1>5. PICK t : t = RegistryTag(kind)
  OBVIOUS
<1>6. t \in Int /\ t \notin 0..MaxRegs
  BY SMT, <1>5, ConductorAssumption DEF RegistryTag
<1>7. s \in Slices /\ Known(s, t) /\ r \in Entries(s)
  BY <1>1, <1>2, <1>4, <1>5, SliceNow DEF Listed
<1>8. s.arr \in 1..ArrayCount /\ n <= Size(s.arr) /\ Size(s.arr) \in Nat /\ n \in Nat
  BY <1>1, <1>7, KnownSize
<1>9. n # 0 /\ n - 1 \in Nat /\ (n - 1) + 1 = n /\ Nil \in Nat
  <2>1. PICK k \in 1..n : heap[s.arr][k] = r
    BY <1>1, <1>7 DEF Entries
  <2> QED BY SMT, <1>8, <2>1 DEF Nil
<1>10. Shrunk(s.arr, n, r, Nil)
  BY <1>1, <1>2, <1>7, <1>8, <1>9, RemovalShrinks DEF ConductorInv, TypeInv
<1>11. EnvStep /\ LockStep(a)
  BY <1>2 DEF EnvStep, KindsGrow, ClosedGrow, OwnersGrow, LockStep
<1>12. PICK tag2 : GoodTags(tag2)
  BY <1>1, <1>6, <1>7, <1>9, <1>10, <1>11, ShrunkHeap
<1>13. /\ LocalsKnown(M) /\ M.reg = r /\ M.kept = n - 1 /\ M.back = l.back /\ M.index = l.index
  <2>1. LocalsKnown(l) /\ LocalsKnown(M)
    BY <1>1, <1>9, KnownLocals, LocalsUpdates
  <2> QED BY <1>1, <2>1 DEF LocalsKnown, Locals
<1>14. /\ L \in PCs /\ L \notin {"walk", "onReady", "onErrorResponse", "onAvailableImage", "addImage",
                                "onUnavailableImage", "removeImage", "linger", "requeue"}
       /\ "lock" \notin {"onAvailableImage", "addImage", "removeImage", "linger", "requeue"}
  BY SMT, <1>1 DEF PCs, QuietLabels
<1>15. pc'[a] = L /\ my'[a] = M /\ OthersKept(a)
  BY <1>2, <1>13, <1>14, Moves DEF ConductorInv, TypeInv, LocalsKnown
<1>16. CallInv(a)'
  <2>1. M.back = "walk" => ~running' /\ M.index \in Nat \ {0}
    BY <1>1, <1>2, <1>13 DEF ConductorInv, CallInv
  <2>2. regs'[r].closed /\ regs'[r].kind \in {"pub", "sub"}
    BY <1>1, <1>2, <1>3, <1>4
  <2> QED BY <1>2, <1>3, <1>13, <1>14, <1>15, <2>1, <2>2 DEF CallInv, InClose
<1>17. a = Conductor => HandlerInv'
  BY <1>14, <1>15 DEF HandlerInv, OnImage
<1>18. HeapInv'
  <2>1. LocalsNext(M, tag2)
    BY <1>12, <1>13, KnownNext
  <2>2. \A q \in RegIDs : \A w : w = imageList'[q] => IsSlice(w, q, tag2)' /\ NoNil(w)'
    BY <1>2, <1>12, KnownNext
  <2>3. (\A q : q = pubs' => IsSlice(q, -1, tag2)') /\ (\A q : q = subs' => IsSlice(q, -2, tag2)')
    BY <1>2, <1>12, KnownNext
  <2> QED BY <1>12, <1>15, <2>1, <2>2, <2>3, ChangedHeap
<1>19. ASSUME NEW q \in Slices, NEW p \in Int, Known(q, p), p # t PROVE CellsKept(q)
  BY <1>1, <1>6, <1>7, <1>9, <1>10, <1>19, ShrunkApart
<1>20. /\ sent' \in [RegIDs \cup {ClientClose} -> Nat] /\ sent'[r] = sent[r] + 1 /\ sent'[r] # 0
       /\ \A q \in RegIDs : q # r => sent'[q] = sent[q]
  <2>1. sent \in [RegIDs \cup {ClientClose} -> Nat] /\ r \in RegIDs \cup {ClientClose}
    BY <1>3 DEF ConductorInv, TypeInv, BaseType
  <2>2. sent[r] + 1 \in Nat /\ sent[r] + 1 # 0
    BY SMT, <2>1
  <2> QED BY <1>2, <2>1, <2>2
<1>21. /\ Registered(kind)' = Registered(kind) \ {r}
       /\ \A k \in {"pub", "sub"} : k # kind => Registered(k)' = Registered(k)
  BY <1>1, <1>2, <1>3, <1>20 DEF Registered
<1>22. RegistryInv'
  <2> SUFFICES ASSUME running', NEW k \in {"pub", "sub"}
               PROVE  /\ (\A b \in Actors : ~Cutting(b, k)') => Exact(SliceOf(k).arr, SliceOf(k).len, k)'
                      /\ \A b \in Actors : Cutting(b, k)' =>
                            SliceOf(k)'.len = my'[b].kept + 1 /\ Exact(SliceOf(k).arr, my[b].kept, k)'
    BY DEF RegistryInv
  <2>1. /\ (\A b \in Actors : pc[b] # "push")
        /\ \A q \in {"pub", "sub"} : Exact(SliceOf(q).arr, SliceOf(q).len, q)
    BY <1>2, NobodyCuts
  <2>2. PICK w : w = SliceOf(k)
    OBVIOUS
  <2>3. SliceOf(k)' = w
    BY <1>2, <2>2 DEF SliceOf
  <2>4. \A b \in Actors : Cutting(b, k)' => b = a
    BY <1>15, <2>1 DEF Cutting, OthersKept
  <2>5. Cutting(a, k)' <=> k = kind
    BY <1>1, <1>2, <1>13, <1>15 DEF Cutting
  <2>6. CASE k = kind
    <3>1. w = s /\ Exact(s.arr, n, k)
      BY <1>1, <2>1, <2>2, <2>6
    <3>2. Exact(s.arr, n - 1, k)'
      BY <1>8, <1>9, <1>10, <1>21, <2>6, <3>1, ExactShrinks
    <3>3. SliceOf(k)'.arr = s.arr /\ SliceOf(k)'.len = n /\ my'[a].kept = n - 1
      BY <1>1, <1>13, <1>15, <2>3, <3>1
    <3>4. Exact(SliceOf(k).arr, my[a].kept, k)'
      BY <3>2, <3>3 DEF Exact
    <3>5. SliceOf(k)'.len = my'[a].kept + 1
      BY <1>9, <3>3
    <3>6. ASSUME NEW b \in Actors, Cutting(b, k)'
          PROVE  SliceOf(k)'.len = my'[b].kept + 1 /\ Exact(SliceOf(k).arr, my[b].kept, k)'
      BY <2>4, <3>4, <3>5, <3>6
    <3> QED BY <2>5, <2>6, <3>6
  <2>7. CASE k # kind
    <3>1. PICK p : p = RegistryTag(k)
      OBVIOUS
    <3>2. p \in Int /\ p # t
      BY SMT, <1>4, <1>5, <2>7, <3>1 DEF RegistryTag
    <3>3. w \in Slices /\ Known(w, p) /\ Exact(w.arr, w.len, k)
      BY <2>1, <2>2, <3>1, SliceNow
    <3>4. \A m \in 1..w.len : Cell(w.arr, m)' = Cell(w.arr, m)
      BY <1>19, <3>2, <3>3 DEF CellsKept
    <3>5. Exact(w.arr, w.len, k)'
      BY <1>21, <2>7, <3>3, <3>4, ExactMoves
    <3>6. Exact(SliceOf(k).arr, SliceOf(k).len, k)'
      BY SMT, <2>3, <3>5 DEF Exact
    <3> QED BY <2>4, <2>5, <2>7, <3>6
  <2> QED BY <2>6, <2>7
<1>23. BaseType' /\ UnusedInv'
  <2>1. BaseType'
    BY <1>2, <1>20 DEF ConductorInv, TypeInv, BaseType
  <2>2. UnusedInv'
    BY <1>1, <1>2, <1>4, <1>20 DEF ConductorInv, UnusedInv
  <2> QED BY <2>1, <2>2
<1>24. LingerInv'
  <2>1. KeepsImages
    <3>1. ASSUME NEW q \in Slices, NEW p \in RegIDs, KnownImages(q, p) PROVE CellsKept(q)
      <4>1. p \in Int /\ p # t /\ Known(q, p)
        BY SMT, <1>6, <3>1, ConductorAssumption DEF RegIDs, KnownImages
      <4> QED BY <1>19, <4>1
    <3> QED BY <3>1 DEF KeepsImages
  <2>2. /\ pc'[Conductor] \in {"onAvailableImage", "addImage", "removeImage", "linger", "requeue"} =>
               pc'[Conductor] = pc[Conductor] /\ my'[Conductor] = my[Conductor]
        /\ pc[Conductor] = "removeImage" => pc'[Conductor] = "removeImage"
    BY <1>2, <1>14, <1>15, ActorFacts DEF OthersKept
  <2>3. \A x : Released(x)' => Released(x)
    <3>1. pc'[Conductor] \in {"linger", "requeue"} =>
              pc[Conductor] \in {"linger", "requeue"} /\ my'[Conductor].item.resource = my[Conductor].item.resource
      BY <2>2
    <3> QED BY <1>2, <3>1, ReleasedKept
  <2> QED BY <1>2, <1>11, <2>1, <2>2, <2>3, LingerCells
<1>25. HeapType' /\ M \in Locals
  BY <1>10, <1>13 DEF Shrunk, LocalsKnown
<1> QED BY <1>2, <1>11, <1>14, <1>16, <1>17, <1>18, <1>22, <1>23, <1>24, <1>25, AnyStep
-----------------------------------------------------------------------------
(* The invariant holds at the start, and every step preserves it.          *)

\* Before the conductor starts the registry is empty and every slice is nil.
LEMMA InitInv ==
    ASSUME Init PROVE ConductorInv
<1>1. /\ heap = << <<>> >> /\ pubs = NilSlice /\ subs = NilSlice /\ adminLock = Nil /\ running = TRUE
      /\ counters = {} /\ asked = {} /\ available = {} /\ lingering = <<>>
      /\ regs = [r \in RegIDs |-> NoReg] /\ sent = [r \in RegIDs \cup {ClientClose} |-> 0]
      /\ imageList = [r \in RegIDs |-> NilSlice] /\ owner = [i \in 1..MaxImages |-> Nil]
      /\ closes = [x \in Resources |-> 0] /\ my = [a \in Actors |-> NoLocals]
      /\ pc = [a \in Actors |-> IF a = Conductor THEN "start" ELSE "idle"]
  BY DEF Init
<1>2. HeapType
  <2>1. << <<>> >> \in Seq(Seq(Nat)) /\ Len(<< <<>> >>) = 1 /\ Len(<< <<>> >>[1]) = 0
    BY SMT
  <2> QED BY SMT, <1>1, <2>1 DEF HeapType
<1>3. ArrayCount = 1 /\ Size(1) = 0 /\ 1..ArrayCount = {1} /\ 1..Size(1) = {}
  <2>1. Len(<< <<>> >>) = 1 /\ Len(<< <<>> >>[1]) = 0 /\ 1..1 = {1} /\ 1..0 = {}
    BY SMT
  <2> QED BY <1>1, <2>1 DEF ArrayCount, Size
<1>4. NilSlice \in Slices /\ NilSlice.arr = 1 /\ NilSlice.len = 0 /\ 1..0 = {} /\ 0 <= 0
  BY SMT DEF NilSlice, Slices
<1>5. NoReg \in Registrations /\ NoReg.kind = "none" /\ NoReg.closed = FALSE /\ NoReg.object = FALSE
  BY SMT DEF NoReg, Registrations
<1>6. /\ NoLocals \in Locals /\ NoLocals.images = NilSlice /\ NoLocals.slice = NilSlice /\ NoLocals.back = "idle"
  <2>1. NoImage \in Resources \cup {NoImage}
    OBVIOUS
  <2>2. Nil \in 0..MaxRegs /\ Nil \in 0..MaxImages /\ 1 \in Nat \ {0} /\ 0 \in Nat
    BY SMT, ConductorAssumption DEF Nil
  <2>3. Fresh(NoImage) \in Items
    BY <2>1 DEF Fresh, Items
  <2> QED BY <1>4, <2>2, <2>3 DEF NoLocals, Locals
<1>7. /\ \A a \in Actors : my[a] = NoLocals /\ pc[a] \in {"start", "idle"}
      /\ pc[Conductor] = "start" /\ my[Conductor] = NoLocals
      /\ \A r \in RegIDs : regs[r] = NoReg /\ sent[r] = 0 /\ imageList[r] = NilSlice
      /\ \A i \in 1..MaxImages : owner[i] = Nil
  BY <1>1, ActorFacts
<1>8. BaseType
  <2>1. Nil \in 0..MaxRegs /\ 0 \in Nat /\ <<>> \in Seq(Items)
    BY SMT, ConductorAssumption DEF Nil
  <2> QED BY <1>1, <1>4, <1>5, <2>1 DEF BaseType
<1>9. LocalsType
  <2>1. "start" \in PCs /\ "idle" \in PCs
    BY SMT DEF PCs, QuietLabels
  <2> QED BY <1>1, <1>6, <2>1 DEF LocalsType
<1>10. /\ "start" \notin {"empty", "emptySet", "release", "lock", "push", "walk"}
       /\ "idle" \notin {"empty", "emptySet", "release", "lock", "push", "walk"} /\ "idle" # "walk"
       /\ "start" \notin {"onReady", "onErrorResponse", "onAvailableImage", "addImage", "onUnavailableImage"}
       /\ "start" \notin {"removeImage", "linger", "requeue"}
  BY SMT
<1>11. \A a \in Actors : CallInv(a)
  BY <1>6, <1>7, <1>10 DEF CallInv, InClose
<1>12. HandlerInv
  BY <1>7, <1>10 DEF HandlerInv, OnImage
<1>13. HeapInv
  <2>1. PICK tag : tag = [h \in 1..ArrayCount |-> 0]
    OBVIOUS
  <2>2. tag \in Tags
    BY SMT, <2>1 DEF Tags
  <2>3. ArraysInv(tag)
    BY <1>3 DEF ArraysInv
  <2>4. \A t : IsSlice(NilSlice, t, tag)
    BY <1>3, <1>4 DEF IsSlice
  <2>5. SlicesInv(tag)
    BY <1>1, <1>6, <1>7, <2>4 DEF SlicesInv
  <2>6. NoNil(NilSlice)
    BY <1>4 DEF NoNil
  <2> QED BY <1>6, <1>7, <2>2, <2>3, <2>5, <2>6 DEF HeapInv
<1>14. \A kind \in {"pub", "sub"} : Registered(kind) = {}
  <2>1. "none" \notin {"pub", "sub"}
    BY SMT
  <2> QED BY <1>5, <1>7, <2>1 DEF Registered
<1>15. RegistryInv
  <2>1. \A kind : SliceOf(kind) = NilSlice
    BY <1>1 DEF SliceOf
  <2>2. \A kind \in {"pub", "sub"} : Exact(1, 0, kind)
    BY <1>4, <1>14 DEF Exact
  <2>3. \A a \in Actors, kind \in {"pub", "sub"} : ~Cutting(a, kind)
    BY <1>7, <1>10 DEF Cutting
  <2>4. \A kind \in {"pub", "sub"} : SliceOf(kind).arr = 1 /\ SliceOf(kind).len = 0
    BY <1>4, <2>1
  <2>5. \A kind \in {"pub", "sub"} : Exact(SliceOf(kind).arr, SliceOf(kind).len, kind)
    BY <2>2, <2>4
  <2> QED BY <2>3, <2>5 DEF RegistryInv
<1>16. UnusedInv
  BY <1>5, <1>7 DEF UnusedInv
<1>17. \A x \in Resources : ~Released(x)
  <2>1. DOMAIN lingering = {}
    BY SMT, <1>1
  <2> QED BY <1>1, <1>7, <1>10, <2>1 DEF Released
<1>18. LingerInv
  <2>1. LogsInv
    BY <1>17, ResourceFacts DEF LogsInv
  <2>2. \A r \in RegIDs : List(r) = NilSlice
    BY <1>7, <1>10 DEF List
  <2>3. ImagesInv
    BY <1>4, <1>17, <2>2, ResourceFacts DEF ImagesInv, Unique
  <2>4. AddingInv /\ RemovingInv
    BY <1>7, <1>10 DEF AddingInv, RemovingInv
  <2> QED BY <2>1, <2>3, <2>4 DEF LingerInv
<1> QED BY <1>2, <1>8, <1>9, <1>11, <1>12, <1>13, <1>15, <1>16, <1>18 DEF ConductorInv, TypeInv

\* A step that changes nothing.
LEMMA StutterStep ==
    ASSUME ConductorInv, UNCHANGED vars PROVE ConductorInv'
<1>1. /\ running' = running /\ adminLock' = adminLock /\ heap' = heap /\ pubs' = pubs /\ subs' = subs
      /\ counters' = counters /\ regs' = regs /\ asked' = asked /\ sent' = sent /\ imageList' = imageList
      /\ owner' = owner /\ available' = available /\ lingering' = lingering /\ closes' = closes
      /\ pc' = pc /\ my' = my
  BY DEF vars, flags, registry, imageVars
<1>2. PICK L, M : L = pc[Conductor] /\ M = my[Conductor]
  OBVIOUS
<1>3. Conductor \in Actors /\ L \in PCs /\ M \in Locals /\ MoveTo(Conductor, L, M)
  BY <1>1, <1>2, ActorFacts DEF ConductorInv, TypeInv, LocalsType, MoveTo
<1>4. BaseType' /\ UnusedInv' /\ LockStep(Conductor) /\ EnvStep
  BY <1>1 DEF ConductorInv, TypeInv, BaseType, UnusedInv, LockStep, EnvStep, KindsGrow, ClosedGrow, OwnersGrow
<1>5. CallInv(Conductor)'
  BY <1>1, <1>3 DEF ConductorInv, CallInv, InClose
<1>6. HandlerInv'
  BY <1>1 DEF ConductorInv, HandlerInv, OnImage
<1>7. \A x : Released(x)' => Released(x)
  BY <1>1, ReleasedKept
<1>8. LingerInv'
  <2>1. AddingInv' /\ RemovingInv'
    BY <1>1 DEF ConductorInv, LingerInv, AddingInv, RemovingInv, Contains, Cell, IsOpen, Released
  <2>2. LogsInv'
    BY <1>1, <1>7 DEF ConductorInv, LingerInv, LogsInv
  <2>3. ImagesInv'
    <3>1. ImagesInv
      BY DEF ConductorInv, LingerInv
    <3>2. \A r : List(r)' = List(r) /\ (IsOpen(r)' <=> IsOpen(r))
      BY <1>1 DEF List, IsOpen
    <3>3. \A s : Unique(s)' <=> Unique(s)
      BY <1>1 DEF Unique, Cell
    <3>4. \A s, i : Contains(s, i)' <=> Contains(s, i)
      BY <1>1 DEF Contains, Cell
    <3>5. \A r \in RegIDs : IsOpen(r)' => Unique(List(r))'
      BY <3>1, <3>2, <3>3 DEF ImagesInv
    <3>6. ASSUME NEW i \in 1..MaxImages, Released(Image(i))'
          PROVE  owner'[i] # Nil /\ (IsOpen(owner[i])' => ~Contains(imageList[owner[i]], i)')
      BY <1>1, <1>7, <3>1, <3>2, <3>4, <3>6 DEF ImagesInv
    <3> QED BY <3>5, <3>6 DEF ImagesInv
  <2> QED BY <2>1, <2>2, <2>3 DEF LingerInv
<1>9. LocalsKnown(M)
  BY <1>2, <1>3, KnownLocals
<1>10. \A r \in RegIDs : KnownImages(imageList'[r], r)
  BY <1>1, ListNow
<1> QED BY <1>1, <1>2, <1>3, <1>4, <1>5, <1>6, <1>8, <1>9, <1>10, KeptStep

\* The steps of a call that is under way.
LEMMA CallStepKeeps ==
    ASSUME ConductorInv, NEW a \in Actors, CallStep(a) PROVE ConductorInv'
<1>1. CASE EmptyGet(a) \/ EmptySet(a)
  BY <1>1, EmptyGetStep, EmptySetStep
<1>2. CASE CheckDriver(a)
  BY <1>2, CheckDriverStep
<1>3. CASE ReleaseUnlisted(a) \/ ReleaseFails(a)
  BY <1>3, ReleaseEndsStep
<1>4. CASE ReleaseCounter(a)
  BY <1>4, ReleaseCounterStep
<1>5. CASE Release(a)
  BY <1>5, ReleaseStep
<1>6. CASE Push(a) \/ Unlock(a)
  BY <1>6, PushStep, UnlockStep
<1>7. CASE CloseAllResources(a)
  BY <1>7, CloseAllResourcesStep
<1>8. CASE WalkCloses(a) \/ WalkCounters(a)
  BY <1>8, WalkClosesStep
<1>9. CASE WalkSkips(a) \/ WalkEnds(a)
  BY <1>9, WalkSkipsStep, WalkEndsStep
<1>10. CASE WalkCountersEnds(a)
  BY <1>10, GoesOnStep DEF GoesOn
<1> QED BY <1>1, <1>2, <1>3, <1>4, <1>5, <1>6, <1>7, <1>8, <1>9, <1>10 DEF CallStep

\* The steps of the application.
LEMMA UserKeeps ==
    ASSUME ConductorInv, NEW u \in Users, UserCall(u) \/ UserStep(u) PROVE ConductorInv'
<1>1. u \in Actors
  BY ActorFacts DEF Actors
<1>2. ASSUME NEW r \in RegIDs,
             AddPublication(u, r) \/ AddSubscription(u, r) \/ AddCounter(u, r) \/ Find(u, r) \/ Close(u, r)
      PROVE  ConductorInv'
  <2>1. CASE AddPublication(u, r) \/ AddSubscription(u, r)
    BY <2>1, AddsStep
  <2>2. CASE AddCounter(u, r)
    BY <2>2, AddCounterStep
  <2>3. CASE Find(u, r)
    BY <2>3, FindStep
  <2>4. CASE Close(u, r)
    BY <2>4, CloseStep
  <2> QED BY <1>2, <2>1, <2>2, <2>3, <2>4
<1>3. CASE CloseClient(u)
  BY <1>3, CloseClientStep
<1>4. CASE CallStep(u)
  BY <1>1, <1>4, CallStepKeeps
<1>5. CASE SendClientClose(u)
  BY <1>5, SendClientCloseStep
<1>6. CASE CloseReturns(u)
  BY <1>1, <1>6, GoesOnStep DEF GoesOn
<1> QED BY <1>2, <1>3, <1>4, <1>5, <1>6 DEF UserCall, UserStep

\* The messages of the driver, and the handlers of the conductor.
LEMMA MessageKeeps ==
    ASSUME ConductorInv, Message \/ OnReady \/ OnErrorResponse \/ OnClientTimeout \/ OnAvailableImage \/ AddImage
                         \/ OnUnavailableImage \/ RemoveImage \/ LingerImage
    PROVE  ConductorInv'
<1>1. CASE Message
  <2>1. CASE ReceiveAnswer
    BY <2>1, ReceiveAnswerStep
  <2>2. CASE ReceiveAvailableImage
    BY <2>2, ReceiveAvailableImageStep
  <2>3. CASE ReceiveUnavailableImage
    BY <2>3, ReceiveUnavailableImageStep
  <2>4. CASE ReceiveClientTimeout
    BY <2>4, ClientTimeoutStep
  <2> QED BY <1>1, <2>1, <2>2, <2>3, <2>4 DEF Message
<1>2. CASE OnReady \/ OnErrorResponse
  BY <1>2, AnswerStep
<1>3. CASE OnClientTimeout
  BY <1>3, ClientTimeoutStep
<1>4. CASE OnAvailableImage \/ AddImage
  BY <1>4, OnAvailableImageStep, AddImageStep
<1>5. CASE OnUnavailableImage \/ RemoveImage
  BY <1>5, OnUnavailableImageStep, RemoveImageStep
<1>6. CASE LingerImage
  BY <1>6, SendStep
<1> QED BY <1>1, <1>2, <1>3, <1>4, <1>5, <1>6

\* The heartbeats of the conductor, what lingers, and the end of its goroutine.
LEMMA LoopKeeps ==
    ASSUME ConductorInv, RunStarts \/ CheckManagedResources \/ ManagedIsYoung \/ ManagedIsDue \/ ManagedEnds
                         \/ Requeue \/ LoopEnds \/ ForceClose \/ RunEnds \/ ServiceTimeout \/ DriverTimeout
    PROVE  ConductorInv'
<1>1. CASE RunStarts \/ ServiceTimeout \/ DriverTimeout \/ CheckManagedResources \/ ManagedEnds \/ LoopEnds \/ RunEnds
  BY <1>1, ActorFacts, GoesOnStep DEF GoesOn
<1>2. CASE ManagedIsYoung
  BY <1>2, ManagedIsYoungStep
<1>3. CASE ManagedIsDue \/ ForceClose
  BY <1>3, DrainStep
<1>4. CASE Requeue
  BY <1>4, SendStep
<1> QED BY <1>1, <1>2, <1>3, <1>4

LEMMA NextKeeps ==
    ASSUME ConductorInv, [Next]_vars PROVE ConductorInv'
<1>1. CASE \E u \in Users : UserCall(u) \/ UserStep(u)
  BY <1>1, UserKeeps
<1>2. CASE Message
  BY <1>2, MessageKeeps
<1>3. CASE ConductorStep
  <2>1. CASE CallStep(Conductor)
    BY <2>1, ActorFacts, CallStepKeeps
  <2>2. CASE \/ OnReady \/ OnErrorResponse \/ OnClientTimeout \/ OnAvailableImage \/ AddImage
             \/ OnUnavailableImage \/ RemoveImage \/ LingerImage
    BY <2>2, MessageKeeps
  <2>3. CASE \/ RunStarts \/ CheckManagedResources \/ ManagedIsYoung \/ ManagedIsDue \/ ManagedEnds
             \/ Requeue \/ LoopEnds \/ ForceClose \/ RunEnds
    BY <2>3, LoopKeeps
  <2> QED BY <1>3, <2>1, <2>2, <2>3 DEF ConductorStep
<1>4. CASE ServiceTimeout \/ DriverTimeout
  BY <1>4, LoopKeeps
<1>5. CASE Expire
  BY <1>5, ExpireStep
<1>6. CASE UNCHANGED vars
  BY <1>6, StutterStep
<1> QED BY <1>1, <1>2, <1>3, <1>4, <1>5, <1>6 DEF Next

-----------------------------------------------------------------------------
(* The theorems.                                                           *)

\* The inductive invariant: in every reachable state of any number of goroutines
\* the slices of the registry and of the images are well-formed and share no
\* array, whoever removes an entry (releasePublication, releaseSubscription)
\* holds adminLock until the slice is cut, and what lingers is not in use.
THEOREM ConductorInvHolds == Spec => []ConductorInv
<1>1. Init => ConductorInv
  BY SMT, InitInv
<1>2. ConductorInv /\ [Next]_vars => ConductorInv'
  BY SMT, NextKeeps
<1> QED BY <1>1, <1>2, PTL DEF Spec

LEMMA InvGivesExact ==
    ASSUME ConductorInv PROVE RegistryIsExact
<1> SUFFICES ASSUME running, adminLock = Nil, NEW kind \in {"pub", "sub"}
             PROVE  Entries(SliceOf(kind)) = Registered(kind) /\ Distinct(SliceOf(kind))
  BY DEF RegistryIsExact
<1>1. PICK s : s = SliceOf(kind)
  OBVIOUS
<1>2. Exact(s.arr, s.len, kind)
  BY <1>1, NobodyCuts
<1>3. \A x \in Entries(s) : x \in Registered(kind)
  <2>1. \A k \in 1..s.len : heap[s.arr][k] \in Registered(kind)
    BY <1>2 DEF Exact, Cell
  <2> QED BY <2>1 DEF Entries
<1>4. \A x \in Registered(kind) : x \in Entries(s)
  <2>1. \A x \in Registered(kind) : \E k \in 1..s.len : heap[s.arr][k] = x
    BY <1>2 DEF Exact, Cell
  <2> QED BY <2>1 DEF Entries
<1>5. Distinct(s)
  BY <1>2 DEF Exact, Distinct, Cell
<1>6. Entries(s) = Registered(kind)
  BY <1>3, <1>4
<1> QED BY <1>1, <1>5, <1>6

\* While the client runs and adminLock is free, the slices of publications and
\* of subscriptions hold exactly what is registered, each once: the removal by
\* swapping with the last entry in releasePublication and releaseSubscription,
\* and append, lose and duplicate nothing in any interleaving of goroutines.
THEOREM RegistryHolds == Spec => []RegistryIsExact
<1>1. ConductorInv => RegistryIsExact
  BY SMT, InvGivesExact
<1> QED BY <1>1, ConductorInvHolds, PTL

LEMMA InvGivesMapped ==
    ASSUME ConductorInv PROVE InUseIsMapped
<1> SUFFICES ASSUME NEW r \in RegIDs, ~regs[r].closed
             PROVE  closes[Log(r)] = 0 /\ \A i \in Entries(imageList[r]) : closes[Image(i)] = 0
  BY DEF InUseIsMapped
<1>1. closes[Log(r)] = 0
  BY DEF ConductorInv, LingerInv, LogsInv, Released
<1>2. ASSUME NEW i \in Entries(imageList[r]) PROVE closes[Image(i)] = 0
  <2>1. PICK s : s = imageList[r]
    OBVIOUS
  <2>2. s \in Slices /\ KnownImages(s, r)
    BY <2>1, ListNow
  <2>3. PICK k \in 1..s.len : Cell(s.arr, k) = i
    BY <1>2, <2>1 DEF Entries, Cell
  <2>4. i \in 1..MaxImages /\ owner[i] = r
    <3>1. r \in Int /\ r # -1 /\ r # -2
      BY SMT DEF RegIDs
    <3>2. i # Nil
      BY <2>2, <2>3 DEF KnownImages, NoNil
    <3>3. Belongs(i, r)
      BY <2>2, <2>3, <3>1, <3>2, SliceBelongs DEF KnownImages
    <3> QED BY <3>1, <3>3 DEF Belongs
  <2>5. Contains(s, i)
    BY <2>3 DEF Contains
  <2>6. ~Released(Image(i))
    BY <2>1, <2>4, <2>5 DEF ConductorInv, LingerInv, ImagesInv, IsOpen
  <2> QED BY <2>6 DEF Released
<1> QED BY <1>1, <1>2

\* Nothing that is in use was closed: a log is unmapped only after its
\* publication was closed, and an image only once it is out of the list of every
\* open subscription, whatever the linger timeouts, the drain at the end of the
\* conductor and the interleaving of Close, removeImage and the swaps of lists.
THEOREM MappedHolds == Spec => []InUseIsMapped
<1>1. ConductorInv => InUseIsMapped
  BY SMT, InvGivesMapped
<1> QED BY <1>1, ConductorInvHolds, PTL
=============================================================================
