-------------------------- MODULE ConductorInvariant -------------------------
(***************************************************************************)
(* The invariant of the client conductor, and the steps that leave the     *)
(* arrays alone or change an array that only their own list sees.          *)
(*                                                                         *)
(* The difficulty is that slices share arrays.  The invariant gives every  *)
(* array a purpose: it is that of cc.pubs, of cc.subs, or of the image     *)
(* list of one subscription, and nobody has a slice of an array with       *)
(* another purpose.  So what the removal of an entry does in place is seen *)
(* only by those who use the same list.                                    *)
(***************************************************************************)
EXTENDS ClientConductor, TLAPS

\* First-order steps are the rule; those with arithmetic say so.
USE Zenon

\* The arrays: how many, how long, and what is in a place of one.
ArrayCount == Len(heap)
Size(h)    == Len(heap[h])
Cell(h, k) == heap[h][k]

Slices == [arr : Nat \ {0}, len : Nat]

HeapType == heap \in Seq(Seq(Nat)) /\ Len(heap) >= 1 /\ Len(heap[1]) < 1

LEMMA HeapTypes ==
    ASSUME HeapType
    PROVE  /\ ArrayCount \in Nat \ {0} /\ 1 \in 1..ArrayCount /\ Size(1) = 0
           /\ \A h \in 1..ArrayCount : Size(h) \in Nat /\ \A k \in 1..Size(h) : Cell(h, k) \in Nat
<1>1. heap \in Seq(Seq(Nat)) /\ Len(heap) \in Nat \ {0} /\ 1 \in 1..Len(heap)
  BY SMT DEF HeapType
<1>2. \A h \in 1..Len(heap) : heap[h] \in Seq(Nat) /\ Len(heap[h]) \in Nat
  BY SMT, <1>1
<1>3. ASSUME NEW h \in 1..Len(heap), NEW k \in 1..Len(heap[h]) PROVE heap[h][k] \in Nat
  BY SMT, <1>2
<1>4. Len(heap[1]) = 0
  BY SMT, <1>1, <1>2 DEF HeapType
<1> QED BY <1>1, <1>2, <1>3, <1>4 DEF ArrayCount, Size, Cell

\* x was put behind the first n places of array A; it is in array B now.
Grown(A, n, x, B) ==
    /\ HeapType'
    /\ ArrayCount <= ArrayCount' /\ B \in 1..ArrayCount' /\ B # 1 /\ n + 1 <= Size(B)'
    /\ \A h \in 1..ArrayCount' \ {B} :
          h \in 1..ArrayCount /\ Size(h)' = Size(h) /\ \A k \in 1..Size(h) : Cell(h, k)' = Cell(h, k)
    /\ \/ B = A /\ Size(B)' = Size(B)
       \/ B = ArrayCount + 1 /\ B # A
    /\ Cell(B, n + 1)' = x
    /\ \A k \in 1..n : Cell(B, k)' = Cell(A, k)
    /\ \A k \in 1..Size(B)' : k # n + 1 =>
          Cell(B, k)' = Nil \/ (k \in 1..Size(A) /\ Cell(B, k)' = Cell(A, k))
    /\ B = A => \A k \in 1..Size(B) : k # n + 1 => Cell(B, k)' = Cell(B, k)

\* x was taken out of the first n places of array A: the last one took its place.
Shrunk(A, n, x, last) ==
    /\ HeapType'
    /\ ArrayCount' = ArrayCount
    /\ \A h \in 1..ArrayCount : Size(h)' = Size(h)
    /\ \A h \in 1..ArrayCount \ {A} : \A k \in 1..Size(h) : Cell(h, k)' = Cell(h, k)
    /\ Cell(A, n)' = last
    /\ \E j \in 1..n :
          /\ Cell(A, j) = x
          /\ j # n => Cell(A, j)' = Cell(A, n)
          /\ \A k \in 1..Size(A) : (k # j /\ k # n) => Cell(A, k)' = Cell(A, k)

LEMMA HeapAsFunction ==
    ASSUME HeapType
    PROVE  /\ heap \in Seq(Seq(Nat)) /\ Len(heap) \in Nat \ {0} /\ DOMAIN heap = 1..Len(heap)
           /\ \A h \in 1..Len(heap) : heap[h] \in Seq(Nat) /\ Len(heap[h]) \in Nat /\ DOMAIN heap[h] = 1..Len(heap[h])
  BY SMT DEF HeapType

LEMMA PutOne ==
    ASSUME HeapType, NEW A \in 1..ArrayCount, NEW n \in Nat, n < Size(A), NEW x \in Nat,
           heap' = [heap EXCEPT ![A][n + 1] = x]
    PROVE  Grown(A, n, x, A)
<1>1. /\ heap \in Seq(Seq(Nat)) /\ A \in 1..Len(heap) /\ A \in DOMAIN heap /\ heap[A] \in Seq(Nat)
      /\ Len(heap) \in Nat /\ Len(heap[A]) \in Nat /\ DOMAIN heap[A] = 1..Len(heap[A])
  BY HeapAsFunction DEF ArrayCount
<1>2. n + 1 \in 1..Len(heap[A])
  BY SMT, <1>1 DEF Size
<1>3. /\ heap' \in Seq(Seq(Nat)) /\ Len(heap') = Len(heap)
      /\ \A h \in 1..Len(heap) : h # A => heap'[h] = heap[h]
  BY SMT, <1>1, <1>2
<1>4. heap'[A] = [heap[A] EXCEPT ![n + 1] = x]
  BY <1>1
<1>5. Len(heap'[A]) = Len(heap[A]) /\ heap'[A][n + 1] = x /\ \A k \in 1..Len(heap[A]) : k # n + 1 => heap'[A][k] = heap[A][k]
  BY SMT, <1>1, <1>2, <1>4
<1>6. A # 1
  BY SMT, HeapTypes
<1>7. HeapType'
  BY SMT, <1>1, <1>3, <1>6 DEF HeapType
<1> QED BY SMT, <1>1, <1>2, <1>3, <1>5, <1>6, <1>7 DEF Grown, ArrayCount, Size, Cell

\* The array is full: x goes into a new one.
LEMMA AppendArray ==
    ASSUME NEW H \in Seq(Seq(Nat)), NEW new \in Seq(Nat)
    PROVE  /\ Append(H, new) \in Seq(Seq(Nat)) /\ Len(Append(H, new)) = Len(H) + 1
           /\ Append(H, new)[Len(H) + 1] = new /\ \A h \in 1..Len(H) : Append(H, new)[h] = H[h]
  BY SMT

LEMMA LargerArray ==
    ASSUME NEW old \in Seq(Nat), NEW n \in Nat, n = Len(old), NEW x \in Nat, NEW size \in Nat, n + 1 <= size
    PROVE  LET new == [i \in 1..size |-> IF i <= n THEN old[i] ELSE IF i = n + 1 THEN x ELSE Nil]
           IN /\ new \in Seq(Nat) /\ Len(new) = size /\ new[n + 1] = x
              /\ \A k \in 1..n : new[k] = old[k]
              /\ \A k \in 1..size : k # n + 1 => new[k] = Nil \/ (k \in 1..n /\ new[k] = old[k])
<1> DEFINE new == [i \in 1..size |-> IF i <= n THEN old[i] ELSE IF i = n + 1 THEN x ELSE Nil]
<1>1. new \in [1..size -> Nat]
  BY SMT DEF Nil
<1>2. new \in Seq(Nat) /\ Len(new) = size
  BY SMT, <1>1
<1>3. new[n + 1] = x /\ (\A k \in 1..n : new[k] = old[k]) /\ \A k \in 1..size : k > n + 1 => new[k] = Nil
  BY SMT
<1> HIDE DEF new
<1>4. \A k \in 1..size : k # n + 1 => new[k] = Nil \/ (k \in 1..n /\ new[k] = old[k])
  BY SMT, <1>3
<1> QED BY <1>2, <1>3, <1>4 DEF new

LEMMA CopyAndPut ==
    ASSUME HeapType, NEW A \in 1..ArrayCount, NEW n \in Nat, n = Size(A), NEW x \in Nat,
           NEW new \in Seq(Nat), n + 1 <= Len(new), new[n + 1] = x,
           \A k \in 1..n : new[k] = heap[A][k],
           \A k \in 1..Len(new) : k # n + 1 => new[k] = Nil \/ (k \in 1..n /\ new[k] = heap[A][k]),
           heap' = Append(heap, new), NEW B, B = Len(heap) + 1
    PROVE  Grown(A, n, x, B)
<1>1. /\ heap \in Seq(Seq(Nat)) /\ A \in 1..Len(heap) /\ Len(heap) \in Nat \ {0} /\ Len(heap[A]) = n
  BY HeapAsFunction DEF ArrayCount, Size
<1>2. /\ heap' \in Seq(Seq(Nat)) /\ Len(heap') = Len(heap) + 1 /\ heap'[Len(heap) + 1] = new
      /\ \A h \in 1..Len(heap) : heap'[h] = heap[h]
  BY <1>1, AppendArray
<1>3. HeapType'
  <2>1. Len(heap') >= 1 /\ 1 \in 1..Len(heap)
    BY SMT, <1>1, <1>2
  <2> QED BY <1>2, <2>1 DEF HeapType
<1>4. /\ Len(heap) + 1 # A /\ Len(heap) + 1 # 1 /\ Len(heap) <= Len(heap) + 1
      /\ Len(heap) + 1 \in 1..(Len(heap) + 1)
      /\ \A h \in 1..(Len(heap) + 1) \ {Len(heap) + 1} : h \in 1..Len(heap)
  <2> DEFINE m == Len(heap)
  <2>1. m \in Nat \ {0} /\ A \in 1..m
    BY <1>1
  <2> HIDE DEF m
  <2>2. m + 1 # A /\ m + 1 # 1 /\ m <= m + 1 /\ m + 1 \in 1..(m + 1) /\ \A h \in 1..(m + 1) \ {m + 1} : h \in 1..m
    BY SMT, <2>1
  <2> QED BY <2>2 DEF m
<1>5. /\ ArrayCount' = B /\ ArrayCount = Len(heap) /\ ArrayCount <= ArrayCount' /\ B = ArrayCount + 1
      /\ B \in 1..ArrayCount' /\ B # 1 /\ B # A /\ n + 1 <= Size(B)' /\ Cell(B, n + 1)' = x
  BY <1>2, <1>4 DEF ArrayCount, Size, Cell
<1>6. \A h \in 1..ArrayCount' \ {B} :
          h \in 1..ArrayCount /\ Size(h)' = Size(h) /\ \A k \in 1..Size(h) : Cell(h, k)' = Cell(h, k)
  BY <1>2, <1>4, <1>5 DEF Size, Cell
<1>7. \A k \in 1..n : Cell(B, k)' = Cell(A, k)
  BY <1>2 DEF Cell
<1>8. \A k \in 1..Size(B)' : k # n + 1 =>
          Cell(B, k)' = Nil \/ (k \in 1..Size(A) /\ Cell(B, k)' = Cell(A, k))
  BY <1>2 DEF Cell, Size
<1> QED BY <1>3, <1>5, <1>6, <1>7, <1>8 DEF Grown

LEMMA AppendGrows ==
    ASSUME HeapType, NEW s \in Slices, s.arr \in 1..ArrayCount, s.len <= Size(s.arr), NEW x \in Nat,
           heap' = Appended(s, x).heap, NEW s2, s2 = Appended(s, x).slice
    PROVE  s2 \in Slices /\ s2.len = s.len + 1 /\ Grown(s.arr, s.len, x, s2.arr)
<1> DEFINE A == s.arr
           n == s.len
<1>1. A \in 1..ArrayCount /\ n \in Nat /\ n <= Size(A) /\ Size(A) \in Nat /\ A \in Nat \ {0} /\ Len(heap) \in Nat
  BY SMT, HeapTypes, HeapAsFunction DEF Slices
<1>2. CASE n < Size(A)
  <2>1. heap' = [heap EXCEPT ![A][n + 1] = x] /\ s2 = [s EXCEPT !.len = @ + 1]
    BY <1>2 DEF Appended, Size
  <2>2. [s EXCEPT !.len = @ + 1] \in Slices /\ [s EXCEPT !.len = @ + 1].len = n + 1 /\ [s EXCEPT !.len = @ + 1].arr = A
    BY SMT DEF Slices
  <2>3. Grown(A, n, x, A)
    BY <1>1, <1>2, <2>1, PutOne
  <2> QED BY <2>1, <2>2, <2>3
<1>3. CASE ~(n < Size(A))
  <2> DEFINE size == IF n = 0 THEN 1 ELSE 2 * n
             new  == [i \in 1..size |-> IF i <= n THEN heap[A][i] ELSE IF i = n + 1 THEN x ELSE Nil]
  <2>1. heap' = Append(heap, new) /\ s2 = [arr |-> Len(heap) + 1, len |-> n + 1]
    BY <1>3 DEF Appended, Size
  <2>2. s2 \in Slices /\ s2.len = n + 1 /\ s2.arr = Len(heap) + 1
    BY SMT, <1>1, <2>1 DEF Slices
  <2>3. n = Size(A) /\ size \in Nat /\ n + 1 <= size
    BY SMT, <1>1, <1>3
  <2> HIDE DEF size
  <2>4. heap[A] \in Seq(Nat) /\ n = Len(heap[A])
    BY <1>1, <2>3, HeapAsFunction DEF ArrayCount, Size
  <2>5. /\ new \in Seq(Nat) /\ Len(new) = size /\ new[n + 1] = x
        /\ \A k \in 1..n : new[k] = heap[A][k]
        /\ \A k \in 1..size : k # n + 1 => new[k] = Nil \/ (k \in 1..n /\ new[k] = heap[A][k])
    BY <1>1, <2>3, <2>4, LargerArray
  <2> HIDE DEF new
  <2>6. Grown(A, n, x, s2.arr)
    BY <1>1, <2>1, <2>2, <2>3, <2>5, CopyAndPut
  <2> QED BY <2>2, <2>6
<1> QED BY <1>2, <1>3

\* The j-th entry of an array is overwritten with the n-th, and the n-th with last.
Swapped(H, A, j, n, last) == [H EXCEPT ![A][j] = H[A][n], ![A][n] = last]

SwapsIn(G, H, A, j, n, last) ==
    /\ G \in Seq(Seq(Nat)) /\ Len(G) = Len(H)
    /\ \A h \in DOMAIN H : h # A => G[h] = H[h]
    /\ Len(G[A]) = Len(H[A]) /\ G[A][n] = last
    /\ j # n => G[A][j] = H[A][n]
    /\ \A k \in DOMAIN H[A] : (k # j /\ k # n) => G[A][k] = H[A][k]

LEMMA PutTwo ==
    ASSUME NEW H \in Seq(Seq(Nat)), NEW A \in DOMAIN H, NEW j \in DOMAIN H[A], NEW n \in DOMAIN H[A],
           NEW last \in Nat, NEW G, G = Swapped(H, A, j, n, last)
    PROVE  SwapsIn(G, H, A, j, n, last)
  BY SMT DEF Swapped, SwapsIn

LEMMA RemovalShrinks ==
    ASSUME HeapType, NEW s \in Slices, s.arr \in 1..ArrayCount, s.len <= Size(s.arr),
           NEW x, x \in Entries(s), NEW last \in Nat, heap' = Moved(s, x, last)
    PROVE  Shrunk(s.arr, s.len, x, last)
<1> DEFINE A == s.arr
           n == s.len
<1>1. PICK j : j = IndexOf(s, x)
  BY SMT
<1>2. j \in 1..n /\ heap[A][j] = x
  BY <1>1 DEF Entries, IndexOf
<1>3. heap' = Swapped(heap, A, j, n, last)
  BY <1>1 DEF Moved, Swapped
<1>4. /\ heap \in Seq(Seq(Nat)) /\ A \in 1..Len(heap) /\ n \in Nat /\ n <= Len(heap[A])
      /\ Len(heap[A]) \in Nat /\ Len(heap) >= 1 /\ Len(heap[1]) < 1
      /\ DOMAIN heap = 1..Len(heap) /\ DOMAIN heap[A] = 1..Len(heap[A])
  BY HeapAsFunction DEF ArrayCount, Size, Slices, HeapType
<1> HIDE DEF A, n
<1>5. j \in 1..Len(heap[A]) /\ n \in 1..Len(heap[A])
  <2>1. n \in Nat /\ n <= Len(heap[A]) /\ Len(heap[A]) \in Nat /\ j \in 1..n
    BY <1>2, <1>4
  <2> QED BY SMT, <2>1
<1>6. /\ heap' \in Seq(Seq(Nat)) /\ Len(heap') = Len(heap)
      /\ \A h \in 1..Len(heap) : h # A => heap'[h] = heap[h]
      /\ Len(heap'[A]) = Len(heap[A]) /\ heap'[A][n] = last
      /\ j # n => heap'[A][j] = heap[A][n]
      /\ \A k \in 1..Len(heap[A]) : (k # j /\ k # n) => heap'[A][k] = heap[A][k]
  <2>1. SwapsIn(heap', heap, A, j, n, last)
    BY <1>3, <1>4, <1>5, PutTwo
  <2> QED BY <1>4, <2>1 DEF SwapsIn
<1>7. \A h \in 1..Len(heap) : Len(heap'[h]) = Len(heap[h])
  BY <1>6
<1>8. HeapType'
  <2>1. 1 \in 1..Len(heap)
    BY SMT, HeapTypes DEF ArrayCount
  <2> QED BY <1>4, <1>6, <1>7, <2>1 DEF HeapType
<1> QED BY <1>2, <1>6, <1>7, <1>8 DEF Shrunk, ArrayCount, Size, Cell, A, n

-----------------------------------------------------------------------------
(* Types.                                                                  *)

Items  == [resource : Resources \cup {NoImage}, expired : BOOLEAN]

Locals == [reg : 0..MaxRegs, image : 0..MaxImages, images : Slices, next : Nat \ {0}, kept : Nat,
           item : Items, back : {"idle", "walk"}, phase : {"none", "pub", "sub", "counter"},
           slice : Slices, index : Nat, wasRunning : BOOLEAN]

Registrations == [kind : {"none", "pub", "sub", "counter"}, status : {"none", "awaiting", "registered", "errored"},
                  object : BOOLEAN, closed : BOOLEAN]

BaseType ==
    /\ running \in BOOLEAN
    /\ adminLock \in Actors \cup {Nil}
    /\ pubs \in Slices /\ subs \in Slices
    /\ counters \subseteq RegIDs
    /\ regs \in [RegIDs -> Registrations]
    /\ asked \subseteq RegIDs
    /\ sent \in [RegIDs \cup {ClientClose} -> Nat]
    /\ imageList \in [RegIDs -> Slices]
    /\ owner \in [1..MaxImages -> 0..MaxRegs]
    /\ available \subseteq 1..MaxImages /\ \A i \in available : owner[i] # Nil
    /\ lingering \in Seq(Items)
    /\ closes \in [Resources -> Nat]

\* The labels of the steps that touch neither the registry nor what lingers, and
\* those of the others.
QuietLabels ==
    {"idle", "walk", "empty", "emptySet", "release", "lock", "panicked", "closeAll", "exit", "clientClose",
     "awaitStop", "closed", "start", "loop", "done", "managed", "onReady", "onErrorResponse",
     "onClientTimeout", "onUnavailableImage"}

PCs == QuietLabels \cup {"push", "onAvailableImage", "addImage", "removeImage", "linger", "requeue"}

LocalsType == pc \in [Actors -> PCs] /\ my \in [Actors -> Locals]

TypeInv == BaseType /\ LocalsType /\ HeapType

-----------------------------------------------------------------------------
(* The goroutines.                                                         *)

InClose(a) == pc[a] \in {"empty", "emptySet", "release", "lock", "push"}

\* Whoever is inside a Close has marked the resource, only one actor is inside
\* the critical section, and the registry is walked over when running is reset.
CallInv(a) ==
    /\ InClose(a) => my[a].reg \in RegIDs /\ regs[my[a].reg].closed
    /\ pc[a] = "push" => adminLock = a /\ regs[my[a].reg].kind \in {"pub", "sub"}
    /\ pc[a] = "walk" => my[a].back = "walk"
    /\ my[a].back = "walk" => ~running /\ my[a].index \in Nat \ {0}

OnImage == pc[Conductor] \in {"onAvailableImage", "addImage", "onUnavailableImage", "removeImage"}

\* What the conductor holds while it handles a message.
HandlerInv ==
    /\ pc[Conductor] \in {"onReady", "onErrorResponse"} => my[Conductor].reg \in RegIDs
    /\ OnImage => /\ my[Conductor].reg \in RegIDs /\ my[Conductor].image \in 1..MaxImages
                  /\ owner[my[Conductor].image] = my[Conductor].reg
    /\ pc[Conductor] \in {"addImage", "removeImage", "linger"} => adminLock = Conductor

-----------------------------------------------------------------------------
(* The arrays.  tag tells the purpose of an array: RegistryTag(kind), or   *)
(* the subscription whose images are in it.                                *)

RegistryTag(kind) == IF kind = "pub" THEN -1 ELSE -2

\* What may be in an array.
Belongs(x, t) ==
    \/ t = -1 /\ x \in RegIDs /\ regs[x].kind = "pub"
    \/ t = -2 /\ x \in RegIDs /\ regs[x].kind = "sub"
    \/ t \in RegIDs /\ x \in 1..MaxImages /\ owner[x] = t

IsSlice(s, t, tag) ==
    /\ s.arr \in 1..ArrayCount
    /\ s.len <= Size(s.arr)
    /\ s.arr = 1 \/ tag[s.arr] = t

NoNil(s) == \A k \in 1..s.len : Cell(s.arr, k) # Nil

ArraysInv(tag) ==
    \A h \in 1..ArrayCount : \A k \in 1..Size(h) : Cell(h, k) = Nil \/ Belongs(Cell(h, k), tag[h])

SlicesInv(tag) ==
    /\ IsSlice(pubs, -1, tag) /\ IsSlice(subs, -2, tag)
    /\ \A r \in RegIDs : IsSlice(imageList[r], r, tag)
    /\ \A a \in Actors : IsSlice(my[a].images, my[a].reg, tag)
    /\ \A a \in Actors : IsSlice(my[a].slice, RegistryTag(my[a].phase), tag)

Tags == [1..ArrayCount -> Int]

HeapInv ==
    /\ \E tag \in Tags : ArraysInv(tag) /\ SlicesInv(tag)
    /\ \A r \in RegIDs : NoNil(imageList[r])
    /\ \A a \in Actors : NoNil(my[a].images)

-----------------------------------------------------------------------------
(* The registry.                                                           *)

\* The first n entries of array A are the registered resources of the kind.
Exact(A, n, kind) ==
    /\ \A k \in 1..n : Cell(A, k) \in Registered(kind)
    /\ \A r \in Registered(kind) : \E k \in 1..n : Cell(A, k) = r
    /\ \A i, j \in 1..n : Cell(A, i) = Cell(A, j) => i = j

\* a has taken an entry out of the array and not yet cut the slice.
Cutting(a, kind) == pc[a] = "push" /\ regs[my[a].reg].kind = kind

RegistryInv ==
    running => \A kind \in {"pub", "sub"} :
        /\ (\A a \in Actors : ~Cutting(a, kind)) => Exact(SliceOf(kind).arr, SliceOf(kind).len, kind)
        /\ \A a \in Actors : Cutting(a, kind) =>
              SliceOf(kind).len = my[a].kept + 1 /\ Exact(SliceOf(kind).arr, my[a].kept, kind)

\* A registration that nobody has made.
UnusedInv ==
    \A r \in RegIDs : regs[r].kind = "none" => sent[r] = 0 /\ ~regs[r].object /\ ~regs[r].closed

-----------------------------------------------------------------------------
(* What lingers.                                                           *)

\* x is on its way to be closed, or was closed.
Released(x) ==
    \/ closes[x] # 0
    \/ \E k \in DOMAIN lingering : lingering[k].resource = x
    \/ pc[Conductor] \in {"linger", "requeue"} /\ my[Conductor].item.resource = x

LogsInv == \A r \in RegIDs : Released(Log(r)) => regs[r].closed

IsOpen(r) == ~regs[r].closed

\* x is in the slice, and only once.
Contains(s, x) == \E k \in 1..s.len : Cell(s.arr, k) = x
Unique(s)      == \A i, j \in 1..s.len : Cell(s.arr, i) = Cell(s.arr, j) => i = j

\* The list of images, or what it will be once removeImage has stored it.
List(r) == IF pc[Conductor] = "removeImage" /\ my[Conductor].reg = r THEN my[Conductor].images ELSE imageList[r]

ImagesInv ==
    /\ \A i \in 1..MaxImages : Released(Image(i)) =>
          /\ owner[i] # Nil
          /\ IsOpen(owner[i]) => ~Contains(imageList[owner[i]], i)
    /\ \A r \in RegIDs : IsOpen(r) => Unique(List(r))

\* An image that is being added is nowhere yet.
AddingInv ==
    LET r == my[Conductor].reg
        i == my[Conductor].image
    IN /\ pc[Conductor] \in {"onAvailableImage", "addImage"} /\ IsOpen(r) =>
             ~Released(Image(i)) /\ ~Contains(imageList[r], i)
       /\ pc[Conductor] = "addImage" /\ IsOpen(r) => my[Conductor].images = imageList[r]

\* An image that is being removed is in the last place of the list at most.
RemovingInv ==
    LET r == my[Conductor].reg
        i == my[Conductor].image
    IN pc[Conductor] = "removeImage" =>
          /\ my[Conductor].item.resource = Image(i)
          /\ IsOpen(r) => /\ ~Contains(my[Conductor].images, i)
                          /\ my[Conductor].images.arr = imageList[r].arr
                          /\ my[Conductor].images.len + 1 = imageList[r].len

LingerInv == LogsInv /\ ImagesInv /\ AddingInv /\ RemovingInv

ConductorInv ==
    /\ TypeInv
    /\ \A a \in Actors : CallInv(a)
    /\ HandlerInv /\ HeapInv /\ RegistryInv /\ UnusedInv /\ LingerInv

-----------------------------------------------------------------------------
(* What no step undoes.                                                    *)

KindsGrow  == \A r \in RegIDs : regs[r].kind # "none" => regs'[r].kind = regs[r].kind
ClosedGrow == \A r \in RegIDs : regs[r].closed => regs'[r].closed
OwnersGrow == \A i \in 1..MaxImages : owner[i] # Nil => owner'[i] = owner[i]

EnvStep == KindsGrow /\ ClosedGrow /\ OwnersGrow /\ (running' => running)

\* The step is one of a; the others keep their place and their locals.
OthersKept(a) == \A b \in Actors \ {a} : pc'[b] = pc[b] /\ my'[b] = my[b]

-----------------------------------------------------------------------------
(* Steps that leave the arrays alone.                                      *)

LEMMA BelongsKept ==
    ASSUME EnvStep PROVE \A x, t : Belongs(x, t) => Belongs(x, t)'
<1>1. \A t \in RegIDs : t # Nil
  BY SMT, ConductorAssumption DEF RegIDs, Nil
<1> QED BY <1>1 DEF Belongs, EnvStep, KindsGrow, OwnersGrow

\* s is a slice with purpose t, as far as the slices there are tell.
Known(s, t) == \A tag \in Tags : SlicesInv(tag) => IsSlice(s, t, tag)

KnownImages(s, t) == Known(s, t) /\ NoNil(s)

\* The entries of s stay what they are.
CellsKept(s) == \A k \in 1..s.len : Cell(s.arr, k)' = Cell(s.arr, k)

\* ... of every slice of images, and of the slices of the registry.
KeepsImages   == \A s \in Slices, t \in RegIDs : KnownImages(s, t) => CellsKept(s)
KeepsRegistry == \A kind \in {"pub", "sub"}, s \in Slices : s = SliceOf(kind) => CellsKept(s)

LEMMA HeapKeeps ==
    ASSUME heap' = heap PROVE KeepsImages /\ KeepsRegistry
  BY DEF KeepsImages, KeepsRegistry, CellsKept, Cell

LEMMA KnownNow ==
    ASSUME HeapType, HeapInv
    PROVE  /\ Known(pubs, -1) /\ Known(subs, -2)
           /\ \A r \in RegIDs : KnownImages(imageList[r], r)
           /\ \A a \in Actors : KnownImages(my[a].images, my[a].reg) /\ Known(my[a].slice, RegistryTag(my[a].phase))
           /\ \A t : KnownImages(NilSlice, t)
<1>1. NilSlice.arr = 1 /\ NilSlice.len = 0
  BY SMT DEF NilSlice
<1>2. NilSlice.arr \in 1..ArrayCount /\ NilSlice.len <= Size(NilSlice.arr) /\ NoNil(NilSlice)
  <2>1. 1 \in 1..ArrayCount /\ Size(1) = 0
    BY HeapTypes
  <2>2. 0 <= 0 /\ \A k \in 1..0 : FALSE
    BY SMT
  <2> QED BY <1>1, <2>1, <2>2 DEF NoNil
<1>3. \A t : Known(NilSlice, t)
  BY <1>1, <1>2 DEF Known, IsSlice
<1> QED BY <1>2, <1>3 DEF HeapInv, Known, KnownImages, SlicesInv

LEMMA HeapStep ==
    ASSUME HeapType, HeapInv, EnvStep, heap' = heap, Known(pubs', -1), Known(subs', -2),
           \A r \in RegIDs : KnownImages(imageList'[r], r),
           NEW a \in Actors, OthersKept(a),
           KnownImages(my'[a].images, my'[a].reg), Known(my'[a].slice, RegistryTag(my'[a].phase))
    PROVE  HeapInv'
<1>1. PICK tag \in Tags : ArraysInv(tag) /\ SlicesInv(tag)
  BY DEF HeapInv
<1>2. ArrayCount' = ArrayCount /\ (\A h : Size(h)' = Size(h)) /\ (\A h, k : Cell(h, k)' = Cell(h, k)) /\ Tags' = Tags
  BY DEF ArrayCount, Size, Cell, Tags
<1>3. ArraysInv(tag)'
  BY <1>1, <1>2, BelongsKept DEF ArraysInv
<1>4. \A b \in Actors : KnownImages(my'[b].images, my'[b].reg) /\ Known(my'[b].slice, RegistryTag(my'[b].phase))
  BY KnownNow DEF OthersKept
<1>5. SlicesInv(tag)'
  <2>1. \A s, t : Known(s, t) => s.arr \in 1..ArrayCount /\ s.len <= Size(s.arr) /\ (s.arr = 1 \/ tag[s.arr] = t)
    BY <1>1 DEF Known, IsSlice
  <2>2. IsSlice(pubs, -1, tag)' /\ IsSlice(subs, -2, tag)'
    BY <1>2, <2>1 DEF IsSlice
  <2>3. \A r \in RegIDs : IsSlice(imageList[r], r, tag)'
    BY <1>2, <2>1 DEF IsSlice, KnownImages
  <2>4. \A b \in Actors : IsSlice(my[b].images, my[b].reg, tag)'
    BY <1>2, <1>4, <2>1 DEF IsSlice, KnownImages
  <2>5. \A b \in Actors : IsSlice(my[b].slice, RegistryTag(my[b].phase), tag)'
    BY <1>2, <1>4, <2>1 DEF IsSlice
  <2> QED BY <2>2, <2>3, <2>4, <2>5 DEF SlicesInv
<1>6. (\A r \in RegIDs : NoNil(imageList[r])') /\ (\A b \in Actors : NoNil(my[b].images)')
  BY <1>2, <1>4 DEF KnownImages, NoNil
<1> QED BY <1>1, <1>2, <1>3, <1>5, <1>6 DEF HeapInv

-----------------------------------------------------------------------------
(* Steps that leave the registry alone, and what lingers.                  *)

LEMMA ActorFacts == Nil \notin Actors /\ Conductor \in Actors /\ (\A u \in Users : u \in Actors /\ u # Conductor)
  BY ConductorAssumption DEF Actors

\* A step takes a free lock or gives back its own.
LockStep(a) == adminLock' = adminLock \/ adminLock = Nil \/ adminLock = a

LEMMA CallsStep ==
    ASSUME \A b \in Actors : CallInv(b), EnvStep, NEW a \in Actors, OthersKept(a), LockStep(a), CallInv(a)'
    PROVE  \A b \in Actors : CallInv(b)'
<1> SUFFICES ASSUME NEW b \in Actors, b # a PROVE CallInv(b)'
  OBVIOUS
<1>1. pc'[b] = pc[b] /\ my'[b] = my[b] /\ CallInv(b)
  BY DEF OthersKept
<1>2. InClose(b) => regs'[my[b].reg].closed
  BY <1>1 DEF CallInv, EnvStep, ClosedGrow
<1>3. pc[b] = "push" => adminLock' = b /\ regs'[my[b].reg].kind \in {"pub", "sub"}
  <2> SUFFICES ASSUME pc[b] = "push" PROVE adminLock' = b /\ regs'[my[b].reg].kind \in {"pub", "sub"}
    OBVIOUS
  <2>1. adminLock = b /\ regs[my[b].reg].kind \in {"pub", "sub"} /\ my[b].reg \in RegIDs
    BY <1>1 DEF CallInv, InClose
  <2>2. regs[my[b].reg].kind # "none"
    BY SMT, <2>1
  <2> QED BY <2>1, <2>2, ActorFacts DEF LockStep, EnvStep, KindsGrow
<1> QED BY <1>1, <1>2, <1>3 DEF CallInv, InClose, EnvStep

LEMMA HandlerKept ==
    ASSUME HandlerInv, EnvStep, NEW a \in Actors, a # Conductor, OthersKept(a), LockStep(a)
    PROVE  HandlerInv'
<1>1. pc'[Conductor] = pc[Conductor] /\ my'[Conductor] = my[Conductor]
  BY ActorFacts DEF OthersKept
<1>2. \A r \in RegIDs : r # Nil
  BY SMT, ConductorAssumption DEF RegIDs, Nil
<1> QED BY <1>1, <1>2, ActorFacts DEF HandlerInv, OnImage, EnvStep, OwnersGrow, LockStep

\* Nobody begins or ends to take an entry out of the registry.
CutsKept ==
    \A b \in Actors : /\ pc'[b] = "push" <=> pc[b] = "push"
                      /\ pc[b] = "push" => my'[b].reg = my[b].reg /\ my'[b].kept = my[b].kept

LEMMA CuttingKept ==
    ASSUME \A b \in Actors : CallInv(b), EnvStep, CutsKept
    PROVE  \A b \in Actors, kind \in {"pub", "sub"} :
              /\ Cutting(b, kind)' <=> Cutting(b, kind)
              /\ Cutting(b, kind) => my'[b].kept = my[b].kept
<1> SUFFICES ASSUME NEW b \in Actors, NEW kind \in {"pub", "sub"}
             PROVE  (Cutting(b, kind)' <=> Cutting(b, kind)) /\ (Cutting(b, kind) => my'[b].kept = my[b].kept)
  OBVIOUS
<1>1. CASE pc[b] = "push"
  <2>1. regs[my[b].reg].kind \in {"pub", "sub"} /\ my[b].reg \in RegIDs
    BY <1>1 DEF CallInv, InClose
  <2>2. regs[my[b].reg].kind # "none"
    BY SMT, <2>1
  <2> QED BY <1>1, <2>1, <2>2 DEF Cutting, CutsKept, EnvStep, KindsGrow
<1>2. CASE pc[b] # "push"
  BY <1>2 DEF Cutting, CutsKept
<1> QED BY <1>1, <1>2

LEMMA ExactMoves ==
    ASSUME NEW kind, Registered(kind)' = Registered(kind), NEW A, NEW B, NEW n, Exact(A, n, kind),
           \A k \in 1..n : Cell(B, k)' = Cell(A, k)
    PROVE  Exact(B, n, kind)'
<1>1. \A x : x \in Registered(kind)' <=> x \in Registered(kind)
  OBVIOUS
<1>2. \A k \in 1..n : Cell(B, k)' \in Registered(kind)'
  BY <1>1 DEF Exact
<1>3. \A r \in Registered(kind)' : \E k \in 1..n : Cell(B, k)' = r
  BY <1>1 DEF Exact
<1>4. ASSUME NEW i \in 1..n, NEW j \in 1..n, Cell(B, i)' = Cell(B, j)' PROVE i = j
  <2>1. Cell(A, i) = Cell(A, j)
    BY <1>4
  <2> QED BY <2>1 DEF Exact
<1> QED BY <1>2, <1>3, <1>4 DEF Exact

LEMMA ExactKept ==
    ASSUME heap' = heap, NEW kind, Registered(kind)' = Registered(kind), NEW A, NEW n, Exact(A, n, kind)
    PROVE  Exact(A, n, kind)'
<1>1. \A k \in 1..n : Cell(A, k)' = Cell(A, k)
  BY DEF Cell
<1> QED BY <1>1, ExactMoves

LEMMA RegistryCells ==
    ASSUME ConductorInv, EnvStep, CutsKept, UNCHANGED <<pubs, subs>>, KeepsRegistry,
           \A kind \in {"pub", "sub"} : Registered(kind)' = Registered(kind)
    PROVE  RegistryInv'
<1> SUFFICES ASSUME running', NEW kind \in {"pub", "sub"}
             PROVE  /\ (\A a \in Actors : ~Cutting(a, kind)') => Exact(SliceOf(kind).arr, SliceOf(kind).len, kind)'
                    /\ \A a \in Actors : Cutting(a, kind)' =>
                          SliceOf(kind)'.len = my'[a].kept + 1 /\ Exact(SliceOf(kind).arr, my[a].kept, kind)'
  BY DEF RegistryInv
<1>1. running /\ (\A b \in Actors : CallInv(b))
  BY DEF EnvStep, ConductorInv
<1>2. PICK s : s = SliceOf(kind)
  OBVIOUS
<1>3. SliceOf(kind)' = s /\ s \in Slices
  BY <1>2 DEF SliceOf, ConductorInv, TypeInv, BaseType
<1>4. s.len \in Nat /\ \A k \in 1..s.len : Cell(s.arr, k)' = Cell(s.arr, k)
  BY <1>2, <1>3 DEF KeepsRegistry, CellsKept, Slices
<1>5. (\A a \in Actors : ~Cutting(a, kind)') => Exact(SliceOf(kind).arr, SliceOf(kind).len, kind)'
  <2> SUFFICES ASSUME \A a \in Actors : ~Cutting(a, kind)' PROVE Exact(SliceOf(kind).arr, SliceOf(kind).len, kind)'
    OBVIOUS
  <2>1. Exact(s.arr, s.len, kind)
    BY <1>1, <1>2, CuttingKept DEF RegistryInv, ConductorInv
  <2>2. Exact(s.arr, s.len, kind)'
    BY <1>4, <2>1, ExactMoves
  <2> QED BY SMT, <1>3, <2>2 DEF Exact
<1>6. ASSUME NEW a \in Actors, Cutting(a, kind)'
      PROVE  SliceOf(kind)'.len = my'[a].kept + 1 /\ Exact(SliceOf(kind).arr, my[a].kept, kind)'
  <2>1. PICK n : n = my[a].kept
    OBVIOUS
  <2>2. s.len = n + 1 /\ Exact(s.arr, n, kind) /\ my'[a].kept = n
    BY <1>1, <1>2, <1>6, <2>1, CuttingKept DEF RegistryInv, ConductorInv
  <2>3. my[a] \in Locals
    BY DEF ConductorInv, TypeInv, LocalsType
  <2>4. n \in Nat
    BY <2>1, <2>3 DEF Locals
  <2>5. \A k \in 1..n : k \in 1..s.len
    BY SMT, <1>4, <2>2, <2>4
  <2>6. Exact(s.arr, n, kind)'
    BY <1>4, <2>2, <2>5, ExactMoves
  <2> QED BY <1>3, <2>2, <2>6 DEF Exact
<1> QED BY <1>5, <1>6

LEMMA RegistryStep ==
    ASSUME ConductorInv, EnvStep, CutsKept, UNCHANGED <<heap, pubs, subs>>,
           \A kind \in {"pub", "sub"} : Registered(kind)' = Registered(kind)
    PROVE  RegistryInv'
  BY HeapKeeps, RegistryCells

LEMMA ListNow ==
    ASSUME ConductorInv, NEW r \in RegIDs
    PROVE  /\ imageList[r] \in Slices /\ KnownImages(imageList[r], r)
           /\ List(r) \in Slices /\ KnownImages(List(r), r)
<1>1. imageList[r] \in Slices /\ KnownImages(imageList[r], r)
  BY KnownNow DEF ConductorInv, TypeInv, BaseType
<1>2. Conductor \in Actors /\ my[Conductor] \in Locals
  BY ActorFacts DEF ConductorInv, TypeInv, LocalsType
<1>3. my[Conductor].images \in Slices /\ KnownImages(my[Conductor].images, my[Conductor].reg)
  BY <1>2, KnownNow DEF Locals, ConductorInv, TypeInv
<1> QED BY <1>1, <1>3 DEF List

\* What is kept of a slice.
LEMMA SliceKept ==
    ASSUME KeepsImages, NEW s \in Slices, NEW t \in RegIDs, KnownImages(s, t)
    PROVE  (Unique(s) => Unique(s)') /\ \A x : Contains(s, x)' => Contains(s, x)
<1>1. \A k \in 1..s.len : Cell(s.arr, k)' = Cell(s.arr, k)
  BY DEF KeepsImages, CellsKept
<1> QED BY <1>1 DEF Unique, Contains

LEMMA LingerBase ==
    ASSUME ConductorInv, EnvStep, KeepsImages,
           \A r \in RegIDs : ~regs'[r].closed => imageList'[r] = imageList[r],
           \A r \in RegIDs : Released(Log(r))' => Released(Log(r)) \/ regs'[r].closed,
           \A i \in 1..MaxImages : Released(Image(i))' =>
               Released(Image(i)) \/ (owner[i] # Nil /\ regs'[owner[i]].closed),
           pc'[Conductor] = "removeImage" => pc'[Conductor] = pc[Conductor] /\ my'[Conductor] = my[Conductor],
           pc[Conductor] = "removeImage" => pc'[Conductor] = "removeImage"
    PROVE  LogsInv' /\ ImagesInv'
<1>1. \A r \in RegIDs : IsOpen(r)' => IsOpen(r)
  BY DEF IsOpen, EnvStep, ClosedGrow
<1>2. \A i \in 1..MaxImages : owner[i] # Nil => owner[i] \in RegIDs
  <2>1. \A i \in 1..MaxImages : owner[i] \in 0..MaxRegs
    BY DEF ConductorInv, TypeInv, BaseType
  <2>2. \A r \in 0..MaxRegs : r # Nil => r \in RegIDs
    BY SMT, ConductorAssumption DEF RegIDs, Nil
  <2> QED BY <2>1, <2>2
<1>3. LingerInv
  BY DEF ConductorInv
<1>4. LogsInv'
  BY <1>3 DEF LingerInv, LogsInv, EnvStep, ClosedGrow
<1>5. ASSUME NEW i \in 1..MaxImages, Released(Image(i))'
      PROVE  owner'[i] # Nil /\ (IsOpen(owner[i])' => ~Contains(imageList[owner[i]], i)')
  <2>1. PICK q : q = owner[i]
    OBVIOUS
  <2>2. q # Nil /\ owner'[i] = q /\ q \in RegIDs
    BY <1>2, <1>3, <1>5, <2>1 DEF LingerInv, ImagesInv, EnvStep, OwnersGrow
  <2>3. ASSUME IsOpen(q)' PROVE ~Contains(imageList[q], i)'
    <3>1. imageList'[q] = imageList[q] /\ Released(Image(i)) /\ IsOpen(q)
      BY <1>1, <1>5, <2>1, <2>2, <2>3 DEF IsOpen
    <3>2. PICK s : s = imageList[q]
      OBVIOUS
    <3>3. ~Contains(s, i) /\ s \in Slices /\ KnownImages(s, q)
      BY <1>3, <2>1, <2>2, <3>1, <3>2, ListNow DEF LingerInv, ImagesInv
    <3>4. ~Contains(s, i)'
      BY <2>2, <3>3, SliceKept
    <3> QED BY <3>1, <3>2, <3>4 DEF Contains
  <2> QED BY <2>2, <2>3 DEF IsOpen, Contains
<1>6. ASSUME NEW r \in RegIDs, IsOpen(r)' PROVE Unique(List(r))'
  <2>1. PICK s : s = List(r)
    OBVIOUS
  <2>2. List(r)' = s
    BY <1>6, <2>1 DEF List, IsOpen
  <2>3. Unique(s) /\ s \in Slices /\ KnownImages(s, r)
    BY <1>1, <1>3, <1>6, <2>1, ListNow DEF LingerInv, ImagesInv
  <2>4. Unique(s)'
    BY <2>3, SliceKept
  <2> QED BY <2>2, <2>4 DEF Unique
<1> QED BY <1>4, <1>5, <1>6 DEF ImagesInv

LEMMA LingerCells ==
    ASSUME ConductorInv, EnvStep, KeepsImages,
           \A r \in RegIDs : ~regs'[r].closed => imageList'[r] = imageList[r],
           \A r \in RegIDs : Released(Log(r))' => Released(Log(r)) \/ regs'[r].closed,
           \A i \in 1..MaxImages : Released(Image(i))' =>
               Released(Image(i)) \/ (owner[i] # Nil /\ regs'[owner[i]].closed),
           pc'[Conductor] \in {"onAvailableImage", "addImage", "removeImage"} =>
               pc'[Conductor] = pc[Conductor] /\ my'[Conductor] = my[Conductor],
           pc[Conductor] = "removeImage" => pc'[Conductor] = "removeImage"
    PROVE  LingerInv'
<1>1. \A r \in RegIDs : IsOpen(r)' => IsOpen(r)
  BY DEF IsOpen, EnvStep, ClosedGrow
<1>2. LingerInv /\ HandlerInv
  BY DEF ConductorInv
<1>3. LogsInv' /\ ImagesInv'
  BY LingerBase
<1>4. AddingInv'
  <2> SUFFICES ASSUME pc'[Conductor] \in {"onAvailableImage", "addImage"}, IsOpen(my[Conductor].reg)'
               PROVE  /\ ~Released(Image(my[Conductor].image))'
                      /\ ~Contains(imageList[my[Conductor].reg], my[Conductor].image)'
                      /\ pc'[Conductor] = "addImage" => my'[Conductor].images = imageList'[my'[Conductor].reg]
    BY DEF AddingInv
  <2>1. pc'[Conductor] = pc[Conductor] /\ my'[Conductor] = my[Conductor]
    OBVIOUS
  <2>2. PICK r, i, s : r = my[Conductor].reg /\ i = my[Conductor].image /\ s = imageList[r]
    OBVIOUS
  <2>3. r \in RegIDs /\ i \in 1..MaxImages /\ owner[i] = r
    BY <1>2, <2>1, <2>2 DEF HandlerInv, OnImage
  <2>4. r # Nil
    BY SMT, <2>3, ConductorAssumption DEF RegIDs, Nil
  <2>5. IsOpen(r) /\ ~regs'[r].closed
    BY <1>1, <2>1, <2>2, <2>3 DEF IsOpen
  <2>6. ~Released(Image(i)) /\ ~Contains(s, i) /\ (pc[Conductor] = "addImage" => my[Conductor].images = s)
    BY <1>2, <2>1, <2>2, <2>5 DEF LingerInv, AddingInv
  <2>7. ~Released(Image(i))' /\ imageList'[r] = s
    BY <2>2, <2>3, <2>5, <2>6
  <2>8. ~Contains(s, i)'
    BY <2>2, <2>3, <2>6, ListNow, SliceKept
  <2>9. ~Contains(imageList[r], i)'
    BY <2>7, <2>8 DEF Contains
  <2> QED BY <2>1, <2>2, <2>6, <2>7, <2>9
<1>5. RemovingInv'
  <2> SUFFICES ASSUME pc'[Conductor] = "removeImage"
               PROVE  RemovingInv'
    BY DEF RemovingInv
  <2>1. pc'[Conductor] = pc[Conductor] /\ my'[Conductor] = my[Conductor]
    OBVIOUS
  <2>2. PICK r, i, s : r = my[Conductor].reg /\ i = my[Conductor].image /\ s = my[Conductor].images
    OBVIOUS
  <2>3. r \in RegIDs /\ s = List(r)
    BY <1>2, <2>1, <2>2 DEF HandlerInv, OnImage, List
  <2>4. my[Conductor].item.resource = Image(i)
    BY <1>2, <2>1, <2>2 DEF LingerInv, RemovingInv
  <2>5. ASSUME IsOpen(r)'
        PROVE  ~Contains(s, i)' /\ s.arr = imageList'[r].arr /\ s.len + 1 = imageList'[r].len
    <3>1. imageList'[r] = imageList[r] /\ IsOpen(r)
      BY <1>1, <2>3, <2>5 DEF IsOpen
    <3>2. ~Contains(s, i) /\ s.arr = imageList'[r].arr /\ s.len + 1 = imageList'[r].len
      BY <1>2, <2>1, <2>2, <3>1 DEF LingerInv, RemovingInv
    <3>3. ~Contains(s, i)'
      BY <2>3, <3>2, ListNow, SliceKept
    <3> QED BY <3>2, <3>3
  <2> QED BY <2>1, <2>2, <2>4, <2>5 DEF RemovingInv, Contains
<1> QED BY <1>3, <1>4, <1>5 DEF LingerInv

LEMMA LingerStep ==
    ASSUME ConductorInv, EnvStep, heap' = heap,
           \A r \in RegIDs : ~regs'[r].closed => imageList'[r] = imageList[r],
           \A r \in RegIDs : Released(Log(r))' => Released(Log(r)) \/ regs'[r].closed,
           \A i \in 1..MaxImages : Released(Image(i))' =>
               Released(Image(i)) \/ (owner[i] # Nil /\ regs'[owner[i]].closed),
           pc'[Conductor] \in {"onAvailableImage", "addImage", "removeImage"} =>
               pc'[Conductor] = pc[Conductor] /\ my'[Conductor] = my[Conductor],
           pc[Conductor] = "removeImage" => pc'[Conductor] = "removeImage"
    PROVE  LingerInv'
  BY HeapKeeps, LingerCells

-----------------------------------------------------------------------------
(* A step of one goroutine.                                                *)

\* a goes to the label L with the locals M.
MoveTo(a, L, M) == pc' = [pc EXCEPT ![a] = L] /\ my' = [my EXCEPT ![a] = M]

\* Locals with slices that are what they should be.
LocalsKnown(M) == M \in Locals /\ KnownImages(M.images, M.reg) /\ Known(M.slice, RegistryTag(M.phase))

LEMMA Labels ==
    /\ QuietLabels \subseteq PCs
    /\ \A L \in QuietLabels :
          L \notin {"push", "onAvailableImage", "addImage", "removeImage", "linger", "requeue"}
    /\ "walk" # "idle"
    /\ "push" \notin {"onAvailableImage", "addImage", "removeImage", "linger", "requeue"}
  BY SMT DEF QuietLabels, PCs

LEMMA Moves ==
    ASSUME LocalsType, NEW a \in Actors, NEW L \in PCs, NEW M \in Locals, MoveTo(a, L, M)
    PROVE  pc'[a] = L /\ my'[a] = M /\ OthersKept(a) /\ LocalsType'
  BY DEF LocalsType, MoveTo, OthersKept

LEMMA ReleasedKept ==
    ASSUME UNCHANGED <<lingering, closes>>,
           pc'[Conductor] \in {"linger", "requeue"} =>
               pc[Conductor] \in {"linger", "requeue"} /\ my'[Conductor].item.resource = my[Conductor].item.resource
    PROVE  \A x : Released(x)' => Released(x)
  BY DEF Released

\* A step that changes anything: the invariants of the parts, put together.
LEMMA AnyStep ==
    ASSUME ConductorInv, NEW a \in Actors, NEW L \in PCs, NEW M \in Locals, MoveTo(a, L, M),
           BaseType', HeapType', EnvStep, LockStep(a), CallInv(a)', a = Conductor => HandlerInv',
           HeapInv', RegistryInv', UnusedInv', LingerInv'
    PROVE  ConductorInv'
<1>1. pc'[a] = L /\ my'[a] = M /\ OthersKept(a) /\ LocalsType'
  BY Moves DEF ConductorInv, TypeInv
<1>2. TypeInv'
  BY <1>1 DEF TypeInv
<1>3. \A b \in Actors : CallInv(b)'
  BY <1>1, CallsStep DEF ConductorInv
<1>4. HandlerInv'
  BY <1>1, HandlerKept DEF ConductorInv
<1> QED BY <1>2, <1>3, <1>4 DEF ConductorInv

\* A step that leaves alone what lingers.
LEMMA QuietBase ==
    ASSUME ConductorInv, NEW a \in Actors, NEW L \in PCs, NEW M, MoveTo(a, L, M), LocalsKnown(M),
           pc[a] \in QuietLabels \cup {"push"}, L \in QuietLabels \cup {"push"},
           BaseType', EnvStep, LockStep(a), CallInv(a)', a = Conductor => HandlerInv',
           UNCHANGED <<heap, lingering, closes>>, Known(pubs', -1), Known(subs', -2), RegistryInv', UnusedInv',
           \A r \in RegIDs : imageList'[r] = imageList[r] \/ (regs'[r].closed /\ imageList'[r] = NilSlice)
    PROVE  ConductorInv'
<1>1. pc'[a] = L /\ my'[a] = M /\ OthersKept(a) /\ HeapType'
  BY Moves DEF ConductorInv, TypeInv, LocalsKnown, HeapType
<1>2. HeapInv'
  BY <1>1, KnownNow, HeapStep DEF ConductorInv, TypeInv, LocalsKnown
<1>3. /\ pc'[Conductor] \in {"onAvailableImage", "addImage", "removeImage", "linger", "requeue"} =>
             pc'[Conductor] = pc[Conductor] /\ my'[Conductor] = my[Conductor]
      /\ pc[Conductor] = "removeImage" => pc'[Conductor] = "removeImage"
  BY <1>1, ActorFacts, Labels DEF OthersKept
<1>4. \A x : Released(x)' => Released(x)
  <2>1. pc'[Conductor] \in {"linger", "requeue"} =>
            pc[Conductor] \in {"linger", "requeue"} /\ my'[Conductor].item.resource = my[Conductor].item.resource
    BY <1>3
  <2> QED BY <2>1, ReleasedKept
<1>5. LingerInv'
  BY <1>3, <1>4, LingerStep
<1> QED BY <1>1, <1>2, <1>5, AnyStep DEF LocalsKnown

\* ... and the registry too.
LEMMA QuietStep ==
    ASSUME ConductorInv, NEW a \in Actors, NEW L \in PCs, NEW M, MoveTo(a, L, M), LocalsKnown(M),
           pc[a] \in QuietLabels, L \in QuietLabels,
           BaseType', EnvStep, LockStep(a), CallInv(a)', a = Conductor => HandlerInv',
           UNCHANGED <<heap, pubs, subs, lingering, closes>>,
           \A kind \in {"pub", "sub"} : Registered(kind)' = Registered(kind), UnusedInv',
           \A r \in RegIDs : imageList'[r] = imageList[r] \/ (regs'[r].closed /\ imageList'[r] = NilSlice)
    PROVE  ConductorInv'
<1>1. pc'[a] = L /\ my'[a] = M /\ OthersKept(a)
  BY Moves DEF ConductorInv, TypeInv, LocalsKnown
<1>2. CutsKept
  BY <1>1, Labels DEF CutsKept, OthersKept
<1>3. RegistryInv'
  BY <1>2, RegistryStep
<1>4. Known(pubs', -1) /\ Known(subs', -2)
  BY KnownNow DEF ConductorInv, TypeInv
<1> QED BY <1>3, <1>4, QuietBase

-----------------------------------------------------------------------------
(* The locals a step leaves behind.                                        *)

LEMMA KnownLocals ==
    ASSUME ConductorInv
    PROVE  (\A b \in Actors : LocalsKnown(my[b])) /\ LocalsKnown(NoLocals)
<1>1. \A b \in Actors : my[b] \in Locals
  BY DEF ConductorInv, TypeInv, LocalsType
<1>2. NoLocals \in Locals /\ NoLocals.images = NilSlice /\ NoLocals.slice = NilSlice
  <2>1. 0 \in 0..MaxRegs /\ 0 \in 0..MaxImages /\ 1 \in Nat \ {0} /\ 0 \in Nat
    BY SMT, ConductorAssumption
  <2>2. NilSlice \in Slices /\ Fresh(NoImage) \in Items
    BY SMT DEF NilSlice, Slices, Fresh, Items
  <2> QED BY SMT, <2>1, <2>2 DEF NoLocals, Locals, Nil
<1> QED BY <1>1, <1>2, KnownNow DEF ConductorInv, TypeInv, LocalsKnown, KnownImages

LEMMA LocalsUpdates ==
    ASSUME NEW l, LocalsKnown(l)
    PROVE  /\ \A n \in Nat \ {0} : LocalsKnown([l EXCEPT !.next = n])
           /\ \A n \in Nat : LocalsKnown([l EXCEPT !.index = n])
           /\ \A n \in Nat : LocalsKnown([l EXCEPT !.kept = n])
           /\ \A it \in Items : LocalsKnown([l EXCEPT !.item = it])
           /\ \A b \in BOOLEAN : LocalsKnown([l EXCEPT !.wasRunning = b])
           /\ \A s \in Slices : KnownImages(s, l.reg) => LocalsKnown([l EXCEPT !.images = s])
           /\ \A p \in {"none", "pub", "sub", "counter"}, s \in Slices :
                 Known(s, RegistryTag(p)) => LocalsKnown([l EXCEPT !.phase = p, !.slice = s])
<1>1. \A n \in Nat \ {0} : LocalsKnown([l EXCEPT !.next = n])
  BY DEF LocalsKnown, Locals
<1>2. \A n \in Nat : LocalsKnown([l EXCEPT !.index = n])
  BY DEF LocalsKnown, Locals
<1>3. \A n \in Nat : LocalsKnown([l EXCEPT !.kept = n])
  BY DEF LocalsKnown, Locals
<1>4. \A it \in Items : LocalsKnown([l EXCEPT !.item = it])
  BY DEF LocalsKnown, Locals
<1>5. \A b \in BOOLEAN : LocalsKnown([l EXCEPT !.wasRunning = b])
  BY DEF LocalsKnown, Locals
<1>6. \A s \in Slices : KnownImages(s, l.reg) => LocalsKnown([l EXCEPT !.images = s])
  BY DEF LocalsKnown, Locals
<1>7. \A p \in {"none", "pub", "sub", "counter"}, s \in Slices :
          Known(s, RegistryTag(p)) => LocalsKnown([l EXCEPT !.phase = p, !.slice = s])
  BY DEF LocalsKnown, Locals
<1> QED BY <1>1, <1>2, <1>3, <1>4, <1>5, <1>6, <1>7

\* A call returns to the application or to closeAllResources.
LEMMA Returns ==
    ASSUME ConductorInv, NEW a \in Actors, Return(a), running' => running
    PROVE  \E L \in {"idle", "walk"}, M \in Locals : MoveTo(a, L, M) /\ LocalsKnown(M) /\ CallInv(a)'
<1>1. PICK L, M : L = my[a].back /\ M = (IF my[a].back = "idle" THEN NoLocals ELSE my[a])
  BY SMT
<1>2. L \in {"idle", "walk"} /\ L \in PCs
  <2>1. my[a] \in Locals
    BY KnownLocals DEF LocalsKnown
  <2>2. my[a].back \in {"idle", "walk"}
    BY <2>1 DEF Locals
  <2> QED BY <1>1, <2>2 DEF PCs, QuietLabels
<1>3. LocalsKnown(M)
  BY <1>1, KnownLocals
<1>4. MoveTo(a, L, M)
  <2>1. L # "idle" => my' = [my EXCEPT ![a] = my[a]]
    BY <1>1 DEF Return, ConductorInv, TypeInv, LocalsType
  <2> QED BY <1>1, <2>1 DEF MoveTo, Return, Goto
<1>5. pc'[a] = L /\ my'[a] = M
  BY <1>2, <1>3, <1>4, Moves DEF ConductorInv, TypeInv, LocalsKnown
<1>6. CallInv(a)'
  <2>1. L = "walk" => M = my[a] /\ M.back = "walk"
    BY <1>1, Labels
  <2>2. L = "idle" => M.back = "idle"
    BY SMT, <1>1 DEF NoLocals
  <2>3. L # "push" /\ L \notin {"empty", "emptySet", "release", "lock", "push"}
    BY SMT, <1>2
  <2>4. M.back = "walk" => L = "walk"
    BY SMT, <1>2, <2>2
  <2>5. M.back = "walk" => ~running' /\ M.index \in Nat \ {0}
    BY <2>1, <2>4 DEF ConductorInv, CallInv
  <2> QED BY <1>5, <2>1, <2>3, <2>5 DEF CallInv, InClose
<1> QED BY <1>2, <1>3, <1>4, <1>6 DEF LocalsKnown

LEMMA ReturnStep ==
    ASSUME ConductorInv, NEW a \in Actors, Return(a), pc[a] = "release" \/ pc[a] = "lock", BaseType',
           UNCHANGED <<flags, adminLock, heap, pubs, subs, regs, imageVars, lingering, closes>>,
           \A kind \in {"pub", "sub"} : Registered(kind)' = Registered(kind), UnusedInv'
    PROVE  ConductorInv'
<1>1. running' = running /\ owner' = owner /\ imageList' = imageList
  BY DEF flags, imageVars
<1>2. EnvStep /\ LockStep(a)
  BY <1>1 DEF EnvStep, KindsGrow, ClosedGrow, OwnersGrow, LockStep
<1>3. PICK L \in {"idle", "walk"}, M \in Locals : MoveTo(a, L, M) /\ LocalsKnown(M) /\ CallInv(a)'
  BY <1>1, Returns
<1>4. pc[a] \in QuietLabels /\ L \in QuietLabels /\ L \in PCs
  BY <1>3 DEF QuietLabels, PCs
<1>5. a = Conductor => HandlerInv'
  <2>1. pc'[a] = L
    BY <1>3, <1>4, Moves DEF ConductorInv, TypeInv, LocalsKnown
  <2> QED BY SMT, <1>3, <2>1 DEF HandlerInv, OnImage
<1> QED BY <1>1, <1>2, <1>3, <1>4, <1>5, QuietStep

-----------------------------------------------------------------------------
(* Steps that change nothing the goroutines share but flags and sets.      *)

LEMMA StillStep ==
    ASSUME ConductorInv, NEW a \in Actors, NEW L \in QuietLabels, NEW M, MoveTo(a, L, M), LocalsKnown(M),
           pc[a] \in QuietLabels, CallInv(a)', a = Conductor => HandlerInv',
           UNCHANGED <<adminLock, heap, pubs, subs, regs, sent, imageList, owner, lingering, closes>>,
           running' \in BOOLEAN, running' => running,
           counters' \subseteq RegIDs, asked' \subseteq RegIDs, available' \subseteq available
    PROVE  ConductorInv'
<1>1. EnvStep /\ LockStep(a)
  BY DEF EnvStep, KindsGrow, ClosedGrow, OwnersGrow, LockStep
<1>2. BaseType'
  BY DEF ConductorInv, TypeInv, BaseType
<1>3. (\A kind \in {"pub", "sub"} : Registered(kind)' = Registered(kind)) /\ UnusedInv'
  BY DEF Registered, UnusedInv, ConductorInv
<1> QED BY <1>1, <1>2, <1>3, QuietStep, Labels

\* Labels outside a Close, the walk of closeAllResources and the handlers.
OutsideLabels ==
    {"idle", "panicked", "closeAll", "exit", "clientClose", "awaitStop", "closed", "start", "loop", "done",
     "managed", "onClientTimeout"}

LEMMA OutsideCalls ==
    ASSUME ConductorInv, NEW a \in Actors, NEW L \in OutsideLabels, NEW M, MoveTo(a, L, M), LocalsKnown(M),
           M.back = "walk" => M = my[a] \/ (~running' /\ M.index \in Nat \ {0}), running' => running
    PROVE  L \in QuietLabels /\ CallInv(a)' /\ (a = Conductor => HandlerInv')
<1>1. L \in QuietLabels /\ L \notin {"empty", "emptySet", "release", "lock", "push", "walk"}
  BY SMT DEF OutsideLabels, QuietLabels
<1>2. L \notin {"onReady", "onErrorResponse", "onAvailableImage", "addImage", "onUnavailableImage", "removeImage", "linger"}
  BY SMT DEF OutsideLabels
<1>3. pc'[a] = L /\ my'[a] = M
  BY <1>1, Moves, Labels DEF ConductorInv, TypeInv, LocalsKnown
<1>4. CallInv(a)'
  BY <1>1, <1>3 DEF CallInv, InClose, ConductorInv
<1> QED BY <1>1, <1>2, <1>3, <1>4 DEF HandlerInv, OnImage

LEMMA OutsideStep ==
    ASSUME ConductorInv, NEW a \in Actors, NEW L \in OutsideLabels, NEW M, MoveTo(a, L, M), LocalsKnown(M),
           M.back = "walk" => M = my[a], pc[a] \in QuietLabels,
           UNCHANGED <<adminLock, heap, pubs, subs, regs, sent, imageList, owner, lingering, closes>>,
           running' \in BOOLEAN, running' => running,
           counters' \subseteq RegIDs, asked' \subseteq RegIDs, available' \subseteq available
    PROVE  ConductorInv'
  BY OutsideCalls, StillStep

\* The labels between which a goroutine goes and only keeps its locals.
GoesOn(a) ==
    \/ WalkCountersEnds(a) \/ CloseReturns(a)
    \/ a = Conductor /\ (RunStarts \/ ServiceTimeout \/ DriverTimeout \/ CheckManagedResources \/ ManagedEnds
                         \/ LoopEnds \/ RunEnds)

LEMMA GoesOnStep ==
    ASSUME ConductorInv, NEW a \in Actors, GoesOn(a) PROVE ConductorInv'
<1>1. PICK L, M : /\ L \in OutsideLabels /\ pc[a] \in QuietLabels /\ M = my[a]
                  /\ pc' = [pc EXCEPT ![a] = L] /\ my' = my
  <2>1. ASSUME NEW L \in OutsideLabels, pc[a] \in QuietLabels, Goto(a, L), UNCHANGED my
        PROVE  \E m, l : /\ l \in OutsideLabels /\ pc[a] \in QuietLabels /\ m = my[a]
                         /\ pc' = [pc EXCEPT ![a] = l] /\ my' = my
    BY <2>1 DEF Goto
  <2>2. CASE WalkCountersEnds(a)
    <3>1. AfterCloseAll(a) \in OutsideLabels /\ "walk" \in QuietLabels
      BY DEF AfterCloseAll, OutsideLabels, QuietLabels
    <3> QED BY <2>1, <2>2, <3>1 DEF WalkCountersEnds
  <2>3. CASE CloseReturns(a)
    BY <2>1, <2>3 DEF CloseReturns, OutsideLabels, QuietLabels
  <2>4. CASE a = Conductor /\ (RunStarts \/ ServiceTimeout \/ DriverTimeout \/ CheckManagedResources \/ ManagedEnds
                               \/ LoopEnds \/ RunEnds)
    BY <2>1, <2>4 DEF RunStarts, ServiceTimeout, DriverTimeout, CheckManagedResources, ManagedEnds,
       LoopEnds, RunEnds, OutsideLabels, QuietLabels
  <2> QED BY <2>2, <2>3, <2>4 DEF GoesOn
<1>2. LocalsKnown(M) /\ MoveTo(a, L, M)
  BY <1>1, KnownLocals DEF MoveTo, ConductorInv, TypeInv, LocalsType
<1>3. /\ UNCHANGED <<adminLock, heap, pubs, subs, regs, sent, imageList, owner, lingering, closes>>
      /\ running' = running /\ asked' = asked /\ available' = available
      /\ counters' = counters \/ counters' = {}
  BY DEF GoesOn, WalkCountersEnds, CloseReturns, RunStarts, ServiceTimeout, DriverTimeout,
     CheckManagedResources, ManagedEnds, LoopEnds, RunEnds, flags, registry, imageVars
<1>4. running' \in BOOLEAN /\ counters' \subseteq RegIDs /\ asked' \subseteq RegIDs /\ available' \subseteq available
  BY <1>3 DEF ConductorInv, TypeInv, BaseType
<1> QED BY <1>1, <1>2, <1>3, <1>4, OutsideStep

LEMMA BackToLoopMoves ==
    ASSUME ConductorInv, BackToLoop
    PROVE  /\ "loop" \in OutsideLabels /\ LocalsKnown(NoLocals) /\ NoLocals.back # "walk"
           /\ MoveTo(Conductor, "loop", NoLocals)
<1>1. "loop" \in OutsideLabels /\ NoLocals.back # "walk"
  BY SMT DEF OutsideLabels, NoLocals
<1> QED BY <1>1, KnownLocals DEF BackToLoop, Goto, MoveTo

Received(handler, r, i, M) ==
    /\ MoveTo(Conductor, handler, M) /\ LocalsKnown(M) /\ M.reg = r /\ M.image = i /\ M.back = "idle"
    /\ pc[Conductor] \in QuietLabels
    /\ UNCHANGED <<adminLock, heap, pubs, subs, counters, regs, sent, imageList, lingering, closes>>
    /\ running' = running

LEMMA ReceiveMoves ==
    ASSUME ConductorInv, NEW r \in 0..MaxRegs, NEW i \in 0..MaxImages, NEW handler, Receive(handler, r, i)
    PROVE  \E M : Received(handler, r, i, M)
<1>1. PICK M : M = [NoLocals EXCEPT !.reg = r, !.image = i]
  BY SMT
<1>2. MoveTo(Conductor, handler, M) /\ pc[Conductor] \in QuietLabels
  BY <1>1 DEF Receive, Goto, MoveTo, QuietLabels
<1>3. /\ UNCHANGED <<adminLock, heap, pubs, subs, counters, regs, sent, imageList, lingering, closes>>
      /\ running' = running
  BY DEF Receive, flags, registry
<1>4. LocalsKnown(M) /\ M.reg = r /\ M.image = i /\ M.back = "idle"
  <2>1. NoLocals \in Locals /\ NoLocals.back = "idle" /\ NoLocals.images = NilSlice /\ LocalsKnown(NoLocals)
    <3>1. NoLocals.back = "idle" /\ NoLocals.images = NilSlice
      BY DEF NoLocals
    <3> QED BY <3>1, KnownLocals DEF LocalsKnown
  <2>2. /\ M \in Locals /\ M.reg = r /\ M.image = i /\ M.back = NoLocals.back
        /\ M.images = NoLocals.images /\ M.slice = NoLocals.slice /\ M.phase = NoLocals.phase
    BY <1>1, <2>1 DEF Locals
  <2>3. KnownImages(NilSlice, r)
    BY KnownNow DEF ConductorInv, TypeInv
  <2> QED BY <2>1, <2>2, <2>3 DEF LocalsKnown
<1>5. Received(handler, r, i, M)
  BY <1>2, <1>3, <1>4 DEF Received
<1> QED BY <1>5

LEMMA ReceiveAnswerStep ==
    ASSUME ConductorInv, ReceiveAnswer PROVE ConductorInv'
<1>1. PICK r \in asked, handler \in {"onReady", "onErrorResponse"} :
          Receive(handler, r, Nil) /\ asked' = asked \ {r} /\ UNCHANGED <<owner, available>>
  BY DEF ReceiveAnswer
<1>2. r \in RegIDs /\ asked \subseteq RegIDs /\ running \in BOOLEAN /\ counters \subseteq RegIDs
  BY DEF ConductorInv, TypeInv, BaseType
<1>3. r \in 0..MaxRegs /\ Nil \in 0..MaxImages /\ asked' \subseteq RegIDs
  BY SMT, <1>1, <1>2, ConductorAssumption DEF RegIDs, Nil
<1>4. PICK M : Received(handler, r, Nil, M)
  BY <1>1, <1>3, ReceiveMoves
<1>5. /\ handler \in QuietLabels /\ Conductor \in Actors
      /\ handler \notin {"empty", "emptySet", "release", "lock", "push", "walk"}
      /\ handler \notin {"onAvailableImage", "addImage", "onUnavailableImage", "removeImage", "linger"}
  BY SMT, <1>1, ActorFacts DEF QuietLabels
<1>6. pc'[Conductor] = handler /\ my'[Conductor] = M
  BY <1>4, <1>5, Moves, Labels DEF ConductorInv, TypeInv, LocalsKnown, Received
<1>7. CallInv(Conductor)'
  BY <1>4, <1>5, <1>6, Labels DEF CallInv, InClose, Received
<1>8. HandlerInv'
  BY <1>2, <1>4, <1>5, <1>6 DEF HandlerInv, OnImage, Received
<1> QED BY <1>1, <1>2, <1>3, <1>4, <1>5, <1>7, <1>8, StillStep DEF Received

LEMMA ReceiveUnavailableImageStep ==
    ASSUME ConductorInv, ReceiveUnavailableImage PROVE ConductorInv'
<1> DEFINE handler == "onUnavailableImage"
<1>1. PICK i \in available : /\ Receive(handler, owner[i], i) /\ available' = available \ {i}
                             /\ UNCHANGED <<owner, asked>>
  BY DEF ReceiveUnavailableImage
<1>2. PICK r : r = owner[i]
  BY SMT
<1>3. /\ i \in 1..MaxImages /\ owner \in [1..MaxImages -> 0..MaxRegs] /\ r # Nil /\ r \in 0..MaxRegs
      /\ asked \subseteq RegIDs /\ running \in BOOLEAN /\ counters \subseteq RegIDs
  BY <1>2 DEF ConductorInv, TypeInv, BaseType
<1>4. r \in RegIDs /\ i \in 0..MaxImages /\ available' \subseteq available
  BY SMT, <1>1, <1>3, ConductorAssumption DEF RegIDs, Nil
<1>5. PICK M : Received(handler, r, i, M)
  BY <1>1, <1>2, <1>3, <1>4, ReceiveMoves
<1>6. /\ handler \in QuietLabels /\ Conductor \in Actors
      /\ handler \notin {"empty", "emptySet", "release", "lock", "push", "walk"}
      /\ handler \notin {"onReady", "onErrorResponse", "addImage", "removeImage", "linger"}
  BY SMT, ActorFacts DEF QuietLabels
<1>7. pc'[Conductor] = handler /\ my'[Conductor] = M
  BY <1>5, <1>6, Moves, Labels DEF ConductorInv, TypeInv, LocalsKnown, Received
<1>8. CallInv(Conductor)'
  BY <1>5, <1>6, <1>7, Labels DEF CallInv, InClose, Received
<1>9. HandlerInv'
  <2> HIDE DEF handler
  <2> QED BY <1>1, <1>2, <1>3, <1>4, <1>5, <1>6, <1>7 DEF HandlerInv, OnImage, Received
<1> QED BY <1>1, <1>3, <1>4, <1>5, <1>6, <1>8, <1>9, StillStep DEF Received

LEMMA ClientTimeoutStep ==
    ASSUME ConductorInv, ReceiveClientTimeout \/ OnClientTimeout PROVE ConductorInv'
<1>1. /\ running \in BOOLEAN /\ counters \subseteq RegIDs /\ asked \subseteq RegIDs /\ Conductor \in Actors
      /\ Nil \in 0..MaxRegs /\ Nil \in 0..MaxImages
  <2>1. Nil \in 0..MaxRegs /\ Nil \in 0..MaxImages
    BY SMT, ConductorAssumption DEF Nil
  <2> QED BY <2>1, ActorFacts DEF ConductorInv, TypeInv, BaseType
<1>2. CASE ReceiveClientTimeout
  <2>1. PICK M : Received("onClientTimeout", Nil, Nil, M)
    BY <1>1, <1>2, ReceiveMoves DEF ReceiveClientTimeout
  <2>2. "onClientTimeout" \in OutsideLabels /\ UNCHANGED <<owner, available, asked>>
    BY <1>2 DEF OutsideLabels, ReceiveClientTimeout
  <2> QED BY <1>1, <2>1, <2>2, Labels, OutsideStep DEF Received
<1>3. CASE OnClientTimeout
  <2>1. /\ UNCHANGED <<adminLock, heap, pubs, subs, regs, sent, imageList, owner, lingering, closes>>
        /\ running' = FALSE /\ asked' = asked /\ available' = available /\ counters' = counters
        /\ pc[Conductor] \in QuietLabels
    BY <1>3 DEF OnClientTimeout, Handling, registry, imageVars, QuietLabels
  <2>2. /\ "loop" \in OutsideLabels /\ LocalsKnown(NoLocals) /\ NoLocals.back # "walk"
        /\ MoveTo(Conductor, "loop", NoLocals)
    BY <1>3, BackToLoopMoves DEF OnClientTimeout
  <2> QED BY <1>1, <2>1, <2>2, OutsideStep
<1> QED BY <1>2, <1>3

LEMMA CloseClientStep ==
    ASSUME ConductorInv, NEW u \in Users, CloseClient(u) PROVE ConductorInv'
<1>1. PICK M : M = [NoLocals EXCEPT !.wasRunning = running]
  OBVIOUS
<1>2. LocalsKnown(M) /\ M.back = "idle" /\ u \in Actors
  <2>1. running \in BOOLEAN /\ LocalsKnown(NoLocals) /\ NoLocals \in Locals /\ NoLocals.back = "idle"
    BY KnownLocals DEF LocalsKnown, NoLocals, ConductorInv, TypeInv, BaseType
  <2>2. M.back = NoLocals.back
    BY <1>1, <2>1 DEF Locals
  <2> QED BY <1>1, <2>1, <2>2, LocalsUpdates, ActorFacts
<1>3. MoveTo(u, "closeAll", M) /\ "closeAll" \in OutsideLabels /\ pc[u] \in QuietLabels
  BY <1>1 DEF CloseClient, MoveTo, Goto, OutsideLabels, QuietLabels
<1>4. /\ UNCHANGED <<adminLock, heap, pubs, subs, regs, sent, imageList, owner, lingering, closes>>
      /\ running' = running /\ asked' = asked /\ available' = available /\ counters' = counters
  BY DEF CloseClient, flags, registry, imageVars
<1>5. running \in BOOLEAN /\ counters \subseteq RegIDs /\ asked \subseteq RegIDs
  BY DEF ConductorInv, TypeInv, BaseType
<1> QED BY <1>2, <1>3, <1>4, <1>5, OutsideStep, Labels

-----------------------------------------------------------------------------
(* Closing a resource, up to its release.                                  *)

LEMMA ClosingCalls ==
    ASSUME ConductorInv, NEW a \in Actors, pc[a] \in {"empty", "emptySet", "release"},
           NEW L \in {"emptySet", "release", "lock"}, NEW M, MoveTo(a, L, M), LocalsKnown(M),
           M.reg = my[a].reg /\ M.back = my[a].back /\ M.index = my[a].index,
           UNCHANGED <<regs, running>>
    PROVE  /\ L \in QuietLabels /\ pc[a] \in QuietLabels
           /\ CallInv(a)' /\ (a = Conductor => HandlerInv')
<1>1. /\ L \in QuietLabels /\ pc[a] \in QuietLabels /\ L # "push" /\ L # "walk"
      /\ L \notin {"onReady", "onErrorResponse", "onAvailableImage", "addImage", "onUnavailableImage",
                   "removeImage", "linger"}
  BY SMT DEF QuietLabels
<1>2. pc'[a] = L /\ my'[a] = M
  BY <1>1, Moves, Labels DEF ConductorInv, TypeInv, LocalsKnown
<1>3. CallInv(a) /\ InClose(a)
  BY DEF ConductorInv, InClose
<1>4. CallInv(a)'
  BY <1>1, <1>2, <1>3 DEF CallInv
<1> QED BY <1>1, <1>2, <1>4 DEF HandlerInv, OnImage

\* What all these steps leave alone.
Untouched == /\ UNCHANGED <<adminLock, heap, pubs, subs, regs, sent, owner, lingering, closes>>
             /\ UNCHANGED <<running, counters, asked, available>>

LEMMA TypesNow ==
    ASSUME ConductorInv
    PROVE  running \in BOOLEAN /\ counters \subseteq RegIDs /\ asked \subseteq RegIDs
  BY DEF ConductorInv, TypeInv, BaseType

LEMMA EmptyGetStep ==
    ASSUME ConductorInv, NEW a \in Actors, EmptyGet(a) PROVE ConductorInv'
<1>1. PICK M, l : l = my[a] /\ M = [l EXCEPT !.images = imageList[l.reg]]
  OBVIOUS
<1>2. LocalsKnown(l) /\ l \in Locals /\ l.reg \in RegIDs
  BY <1>1, KnownLocals DEF LocalsKnown, ConductorInv, CallInv, InClose, EmptyGet
<1>3. imageList[l.reg] \in Slices /\ KnownImages(imageList[l.reg], l.reg)
  BY <1>2, KnownNow DEF ConductorInv, TypeInv, BaseType
<1>4. LocalsKnown(M) /\ M.reg = l.reg /\ M.back = l.back /\ M.index = l.index
  <2>1. M.reg = l.reg /\ M.back = l.back /\ M.index = l.index
    BY <1>1, <1>2 DEF Locals
  <2> QED BY <1>1, <1>2, <1>3, <2>1, LocalsUpdates
<1>5. MoveTo(a, "emptySet", M) /\ Untouched /\ imageList' = imageList /\ pc[a] = "empty"
  BY <1>1 DEF EmptyGet, MoveTo, Goto, Untouched, flags, registry, imageVars
<1>6. "emptySet" \in QuietLabels /\ pc[a] \in QuietLabels /\ CallInv(a)' /\ (a = Conductor => HandlerInv')
  BY <1>1, <1>4, <1>5, ClosingCalls DEF Untouched
<1> QED BY <1>4, <1>5, <1>6, StillStep, TypesNow DEF Untouched

LEMMA CheckDriverStep ==
    ASSUME ConductorInv, NEW a \in Actors, CheckDriver(a) PROVE ConductorInv'
<1>1. Untouched /\ imageList' = imageList /\ pc[a] = "release"
  BY DEF CheckDriver, Untouched, flags, registry, imageVars
<1>2. CASE Goto(a, "lock") /\ UNCHANGED my
  <2>1. PICK M : M = my[a]
    BY SMT
  <2>2. LocalsKnown(M) /\ MoveTo(a, "lock", M)
    BY <1>2, <2>1, KnownLocals DEF MoveTo, Goto, ConductorInv, TypeInv, LocalsType
  <2>3. "lock" \in QuietLabels /\ pc[a] \in QuietLabels /\ CallInv(a)' /\ (a = Conductor => HandlerInv')
    BY <1>1, <2>1, <2>2, ClosingCalls DEF Untouched
  <2> QED BY <1>1, <2>2, <2>3, StillStep, TypesNow DEF Untouched
<1>3. CASE Return(a)
  <2>1. BaseType' /\ UnusedInv' /\ \A kind \in {"pub", "sub"} : Registered(kind)' = Registered(kind)
    BY <1>1 DEF Untouched, ConductorInv, TypeInv, BaseType, UnusedInv, Registered
  <2>2. UNCHANGED <<flags, adminLock, heap, pubs, subs, regs, imageVars, lingering, closes>>
    BY DEF CheckDriver, registry
  <2> QED BY <1>1, <1>3, <2>1, <2>2, ReturnStep
<1> QED BY <1>2, <1>3 DEF CheckDriver

LEMMA ReleaseEndsStep ==
    ASSUME ConductorInv, NEW a \in Actors, ReleaseUnlisted(a) \/ ReleaseFails(a) PROVE ConductorInv'
<1>1. /\ UNCHANGED <<flags, adminLock, heap, pubs, subs, regs, imageVars, lingering, closes>>
      /\ pc[a] = "lock" /\ Return(a) /\ UNCHANGED <<asked, sent>>
      /\ counters' = counters \/ counters' = counters \ {my[a].reg}
  BY DEF ReleaseUnlisted, ReleaseFails, registry
<1>2. counters' \subseteq RegIDs
  BY SMT, <1>1, TypesNow
<1>3. BaseType' /\ UnusedInv' /\ \A kind \in {"pub", "sub"} : Registered(kind)' = Registered(kind)
  BY <1>1, <1>2 DEF ConductorInv, TypeInv, BaseType, UnusedInv, Registered, flags, imageVars
<1> QED BY <1>1, <1>3, ReturnStep

LEMMA ReleaseCounterStep ==
    ASSUME ConductorInv, NEW a \in Actors, ReleaseCounter(a) PROVE ConductorInv'
<1>1. PICK r : r = my[a].reg
  BY SMT
<1>2. /\ UNCHANGED <<flags, adminLock, heap, pubs, subs, regs, imageVars, lingering, closes>>
      /\ pc[a] = "lock" /\ Return(a) /\ UNCHANGED asked
      /\ counters' = counters \ {r} /\ sent' = [sent EXCEPT ![r] = @ + 1] /\ regs[r].kind = "counter"
  BY <1>1 DEF ReleaseCounter
<1>3. counters' \subseteq RegIDs /\ r \in RegIDs
  <2>1. r \in RegIDs
    BY <1>1, <1>2 DEF ConductorInv, CallInv, InClose
  <2> QED BY SMT, <1>2, <2>1, TypesNow
<1>4. sent \in [RegIDs \cup {ClientClose} -> Nat]
  BY DEF ConductorInv, TypeInv, BaseType
<1>5. sent' \in [RegIDs \cup {ClientClose} -> Nat] /\ \A q \in RegIDs : q # r => sent'[q] = sent[q]
  BY SMT, <1>2, <1>3, <1>4
<1>6. BaseType'
  BY <1>2, <1>3, <1>5 DEF ConductorInv, TypeInv, BaseType, flags, imageVars
<1>7. "counter" \notin {"pub", "sub", "none"}
  BY SMT
<1>8. UnusedInv'
  BY <1>2, <1>5, <1>7 DEF ConductorInv, UnusedInv
<1>9. ASSUME NEW kind \in {"pub", "sub"} PROVE Registered(kind)' = Registered(kind)
  <2>1. \A q \in RegIDs : regs[q].kind = kind => sent'[q] = sent[q]
    BY <1>2, <1>5, <1>7
  <2> QED BY <1>2, <2>1 DEF Registered
<1> QED BY <1>2, <1>6, <1>8, <1>9, ReturnStep

LEMMA EmptySetStep ==
    ASSUME ConductorInv, NEW a \in Actors, EmptySet(a) PROVE ConductorInv'
<1>1. PICK M, r : M = my[a] /\ r = my[a].reg
  OBVIOUS
<1>2. LocalsKnown(M) /\ r \in RegIDs /\ regs[r].closed
  BY <1>1, KnownLocals DEF ConductorInv, CallInv, InClose, EmptySet
<1>3. /\ MoveTo(a, "release", M) /\ Untouched /\ imageList' = [imageList EXCEPT ![r] = NilSlice] /\ pc[a] = "emptySet"
      /\ imageList \in [RegIDs -> Slices]
  BY <1>1 DEF EmptySet, MoveTo, Goto, Untouched, flags, registry, ConductorInv, TypeInv, BaseType, LocalsType
<1>4. "release" \in QuietLabels /\ pc[a] \in QuietLabels /\ CallInv(a)' /\ (a = Conductor => HandlerInv')
  BY <1>1, <1>2, <1>3, ClosingCalls DEF Untouched
<1>5. NilSlice \in Slices
  BY SMT DEF NilSlice, Slices
<1>6. /\ imageList' \in [RegIDs -> Slices]
      /\ \A q \in RegIDs : imageList'[q] = imageList[q] \/ (regs'[q].closed /\ imageList'[q] = NilSlice)
  BY <1>2, <1>3, <1>5 DEF Untouched
<1>7. BaseType' /\ UnusedInv' /\ \A kind \in {"pub", "sub"} : Registered(kind)' = Registered(kind)
  BY <1>3, <1>6 DEF Untouched, ConductorInv, TypeInv, BaseType, UnusedInv, Registered
<1>8. EnvStep /\ LockStep(a)
  BY <1>3 DEF Untouched, EnvStep, KindsGrow, ClosedGrow, OwnersGrow, LockStep
<1> QED BY <1>2, <1>3, <1>4, <1>6, <1>7, <1>8, QuietStep, Labels DEF Untouched

-----------------------------------------------------------------------------
(* Steps that change a registration.                                       *)

\* r is registered, and step changes its registration into R.
LEMMA RegsUpdate ==
    ASSUME ConductorInv, NEW r \in RegIDs, NEW R \in Registrations, regs' = [regs EXCEPT ![r] = R],
           R.kind = regs[r].kind, regs[r].kind # "none", regs[r].closed => R.closed, sent' = sent
    PROVE  /\ regs' \in [RegIDs -> Registrations] /\ KindsGrow /\ ClosedGrow /\ UnusedInv'
           /\ regs'[r] = R /\ \A kind \in {"pub", "sub"} : Registered(kind)' = Registered(kind)
<1>1. regs \in [RegIDs -> Registrations]
  BY DEF ConductorInv, TypeInv, BaseType
<1>2. regs' \in [RegIDs -> Registrations] /\ regs'[r] = R /\ \A q \in RegIDs : q # r => regs'[q] = regs[q]
  BY <1>1
<1>3. KindsGrow /\ ClosedGrow
  BY <1>2 DEF KindsGrow, ClosedGrow
<1>4. UnusedInv'
  BY <1>2 DEF ConductorInv, UnusedInv
<1>5. ASSUME NEW kind \in {"pub", "sub"} PROVE Registered(kind)' = Registered(kind)
  BY <1>2 DEF Registered
<1> QED BY <1>2, <1>3, <1>4, <1>5

\* A step that changes a registration and nothing else that is shared.
LEMMA RegsStep ==
    ASSUME ConductorInv, NEW a \in Actors, NEW L \in QuietLabels, NEW M, MoveTo(a, L, M), LocalsKnown(M),
           pc[a] \in QuietLabels, CallInv(a)', a = Conductor => HandlerInv',
           UNCHANGED <<flags, adminLock, registry, asked, sent, imageVars, lingering, closes>>,
           NEW r \in RegIDs, NEW R \in Registrations, regs' = [regs EXCEPT ![r] = R],
           R.kind = regs[r].kind, regs[r].kind # "none", regs[r].closed => R.closed
    PROVE  ConductorInv'
<1>1. /\ regs' \in [RegIDs -> Registrations] /\ KindsGrow /\ ClosedGrow /\ UnusedInv'
      /\ \A kind \in {"pub", "sub"} : Registered(kind)' = Registered(kind)
  BY RegsUpdate
<1>2. UNCHANGED <<heap, pubs, subs, lingering, closes, imageList, running, owner>>
  BY DEF flags, registry, imageVars
<1>3. BaseType'
  BY <1>1 DEF ConductorInv, TypeInv, BaseType, flags, registry, imageVars
<1>4. EnvStep /\ LockStep(a)
  BY <1>1, <1>2 DEF EnvStep, OwnersGrow, LockStep
<1> QED BY <1>1, <1>2, <1>3, <1>4, QuietStep, Labels

LEMMA RegFields ==
    ASSUME NEW R \in Registrations
    PROVE  /\ [R EXCEPT !.closed = TRUE] \in Registrations /\ [R EXCEPT !.closed = TRUE].kind = R.kind
           /\ [R EXCEPT !.closed = TRUE].closed
           /\ \A o \in BOOLEAN : /\ [R EXCEPT !.object = o] \in Registrations /\ [R EXCEPT !.object = o].kind = R.kind
                                 /\ [R EXCEPT !.object = o].closed = R.closed
           /\ \A s \in {"none", "awaiting", "registered", "errored"} :
                 /\ [R EXCEPT !.status = s] \in Registrations /\ [R EXCEPT !.status = s].kind = R.kind
                 /\ [R EXCEPT !.status = s].closed = R.closed
  BY DEF Registrations

\* r is marked closed, and Close goes on with the locals l.
LEMMA StartCloseStep ==
    ASSUME ConductorInv, NEW a \in Actors, NEW r \in RegIDs, regs[r].object, NEW l, LocalsKnown(l), StartClose(a, r, l),
           pc[a] \in {"idle", "walk"}, l.back = "walk" => ~running /\ l.index \in Nat \ {0},
           UNCHANGED <<flags, adminLock, registry, asked, sent, imageVars, lingering, closes>>
    PROVE  ConductorInv'
<1>1. PICK M, L, R : /\ M = [l EXCEPT !.reg = r, !.images = NilSlice, !.next = 1]
                     /\ L = (IF regs[r].kind = "sub" THEN "empty" ELSE "release")
                     /\ R = [regs[r] EXCEPT !.closed = TRUE]
  OBVIOUS
<1>2. regs[r] \in Registrations /\ regs[r].kind # "none"
  BY DEF ConductorInv, TypeInv, BaseType, UnusedInv
<1>3. R \in Registrations /\ R.kind = regs[r].kind /\ R.closed /\ regs' = [regs EXCEPT ![r] = R]
  BY <1>1, <1>2, RegFields DEF StartClose
<1>4. MoveTo(a, L, M)
  BY <1>1 DEF StartClose, MoveTo, Goto
<1>5. LocalsKnown(M) /\ M.reg = r /\ M.back = l.back /\ M.index = l.index
  <2>1. r \in 0..MaxRegs /\ 1 \in Nat \ {0} /\ NilSlice \in Slices
    BY SMT, ConductorAssumption DEF RegIDs, NilSlice, Slices
  <2>2. l \in Locals
    BY DEF LocalsKnown
  <2>3. /\ M \in Locals /\ M.reg = r /\ M.back = l.back /\ M.index = l.index
        /\ M.images = NilSlice /\ M.slice = l.slice /\ M.phase = l.phase
    BY <1>1, <2>1, <2>2 DEF Locals
  <2> QED BY <2>3, KnownNow DEF LocalsKnown, ConductorInv, TypeInv
<1>6. /\ L \in QuietLabels /\ pc[a] \in QuietLabels /\ L \notin {"push", "walk"}
      /\ L \notin {"onReady", "onErrorResponse", "onAvailableImage", "addImage", "onUnavailableImage",
                   "removeImage", "linger"}
  <2>1. L \in {"empty", "release"}
    BY <1>1
  <2> QED BY SMT, <2>1 DEF QuietLabels
<1>7. pc'[a] = L /\ my'[a] = M
  BY <1>4, <1>5, <1>6, Moves, Labels DEF ConductorInv, TypeInv, LocalsKnown
<1>8. regs'[r].closed /\ running' = running
  BY <1>2, <1>3, RegsUpdate DEF flags
<1>9. CallInv(a)'
  BY <1>5, <1>6, <1>7, <1>8 DEF CallInv
<1>10. a = Conductor => HandlerInv'
  BY <1>6, <1>7 DEF HandlerInv, OnImage
<1> QED BY <1>2, <1>3, <1>4, <1>5, <1>6, <1>9, <1>10, RegsStep

LEMMA CloseStep ==
    ASSUME ConductorInv, NEW u \in Users, NEW r \in RegIDs, Close(u, r) PROVE ConductorInv'
<1>1. PICK l : l = [NoLocals EXCEPT !.back = "idle"]
  OBVIOUS
<1>2. l = NoLocals
  BY <1>1 DEF NoLocals
<1>3. LocalsKnown(l) /\ l.back # "walk" /\ u \in Actors
  <2>1. NoLocals.back # "walk"
    BY SMT DEF NoLocals
  <2> QED BY <1>2, <2>1, KnownLocals, ActorFacts
<1>4. /\ regs[r].object /\ StartClose(u, r, l) /\ pc[u] \in {"idle", "walk"}
      /\ UNCHANGED <<flags, adminLock, registry, asked, sent, imageVars, lingering, closes>>
  BY <1>1 DEF Close
<1> QED BY <1>3, <1>4, StartCloseStep

\* What the walk of closeAllResources finds in the arrays.
LEMMA WalkFinds ==
    ASSUME ConductorInv, NEW a \in Actors, pc[a] = "walk", my[a].phase \in {"pub", "sub"},
           my[a].index <= my[a].slice.len, AtEntry(a) # Nil
    PROVE  AtEntry(a) \in RegIDs
<1>1. PICK tag \in Tags : ArraysInv(tag) /\ SlicesInv(tag)
  BY DEF ConductorInv, HeapInv
<1>2. PICK s, k, p : s = my[a].slice /\ k = my[a].index /\ p = my[a].phase
  OBVIOUS
<1>3. s \in Slices /\ k \in Nat \ {0} /\ k <= s.len /\ p \in {"pub", "sub"}
  <2>1. my[a] \in Locals
    BY DEF ConductorInv, TypeInv, LocalsType
  <2>2. s \in Slices
    BY <1>2, <2>1 DEF Locals
  <2> QED BY <1>2, <2>2 DEF ConductorInv, CallInv
<1>4. IsSlice(s, RegistryTag(p), tag)
  BY <1>1, <1>2 DEF SlicesInv
<1>5. /\ s.arr \in 1..ArrayCount /\ s.len <= Size(s.arr) /\ (s.arr = 1 \/ tag[s.arr] = RegistryTag(p))
      /\ Size(s.arr) \in Nat /\ s.len \in Nat /\ Size(1) = 0
  BY SMT, <1>3, <1>4, HeapTypes DEF IsSlice, Slices, ConductorInv, TypeInv
<1>6. k \in 1..Size(s.arr) /\ s.arr # 1
  BY SMT, <1>3, <1>5
<1>7. Cell(s.arr, k) = AtEntry(a)
  BY <1>2 DEF Cell, AtEntry
<1>8. Belongs(AtEntry(a), tag[s.arr])
  BY <1>1, <1>5, <1>6, <1>7 DEF ArraysInv
<1>9. RegistryTag(p) \notin RegIDs
  BY SMT, ConductorAssumption DEF RegistryTag, RegIDs
<1> QED BY <1>5, <1>6, <1>8, <1>9 DEF Belongs

LEMMA WalkClosesStep ==
    ASSUME ConductorInv, NEW a \in Actors, WalkCloses(a) \/ WalkCounters(a) PROVE ConductorInv'
<1>1. /\ pc[a] \in {"idle", "walk"} /\ LocalsKnown(my[a]) /\ my[a] \in Locals
      /\ ~running /\ my[a].index \in Nat \ {0}
  BY KnownLocals DEF WalkCloses, WalkCounters, ConductorInv, CallInv, LocalsKnown
<1>2. UNCHANGED <<flags, adminLock, registry, asked, sent, imageVars, lingering, closes>>
  BY DEF WalkCloses, WalkCounters
<1>3. CASE WalkCloses(a)
  <2>1. PICK l, r, n : l = [my[a] EXCEPT !.index = n] /\ n = my[a].index + 1 /\ r = AtEntry(a)
    OBVIOUS
  <2>2. n \in Nat \ {0} /\ n \in Nat
    BY SMT, <1>1, <2>1
  <2>3. l.index = n
    BY <1>1, <2>1, <2>2 DEF Locals
  <2>4. LocalsKnown(l)
    BY <1>1, <2>1, <2>2, LocalsUpdates
  <2>5. StartClose(a, r, l) /\ regs[r].object /\ r # Nil
    BY <1>3, <2>1 DEF WalkCloses, MustClose
  <2>6. r \in RegIDs
    BY <1>3, <2>1, <2>5, WalkFinds DEF WalkCloses
  <2> QED BY <1>1, <1>2, <2>2, <2>3, <2>4, <2>5, <2>6, StartCloseStep
<1>4. CASE WalkCounters(a)
  <2>1. PICK l : l = my[a]
    OBVIOUS
  <2>2. PICK r \in counters : MustClose(r) /\ StartClose(a, r, l)
    BY <1>4, <2>1 DEF WalkCounters
  <2>3. r \in RegIDs /\ regs[r].object
    BY <2>2, TypesNow DEF MustClose
  <2> QED BY <1>1, <1>2, <2>1, <2>2, <2>3, StartCloseStep
<1> QED BY <1>3, <1>4

\* The labels of the walk.
LEMMA WalkingCalls ==
    ASSUME ConductorInv, NEW a \in Actors, NEW M, MoveTo(a, "walk", M), LocalsKnown(M), M.back = "walk",
           M.index \in Nat \ {0}, ~running'
    PROVE  /\ "walk" \in QuietLabels /\ "walk" \in PCs /\ pc'[a] = "walk" /\ my'[a] = M
           /\ CallInv(a)' /\ (a = Conductor => HandlerInv')
<1> DEFINE L == "walk"
<1>1. /\ L \in QuietLabels /\ L \in PCs /\ L \notin {"empty", "emptySet", "release", "lock", "push"}
      /\ L \notin {"onReady", "onErrorResponse", "onAvailableImage", "addImage", "onUnavailableImage",
                   "removeImage", "linger"}
  BY SMT DEF QuietLabels, PCs
<1> HIDE DEF L
<1>2. pc'[a] = L /\ my'[a] = M
  BY <1>1, Moves DEF ConductorInv, TypeInv, LocalsKnown, L
<1>3. CallInv(a)'
  BY <1>1, <1>2 DEF CallInv, InClose
<1> QED BY <1>1, <1>2, <1>3 DEF HandlerInv, OnImage, L

LEMMA WalkSkipsStep ==
    ASSUME ConductorInv, NEW a \in Actors, WalkSkips(a) PROVE ConductorInv'
<1>1. PICK M, l, n : l = my[a] /\ M = [l EXCEPT !.index = n] /\ n = l.index + 1
  OBVIOUS
<1>2. LocalsKnown(l) /\ l \in Locals /\ l.back = "walk" /\ ~running /\ l.index \in Nat \ {0}
  BY <1>1, KnownLocals DEF WalkSkips, ConductorInv, CallInv, LocalsKnown
<1>3. n \in Nat /\ n \in Nat \ {0}
  BY SMT, <1>1, <1>2
<1>4. LocalsKnown(M) /\ M.index = n /\ M.back = "walk"
  <2>1. M.index = n /\ M.back = l.back
    BY <1>1, <1>2, <1>3 DEF Locals
  <2> QED BY <1>1, <1>2, <1>3, <2>1, LocalsUpdates
<1>5. /\ MoveTo(a, "walk", M) /\ pc[a] = "walk"
      /\ Untouched /\ imageList' = imageList
  BY <1>1 DEF WalkSkips, MoveTo, ConductorInv, TypeInv, LocalsType, Untouched, flags, registry, imageVars
<1>6. "walk" \in QuietLabels /\ CallInv(a)' /\ (a = Conductor => HandlerInv')
  BY <1>2, <1>3, <1>4, <1>5, WalkingCalls DEF Untouched
<1> QED BY <1>4, <1>5, <1>6, StillStep, TypesNow DEF Untouched

LEMMA CloseAllResourcesStep ==
    ASSUME ConductorInv, NEW a \in Actors, CloseAllResources(a) PROVE ConductorInv'
<1>1. PICK M, l : l = my[a] /\ M = [l EXCEPT !.phase = "pub", !.slice = pubs, !.index = 1, !.back = "walk"]
  OBVIOUS
<1>2. LocalsKnown(l) /\ l \in Locals
  BY <1>1, KnownLocals DEF LocalsKnown
<1>3. LocalsKnown(M) /\ M.back = "walk" /\ M.index \in Nat \ {0}
  <2>1. pubs \in Slices /\ Known(pubs, RegistryTag("pub"))
    BY KnownNow DEF ConductorInv, TypeInv, BaseType, RegistryTag
  <2>2. 1 \in Nat /\ 1 \in Nat \ {0}
    BY SMT
  <2>3. /\ M \in Locals /\ M.back = "walk" /\ M.index = 1 /\ M.slice = pubs /\ M.phase = "pub"
        /\ M.images = l.images /\ M.reg = l.reg
    BY <1>1, <1>2, <2>1, <2>2 DEF Locals
  <2> QED BY <1>2, <2>1, <2>2, <2>3 DEF LocalsKnown
<1>4. PICK L : L = (IF running THEN "walk" ELSE AfterCloseAll(a))
  OBVIOUS
<1>5. MoveTo(a, L, M) /\ pc[a] \in QuietLabels
  BY <1>1, <1>4 DEF CloseAllResources, Goto, MoveTo, QuietLabels
<1>6. /\ UNCHANGED <<adminLock, heap, pubs, subs, regs, sent, imageList, owner, lingering, closes>>
      /\ running' = FALSE /\ asked' = asked /\ available' = available /\ counters' = counters
  BY DEF CloseAllResources, registry, imageVars
<1>7. L \in QuietLabels /\ CallInv(a)' /\ (a = Conductor => HandlerInv')
  <2>1. CASE running
    BY <1>3, <1>4, <1>5, <1>6, <2>1, WalkingCalls
  <2>2. CASE ~running
    <3>1. L \in OutsideLabels
      BY <1>4, <2>2 DEF AfterCloseAll, OutsideLabels
    <3> QED BY <1>3, <1>5, <1>6, <3>1, OutsideCalls
  <2> QED BY <2>1, <2>2
<1> QED BY <1>3, <1>5, <1>6, <1>7, StillStep, TypesNow

LEMMA WalkEndsStep ==
    ASSUME ConductorInv, NEW a \in Actors, WalkEnds(a) PROVE ConductorInv'
<1>1. PICK l : l = my[a]
  OBVIOUS
<1>2. LocalsKnown(l) /\ l \in Locals /\ l.back = "walk" /\ ~running /\ l.index \in Nat \ {0}
  BY <1>1, KnownLocals DEF WalkEnds, ConductorInv, CallInv, LocalsKnown
<1>3. /\ UNCHANGED <<adminLock, heap, regs, sent, imageList, owner, lingering, closes, running, counters, asked, available>>
      /\ pc' = pc /\ pc[a] = "walk"
  BY DEF WalkEnds, flags, imageVars
<1>4. pubs \in Slices /\ subs \in Slices /\ NilSlice \in Slices
  <2>1. NilSlice \in Slices
    BY SMT DEF NilSlice, Slices
  <2> QED BY <2>1 DEF ConductorInv, TypeInv, BaseType
<1>5. Known(NilSlice, -1) /\ Known(NilSlice, -2) /\ Known(pubs, -1) /\ Known(subs, -2)
  BY KnownNow DEF ConductorInv, TypeInv, KnownImages
<1>6. RegistryTag("sub") = -2 /\ RegistryTag("counter") = -2
  BY SMT DEF RegistryTag
<1>7. PICK M : /\ LocalsKnown(M) /\ M.back = "walk" /\ M.index \in Nat \ {0} /\ my' = [my EXCEPT ![a] = M]
               /\ pubs' \in {pubs, NilSlice} /\ subs' \in {subs, NilSlice}
  <2>1. CASE l.phase = "pub"
    <3>1. PICK M : M = [l EXCEPT !.phase = "sub", !.slice = subs, !.index = 1]
      OBVIOUS
    <3>2. my' = [my EXCEPT ![a] = M] /\ pubs' = NilSlice /\ subs' = subs
      BY <1>1, <2>1, <3>1 DEF WalkEnds
    <3>3. 1 \in Nat /\ 1 \in Nat \ {0}
      BY SMT
    <3>4. /\ M \in Locals /\ M.back = l.back /\ M.index = 1 /\ M.slice = subs /\ M.phase = "sub"
          /\ M.images = l.images /\ M.reg = l.reg
      BY <1>2, <1>4, <3>1, <3>3 DEF Locals
    <3>5. LocalsKnown(M) /\ M.back = "walk" /\ M.index \in Nat \ {0}
      BY <1>2, <1>5, <1>6, <3>3, <3>4 DEF LocalsKnown
    <3> QED BY <3>2, <3>5
  <2>2. CASE l.phase # "pub"
    <3>1. PICK M : M = [l EXCEPT !.phase = "counter"]
      OBVIOUS
    <3>2. my' = [my EXCEPT ![a] = M] /\ pubs' = pubs /\ subs' = NilSlice /\ l.phase = "sub"
      BY <1>1, <2>2, <3>1 DEF WalkEnds
    <3>3. /\ M \in Locals /\ M.back = l.back /\ M.index = l.index /\ M.slice = l.slice /\ M.phase = "counter"
          /\ M.images = l.images /\ M.reg = l.reg
      BY <1>2, <1>4, <3>1 DEF Locals
    <3>4. Known(l.slice, -2)
      BY <1>2, <1>6, <3>2 DEF LocalsKnown
    <3>5. LocalsKnown(M) /\ M.back = "walk" /\ M.index \in Nat \ {0}
      BY <1>2, <1>6, <3>3, <3>4 DEF LocalsKnown
    <3> QED BY <3>2, <3>5
  <2> QED BY <2>1, <2>2
<1>8. MoveTo(a, "walk", M)
  BY <1>3, <1>7 DEF MoveTo, ConductorInv, TypeInv, LocalsType
<1>9. /\ "walk" \in QuietLabels /\ "walk" \in PCs /\ CallInv(a)' /\ (a = Conductor => HandlerInv')
  BY <1>2, <1>3, <1>7, <1>8, WalkingCalls
<1>10. pubs' \in Slices /\ subs' \in Slices /\ Known(pubs', -1) /\ Known(subs', -2)
  BY <1>4, <1>5, <1>7
<1>11. BaseType' /\ UnusedInv' /\ RegistryInv'
  BY <1>2, <1>3, <1>10 DEF ConductorInv, TypeInv, BaseType, UnusedInv, RegistryInv
<1>12. EnvStep /\ LockStep(a)
  BY <1>3 DEF EnvStep, KindsGrow, ClosedGrow, OwnersGrow, LockStep
<1> QED BY <1>3, <1>7, <1>8, <1>9, <1>10, <1>11, <1>12, QuietBase

LEMMA SendClientCloseStep ==
    ASSUME ConductorInv, NEW u \in Users, SendClientClose(u) PROVE ConductorInv'
<1>1. PICK M : M = my[u]
  OBVIOUS
<1>2. LocalsKnown(M) /\ u \in Actors
  BY <1>1, KnownLocals, ActorFacts
<1>3. /\ MoveTo(u, "awaitStop", M) /\ "awaitStop" \in OutsideLabels /\ pc[u] \in QuietLabels
      /\ UNCHANGED <<adminLock, heap, pubs, subs, regs, lingering, closes, imageList, owner, available, counters, asked, running>>
      /\ sent' = sent \/ sent' = [sent EXCEPT ![ClientClose] = @ + 1]
  BY <1>1 DEF SendClientClose, Goto, MoveTo, OutsideLabels, QuietLabels, flags, registry, imageVars,
     ConductorInv, TypeInv, LocalsType
<1>4. sent \in [RegIDs \cup {ClientClose} -> Nat] /\ ClientClose \notin RegIDs
  <2>1. ClientClose \notin RegIDs
    BY SMT, ConductorAssumption DEF ClientClose, RegIDs
  <2> QED BY <2>1 DEF ConductorInv, TypeInv, BaseType
<1>5. sent' \in [RegIDs \cup {ClientClose} -> Nat] /\ \A r \in RegIDs : sent'[r] = sent[r]
  BY SMT, <1>3, <1>4
<1>6. BaseType' /\ UnusedInv' /\ \A kind \in {"pub", "sub"} : Registered(kind)' = Registered(kind)
  BY <1>3, <1>5 DEF ConductorInv, TypeInv, BaseType, UnusedInv, Registered
<1>7. EnvStep /\ LockStep(u)
  BY <1>3 DEF EnvStep, KindsGrow, ClosedGrow, OwnersGrow, LockStep
<1>8. "awaitStop" \in QuietLabels /\ CallInv(u)' /\ (u = Conductor => HandlerInv')
  BY <1>1, <1>2, <1>3, OutsideCalls
<1> QED BY <1>2, <1>3, <1>6, <1>7, <1>8, QuietStep, Labels

\* What is listed has been registered, under its kind.
LEMMA SliceBelongs ==
    ASSUME ConductorInv, NEW s \in Slices, NEW t \in Int, Known(s, t), NEW k \in 1..s.len
    PROVE  k \in 1..Size(s.arr) /\ (Cell(s.arr, k) = Nil \/ Belongs(Cell(s.arr, k), t))
<1>1. PICK tag \in Tags : ArraysInv(tag) /\ SlicesInv(tag)
  BY DEF ConductorInv, HeapInv
<1>2. s.arr \in 1..ArrayCount /\ s.len <= Size(s.arr) /\ (s.arr = 1 \/ tag[s.arr] = t)
  BY <1>1 DEF Known, IsSlice
<1>3. Size(s.arr) \in Nat /\ s.len \in Nat /\ Size(1) = 0
  BY SMT, <1>2, HeapTypes DEF Slices, ConductorInv, TypeInv
<1>4. k \in 1..Size(s.arr) /\ s.arr # 1
  BY SMT, <1>2, <1>3
<1> QED BY <1>1, <1>2, <1>4 DEF ArraysInv

LEMMA ListedKind ==
    ASSUME ConductorInv, NEW r \in RegIDs, Listed(r)
    PROVE  regs[r].kind # "none"
<1> SUFFICES ASSUME regs[r].kind = "none" PROVE FALSE
  OBVIOUS
<1>1. "none" # "counter" /\ "none" # "pub" /\ "none" # "sub"
  BY SMT
<1>2. r \in Entries(subs)
  BY <1>1 DEF Listed, SliceOf
<1>3. PICK k \in 1..subs.len : Cell(subs.arr, k) = r
  BY <1>2 DEF Entries, Cell
<1>4. subs \in Slices /\ Known(subs, -2) /\ -2 \in Int
  BY SMT, KnownNow DEF ConductorInv, TypeInv, BaseType
<1>5. PICK s : s = subs
  OBVIOUS
<1>6. r = Nil \/ Belongs(r, -2)
  BY <1>3, <1>4, <1>5, SliceBelongs
<1>7. -2 \notin RegIDs /\ r # Nil /\ -2 # -1
  BY SMT, ConductorAssumption DEF RegIDs, Nil
<1> QED BY <1>1, <1>6, <1>7 DEF Belongs

LEMMA FindStep ==
    ASSUME ConductorInv, NEW u \in Users, NEW r \in RegIDs, Find(u, r) PROVE ConductorInv'
<1>1. PICK M, R : M = my[u] /\ R = [regs[r] EXCEPT !.object = TRUE]
  OBVIOUS
<1>2. LocalsKnown(M) /\ u \in Actors /\ regs[r] \in Registrations
  BY <1>1, KnownLocals, ActorFacts DEF ConductorInv, TypeInv, BaseType
<1>3. /\ MoveTo(u, "idle", M) /\ "idle" \in OutsideLabels /\ pc[u] \in QuietLabels
      /\ UNCHANGED <<flags, adminLock, registry, asked, sent, imageVars, lingering, closes>>
      /\ regs[r].kind # "none"
  BY <1>1 DEF Find, MoveTo, OutsideLabels, QuietLabels, ConductorInv, TypeInv, LocalsType
<1>4. R \in Registrations /\ R.kind = regs[r].kind /\ R.closed = regs[r].closed /\ regs' = [regs EXCEPT ![r] = R]
  BY <1>1, <1>2, RegFields DEF Find
<1>5. "idle" \in QuietLabels /\ CallInv(u)' /\ (u = Conductor => HandlerInv')
  BY <1>1, <1>2, <1>3, OutsideCalls DEF flags
<1> QED BY <1>2, <1>3, <1>4, <1>5, RegsStep

\* The answers of the driver.
LEMMA AnswerStep ==
    ASSUME ConductorInv, OnReady \/ OnErrorResponse PROVE ConductorInv'
<1>1. PICK r : r = my[Conductor].reg
  OBVIOUS
<1>2. /\ pc[Conductor] \in QuietLabels /\ BackToLoop
      /\ UNCHANGED <<flags, adminLock, registry, asked, sent, imageVars, lingering, closes>>
      /\ r \in RegIDs
  BY <1>1 DEF OnReady, OnErrorResponse, Handling, QuietLabels, ConductorInv, HandlerInv
<1>3. /\ "loop" \in OutsideLabels /\ LocalsKnown(NoLocals) /\ NoLocals.back # "walk"
      /\ MoveTo(Conductor, "loop", NoLocals) /\ Conductor \in Actors /\ regs[r] \in Registrations
  BY <1>2, BackToLoopMoves, ActorFacts DEF ConductorInv, TypeInv, BaseType
<1>4. UNCHANGED <<running, counters, asked, available, heap, pubs, subs, imageList, owner>>
  BY <1>2 DEF flags, registry, imageVars
<1>5. CASE regs' = regs
  BY <1>2, <1>3, <1>4, <1>5, OutsideStep, TypesNow
<1>6. ASSUME Listed(r), NEW R \in Registrations, R.kind = regs[r].kind, R.closed = regs[r].closed,
             regs' = [regs EXCEPT ![r] = R]
      PROVE  ConductorInv'
  <2>1. "loop" \in QuietLabels /\ CallInv(Conductor)' /\ HandlerInv'
    BY <1>3, <1>4, OutsideCalls
  <2>2. regs[r].kind # "none"
    BY <1>2, <1>6, ListedKind
  <2> QED BY <1>2, <1>3, <1>6, <2>1, <2>2, RegsStep
<1>7. CASE OnReady /\ Listed(r)
  <2>1. PICK o, Q, R : /\ o = (regs[r].kind = "sub") /\ Q = [regs[r] EXCEPT !.status = "registered"]
                       /\ R = [Q EXCEPT !.object = o]
    OBVIOUS
  <2>2. o \in BOOLEAN
    BY <2>1
  <2>3. Q \in Registrations /\ Q.kind = regs[r].kind /\ Q.closed = regs[r].closed
    BY <1>3, <2>1, RegFields
  <2>4. R \in Registrations /\ R.kind = regs[r].kind /\ R.closed = regs[r].closed
    BY <2>1, <2>2, <2>3, RegFields
  <2>5. regs' = [regs EXCEPT ![r] = R]
    BY <1>1, <1>2, <1>3, <1>7, <2>1 DEF OnReady, ConductorInv, TypeInv, BaseType, Registrations
  <2> QED BY <1>6, <1>7, <2>4, <2>5
<1>8. CASE OnErrorResponse /\ Listed(r)
  <2>1. PICK R : R = [regs[r] EXCEPT !.status = "errored"]
    OBVIOUS
  <2>2. R \in Registrations /\ R.kind = regs[r].kind /\ R.closed = regs[r].closed
    BY <1>3, <2>1, RegFields
  <2>3. regs' = [regs EXCEPT ![r] = R]
    BY <1>1, <1>8, <2>1 DEF OnErrorResponse
  <2> QED BY <1>6, <1>8, <2>2, <2>3
<1>9. CASE ~Listed(r)
  BY <1>1, <1>5, <1>9 DEF OnReady, OnErrorResponse
<1> QED BY <1>7, <1>8, <1>9

-----------------------------------------------------------------------------
(* A new registration.                                                     *)

LEMMA NewRegistration ==
    ASSUME ConductorInv, NEW u, NEW kind \in {"pub", "sub", "counter"}, NEW r \in RegIDs, Register(u, kind, r)
    PROVE  /\ regs' \in [RegIDs -> Registrations] /\ KindsGrow /\ ClosedGrow /\ UnusedInv' /\ asked' \subseteq RegIDs
           /\ regs'[r].kind = kind /\ (\A q \in RegIDs : regs'[q].closed = regs[q].closed)
           /\ Registered(kind)' = Registered(kind) \cup {r} /\ r \notin Registered(kind)
           /\ \A other \in {"pub", "sub"} \ {kind} : Registered(other)' = Registered(other)
<1>1. PICK R : R = [NoReg EXCEPT !.kind = kind, !.status = "awaiting"]
  OBVIOUS
<1>2. R \in Registrations /\ R.kind = kind /\ ~R.closed /\ ~R.object /\ kind # "none"
  BY <1>1 DEF NoReg, Registrations
<1>3. /\ regs \in [RegIDs -> Registrations] /\ regs[r].kind = "none" /\ regs' = [regs EXCEPT ![r] = R]
      /\ sent' = sent /\ asked' = asked \cup {r} /\ ~regs[r].closed /\ sent[r] = 0
  BY <1>1 DEF Register, ConductorInv, TypeInv, BaseType, UnusedInv
<1>4. regs' \in [RegIDs -> Registrations] /\ regs'[r] = R /\ \A q \in RegIDs : q # r => regs'[q] = regs[q]
  BY <1>2, <1>3
<1>5. KindsGrow /\ ClosedGrow /\ UnusedInv'
  BY <1>2, <1>3, <1>4 DEF KindsGrow, ClosedGrow, UnusedInv, ConductorInv
<1>6. asked' \subseteq RegIDs
  BY SMT, <1>3, TypesNow
<1>7. \A q \in RegIDs : regs'[q].closed = regs[q].closed
  <2>1. R.closed \in BOOLEAN /\ regs[r].closed \in BOOLEAN
    BY SMT, <1>2, <1>3 DEF Registrations
  <2>2. R.closed = regs[r].closed
    BY <1>2, <1>3, <2>1
  <2> QED BY <1>4, <2>2
<1>8. Registered(kind)' = Registered(kind) \cup {r} /\ r \notin Registered(kind)
  BY <1>2, <1>3, <1>4 DEF Registered
<1>9. ASSUME NEW other \in {"pub", "sub"} \ {kind} PROVE Registered(other)' = Registered(other)
  <2>1. other # kind /\ other # "none"
    BY SMT, <1>9
  <2> QED BY <1>2, <1>3, <1>4, <2>1 DEF Registered
<1> QED BY <1>2, <1>4, <1>5, <1>6, <1>7, <1>8, <1>9

LEMMA AddCounterStep ==
    ASSUME ConductorInv, NEW u \in Users, NEW r \in RegIDs, AddCounter(u, r) PROVE ConductorInv'
<1>1. PICK M, L : M = my[u] /\ L = (IF nilMap THEN "panicked" ELSE "idle")
  OBVIOUS
<1>2. LocalsKnown(M) /\ u \in Actors /\ L \in OutsideLabels
  BY <1>1, KnownLocals, ActorFacts DEF OutsideLabels
<1>3. /\ MoveTo(u, L, M) /\ pc[u] \in QuietLabels
      /\ UNCHANGED <<flags, adminLock, sent, imageVars, lingering, closes, heap, pubs, subs>>
      /\ Register(u, "counter", r)
  BY <1>1 DEF AddCounter, Register, Goto, MoveTo, QuietLabels, ConductorInv, TypeInv, LocalsType
<1>4. /\ regs' \in [RegIDs -> Registrations] /\ KindsGrow /\ ClosedGrow /\ UnusedInv' /\ asked' \subseteq RegIDs
      /\ \A kind \in {"pub", "sub"} \ {"counter"} : Registered(kind)' = Registered(kind)
  BY <1>3, NewRegistration
<1>5. \A kind \in {"pub", "sub"} : Registered(kind)' = Registered(kind)
  <2>1. "pub" # "counter" /\ "sub" # "counter"
    BY SMT
  <2> QED BY <1>4, <2>1
<1>6. counters' \subseteq RegIDs
  BY SMT, TypesNow DEF AddCounter
<1>7. BaseType'
  BY <1>3, <1>4, <1>6 DEF ConductorInv, TypeInv, BaseType, flags, imageVars
<1>8. EnvStep /\ LockStep(u) /\ imageList' = imageList
  BY <1>3, <1>4 DEF EnvStep, OwnersGrow, LockStep, flags, imageVars
<1>9. L \in QuietLabels /\ CallInv(u)' /\ (u = Conductor => HandlerInv')
  BY <1>1, <1>2, <1>3, OutsideCalls DEF flags
<1> QED BY <1>2, <1>3, <1>4, <1>5, <1>7, <1>8, <1>9, QuietStep, Labels

-----------------------------------------------------------------------------
(* Steps that change what lingers.                                         *)

\* A step that leaves alone the registry.
LEMMA EnvKept ==
    ASSUME ConductorInv, NEW a \in Actors, NEW L \in PCs, NEW M, MoveTo(a, L, M), LocalsKnown(M),
           BaseType', EnvStep, LockStep(a), CallInv(a)', a = Conductor => HandlerInv',
           UNCHANGED <<heap, pubs, subs, regs, sent>>,
           pc[a] = "push" <=> L = "push", L = "push" => M.reg = my[a].reg /\ M.kept = my[a].kept,
           \A r \in RegIDs : KnownImages(imageList'[r], r), LingerInv'
    PROVE  ConductorInv'
<1>1. pc'[a] = L /\ my'[a] = M /\ OthersKept(a) /\ HeapType'
  BY Moves DEF ConductorInv, TypeInv, LocalsKnown, HeapType
<1>2. HeapInv'
  BY <1>1, KnownNow, HeapStep DEF ConductorInv, TypeInv, LocalsKnown
<1>3. CutsKept
  BY <1>1 DEF CutsKept, OthersKept
<1>4. (\A kind \in {"pub", "sub"} : Registered(kind)' = Registered(kind)) /\ UnusedInv'
  BY DEF Registered, UnusedInv, ConductorInv
<1>5. RegistryInv'
  BY <1>3, <1>4, RegistryStep
<1> QED BY <1>1, <1>2, <1>4, <1>5, AnyStep DEF LocalsKnown

LEMMA KeptStep ==
    ASSUME ConductorInv, NEW a \in Actors, NEW L \in PCs, NEW M, MoveTo(a, L, M), LocalsKnown(M),
           BaseType', LockStep(a), CallInv(a)', a = Conductor => HandlerInv',
           UNCHANGED <<heap, pubs, subs, regs, sent, owner, running>>,
           pc[a] = "push" <=> L = "push", L = "push" => M.reg = my[a].reg /\ M.kept = my[a].kept,
           \A r \in RegIDs : KnownImages(imageList'[r], r), LingerInv'
    PROVE  ConductorInv'
<1>1. EnvStep
  BY DEF EnvStep, KindsGrow, ClosedGrow, OwnersGrow
<1> QED BY <1>1, EnvKept

\* x is in the channel q.
Has(q, x) == \E k \in 1..Len(q) : q[k].resource = x

LEMMA Channel ==
    ASSUME NEW q \in Seq(Items)
    PROVE  /\ \A e \in Items : Append(q, e) \in Seq(Items) /\ \A x : Has(Append(q, e), x) => Has(q, x) \/ e.resource = x
           /\ q # <<>> => /\ Head(q) \in Items /\ Tail(q) \in Seq(Items)
                          /\ \A x : (Has(Tail(q), x) => Has(q, x)) /\ (Head(q).resource = x => Has(q, x))
<1>1. ASSUME NEW e \in Items
      PROVE  Append(q, e) \in Seq(Items) /\ \A x : Has(Append(q, e), x) => Has(q, x) \/ e.resource = x
  <2>1. Append(q, e) \in Seq(Items) /\ Len(Append(q, e)) = Len(q) + 1 /\ Len(q) \in Nat
    BY SMT
  <2>2. ASSUME NEW k \in 1..Len(Append(q, e)) PROVE (k \in 1..Len(q) /\ Append(q, e)[k] = q[k]) \/ Append(q, e)[k] = e
    BY SMT, <2>1
  <2> QED BY <2>1, <2>2 DEF Has
<1>2. ASSUME q # <<>>
      PROVE  /\ Head(q) \in Items /\ Tail(q) \in Seq(Items)
             /\ \A x : (Has(Tail(q), x) => Has(q, x)) /\ (Head(q).resource = x => Has(q, x))
  <2>1. Head(q) \in Items /\ Tail(q) \in Seq(Items) /\ Head(q) = q[1] /\ 1 \in 1..Len(q)
    BY SMT, <1>2
  <2>2. ASSUME NEW k \in 1..Len(Tail(q)) PROVE k + 1 \in 1..Len(q) /\ Tail(q)[k] = q[k + 1]
    BY SMT, <1>2
  <2> QED BY <2>1, <2>2 DEF Has
<1> QED BY <1>1, <1>2

\* e takes the place of the k-th item in q.
Put(q, k, e) == [q EXCEPT ![k] = e]

LEMMA ChannelPut ==
    ASSUME NEW q \in Seq(Items), NEW k \in DOMAIN q, NEW e \in Items, e.resource = q[k].resource
    PROVE  Put(q, k, e) \in Seq(Items) /\ \A x : Has(Put(q, k, e), x) => Has(q, x)
<1>1. k \in 1..Len(q)
  BY SMT
<1>2. /\ Put(q, k, e) \in Seq(Items) /\ Len(Put(q, k, e)) = Len(q)
      /\ \A j \in 1..Len(q) : Put(q, k, e)[j] = IF j = k THEN e ELSE q[j]
  BY SMT, <1>1 DEF Put
<1> QED BY <1>1, <1>2 DEF Has

LEMMA ReleasedHas ==
    ASSUME ConductorInv
    PROVE  /\ lingering \in Seq(Items)
           /\ \A x : Released(x) <=>
                 closes[x] # 0 \/ Has(lingering, x)
                 \/ (pc[Conductor] \in {"linger", "requeue"} /\ my[Conductor].item.resource = x)
<1>1. lingering \in Seq(Items)
  BY DEF ConductorInv, TypeInv, BaseType
<1>2. DOMAIN lingering = 1..Len(lingering)
  BY SMT, <1>1
<1> QED BY <1>1, <1>2 DEF Released, Has

LEMMA ReleasedHasNext ==
    ASSUME lingering' \in Seq(Items)
    PROVE  \A x : Released(x)' <=>
              closes'[x] # 0 \/ Has(lingering, x)'
              \/ (pc'[Conductor] \in {"linger", "requeue"} /\ my'[Conductor].item.resource = x)
<1>1. DOMAIN lingering' = 1..Len(lingering')
  BY SMT
<1> QED BY <1>1 DEF Released, Has

LEMMA ClosedOnce ==
    ASSUME closes \in [Resources -> Nat], NEW x \in Resources \cup {NoImage}, closes' = Closed(x)
    PROVE  closes' \in [Resources -> Nat] /\ \A y \in Resources : closes'[y] # 0 => closes[y] # 0 \/ y = x
<1>1. CASE x = NoImage
  BY <1>1 DEF Closed
<1>2. CASE x # NoImage
  <2>1. closes' = [closes EXCEPT ![x] = closes[x] + 1] /\ x \in Resources
    BY <1>2 DEF Closed
  <2>2. closes[x] + 1 \in Nat
    BY SMT, <2>1
  <2> QED BY <2>1, <2>2
<1> QED BY <1>1, <1>2

LEMMA ResourceFacts ==
    /\ \A r \in RegIDs : Log(r) \in Resources
    /\ \A i \in 1..MaxImages : Image(i) \in Resources
    /\ \A i, j : (Log(i) = Log(j) => i = j) /\ (Image(i) = Image(j) => i = j) /\ Log(i) # Image(j)
<1>1. \A i, j : (Log(i) = Log(j) => i = j) /\ (Image(i) = Image(j) => i = j) /\ Log(i) # Image(j)
  BY SMT DEF Log, Image
<1> QED BY <1>1 DEF Resources

\* A step of the conductor that makes nothing linger that did not before.
LEMMA ManagedStep ==
    ASSUME ConductorInv, NEW L \in PCs, NEW M, MoveTo(Conductor, L, M), LocalsKnown(M),
           L \in QuietLabels \cup {"requeue"}, pc[Conductor] \in QuietLabels \cup {"requeue", "linger"},
           LockStep(Conductor), CallInv(Conductor)', HandlerInv',
           UNCHANGED <<heap, pubs, subs, counters, regs, asked, sent, owner, available, running, imageList>>,
           adminLock' \in {adminLock, Nil}, lingering' \in Seq(Items), closes' \in [Resources -> Nat],
           \A x \in Resources : Released(x)' => Released(x)
    PROVE  ConductorInv'
<1>1. BaseType'
  BY DEF ConductorInv, TypeInv, BaseType
<1>2. Conductor \in Actors /\ pc'[Conductor] = L /\ my'[Conductor] = M
  BY Moves, ActorFacts DEF ConductorInv, TypeInv, LocalsKnown
<1>3. /\ L \notin {"onAvailableImage", "addImage", "removeImage", "push"} /\ pc[Conductor] # "removeImage"
      /\ pc[Conductor] # "push"
  <2>1. /\ "requeue" \notin {"onAvailableImage", "addImage", "removeImage", "push"}
        /\ "linger" \notin {"onAvailableImage", "addImage", "removeImage", "push"}
    BY SMT
  <2> QED BY <2>1, Labels
<1>4. EnvStep
  BY DEF EnvStep, KindsGrow, ClosedGrow, OwnersGrow
<1>5. LingerInv'
  BY <1>2, <1>3, <1>4, ResourceFacts, LingerStep
<1>6. \A r \in RegIDs : KnownImages(imageList'[r], r)
  BY KnownNow DEF ConductorInv, TypeInv
<1> QED BY <1>1, <1>2, <1>3, <1>5, <1>6, KeptStep

\* The conductor sends on the channel what it holds.
LEMMA SendStep ==
    ASSUME ConductorInv, LingerImage \/ Requeue PROVE ConductorInv'
<1>1. PICK e : e = my[Conductor].item
  OBVIOUS
<1>2. /\ pc[Conductor] \in {"linger", "requeue"} /\ BackToLoop /\ lingering' = Append(lingering, e) /\ closes' = closes
      /\ UNCHANGED <<heap, pubs, subs, counters, regs, asked, sent, owner, available, running, imageList>>
      /\ adminLock' = adminLock \/ (adminLock' = Nil /\ pc[Conductor] = "linger")
  BY <1>1 DEF LingerImage, Requeue, Lingering, flags, registry, imageVars
<1>3. adminLock' \in {adminLock, Nil} /\ LockStep(Conductor)
  BY <1>2 DEF LockStep, ConductorInv, HandlerInv
<1>4. /\ "loop" \in OutsideLabels /\ LocalsKnown(NoLocals) /\ NoLocals.back # "walk"
      /\ MoveTo(Conductor, "loop", NoLocals) /\ Conductor \in Actors
  BY <1>2, BackToLoopMoves, ActorFacts
<1>5. "loop" \in QuietLabels /\ "loop" \in PCs /\ CallInv(Conductor)' /\ HandlerInv'
  BY <1>2, <1>4, OutsideCalls, Labels
<1>6. e \in Items /\ lingering \in Seq(Items) /\ closes \in [Resources -> Nat]
  <2>1. my[Conductor] \in Locals
    BY <1>4 DEF ConductorInv, TypeInv, LocalsType
  <2>2. e \in Items
    BY <1>1, <2>1 DEF Locals
  <2> QED BY <2>2 DEF ConductorInv, TypeInv, BaseType
<1>7. lingering' \in Seq(Items) /\ \A x : Has(lingering, x)' => Has(lingering, x) \/ e.resource = x
  BY <1>2, <1>6, Channel
<1>8. pc'[Conductor] = "loop"
  BY <1>4, <1>5, Moves DEF ConductorInv, TypeInv, LocalsKnown
<1>9. "loop" \notin {"linger", "requeue"}
  BY SMT
<1>10. \A x \in Resources : Released(x)' => Released(x)
  BY <1>1, <1>2, <1>7, <1>8, <1>9, ReleasedHas, ReleasedHasNext
<1> QED BY <1>2, <1>3, <1>4, <1>5, <1>6, <1>7, <1>10, ManagedStep

\* The conductor takes the first item from the channel.
LEMMA ManagedIsYoungStep ==
    ASSUME ConductorInv, ManagedIsYoung PROVE ConductorInv'
<1>1. PICK e, l, M : e = Head(lingering) /\ l = my[Conductor] /\ M = [l EXCEPT !.item = e]
  OBVIOUS
<1>2. /\ pc[Conductor] = "managed" /\ lingering' = Tail(lingering) /\ closes' = closes /\ lingering # <<>>
      /\ UNCHANGED <<heap, pubs, subs, counters, regs, asked, sent, owner, available, running, imageList, adminLock>>
      /\ MoveTo(Conductor, "requeue", M)
  BY <1>1 DEF ManagedIsYoung, flags, registry, imageVars, MoveTo, Goto
<1>3. lingering \in Seq(Items) /\ closes \in [Resources -> Nat]
  BY DEF ConductorInv, TypeInv, BaseType
<1>4. /\ e \in Items /\ lingering' \in Seq(Items)
      /\ \A x : (Has(lingering, x)' => Has(lingering, x)) /\ (e.resource = x => Has(lingering, x))
  BY <1>1, <1>2, <1>3, Channel
<1>5. Conductor \in Actors /\ LocalsKnown(l) /\ l \in Locals
  BY <1>1, KnownLocals, ActorFacts DEF LocalsKnown
<1>6. LocalsKnown(M) /\ M.back = l.back /\ M.index = l.index /\ M.item = e
  <2>1. M.back = l.back /\ M.index = l.index /\ M.item = e
    BY <1>1, <1>4, <1>5 DEF Locals
  <2> QED BY <1>1, <1>4, <1>5, <2>1, LocalsUpdates
<1>7. /\ "requeue" \in PCs /\ "managed" \in QuietLabels
      /\ "requeue" \notin {"empty", "emptySet", "release", "lock", "push", "walk"}
      /\ "requeue" \notin {"onReady", "onErrorResponse", "onAvailableImage", "addImage", "onUnavailableImage",
                           "removeImage", "linger"}
      /\ "managed" \notin {"linger", "requeue"}
  BY SMT DEF PCs, QuietLabels
<1>8. pc'[Conductor] = "requeue" /\ my'[Conductor] = M
  BY <1>2, <1>5, <1>6, <1>7, Moves DEF ConductorInv, TypeInv, LocalsKnown
<1>9. CallInv(Conductor)' /\ HandlerInv'
  <2>1. PICK L : L = "requeue"
    OBVIOUS
  <2>2. pc'[Conductor] = L /\ L \notin {"empty", "emptySet", "release", "lock", "push", "walk"}
    BY <1>7, <1>8, <2>1
  <2>3. M.back = "walk" => ~running' /\ M.index \in Nat \ {0}
    BY <1>1, <1>2, <1>5, <1>6 DEF CallInv, ConductorInv
  <2>4. CallInv(Conductor)'
    BY <1>8, <2>2, <2>3 DEF CallInv, InClose
  <2> QED BY <1>7, <1>8, <2>4 DEF HandlerInv, OnImage
<1>10. \A x \in Resources : Released(x)' => Released(x)
  BY <1>2, <1>4, <1>6, <1>8, ReleasedHas, ReleasedHasNext
<1>11. LockStep(Conductor)
  BY <1>2 DEF LockStep
<1> QED BY <1>2, <1>3, <1>4, <1>6, <1>7, <1>9, <1>10, <1>11, ManagedStep

\* The conductor closes the first item of the channel.
LEMMA DrainStep ==
    ASSUME ConductorInv, ManagedIsDue \/ ForceClose PROVE ConductorInv'
<1>1. PICK M, L, e : M = my[Conductor] /\ L = pc[Conductor] /\ e = Head(lingering)
  OBVIOUS
<1>2. /\ pc[Conductor] \in {"managed", "exit"} /\ lingering' = Tail(lingering) /\ lingering # <<>>
      /\ closes' = Closed(e.resource) /\ pc' = pc /\ my' = my
      /\ UNCHANGED <<heap, pubs, subs, counters, regs, asked, sent, owner, available, running, imageList, adminLock>>
  BY <1>1 DEF ManagedIsDue, ForceClose, flags, registry, imageVars
<1>3. lingering \in Seq(Items) /\ closes \in [Resources -> Nat]
  BY DEF ConductorInv, TypeInv, BaseType
<1>4. /\ e \in Items /\ lingering' \in Seq(Items)
      /\ \A x : (Has(lingering, x)' => Has(lingering, x)) /\ (e.resource = x => Has(lingering, x))
  BY <1>1, <1>2, <1>3, Channel
<1>5. PICK y : y = e.resource
  OBVIOUS
<1>6. y \in Resources \cup {NoImage}
  BY <1>4, <1>5 DEF Items
<1>7. closes' \in [Resources -> Nat] /\ \A x \in Resources : closes'[x] # 0 => closes[x] # 0 \/ x = y
  BY <1>2, <1>3, <1>5, <1>6, ClosedOnce
<1>8. Conductor \in Actors /\ LocalsKnown(M) /\ MoveTo(Conductor, L, M) /\ L \in QuietLabels /\ L \in OutsideLabels
  BY <1>1, <1>2, KnownLocals, ActorFacts DEF MoveTo, ConductorInv, TypeInv, LocalsType, QuietLabels, OutsideLabels
<1>9. CallInv(Conductor)' /\ HandlerInv'
  BY <1>1, <1>2, <1>8, OutsideCalls
<1>10. \A x \in Resources : Released(x)' => Released(x)
  BY <1>2, <1>4, <1>5, <1>7, ReleasedHas, ReleasedHasNext
<1>11. LockStep(Conductor) /\ L \in PCs
  BY <1>2, <1>8, Labels DEF LockStep
<1> QED BY <1>1, <1>2, <1>4, <1>7, <1>8, <1>9, <1>10, <1>11, ManagedStep

\* The linger timeout of an item passes.
LEMMA ExpireStep ==
    ASSUME ConductorInv, Expire PROVE ConductorInv'
<1>1. PICK L, l : L = pc[Conductor] /\ l = my[Conductor]
  OBVIOUS
<1>2. /\ pc' = pc /\ closes' = closes
      /\ UNCHANGED <<heap, pubs, subs, counters, regs, asked, sent, owner, available, running, imageList, adminLock>>
  BY DEF Expire, flags, registry, imageVars
<1>3. Conductor \in Actors /\ LocalsKnown(l) /\ l \in Locals /\ L \in PCs /\ lingering \in Seq(Items) /\ closes \in [Resources -> Nat]
  BY <1>1, KnownLocals, ActorFacts DEF LocalsKnown, ConductorInv, TypeInv, LocalsType, BaseType
<1>4. PICK M : /\ my' = [my EXCEPT ![Conductor] = M] /\ LocalsKnown(M) /\ (M = l \/ L = "requeue")
               /\ M.reg = l.reg /\ M.kept = l.kept /\ M.back = l.back /\ M.index = l.index /\ M.image = l.image
               /\ M.item.resource = l.item.resource
               /\ lingering' \in Seq(Items) /\ \A x : Has(lingering, x)' => Has(lingering, x)
  <2>1. ASSUME NEW k \in DOMAIN lingering, lingering' = [lingering EXCEPT ![k].expired = TRUE], my' = my
        PROVE  /\ my' = [my EXCEPT ![Conductor] = l]
               /\ lingering' \in Seq(Items) /\ \A x : Has(lingering, x)' => Has(lingering, x)
    <3>1. PICK e : e = [lingering[k] EXCEPT !.expired = TRUE]
      OBVIOUS
    <3>2. lingering[k] \in Items
      BY SMT, <1>3
    <3>3. e \in Items /\ e.resource = lingering[k].resource
      BY <3>1, <3>2 DEF Items
    <3>4. lingering' = Put(lingering, k, e)
      BY <2>1, <3>1 DEF Put
    <3>5. PICK q : q = lingering
      OBVIOUS
    <3>6. Put(q, k, e) \in Seq(Items) /\ \A x : Has(Put(q, k, e), x) => Has(q, x)
      BY <1>3, <3>3, <3>5, ChannelPut
    <3>7. my' = [my EXCEPT ![Conductor] = l]
      BY <1>1, <2>1 DEF ConductorInv, TypeInv, LocalsType
    <3> QED BY <3>4, <3>5, <3>6, <3>7
  <2>2. ASSUME my' = [my EXCEPT ![Conductor].item.expired = TRUE], lingering' = lingering, L = "requeue"
        PROVE  \E M : /\ my' = [my EXCEPT ![Conductor] = M] /\ LocalsKnown(M)
                      /\ M.reg = l.reg /\ M.kept = l.kept /\ M.back = l.back /\ M.index = l.index /\ M.image = l.image
                      /\ M.item.resource = l.item.resource
    <3>1. PICK e, M : e = [l.item EXCEPT !.expired = TRUE] /\ M = [l EXCEPT !.item = e]
      OBVIOUS
    <3>2. l.item \in Items
      BY <1>3 DEF Locals
    <3>3. e \in Items /\ e.resource = l.item.resource
      BY <3>1, <3>2 DEF Items
    <3>4. /\ M.reg = l.reg /\ M.kept = l.kept /\ M.back = l.back /\ M.index = l.index /\ M.image = l.image
          /\ M.item = e
      BY <1>3, <3>1, <3>3 DEF Locals
    <3>5. LocalsKnown(M)
      BY <1>3, <3>1, <3>3, LocalsUpdates
    <3>6. my' = [my EXCEPT ![Conductor] = M]
      BY <1>1, <2>2, <3>1
    <3> QED BY <3>3, <3>4, <3>5, <3>6
  <2>3. CASE \E k \in DOMAIN lingering : lingering' = [lingering EXCEPT ![k].expired = TRUE] /\ my' = my
    BY <1>3, <2>1, <2>3
  <2>4. CASE my' = [my EXCEPT ![Conductor].item.expired = TRUE] /\ lingering' = lingering /\ L = "requeue"
    BY <1>3, <2>2, <2>4
  <2> QED BY <1>1, <2>3, <2>4 DEF Expire
<1>5. MoveTo(Conductor, L, M)
  BY <1>1, <1>2, <1>4 DEF MoveTo, ConductorInv, TypeInv, LocalsType
<1>6. pc'[Conductor] = L /\ my'[Conductor] = M
  BY <1>3, <1>4, <1>5, Moves DEF ConductorInv, TypeInv, LocalsKnown
<1>7. CallInv(Conductor)'
  <2>1. CallInv(Conductor)
    BY <1>3 DEF ConductorInv
  <2>2. M.reg = l.reg /\ M.back = l.back /\ M.index = l.index
    BY <1>4
  <2> QED BY <1>1, <1>2, <1>6, <2>1, <2>2 DEF CallInv, InClose
<1>8. HandlerInv'
  BY <1>1, <1>2, <1>4, <1>6 DEF HandlerInv, OnImage, ConductorInv
<1>9. \A x : Released(x)' => Released(x)
  BY <1>1, <1>2, <1>4, <1>6, ReleasedHas, ReleasedHasNext
<1>10. L \in {"onAvailableImage", "addImage", "removeImage"} => M = l
  <2>1. "requeue" \notin {"onAvailableImage", "addImage", "removeImage"}
    BY SMT
  <2> QED BY <1>4, <2>1
<1>11. LingerInv'
  <2>1. EnvStep
    BY <1>2 DEF EnvStep, KindsGrow, ClosedGrow, OwnersGrow
  <2> QED BY <1>1, <1>2, <1>6, <1>9, <1>10, <2>1, LingerStep
<1>12. BaseType' /\ LockStep(Conductor) /\ \A r \in RegIDs : KnownImages(imageList'[r], r)
  BY <1>2, <1>4, KnownNow DEF ConductorInv, TypeInv, BaseType, LockStep
<1> QED BY <1>1, <1>2, <1>3, <1>4, <1>5, <1>7, <1>8, <1>11, <1>12, KeptStep

\* x is the log of r, which is closed, or one of its images.
OfClosed(x, r) ==
    /\ x \in Resources /\ r \in RegIDs /\ regs[r].closed
    /\ x = Log(r) \/ \E i \in 1..MaxImages : x = Image(i) /\ owner[i] = r

\* What a release makes linger is closed.
LEMMA LingersNext ==
    ASSUME ConductorInv, NEW a \in Actors, pc[a] = "push", my[a].next <= Len(ToLinger(a)), NEW r, r = my[a].reg,
           NEW x, x = ToLinger(a)[my[a].next]
    PROVE  OfClosed(x, r)
<1>1. r \in RegIDs /\ regs[r].closed /\ regs[r].kind \in {"pub", "sub"}
  BY DEF ConductorInv, CallInv, InClose
<1>2. PICK k, s : k = my[a].next /\ s = my[a].images
  OBVIOUS
<1>3. k \in Nat \ {0} /\ s \in Slices /\ KnownImages(s, r) /\ s.len \in Nat
  <2>1. my[a] \in Locals /\ KnownImages(s, r)
    BY <1>2, KnownLocals DEF LocalsKnown
  <2>2. k \in Nat \ {0} /\ s \in Slices
    BY <1>2, <2>1 DEF Locals
  <2> QED BY <2>1, <2>2 DEF Slices
<1>4. CASE regs[r].kind = "pub"
  <2>1. ToLinger(a) = <<Log(r)>>
    BY <1>4 DEF ToLinger
  <2>2. k <= Len(<<Log(r)>>) /\ x = <<Log(r)>>[k]
    BY <1>2, <2>1
  <2>3. k = 1
    BY SMT, <1>3, <2>2
  <2>4. x = Log(r)
    BY SMT, <2>2, <2>3
  <2> QED BY <1>1, <2>4, ResourceFacts DEF OfClosed
<1>5. CASE regs[r].kind # "pub"
  <2>1. ToLinger(a) = [i \in 1..s.len |-> Image(Cell(s.arr, i))]
    BY <1>2, <1>5 DEF ToLinger, Cell
  <2>2. Len([i \in 1..s.len |-> Image(Cell(s.arr, i))]) = s.len
    BY SMT, <1>3
  <2>3. k \in 1..s.len
    BY SMT, <1>2, <1>3, <2>1, <2>2
  <2>4. PICK i : i = Cell(s.arr, k)
    OBVIOUS
  <2>5. x = Image(i)
    BY <1>2, <2>1, <2>3, <2>4
  <2>6. i # Nil
    BY <1>3, <2>3, <2>4 DEF KnownImages, NoNil
  <2>7. r \in Int /\ r # -1 /\ r # -2
    BY SMT, <1>1, ConductorAssumption DEF RegIDs
  <2>8. Belongs(i, r)
    BY <1>3, <2>3, <2>4, <2>6, <2>7, SliceBelongs DEF KnownImages
  <2>9. i \in 1..MaxImages /\ owner[i] = r
    BY <2>7, <2>8 DEF Belongs
  <2> QED BY <1>1, <2>5, <2>9, ResourceFacts DEF OfClosed
<1> QED BY <1>4, <1>5

LEMMA PushStep ==
    ASSUME ConductorInv, NEW a \in Actors, Push(a) PROVE ConductorInv'
<1>1. PICK l, n, M, x, e, r : /\ l = my[a] /\ n = l.next + 1 /\ M = [l EXCEPT !.next = n]
                              /\ x = ToLinger(a)[l.next] /\ e = Fresh(x) /\ r = l.reg
  OBVIOUS
<1>2. /\ pc[a] = "push" /\ l.next <= Len(ToLinger(a)) /\ lingering' = Append(lingering, e) /\ pc' = pc /\ closes' = closes
      /\ my' = [my EXCEPT ![a] = M]
      /\ UNCHANGED <<heap, pubs, subs, counters, regs, asked, sent, owner, available, running, imageList, adminLock>>
  BY <1>1 DEF Push, Lingering, flags, registry, imageVars
<1>3. LocalsKnown(l) /\ l \in Locals /\ l.next \in Nat \ {0} /\ "push" \in PCs
  <2>1. LocalsKnown(l) /\ l \in Locals
    BY <1>1, KnownLocals DEF LocalsKnown
  <2> QED BY <2>1 DEF Locals, PCs
<1>4. n \in Nat \ {0}
  BY SMT, <1>1, <1>3
<1>5. LocalsKnown(M) /\ M.reg = l.reg /\ M.kept = l.kept /\ M.back = l.back /\ M.index = l.index
  <2>1. M.reg = l.reg /\ M.kept = l.kept /\ M.back = l.back /\ M.index = l.index
    BY <1>1, <1>3, <1>4 DEF Locals
  <2> QED BY <1>1, <1>3, <1>4, <2>1, LocalsUpdates
<1>6. MoveTo(a, "push", M) /\ pc'[a] = "push" /\ my'[a] = M /\ OthersKept(a)
  <2>1. MoveTo(a, "push", M)
    BY <1>2 DEF MoveTo, ConductorInv, TypeInv, LocalsType
  <2> QED BY <1>3, <1>5, <2>1, Moves DEF ConductorInv, TypeInv, LocalsKnown
<1>7. /\ x \in Resources /\ r \in RegIDs /\ regs[r].closed
      /\ x = Log(r) \/ \E i \in 1..MaxImages : x = Image(i) /\ owner[i] = r
  <2>1. pc[a] = "push" /\ my[a].next <= Len(ToLinger(a)) /\ r = my[a].reg /\ x = ToLinger(a)[my[a].next]
    BY <1>1, <1>2
  <2>2. OfClosed(x, r)
    BY <2>1, LingersNext
  <2> QED BY <2>2 DEF OfClosed
<1>8. e \in Items /\ e.resource = x
  BY SMT, <1>1, <1>7 DEF Fresh, Items
<1>9. lingering \in Seq(Items) /\ closes \in [Resources -> Nat]
  BY DEF ConductorInv, TypeInv, BaseType
<1>10. lingering' \in Seq(Items) /\ \A y : Has(lingering, y)' => Has(lingering, y) \/ x = y
  BY <1>2, <1>8, <1>9, Channel
<1>11. /\ "push" \notin {"linger", "requeue"} /\ "push" # "walk"
       /\ "push" \notin {"onReady", "onErrorResponse", "onAvailableImage", "addImage", "onUnavailableImage",
                         "removeImage", "linger"}
  BY SMT
<1>12. pc'[Conductor] = pc[Conductor] /\ (pc[Conductor] # "push" => my'[Conductor] = my[Conductor])
  BY <1>2, <1>6, ActorFacts DEF OthersKept
<1>13. \A y : Released(y)' => Released(y) \/ x = y
  BY <1>2, <1>10, <1>11, <1>12, ReleasedHas, ReleasedHasNext
<1>14. \A q \in RegIDs : Released(Log(q))' => Released(Log(q)) \/ regs'[q].closed
  BY <1>2, <1>7, <1>13, ResourceFacts
<1>15. \A i \in 1..MaxImages : Released(Image(i))' => Released(Image(i)) \/ (owner[i] # Nil /\ regs'[owner[i]].closed)
  <2>1. r # Nil
    BY SMT, <1>7, ConductorAssumption DEF RegIDs, Nil
  <2> QED BY <1>2, <1>7, <1>13, <2>1, ResourceFacts
<1>16. LingerInv'
  <2>1. EnvStep
    BY <1>2 DEF EnvStep, KindsGrow, ClosedGrow, OwnersGrow
  <2> QED BY <1>2, <1>11, <1>12, <1>14, <1>15, <2>1, LingerStep
<1>17. BaseType' /\ LockStep(a) /\ \A q \in RegIDs : KnownImages(imageList'[q], q)
  BY <1>2, <1>10, KnownNow DEF ConductorInv, TypeInv, BaseType, LockStep
<1>18. CallInv(a)'
  <2>1. CallInv(a)
    BY DEF ConductorInv
  <2> QED BY ZenonT(30), <1>1, <1>2, <1>5, <1>6, <2>1 DEF CallInv, InClose
<1>19. a = Conductor => HandlerInv'
  BY <1>6, <1>11 DEF HandlerInv, OnImage
<1> QED BY <1>1, <1>2, <1>3, <1>5, <1>6, <1>16, <1>17, <1>18, <1>19, KeptStep

\* removeImage stores the list.
LEMMA RemoveImageStep ==
    ASSUME ConductorInv, RemoveImage PROVE ConductorInv'
<1>1. PICK M, r, i, s : M = my[Conductor] /\ r = M.reg /\ i = M.image /\ s = M.images
  OBVIOUS
<1>2. /\ pc[Conductor] = "removeImage" /\ imageList' = [imageList EXCEPT ![r] = s] /\ my' = my
      /\ UNCHANGED <<heap, pubs, subs, counters, regs, asked, sent, owner, available, running, adminLock, lingering, closes>>
      /\ Goto(Conductor, "linger")
  BY <1>1 DEF RemoveImage, flags, registry
<1>3. /\ r \in RegIDs /\ i \in 1..MaxImages /\ owner[i] = r /\ Conductor \in Actors /\ adminLock = Conductor
      /\ LocalsKnown(M) /\ M \in Locals
  BY <1>1, <1>2, ActorFacts, KnownLocals DEF ConductorInv, HandlerInv, OnImage, LocalsKnown
<1>4. s \in Slices /\ KnownImages(s, r) /\ imageList \in [RegIDs -> Slices]
  <2>1. s \in Slices
    BY <1>1, <1>3 DEF Locals
  <2> QED BY <1>1, <1>3, <2>1 DEF LocalsKnown, ConductorInv, TypeInv, BaseType
<1>5. imageList' \in [RegIDs -> Slices] /\ imageList'[r] = s /\ \A q \in RegIDs : q # r => imageList'[q] = imageList[q]
  BY <1>2, <1>3, <1>4
<1>6. /\ "linger" \in PCs /\ "linger" \notin {"empty", "emptySet", "release", "lock", "push", "walk"}
      /\ "linger" \notin {"onReady", "onErrorResponse", "onAvailableImage", "addImage", "onUnavailableImage", "removeImage"}
      /\ "removeImage" # "push"
  BY SMT DEF PCs
<1>7. MoveTo(Conductor, "linger", M) /\ pc'[Conductor] = "linger" /\ my'[Conductor] = M
  <2>1. MoveTo(Conductor, "linger", M)
    BY <1>1, <1>2 DEF Goto, MoveTo, ConductorInv, TypeInv, LocalsType
  <2> QED BY <1>3, <1>6, <2>1, Moves DEF ConductorInv, TypeInv, LocalsKnown
<1>8. CallInv(Conductor)' /\ HandlerInv'
  <2>1. CallInv(Conductor)
    BY <1>3 DEF ConductorInv
  <2>2. CallInv(Conductor)'
    BY <1>1, <1>2, <1>6, <1>7, <2>1 DEF CallInv, InClose
  <2> QED BY <1>2, <1>3, <1>6, <1>7, <2>2 DEF HandlerInv, OnImage
<1>9. /\ M.item.resource = Image(i)
      /\ IsOpen(r) => ~Contains(s, i) /\ s.arr = imageList[r].arr /\ s.len + 1 = imageList[r].len
  BY <1>1, <1>2 DEF ConductorInv, LingerInv, RemovingInv
<1>10. \A x : Released(x)' => Released(x) \/ x = Image(i)
  BY <1>2, <1>7, <1>9 DEF Released
<1>11. \A h, k : Cell(h, k)' = Cell(h, k)
  BY <1>2 DEF Cell
<1>12. LogsInv'
  BY <1>2, <1>10, ResourceFacts DEF ConductorInv, LingerInv, LogsInv
<1>13. ASSUME NEW j \in 1..MaxImages, Released(Image(j))'
       PROVE  owner'[j] # Nil /\ (IsOpen(owner[j])' => ~Contains(imageList[owner[j]], j)')
  <2>1. r # Nil /\ \A q \in 0..MaxRegs : q # Nil => q \in RegIDs
    BY SMT, <1>3, ConductorAssumption DEF RegIDs, Nil
  <2>2. CASE j = i
    <3>1. IsOpen(r)' => ~Contains(s, i)
      BY <1>2, <1>9 DEF IsOpen
    <3>2. Contains(imageList[r], i)' => Contains(s, i)
      BY <1>5, <1>11 DEF Contains
    <3>3. owner'[j] = r
      BY <1>2, <1>3, <2>2
    <3> QED BY <2>1, <2>2, <3>1, <3>2, <3>3 DEF IsOpen, Contains
  <2>3. CASE j # i
    <3>1. PICK q : q = owner[j]
      OBVIOUS
    <3>2. Released(Image(j)) /\ owner'[j] = q
      BY <1>2, <1>10, <1>13, <2>3, <3>1, ResourceFacts
    <3>3. q # Nil /\ (IsOpen(q) => ~Contains(imageList[q], j)) /\ q \in RegIDs
      BY <2>1, <3>1, <3>2 DEF ConductorInv, LingerInv, ImagesInv, TypeInv, BaseType
    <3>4. CASE q # r
      <4>1. imageList'[q] = imageList[q]
        BY <1>5, <3>3, <3>4
      <4> QED BY <1>2, <1>11, <3>2, <3>3, <4>1 DEF IsOpen, Contains
    <3>5. CASE q = r
      <4>1. PICK n, m, A : n = s.len /\ m = imageList[r].len /\ A = s.arr
        OBVIOUS
      <4>2. IsOpen(r) => \A k \in 1..n : k \in 1..m /\ A = imageList[r].arr
        <5>1. n \in Nat /\ m \in Nat
          BY <1>3, <1>4, <4>1 DEF Slices
        <5> QED BY SMT, <1>9, <4>1, <5>1
      <4>3. IsOpen(r) => ~Contains(s, j)
        BY <3>3, <3>5, <4>1, <4>2 DEF Contains
      <4>4. Contains(imageList[r], j)' => Contains(s, j)
        BY <1>5, <1>11 DEF Contains
      <4> QED BY <1>2, <3>2, <3>3, <3>5, <4>3, <4>4 DEF IsOpen, Contains
    <3> QED BY <3>4, <3>5
  <2> QED BY <2>2, <2>3
<1>14. ASSUME NEW q \in RegIDs, IsOpen(q)' PROVE Unique(List(q))'
  <2>1. List(q)' = List(q)
    BY <1>1, <1>2, <1>5, <1>6, <1>7, <1>14 DEF List
  <2>2. Unique(List(q))
    BY <1>2, <1>14 DEF ConductorInv, LingerInv, ImagesInv, IsOpen
  <2> QED BY <1>11, <2>1, <2>2 DEF Unique
<1>15. AddingInv' /\ RemovingInv'
  BY <1>6, <1>7 DEF AddingInv, RemovingInv
<1>16. LingerInv'
  BY <1>12, <1>13, <1>14, <1>15 DEF LingerInv, ImagesInv
<1>17. BaseType' /\ LockStep(Conductor)
  BY <1>2, <1>5 DEF ConductorInv, TypeInv, BaseType, LockStep
<1>18. \A q \in RegIDs : KnownImages(imageList'[q], q)
  BY <1>4, <1>5, KnownNow DEF ConductorInv, TypeInv
<1> QED BY <1>2, <1>3, <1>6, <1>7, <1>8, <1>16, <1>17, <1>18, KeptStep

-----------------------------------------------------------------------------
(* The registry: cutting the slice.                                        *)

LEMMA Tag ==
    /\ RegistryTag("pub") = -1 /\ RegistryTag("sub") = -2 /\ -1 \in Int /\ -2 \in Int /\ "pub" # "sub"
    /\ -1 \notin RegIDs /\ -2 \notin RegIDs /\ -1 # -2
  BY SMT, ConductorAssumption DEF RegistryTag, RegIDs

LEMMA SliceNow ==
    ASSUME ConductorInv, NEW kind \in {"pub", "sub"}
    PROVE  SliceOf(kind) \in Slices /\ Known(SliceOf(kind), RegistryTag(kind))
  BY KnownNow, Tag DEF SliceOf, ConductorInv, TypeInv, BaseType

LEMMA KnownSize ==
    ASSUME ConductorInv, NEW s \in Slices, NEW t, Known(s, t)
    PROVE  s.arr \in 1..ArrayCount /\ s.len <= Size(s.arr) /\ Size(s.arr) \in Nat /\ s.len \in Nat
<1>1. s.arr \in 1..ArrayCount /\ s.len <= Size(s.arr)
  BY DEF ConductorInv, HeapInv, Known, IsSlice
<1> QED BY <1>1, HeapTypes DEF ConductorInv, TypeInv, Slices

\* Only one goroutine is between the removal of an entry and the cut.
LEMMA OnePushes ==
    ASSUME ConductorInv, NEW a \in Actors, adminLock = a
    PROVE  \A b \in Actors : pc[b] = "push" => b = a
  BY DEF ConductorInv, CallInv

LEMMA UnlockStep ==
    ASSUME ConductorInv, NEW a \in Actors, Unlock(a) PROVE ConductorInv'
<1>1. PICK r, kind, s, n : r = my[a].reg /\ kind = regs[r].kind /\ s = SliceOf(kind) /\ n = my[a].kept
  OBVIOUS
<1>2. PICK s2 : s2 = (IF n <= Size(s.arr) THEN [s EXCEPT !.len = n] ELSE s)
  OBVIOUS
<1>3. /\ pc[a] = "push" /\ adminLock' = Nil /\ SetSlice(kind, s2)
      /\ IF n <= Size(s.arr) THEN Return(a) ELSE Goto(a, "panicked") /\ my' = my
      /\ UNCHANGED <<heap, regs, asked, sent, lingering, closes, running, imageList, owner, available>>
  BY <1>1, <1>2 DEF Unlock, Size, flags, imageVars
<1>4. /\ r \in RegIDs /\ kind \in {"pub", "sub"} /\ adminLock = a /\ s \in Slices /\ Known(s, RegistryTag(kind))
      /\ n \in Nat
  <2>1. r \in RegIDs /\ kind \in {"pub", "sub"} /\ adminLock = a
    BY <1>1, <1>3 DEF ConductorInv, CallInv, InClose
  <2>2. my[a] \in Locals
    BY DEF ConductorInv, TypeInv, LocalsType
  <2>3. n \in Nat
    BY <1>1, <2>2 DEF Locals
  <2> QED BY <1>1, <2>1, <2>3, SliceNow
<1>5. s.arr \in 1..ArrayCount /\ s.len <= Size(s.arr) /\ Size(s.arr) \in Nat /\ s.len \in Nat
  BY <1>4, KnownSize
<1>6. s2 \in Slices /\ s2.arr = s.arr /\ (n <= Size(s.arr) => s2.len = n) /\ s2.len <= Size(s.arr)
  <2>1. [s EXCEPT !.len = n] \in Slices /\ [s EXCEPT !.len = n].arr = s.arr /\ [s EXCEPT !.len = n].len = n
    BY <1>4 DEF Slices
  <2> QED BY <1>2, <1>4, <1>5, <2>1
<1>7. Known(s2, RegistryTag(kind))
  BY <1>4, <1>6 DEF Known, IsSlice
<1>8. /\ SliceOf(kind)' = s2 /\ \A k \in {"pub", "sub"} : k # kind => SliceOf(k)' = SliceOf(k)
      /\ pubs' \in Slices /\ subs' \in Slices /\ Known(pubs', -1) /\ Known(subs', -2) /\ counters' = counters
  <2>1. Known(pubs, -1) /\ Known(subs, -2) /\ pubs \in Slices /\ subs \in Slices
    BY KnownNow DEF ConductorInv, TypeInv, BaseType
  <2>2. CASE kind = "pub"
    BY <1>3, <1>6, <1>7, <2>1, <2>2, Tag DEF SetSlice, SliceOf
  <2>3. CASE kind = "sub"
    BY <1>3, <1>6, <1>7, <2>1, <2>3, Tag DEF SetSlice, SliceOf
  <2> QED BY <1>4, <2>2, <2>3
<1>9. PICK L \in OutsideLabels \cup {"walk"}, M \in Locals :
          MoveTo(a, L, M) /\ LocalsKnown(M) /\ CallInv(a)' /\ (a = Conductor => HandlerInv')
  <2>1. CASE n <= Size(s.arr)
    <3>1. PICK L \in {"idle", "walk"}, M \in Locals : MoveTo(a, L, M) /\ LocalsKnown(M) /\ CallInv(a)'
      BY <1>3, <2>1, Returns
    <3>2. L \in PCs /\ L \in OutsideLabels \cup {"walk"}
      BY <3>1 DEF PCs, QuietLabels, OutsideLabels
    <3>3. pc'[a] = L
      BY <3>1, <3>2, Moves DEF ConductorInv, TypeInv, LocalsKnown
    <3>4. L \notin {"onReady", "onErrorResponse", "onAvailableImage", "addImage", "onUnavailableImage",
                    "removeImage", "linger"}
      BY SMT, <3>1
    <3>5. a = Conductor => HandlerInv'
      BY <3>3, <3>4 DEF HandlerInv, OnImage
    <3> QED BY <3>1, <3>2, <3>5
  <2>2. CASE ~(n <= Size(s.arr))
    <3>1. PICK M : M = my[a]
      OBVIOUS
    <3>2. LocalsKnown(M) /\ MoveTo(a, "panicked", M) /\ "panicked" \in OutsideLabels
      BY <1>3, <2>2, <3>1, KnownLocals DEF MoveTo, Goto, ConductorInv, TypeInv, LocalsType, OutsideLabels
    <3>3. CallInv(a)' /\ (a = Conductor => HandlerInv')
      BY <1>3, <3>1, <3>2, OutsideCalls
    <3> QED BY <3>2, <3>3 DEF LocalsKnown
  <2> QED BY <2>1, <2>2
<1>10. L \in PCs /\ L \in QuietLabels /\ L # "push"
  <2>1. OutsideLabels \cup {"walk"} \subseteq QuietLabels
    BY SMT DEF OutsideLabels, QuietLabels
  <2> QED BY <1>9, <2>1, Labels
<1>11. \A b \in Actors : pc'[b] # "push"
  <2>1. pc'[a] = L /\ OthersKept(a)
    BY <1>9, <1>10, Moves DEF ConductorInv, TypeInv, LocalsKnown
  <2> QED BY <1>4, <1>10, <2>1, OnePushes DEF OthersKept
<1>12. RegistryInv'
  <2> SUFFICES ASSUME running, NEW k \in {"pub", "sub"}
               PROVE  Exact(SliceOf(k).arr, SliceOf(k).len, k)'
    BY <1>3, <1>11 DEF RegistryInv, Cutting
  <2>1. Registered(k)' = Registered(k)
    BY <1>3 DEF Registered
  <2>2. CASE k = kind
    <3>1. s.len = n + 1 /\ Exact(s.arr, n, k)
      BY <1>1, <1>3, <2>2 DEF ConductorInv, RegistryInv, Cutting
    <3>2. n <= Size(s.arr)
      BY SMT, <1>4, <1>5, <3>1
    <3>3. Exact(s.arr, n, k)'
      BY <1>3, <2>1, <3>1, ExactKept
    <3>4. SliceOf(k)' = s2 /\ s2.arr = s.arr /\ s2.len = n
      BY <1>6, <1>8, <2>2, <3>2
    <3> QED BY SMT, <3>3, <3>4 DEF Exact
  <2>3. CASE k # kind
    <3>1. PICK s3 : s3 = SliceOf(k)
      OBVIOUS
    <3>2. \A b \in Actors : ~Cutting(b, k)
      BY <1>1, <1>4, <2>3, OnePushes DEF Cutting
    <3>3. Exact(s3.arr, s3.len, k)
      BY <3>1, <3>2 DEF ConductorInv, RegistryInv
    <3>4. Exact(s3.arr, s3.len, k)'
      BY <1>3, <2>1, <3>3, ExactKept
    <3>5. SliceOf(k)' = s3
      BY <1>8, <2>3, <3>1
    <3> QED BY SMT, <3>4, <3>5 DEF Exact
  <2> QED BY <2>2, <2>3
<1>13. BaseType' /\ UnusedInv'
  BY <1>3, <1>8 DEF ConductorInv, TypeInv, BaseType, UnusedInv
<1>14. EnvStep /\ LockStep(a)
  BY <1>3, <1>4 DEF EnvStep, KindsGrow, ClosedGrow, OwnersGrow, LockStep
<1> QED BY <1>3, <1>8, <1>9, <1>10, <1>12, <1>13, <1>14, QuietBase

-----------------------------------------------------------------------------
(* Steps that change an array.                                             *)

\* Slices of another purpose are not in the array that has changed.
LEMMA GrownApart ==
    ASSUME ConductorInv, NEW s \in Slices, NEW t \in Int, Known(s, t), NEW x, NEW B, Grown(s.arr, s.len, x, B),
           NEW q \in Slices, NEW p \in Int, Known(q, p), p # t
    PROVE  CellsKept(q)
<1>1. PICK tag \in Tags : SlicesInv(tag)
  BY DEF ConductorInv, HeapInv
<1>2. (q.arr = 1 \/ tag[q.arr] = p) /\ (s.arr = 1 \/ tag[s.arr] = t)
  BY <1>1 DEF Known, IsSlice
<1>3. q.arr \in 1..ArrayCount /\ q.len <= Size(q.arr) /\ Size(q.arr) \in Nat /\ q.len \in Nat /\ ArrayCount \in Nat
  BY KnownSize, HeapTypes DEF ConductorInv, TypeInv
<1>4. ArrayCount' \in Nat /\ ArrayCount <= ArrayCount'
  BY SMT DEF Grown, HeapType, ArrayCount
<1>5. q.arr # B
  <2> SUFFICES ASSUME q.arr = B PROVE FALSE
    OBVIOUS
  <2>1. B # ArrayCount + 1
    BY SMT, <1>3
  <2>2. B = s.arr /\ B # 1
    BY <2>1 DEF Grown
  <2> QED BY <1>2, <2>2
<1>6. q.arr \in 1..ArrayCount' \ {B} /\ \A k \in 1..q.len : k \in 1..Size(q.arr)
  BY SMT, <1>3, <1>4, <1>5
<1> QED BY <1>6 DEF Grown, CellsKept

LEMMA ShrunkApart ==
    ASSUME ConductorInv, NEW s \in Slices, NEW t \in Int, Known(s, t), s.len # 0, NEW x, NEW last,
           Shrunk(s.arr, s.len, x, last), NEW q \in Slices, NEW p \in Int, Known(q, p), p # t
    PROVE  CellsKept(q)
<1>1. PICK tag \in Tags : SlicesInv(tag)
  BY DEF ConductorInv, HeapInv
<1>2. (q.arr = 1 \/ tag[q.arr] = p) /\ (s.arr = 1 \/ tag[s.arr] = t)
  BY <1>1 DEF Known, IsSlice
<1>3. /\ q.arr \in 1..ArrayCount /\ q.len <= Size(q.arr) /\ Size(q.arr) \in Nat /\ q.len \in Nat
      /\ s.len <= Size(s.arr) /\ s.len \in Nat /\ Size(1) = 0
  BY KnownSize, HeapTypes DEF ConductorInv, TypeInv
<1>4. s.arr # 1
  BY SMT, <1>3
<1>5. \A k \in 1..q.len : k \in 1..Size(q.arr)
  BY SMT, <1>3
<1>6. q.arr # s.arr
  BY <1>2, <1>4
<1> QED BY <1>3, <1>5, <1>6 DEF Shrunk, CellsKept

\* The purposes of the arrays after the step.
GoodTags(tag2) ==
    /\ tag2 \in Tags' /\ ArraysInv(tag2)'
    /\ \A q \in Slices, p \in Int : Known(q, p) => IsSlice(q, p, tag2)'
    /\ \A q \in Slices, p \in 0..MaxRegs : KnownImages(q, p) => NoNil(q)'

LEMMA GrownHeap ==
    ASSUME ConductorInv, EnvStep, NEW s \in Slices, NEW t \in Int, Known(s, t), NEW x \in Nat, x # Nil,
           NEW s2 \in Slices, s2.len = s.len + 1, Grown(s.arr, s.len, x, s2.arr), Belongs(x, t)'
    PROVE  \E tag2 : GoodTags(tag2) /\ IsSlice(s2, t, tag2)'
<1>1. PICK tag \in Tags : ArraysInv(tag) /\ SlicesInv(tag)
  BY DEF ConductorInv, HeapInv
<1>2. PICK A, n, B : A = s.arr /\ n = s.len /\ B = s2.arr
  OBVIOUS
<1>3. /\ A \in 1..ArrayCount /\ n <= Size(A) /\ Size(A) \in Nat /\ n \in Nat /\ (A = 1 \/ tag[A] = t)
      /\ Size(1) = 0 /\ ArrayCount \in Nat
  <2>1. A = 1 \/ tag[A] = t
    BY <1>1, <1>2 DEF Known, IsSlice
  <2> QED BY <1>2, <2>1, KnownSize, HeapTypes DEF ConductorInv, TypeInv
<1>4. Grown(A, n, x, B) /\ s2.len = n + 1
  BY <1>2
<1>5. ArrayCount' \in Nat /\ ArrayCount <= ArrayCount' /\ \A h \in 1..ArrayCount : h \in 1..ArrayCount'
  <2>1. ArrayCount' \in Nat /\ ArrayCount <= ArrayCount'
    BY SMT, <1>4 DEF Grown, HeapType, ArrayCount
  <2> QED BY SMT, <1>3, <2>1
<1>6. PICK tag2 : tag2 = [h \in 1..ArrayCount' |-> IF h = B THEN t ELSE tag[h]]
  OBVIOUS
<1>7. /\ B \in 1..ArrayCount' /\ B # 1 /\ n + 1 <= Size(B)' /\ tag2[B] = t
      /\ \A h \in 1..ArrayCount' : h # B =>
            /\ tag2[h] = tag[h] /\ h \in 1..ArrayCount /\ Size(h)' = Size(h)
            /\ \A k \in 1..Size(h) : Cell(h, k)' = Cell(h, k)
  BY <1>4, <1>6 DEF Grown
<1>8. tag2 \in Tags'
  <2>1. \A h \in 1..ArrayCount' : (IF h = B THEN t ELSE tag[h]) \in Int
    BY <1>1, <1>7 DEF Tags
  <2> QED BY <1>6, <2>1 DEF Tags
<1>9. B \in 1..ArrayCount => B = A /\ Size(B)' = Size(B) /\ tag[B] = t
  <2> SUFFICES ASSUME B \in 1..ArrayCount PROVE B = A /\ Size(B)' = Size(B) /\ tag[B] = t
    OBVIOUS
  <2>1. B # ArrayCount + 1
    BY SMT, <1>3
  <2> QED BY <1>3, <1>4, <2>1 DEF Grown
<1>10. ArraysInv(tag2)'
  <2>1. ASSUME NEW h \in 1..ArrayCount', NEW k \in 1..Size(h)', NEW c, c = Cell(h, k)'
        PROVE  c = Nil \/ Belongs(c, tag2[h])'
    <3>1. CASE h # B
      <4>1. tag2[h] = tag[h] /\ h \in 1..ArrayCount /\ k \in 1..Size(h) /\ c = Cell(h, k)
        BY <1>7, <2>1, <3>1
      <4>2. c = Nil \/ Belongs(c, tag[h])
        BY <1>1, <4>1 DEF ArraysInv
      <4>3. c = Nil \/ Belongs(c, tag[h])'
        BY <4>2, BelongsKept
      <4> QED BY <4>1, <4>3
    <3>2. CASE h = B /\ k = n + 1
      <4>1. c = x
        BY <1>4, <2>1, <3>2 DEF Grown
      <4> QED BY <1>7, <3>2, <4>1
    <3>3. CASE h = B /\ k # n + 1
      <4>1. c = Nil \/ (k \in 1..Size(A) /\ c = Cell(A, k))
        BY <1>4, <2>1, <3>3 DEF Grown
      <4>2. k \in 1..Size(A) => A # 1
        BY SMT, <1>3
      <4>3. c = Nil \/ Belongs(c, t)
        BY <1>1, <1>3, <4>1, <4>2 DEF ArraysInv
      <4>4. c = Nil \/ Belongs(c, t)'
        BY <4>3, BelongsKept
      <4> QED BY <1>7, <3>3, <4>4
    <3> QED BY <3>1, <3>2, <3>3
  <2> QED BY <2>1 DEF ArraysInv, Belongs
<1>11. ASSUME NEW q \in Slices, NEW p \in Int, Known(q, p) PROVE IsSlice(q, p, tag2)'
  <2>1. q.arr \in 1..ArrayCount /\ q.len <= Size(q.arr) /\ (q.arr = 1 \/ tag[q.arr] = p) /\ q.arr \in 1..ArrayCount'
    BY <1>1, <1>5, <1>11 DEF Known, IsSlice
  <2>2. CASE q.arr # B
    BY <1>7, <2>1, <2>2 DEF IsSlice
  <2>3. CASE q.arr = B
    BY <1>7, <1>9, <2>1, <2>3 DEF IsSlice
  <2> QED BY <2>2, <2>3
<1>12. ASSUME NEW q \in Slices, NEW p \in 0..MaxRegs, KnownImages(q, p) PROVE NoNil(q)'
  <2>1. q.arr \in 1..ArrayCount /\ q.len <= Size(q.arr) /\ Size(q.arr) \in Nat /\ q.len \in Nat /\ q.arr \in 1..ArrayCount'
    BY <1>5, <1>12, KnownSize DEF KnownImages
  <2>2. ASSUME NEW k \in 1..q.len PROVE Cell(q.arr, k)' # Nil
    <3>1. k \in 1..Size(q.arr) /\ Cell(q.arr, k) # Nil
      <4>1. k \in 1..Size(q.arr)
        BY SMT, <2>1
      <4> QED BY <1>12, <4>1 DEF KnownImages, NoNil
    <3>2. CASE q.arr # B
      BY <1>7, <2>1, <3>1, <3>2
    <3>3. CASE q.arr = B
      <4>1. CASE k = n + 1
        BY <1>4, <3>3, <4>1 DEF Grown
      <4>2. CASE k # n + 1
        BY <1>4, <1>9, <2>1, <3>1, <3>3, <4>2 DEF Grown
      <4> QED BY <4>1, <4>2
    <3> QED BY <3>2, <3>3
  <2> QED BY <2>2 DEF NoNil
<1>13. IsSlice(s2, t, tag2)'
  BY <1>2, <1>4, <1>7 DEF IsSlice
<1>14. GoodTags(tag2)
  BY <1>8, <1>10, <1>11, <1>12 DEF GoodTags
<1> QED BY <1>13, <1>14

LEMMA ShrunkHeap ==
    ASSUME ConductorInv, EnvStep, NEW s \in Slices, NEW t \in Int, Known(s, t), s.len # 0, NEW x, NEW last,
           Shrunk(s.arr, s.len, x, last), last = Cell(s.arr, s.len) \/ last = Nil, last = Nil => t \notin 0..MaxRegs
    PROVE  \E tag2 : GoodTags(tag2)
<1>1. PICK tag \in Tags : ArraysInv(tag) /\ SlicesInv(tag)
  BY DEF ConductorInv, HeapInv
<1>2. PICK A, n : A = s.arr /\ n = s.len
  OBVIOUS
<1>3. A \in 1..ArrayCount /\ n <= Size(A) /\ Size(A) \in Nat /\ n \in Nat /\ n # 0
  BY <1>2, KnownSize
<1>4. n \in 1..Size(A)
  BY SMT, <1>3
<1>5. /\ ArrayCount' = ArrayCount /\ Tags' = Tags /\ (\A h \in 1..ArrayCount : Size(h)' = Size(h))
      /\ (\A h \in 1..ArrayCount : h # A => \A k \in 1..Size(h) : Cell(h, k)' = Cell(h, k))
      /\ Cell(A, n)' = last
  BY <1>2 DEF Shrunk, Tags
<1>6. PICK j \in 1..n : /\ j # n => Cell(A, j)' = Cell(A, n)
                        /\ \A k \in 1..Size(A) : (k # j /\ k # n) => Cell(A, k)' = Cell(A, k)
  BY <1>2 DEF Shrunk
<1>7. ArraysInv(tag)'
  <2>1. ASSUME NEW h \in 1..ArrayCount', NEW k \in 1..Size(h)', NEW c, c = Cell(h, k)'
        PROVE  c = Nil \/ Belongs(c, tag[h])'
    <3>1. h \in 1..ArrayCount /\ k \in 1..Size(h)
      BY <1>5
    <3>2. c = Nil \/ c = Cell(h, k) \/ (h = A /\ c = Cell(A, n))
      BY <1>2, <1>5, <1>6, <2>1, <3>1
    <3>3. c = Nil \/ Belongs(c, tag[h])
      BY <1>1, <1>3, <1>4, <3>1, <3>2 DEF ArraysInv
    <3> QED BY <3>3, BelongsKept
  <2> QED BY <2>1 DEF ArraysInv, Belongs
<1>8. ASSUME NEW q \in Slices, NEW p \in Int, Known(q, p) PROVE IsSlice(q, p, tag)'
  <2>1. q.arr \in 1..ArrayCount /\ q.len <= Size(q.arr) /\ (q.arr = 1 \/ tag[q.arr] = p)
    BY <1>1, <1>8 DEF Known, IsSlice
  <2> QED BY <1>5, <2>1 DEF IsSlice
<1>9. ASSUME NEW q \in Slices, NEW p \in 0..MaxRegs, KnownImages(q, p) PROVE NoNil(q)'
  <2>1. CASE p # t
    <3>1. p \in Int /\ Known(q, p)
      BY SMT, <1>9 DEF KnownImages
    <3>2. CellsKept(q)
      BY <2>1, <3>1, ShrunkApart
    <3> QED BY <1>9, <3>2 DEF KnownImages, NoNil, CellsKept
  <2>2. CASE p = t
    <3>1. last # Nil /\ last = Cell(A, n)
      BY <1>2, <2>2
    <3>2. q.arr \in 1..ArrayCount /\ q.len <= Size(q.arr) /\ Size(q.arr) \in Nat /\ q.len \in Nat
      BY <1>9, KnownSize DEF KnownImages
    <3>3. ASSUME NEW k \in 1..q.len PROVE Cell(q.arr, k)' # Nil
      <4>1. k \in 1..Size(q.arr)
        BY SMT, <3>2
      <4>2. Cell(q.arr, k) # Nil
        BY <1>9 DEF KnownImages, NoNil
      <4> QED BY <1>5, <1>6, <3>1, <3>2, <4>1, <4>2
    <3> QED BY <3>3 DEF NoNil
  <2> QED BY <2>1, <2>2
<1>10. GoodTags(tag)
  BY <1>1, <1>5, <1>7, <1>8, <1>9 DEF GoodTags
<1> QED BY <1>10

\* The locals of a goroutine after the step.
LocalsNext(M, tag2) ==
    /\ IsSlice(M.images, M.reg, tag2)' /\ NoNil(M.images)'
    /\ IsSlice(M.slice, RegistryTag(M.phase), tag2)'

LEMMA KnownNext ==
    ASSUME ConductorInv, NEW tag2, GoodTags(tag2)
    PROVE  /\ \A q : q = pubs => IsSlice(q, -1, tag2)'
           /\ \A q : q = subs => IsSlice(q, -2, tag2)'
           /\ \A r \in RegIDs : \A q : q = imageList[r] => IsSlice(q, r, tag2)' /\ NoNil(q)'
           /\ \A M : LocalsKnown(M) => LocalsNext(M, tag2)
<1>1. pubs \in Slices /\ subs \in Slices /\ (\A r \in RegIDs : imageList[r] \in Slices)
  BY DEF ConductorInv, TypeInv, BaseType
<1>2. /\ Known(pubs, -1) /\ Known(subs, -2) /\ \A r \in RegIDs : KnownImages(imageList[r], r)
  BY KnownNow DEF ConductorInv, TypeInv
<1>3. -1 \in Int /\ -2 \in Int /\ (\A r \in RegIDs : r \in 0..MaxRegs) /\ (\A r \in 0..MaxRegs : r \in Int)
  BY SMT, ConductorAssumption DEF RegIDs
<1>4. \A kind : RegistryTag(kind) \in Int
  BY SMT, <1>3 DEF RegistryTag
<1>5. ASSUME NEW M, LocalsKnown(M) PROVE LocalsNext(M, tag2)
  <2>1. M.images \in Slices /\ M.slice \in Slices /\ M.reg \in 0..MaxRegs
    BY <1>5 DEF LocalsKnown, Locals
  <2> QED BY <1>3, <1>4, <1>5, <2>1 DEF LocalsNext, LocalsKnown, KnownImages, GoodTags
<1>6. ASSUME NEW r \in RegIDs, NEW q, q = imageList[r] PROVE IsSlice(q, r, tag2)' /\ NoNil(q)'
  BY <1>1, <1>2, <1>3, <1>6 DEF GoodTags, KnownImages
<1>7. (\A q : q = pubs => IsSlice(q, -1, tag2)') /\ (\A q : q = subs => IsSlice(q, -2, tag2)')
  BY <1>1, <1>2, <1>3 DEF GoodTags
<1> QED BY <1>5, <1>6, <1>7

LEMMA ChangedHeap ==
    ASSUME ConductorInv, NEW tag2, GoodTags(tag2), NEW a \in Actors, OthersKept(a),
           NEW M, my'[a] = M, LocalsNext(M, tag2),
           \A q : q = pubs' => IsSlice(q, -1, tag2)',
           \A q : q = subs' => IsSlice(q, -2, tag2)',
           \A r \in RegIDs : \A q : q = imageList'[r] => IsSlice(q, r, tag2)' /\ NoNil(q)'
    PROVE  HeapInv'
<1>1. \A b \in Actors : \A N : N = my'[b] => LocalsNext(N, tag2)
  <2> SUFFICES ASSUME NEW b \in Actors, NEW N, N = my'[b], b # a PROVE LocalsNext(N, tag2)
    OBVIOUS
  <2>1. N = my[b]
    BY DEF OthersKept
  <2>2. LocalsKnown(N)
    BY <2>1, KnownLocals
  <2> QED BY <2>2, KnownNext
<1>2. \A b \in Actors : /\ IsSlice(my[b].images, my[b].reg, tag2)' /\ NoNil(my[b].images)'
                        /\ IsSlice(my[b].slice, RegistryTag(my[b].phase), tag2)'
  BY <1>1 DEF LocalsNext, IsSlice, NoNil
<1>3. IsSlice(pubs, -1, tag2)' /\ IsSlice(subs, -2, tag2)'
  BY DEF IsSlice
<1>4. \A r \in RegIDs : IsSlice(imageList[r], r, tag2)' /\ NoNil(imageList[r])'
  BY DEF IsSlice, NoNil
<1>5. SlicesInv(tag2)'
  BY <1>2, <1>3, <1>4 DEF SlicesInv
<1> QED BY <1>2, <1>4, <1>5 DEF HeapInv, GoodTags
=============================================================================
