--------------------------- MODULE CleanMemoryProofs --------------------------
(*****************************************************************************)
(* Proof that the log never runs into memory that the driver has not zeroed, *)
(* for any number of goroutines whose longest messages fit in a term         *)
(* together.  The debt of a set of publishers is the longest message times   *)
(* their number.                                                             *)
(*****************************************************************************)
EXTENDS StreamLimitProofs, FiniteSetTheorems

Debt(m) == [S \in SUBSET Publishers |-> m * Cardinality(S)]

\* The longest message of every publisher together fits in one term.  In the code
\* a message is at most an eighth of the term.
FewPublishers ==
    /\ IsFiniteSet(Publishers)
    /\ \E n \in Lengths : /\ \A k \in Lengths : RequiredLength(k) <= RequiredLength(n)
                          /\ Cardinality(Publishers) * RequiredLength(n) <= TermLength

LEMMA Cardinalities ==
    ASSUME IsFiniteSet(Publishers), NEW S \in SUBSET Publishers, NEW T \in SUBSET S
    PROVE  /\ Cardinality(S) \in Nat /\ Cardinality(T) \in Nat /\ Cardinality(T) <= Cardinality(S)
           /\ \A p \in S : p \notin T => Cardinality(T) <= Cardinality(S) - 1
<1>1. IsFiniteSet(S) /\ IsFiniteSet(T)
  BY Zenon, FS_Subset
<1>2. Cardinality(S) \in Nat /\ Cardinality(T) \in Nat /\ Cardinality(T) <= Cardinality(S)
  BY Zenon, <1>1, FS_Subset, FS_CardinalityType
<1>3. ASSUME NEW p \in S, p \notin T PROVE Cardinality(T) <= Cardinality(S) - 1
  <2>1. Cardinality(S \ {p}) = Cardinality(S) - 1 /\ IsFiniteSet(S \ {p})
    BY Zenon, <1>1, <1>3, FS_RemoveElement
  <2>2. T \in SUBSET (S \ {p})
    BY Zenon, <1>3
  <2>3. Cardinality(T) <= Cardinality(S \ {p})
    BY Zenon, <2>1, <2>2, FS_Subset
  <2> QED BY Zenon, <2>1, <2>3
<1> QED BY Zenon, <1>2, <1>3

LEMMA Multiples ==
    ASSUME NEW m \in Nat, NEW a \in Nat, NEW b \in Nat
    PROVE  /\ m * a \in Nat /\ m * a = a * m
           /\ a <= b => m * a <= m * b
           /\ a <= b - 1 => m * a + m <= m * b
<1>1. m * a \in Nat /\ m * a = a * m
  OBVIOUS
<1>2. ASSUME a <= b PROVE m * a <= m * b
  <2>1. PICK c \in Nat : b = a + c
    <3>1. b - a \in Nat /\ b = a + (b - a)
      BY <1>2
    <3> QED BY <3>1
  <2>2. m * b = m * a + m * c /\ m * c \in Nat
    BY <2>1
  <2> QED BY <1>1, <2>2
<1>3. ASSUME a <= b - 1 PROVE m * a + m <= m * b
  <2>1. PICK c \in Nat : b = a + 1 + c
    <3>1. b - a - 1 \in Nat /\ b = a + 1 + (b - a - 1)
      BY <1>3
    <3> QED BY <3>1
  <2>2. m * b = m * a + m + m * c /\ m * c \in Nat
    BY <2>1
  <2> QED BY <1>1, <2>2
<1> QED BY <1>1, <1>2, <1>3

LEMMA DebtIsSmall ==
    ASSUME NEW m \in Nat \ {0}, IsFiniteSet(Publishers), \A n \in Lengths : RequiredLength(n) <= m,
           Cardinality(Publishers) * m <= TermLength
    PROVE  Few(Debt(m), m) /\ Debt(m)[Publishers] = Cardinality(Publishers) * m
<1>1. m \in Nat
  OBVIOUS
<1>2. ASSUME NEW S \in SUBSET Publishers, NEW T \in SUBSET S
      PROVE  /\ Debt(m)[S] \in Nat /\ Debt(m)[T] <= Debt(m)[S]
             /\ \A p \in S : p \notin T => Debt(m)[T] + m <= Debt(m)[S]
  <2>1. Debt(m)[S] = m * Cardinality(S) /\ Debt(m)[T] = m * Cardinality(T)
    BY Zenon DEF Debt
  <2>2. PICK a \in Nat, b \in Nat : a = Cardinality(T) /\ b = Cardinality(S)
    BY Zenon, Cardinalities
  <2>3. a <= b /\ \A p \in S : p \notin T => a <= b - 1
    BY Zenon, <2>2, Cardinalities
  <2>4. m * b \in Nat /\ m * a <= m * b /\ \A p \in S : p \notin T => m * a + m <= m * b
    BY Zenon, <1>1, <2>3, Multiples
  <2> QED BY Zenon, <2>1, <2>2, <2>4
<1>3. Debt(m) \in [SUBSET Publishers -> Nat]
  <2>1. ASSUME NEW S \in SUBSET Publishers PROVE m * Cardinality(S) \in Nat
    BY Zenon, <1>2 DEF Debt
  <2> QED BY Zenon, <2>1 DEF Debt
<1>4. Debt(m)[Publishers] = Cardinality(Publishers) * m
  <2>1. Debt(m)[Publishers] = m * Cardinality(Publishers)
    BY Zenon DEF Debt
  <2>2. Cardinality(Publishers) \in Nat
    BY Zenon, FS_CardinalityType
  <2> QED BY Zenon, <1>1, <2>1, <2>2, Multiples
<1> QED BY Zenon, <1>2, <1>3, <1>4 DEF Few

\* However long publishers stall between the reads of the limit, of the term count
\* and of the raw tail in Offer or TryClaim and the getAndAddRawTail that follows,
\* the log runs over the limit by less than one message of each, and a frame is
\* claimed only where the driver has zeroed the memory since its last use.
THEOREM ClaimsStayInCleanMemory == ASSUME FewPublishers PROVE Spec => []ClaimsFindCleanMemory
<1>1. PICK n \in Lengths : /\ \A k \in Lengths : RequiredLength(k) <= RequiredLength(n)
                           /\ Cardinality(Publishers) * RequiredLength(n) <= TermLength
  BY Zenon DEF FewPublishers
<1>2. PICK m : m = RequiredLength(n)
  BY Zenon
<1>3. m \in Nat \ {0}
  <2>1. n \in Nat
    BY Zenon, LengthsAssumption
  <2>2. m \in Nat /\ m >= 1
    BY Zenon, <1>2, <2>1, RequiredLengthType, RequiredLengthPositive
  <2> QED BY <2>2
<1>4. PICK d : d = Debt(m)
  BY Zenon
<1>5. Few(d, m) /\ d[Publishers] = Cardinality(Publishers) * RequiredLength(n)
  BY Zenon, <1>1, <1>2, <1>3, <1>4, DebtIsSmall DEF FewPublishers
<1>6. Init => SpaceInv(d, m)
  BY Zenon, <1>5, SpaceInvInit
<1>7. SpaceInv(d, m) /\ [Next]_vars => SpaceInv(d, m)'
  BY Zenon, <1>5, SpaceInvNext
<1>8. SpaceInv(d, m) => ClaimsFindCleanMemory
  BY Zenon, <1>5, SpaceIsClean DEF ClaimsFindCleanMemory, PartitionCount
<1> QED BY <1>6, <1>7, <1>8, PTL DEF Spec
=============================================================================
