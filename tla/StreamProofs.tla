----------------------------- MODULE StreamProofs -----------------------------
(*****************************************************************************)
(* Proof that the position a publication returns is the end of its message,  *)
(* up to whole turns of the partitions, that the terms of a log are used in  *)
(* turn, and that the frames the publishers claim follow one another without *)
(* gap or overlap, for any number of goroutines that share the publication,  *)
(* any length of the terms and of the messages; and that RotateLog panics at *)
(* the end of the stream only in a call that was raced.                      *)
(*****************************************************************************)
EXTENDS Stream, TLAPS

-----------------------------------------------------------------------------
(* The inductive invariant.                                                *)

RawTails == [term : Int, offset : Nat]

Partitions == 0..(PartitionCount - 1)

\* A partition is only ever used for the terms that are its turn.
TailInv ==
    /\ tail \in [Partitions -> RawTails]
    /\ \A i \in Partitions : tail[i].term % PartitionCount = i
    /\ activeTermCount \in Nat

TablesInv ==
    /\ pc \in [Publishers -> Labels]
    /\ DOMAIN my = Publishers /\ DOMAIN results = Publishers

\* The locals of a call that matter here, and their types.
LocalsOf(p) ==
    /\ DOMAIN my[p] = DOMAIN NoLocals
    /\ my[p].length \in Nat /\ my[p].termCount \in Nat
    /\ my[p].rawTail \in RawTails /\ my[p].claimed \in RawTails /\ my[p].nextTail \in RawTails

HasRawTail(p) == pc[p] \in Labels \ {"idle", "termCount", "rawTail"}
HasClaimed(p) == pc[p] \in Labels \ {"idle", "termCount", "rawTail", "append"}

MyIndex(p) == IndexByTermCount(my[p].termCount)

\* The raw tail that was checked may be old when the append gets its own: the
\* partition has then been used again, for a later term.
StaleTail(p) ==
    /\ HasRawTail(p) => my[p].rawTail.term % PartitionCount = MyIndex(p)
                        /\ my[p].rawTail.term <= tail[MyIndex(p)].term
    /\ HasClaimed(p) => my[p].claimed.term % PartitionCount = MyIndex(p)
                        /\ my[p].rawTail.term <= my[p].claimed.term
    /\ pc[p] = "rotateCas" => my[p].nextTail.term = my[p].claimed.term + 1 - PartitionCount

ReturnedOf(p) ==
    results[p].status = "position" /\ results[p].kind # "position" =>
        results[p].excess <= 0 /\ results[p].excess % (PartitionCount * TermLength) = 0

CallInv(p) == LocalsOf(p) /\ StaleTail(p) /\ ReturnedOf(p)

ReturnInv == TailInv /\ TablesInv /\ \A p \in Publishers : CallInv(p)

-----------------------------------------------------------------------------
(* Arithmetic.                                                             *)

\* A multiple of a number has no remainder.
LEMMA MultipleHasNoRemainder ==
    ASSUME NEW m \in Nat \ {0}, NEW k \in Int
    PROVE  (m * k) % m = 0
<1> DEFINE x == m * k
           q == x \div m
           r == x % m
<1>1. x \in Int /\ x = m * q + r /\ r \in 0..(m - 1) /\ q \in Int
  OBVIOUS
<1> HIDE DEF q, r
<1>2. m * (k - q) = r
  BY <1>1
<1>3. k - q < 1 /\ k - q > -1
  BY <1>1, <1>2
<1>4. k - q = 0
  BY <1>1, <1>3
<1>5. r = 0
  BY <1>2, <1>4
<1> QED BY Zenon, <1>5 DEF r

LEMMA RequiredLengthType == \A n \in Nat : RequiredLength(n) \in Nat
<1> SUFFICES ASSUME NEW n \in Nat PROVE RequiredLength(n) \in Nat
  BY Zenon
<1>1. MaxPayload \in Nat \ {0}
  BY Zenon, LengthsAssumption
<1>2. n \div MaxPayload \in Nat /\ n % MaxPayload \in Nat
  BY <1>1
<1>3. (n \div MaxPayload) * (MaxPayload + 1) \in Nat
  BY <1>1, <1>2
<1> QED BY <1>1, <1>2, <1>3 DEF RequiredLength

\* The terms of one partition are whole turns apart.
LEMMA SameTurn ==
    ASSUME NEW a \in Int, NEW b \in Int, a <= b, a % PartitionCount = b % PartitionCount
    PROVE  \E k \in Nat : b - a = PartitionCount * k
<1> WITNESS (b \div 3) - (a \div 3) \in Nat
<1> QED BY DEF PartitionCount

\* What newPosition computes from an old tail falls short by whole turns.
LEMMA ExcessIsTurns ==
    ASSUME NEW p \in Publishers, CallInv(p), HasClaimed(p)
    PROVE  Excess(p) <= 0 /\ Excess(p) % (PartitionCount * TermLength) = 0
<1> DEFINE a == my[p].rawTail
           b == my[p].claimed
<1>1. /\ a.term \in Int /\ b.term \in Int /\ a.offset \in Nat /\ b.offset \in Nat
      /\ my[p].length \in Nat
  BY Zenon DEF CallInv, LocalsOf, RawTails
<1>2. a.term <= b.term /\ a.term % PartitionCount = b.term % PartitionCount
  BY Zenon DEF CallInv, StaleTail, HasClaimed, HasRawTail
<1>3. PICK k \in Nat : b.term - a.term = PartitionCount * k
  BY Zenon, <1>1, <1>2, SameTurn
<1>4. Required(p) \in Nat /\ TermLength \in Nat \ {0}
  BY Zenon, <1>1, RequiredLengthType, TermAssumption DEF Required
<1>5. Excess(p) = a.term * TermLength - b.term * TermLength
  BY <1>1, <1>4 DEF Excess, NewPosition, PositionOf, ComputeTermBeginPosition
<1> HIDE DEF a, b
<1>6. Excess(p) = (PartitionCount * TermLength) * (-k)
  <2>1. a.term = b.term - 3 * k
    BY <1>1, <1>3 DEF PartitionCount
  <2> QED BY <1>1, <1>4, <1>5, <2>1 DEF PartitionCount
<1>7. PartitionCount * TermLength \in Nat \ {0} /\ -k \in Int
  BY <1>4 DEF PartitionCount
<1>8. Excess(p) <= 0
  BY <1>4, <1>6, <1>7
<1> QED BY Zenon, <1>6, <1>7, <1>8, MultipleHasNoRemainder

-----------------------------------------------------------------------------
(* The steps.                                                              *)

LEMMA IndexType == \A n \in Int : IndexByTermCount(n) \in Partitions
  BY DEF IndexByTermCount, Partitions, PartitionCount

\* A step of one publisher keeps the invariant if it keeps its own part of it and
\* puts no partition back to an earlier term.
LEMMA OneCallSteps ==
    ASSUME ReturnInv, TailInv', TablesInv', NEW p \in Publishers, CallInv(p)',
           \A i \in Partitions : tail[i].term <= tail'[i].term,
           \A q \in Publishers \ {p} : UNCHANGED <<pc[q], my[q], results[q]>>
    PROVE  ReturnInv'
<1>1. ASSUME NEW q \in Publishers \ {p} PROVE CallInv(q)'
  <2>1. CallInv(q) /\ UNCHANGED <<pc[q], my[q], results[q]>>
    BY Zenon, <1>1 DEF ReturnInv
  <2>2. LocalsOf(q)' /\ ReturnedOf(q)'
    BY Zenon, <2>1 DEF CallInv, LocalsOf, ReturnedOf
  <2>3. MyIndex(q)' = MyIndex(q) /\ MyIndex(q) \in Partitions
    BY <2>1, IndexType DEF MyIndex, CallInv, LocalsOf
  <2>4. tail[MyIndex(q)].term \in Int /\ tail'[MyIndex(q)].term \in Int /\ my[q].rawTail.term \in Int
    BY Zenon, <2>1, <2>3 DEF ReturnInv, TailInv, RawTails, CallInv, LocalsOf
  <2>5. StaleTail(q)'
    BY SMTT(30), <2>1, <2>3, <2>4 DEF CallInv, StaleTail, HasRawTail, HasClaimed
  <2> QED BY Zenon, <2>2, <2>5 DEF CallInv
<1> QED BY Zenon, <1>1 DEF ReturnInv

\* A step that no publisher takes.
LEMMA OthersStep ==
    ASSUME ReturnInv, UNCHANGED <<tail, activeTermCount, pc, my, results>>
    PROVE  ReturnInv'
<1>1. TailInv' /\ TablesInv'
  BY Zenon DEF ReturnInv, TailInv, TablesInv
<1>2. ASSUME NEW p \in Publishers PROVE CallInv(p)'
  BY Zenon DEF ReturnInv, CallInv, LocalsOf, StaleTail, HasRawTail, HasClaimed, MyIndex, ReturnedOf
<1> QED BY Zenon, <1>1, <1>2 DEF ReturnInv

\* The end of a call.
LEMMA ReturnStep ==
    ASSUME ReturnInv, NEW p \in Publishers, NEW status, NEW excess, Return(p, status, excess),
           status = "position" /\ my[p].kind # "position" =>
               excess <= 0 /\ excess % (PartitionCount * TermLength) = 0
    PROVE  /\ TablesInv' /\ CallInv(p)'
           /\ \A q \in Publishers \ {p} : UNCHANGED <<pc[q], my[q], results[q]>>
<1>1. /\ pc' = [pc EXCEPT ![p] = "idle"] /\ my' = [my EXCEPT ![p] = NoLocals]
      /\ results' = [results EXCEPT ![p] = [kind |-> my[p].kind, status |-> status, excess |-> excess]]
  BY Zenon DEF Return
<1>2. pc \in [Publishers -> Labels] /\ DOMAIN my = Publishers /\ DOMAIN results = Publishers
  BY Zenon DEF ReturnInv, TablesInv
<1>3. /\ pc'[p] = "idle" /\ my'[p] = NoLocals
      /\ results'[p] = [kind |-> my[p].kind, status |-> status, excess |-> excess]
      /\ \A q \in Publishers \ {p} : UNCHANGED <<pc[q], my[q], results[q]>>
  BY Zenon, <1>1, <1>2
<1>4. TablesInv'
  BY Zenon, <1>1, <1>2 DEF TablesInv, Labels
<1>5. LocalsOf(p)'
  BY <1>3 DEF LocalsOf, NoLocals, NoTail, RawTails
<1>6. StaleTail(p)' /\ ReturnedOf(p)'
  BY <1>3 DEF StaleTail, HasRawTail, HasClaimed, ReturnedOf
<1> QED BY Zenon, <1>3, <1>4, <1>5, <1>6 DEF CallInv

\* What the invariant says of one publisher and of its partition.
LEMMA CallFacts ==
    ASSUME ReturnInv, NEW p \in Publishers
    PROVE  /\ CallInv(p) /\ pc \in [Publishers -> Labels]
           /\ DOMAIN my = Publishers /\ DOMAIN results = Publishers
           /\ MyIndex(p) \in Partitions /\ RawTail(p) = tail[MyIndex(p)]
           /\ RawTail(p) \in RawTails /\ RawTail(p).term \in Int /\ RawTail(p).offset \in Nat
           /\ RawTail(p).term % PartitionCount = MyIndex(p)
           /\ my[p].rawTail.term \in Int /\ my[p].claimed.term \in Int
           /\ Required(p) \in Nat
<1>1. CallInv(p) /\ pc \in [Publishers -> Labels] /\ DOMAIN my = Publishers /\ DOMAIN results = Publishers
  BY Zenon DEF ReturnInv, TablesInv
<1>2. MyIndex(p) \in Partitions /\ RawTail(p) = tail[MyIndex(p)]
  BY <1>1, IndexType DEF MyIndex, RawTail, CallInv, LocalsOf
<1>3. RawTail(p) \in RawTails /\ RawTail(p).term % PartitionCount = MyIndex(p)
  BY Zenon, <1>2 DEF ReturnInv, TailInv
<1>4. Required(p) \in Nat
  BY Zenon, <1>1, RequiredLengthType DEF Required, CallInv, LocalsOf
<1>5. my[p].rawTail \in RawTails /\ my[p].claimed \in RawTails
  BY Zenon, <1>1 DEF CallInv, LocalsOf
<1> QED BY Zenon, <1>1, <1>2, <1>3, <1>4, <1>5 DEF RawTails

\* The log's counters are left alone.
LEMMA TailKept ==
    ASSUME ReturnInv, UNCHANGED <<tail, activeTermCount>>
    PROVE  TailInv' /\ \A i \in Partitions : tail[i].term <= tail'[i].term
  BY DEF ReturnInv, TailInv, RawTails

LEMMA CallKeeps ==
    ASSUME ReturnInv, NEW p \in Publishers, PublisherCall(p)
    PROVE  ReturnInv'
<1>1. ASSUME NEW kind, NEW n \in Nat, Call(p, kind, n) PROVE ReturnInv'
  <2>1. /\ UNCHANGED <<tail, activeTermCount>>
        /\ pc' = [pc EXCEPT ![p] = "termCount"] /\ results' = [results EXCEPT ![p] = NoResult]
        /\ my' = [my EXCEPT ![p] = [NoLocals EXCEPT !.kind = kind, !.length = n, !.limit = pubLimit]]
    BY Zenon, <1>1 DEF Call, Goto, logVars
  <2>2. /\ pc'[p] = "termCount" /\ results'[p] = NoResult
        /\ my'[p] = [NoLocals EXCEPT !.kind = kind, !.length = n, !.limit = pubLimit]
        /\ \A q \in Publishers \ {p} : UNCHANGED <<pc[q], my[q], results[q]>>
    BY Zenon, <2>1, CallFacts
  <2>3. TablesInv'
    BY Zenon, <2>1, CallFacts DEF TablesInv, Labels
  <2>4. LocalsOf(p)'
    BY <2>2 DEF LocalsOf, NoLocals, NoTail, RawTails
  <2>5. StaleTail(p)' /\ ReturnedOf(p)'
    BY <2>2 DEF StaleTail, HasRawTail, HasClaimed, ReturnedOf, NoResult
  <2> QED BY Zenon, <2>1, <2>2, <2>3, <2>4, <2>5, TailKept, OneCallSteps DEF CallInv
<1>2. ASSUME CallWhenClosed(p) PROVE ReturnInv'
  <2>1. Return(p, PublicationClosed, 0) /\ UNCHANGED <<tail, activeTermCount>>
    BY Zenon, <1>2 DEF CallWhenClosed, logVars
  <2> QED BY Zenon, <2>1, ReturnStep, TailKept, OneCallSteps DEF PublicationClosed
<1> QED BY Zenon, <1>1, <1>2, LengthsAssumption DEF PublisherCall, Offer, TryClaim, Offer2, Position

\* The steps before the append.
LEMMA CheckKeeps ==
    ASSUME ReturnInv, NEW p \in Publishers,
           ReadTermCount(p) \/ ReturnPosition(p) \/ OfferTermMoved(p) \/ OfferAtLimit(p) \/ ReadRawTail(p)
    PROVE  ReturnInv'
<1>1. ASSUME ReadTermCount(p) PROVE ReturnInv'
  <2>1. /\ UNCHANGED <<tail, activeTermCount, results>>
        /\ pc' = [pc EXCEPT ![p] = "rawTail"] /\ my' = [my EXCEPT ![p].termCount = activeTermCount]
    BY Zenon, <1>1 DEF ReadTermCount, Goto, logVars
  <2>2. /\ pc'[p] = "rawTail" /\ my'[p] = [my[p] EXCEPT !.termCount = activeTermCount]
        /\ \A q \in Publishers \ {p} : UNCHANGED <<pc[q], my[q], results[q]>>
    BY Zenon, <2>1, CallFacts
  <2>3. TablesInv'
    BY Zenon, <2>1, CallFacts DEF TablesInv, Labels
  <2>4. LocalsOf(p)'
    BY Zenon, <2>2, CallFacts DEF LocalsOf, CallInv, NoLocals, ReturnInv, TailInv
  <2>5. StaleTail(p)' /\ ReturnedOf(p)'
    BY Zenon, <2>1, <2>2, CallFacts DEF StaleTail, HasRawTail, HasClaimed, ReturnedOf, CallInv
  <2> QED BY Zenon, <2>1, <2>2, <2>3, <2>4, <2>5, TailKept, OneCallSteps DEF CallInv
<1>2. ASSUME ReturnPosition(p) PROVE ReturnInv'
  BY Zenon, <1>2, ReturnStep, TailKept, OneCallSteps DEF ReturnPosition, logVars
<1>3. ASSUME OfferTermMoved(p) PROVE ReturnInv'
  BY Zenon, <1>3, ReturnStep, TailKept, OneCallSteps DEF OfferTermMoved, logVars, AdminAction
<1>4. ASSUME OfferAtLimit(p) PROVE ReturnInv'
  <2>1. BackPressureStatus(p) # "position"
    BY Zenon DEF BackPressureStatus, MaxPositionExceeded, BackPressured, NotConnected
  <2> QED BY Zenon, <1>4, <2>1, ReturnStep, TailKept, OneCallSteps DEF OfferAtLimit, logVars
<1>5. ASSUME ReadRawTail(p) PROVE ReturnInv'
  <2>1. /\ UNCHANGED <<tail, activeTermCount, results>>
        /\ pc' = [pc EXCEPT ![p] = "append"]
        /\ my' = [my EXCEPT ![p].rawTail = RawTail(p), ![p].limit = 0]
    BY Zenon, <1>5 DEF ReadRawTail, Goto, logVars
  <2>2. /\ pc'[p] = "append" /\ my'[p] = [[my[p] EXCEPT !.rawTail = RawTail(p)] EXCEPT !.limit = 0]
        /\ \A q \in Publishers \ {p} : UNCHANGED <<pc[q], my[q], results[q]>>
    BY Zenon, <2>1, CallFacts
  <2>3. TablesInv'
    BY Zenon, <2>1, CallFacts DEF TablesInv, Labels
  <2>4. /\ DOMAIN my'[p] = DOMAIN my[p] /\ my'[p].rawTail = RawTail(p)
        /\ my'[p].termCount = my[p].termCount /\ my'[p].length = my[p].length
        /\ my'[p].claimed = my[p].claimed /\ my'[p].nextTail = my[p].nextTail
    BY Zenon, <2>2, CallFacts DEF CallInv, LocalsOf, NoLocals
  <2>5. LocalsOf(p)'
    BY Zenon, <2>4, CallFacts DEF LocalsOf, CallInv
  <2>6. StaleTail(p)' /\ ReturnedOf(p)'
    BY <2>1, <2>2, <2>4, CallFacts DEF StaleTail, HasRawTail, HasClaimed, MyIndex, ReturnedOf, CallInv
  <2> QED BY Zenon, <2>1, <2>2, <2>3, <2>5, <2>6, TailKept, OneCallSteps DEF CallInv
<1> QED BY Zenon, <1>1, <1>2, <1>3, <1>4, <1>5

\* The append takes the tail as it is now, which may be one of a later term.
LEMMA AppendKeeps ==
    ASSUME ReturnInv, NEW p \in Publishers, AppendMessage(p) \/ HandleEndOfLogCondition(p)
    PROVE  ReturnInv'
<1>1. /\ UNCHANGED <<activeTermCount, results>> /\ pc[p] = "append"
      /\ tail' = [tail EXCEPT ![MyIndex(p)].offset = @ + Required(p)]
      /\ \E label \in {"frame", "newPosition"} : pc' = [pc EXCEPT ![p] = label]
      /\ \/ \E id, frame : my' = [my EXCEPT ![p].claimed = RawTail(p), ![p].id = id, ![p].frame = frame]
         \/ my' = [my EXCEPT ![p].claimed = RawTail(p)]
  BY Zenon DEF AppendMessage, HandleEndOfLogCondition, GetAndAddRawTail, MyIndex, Goto
<1>2. PICK label \in {"frame", "newPosition"} : pc' = [pc EXCEPT ![p] = label]
  BY Zenon, <1>1
<1>3. /\ pc'[p] = label
      /\ DOMAIN my' = Publishers /\ DOMAIN my'[p] = DOMAIN my[p] /\ my'[p].claimed = RawTail(p)
      /\ my'[p].rawTail = my[p].rawTail /\ my'[p].nextTail = my[p].nextTail
      /\ my'[p].termCount = my[p].termCount /\ my'[p].length = my[p].length
      /\ \A q \in Publishers \ {p} : UNCHANGED <<pc[q], my[q], results[q]>>
  <2>1. DOMAIN my = Publishers /\ DOMAIN my[p] = DOMAIN NoLocals /\ pc \in [Publishers -> Labels]
    BY Zenon, CallFacts DEF CallInv, LocalsOf
  <2> DEFINE Claimed == /\ DOMAIN my' = Publishers /\ DOMAIN my'[p] = DOMAIN my[p]
                        /\ my'[p].claimed = RawTail(p)
                        /\ my'[p].rawTail = my[p].rawTail /\ my'[p].nextTail = my[p].nextTail
                        /\ my'[p].termCount = my[p].termCount /\ my'[p].length = my[p].length
                        /\ \A q \in Publishers \ {p} : my'[q] = my[q]
  <2>2. ASSUME my' = [my EXCEPT ![p].claimed = RawTail(p)] PROVE Claimed
    BY Zenon, <2>1, <2>2 DEF NoLocals
  <2>3. ASSUME NEW id, NEW frame,
               my' = [my EXCEPT ![p].claimed = RawTail(p), ![p].id = id, ![p].frame = frame]
        PROVE  Claimed
    BY Zenon, <2>1, <2>3 DEF NoLocals
  <2>4. pc'[p] = label /\ \A q \in Publishers \ {p} : UNCHANGED <<pc[q], results[q]>>
    BY Zenon, <1>1, <1>2, <2>1
  <2> HIDE DEF Claimed
  <2>5. Claimed
    BY Zenon, <1>1, <2>2, <2>3
  <2> QED BY Zenon, <2>4, <2>5 DEF Claimed
<1>4. TablesInv'
  BY Zenon, <1>1, <1>2, <1>3, CallFacts DEF TablesInv, Labels
<1>5. /\ tail' \in [Partitions -> RawTails]
      /\ \A i \in Partitions : tail'[i].term = tail[i].term /\ tail[i].term \in Int
  <2>1. tail \in [Partitions -> RawTails]
    BY Zenon DEF ReturnInv, TailInv
  <2>2. [tail[MyIndex(p)] EXCEPT !.offset = @ + Required(p)] \in RawTails
    BY CallFacts DEF RawTails
  <2>3. [tail[MyIndex(p)] EXCEPT !.offset = @ + Required(p)].term = tail[MyIndex(p)].term
    BY Zenon, CallFacts DEF RawTails
  <2>4. /\ tail' \in [Partitions -> RawTails]
        /\ \A i \in Partitions : tail'[i] = IF i = MyIndex(p) THEN [tail[MyIndex(p)] EXCEPT !.offset = @ + Required(p)] ELSE tail[i]
    BY Zenon, <1>1, <2>1, <2>2, CallFacts
  <2> QED BY Zenon, <2>1, <2>3, <2>4 DEF RawTails
<1>6. TailInv' /\ \A i \in Partitions : tail[i].term <= tail'[i].term
  <2>1. activeTermCount' \in Nat /\ \A i \in Partitions : tail[i].term % PartitionCount = i
    BY Zenon, <1>1 DEF ReturnInv, TailInv
  <2> QED BY <1>5, <2>1 DEF TailInv
<1>7. LocalsOf(p)'
  BY Zenon, <1>3, CallFacts DEF LocalsOf, CallInv
<1>8. MyIndex(p)' = MyIndex(p) /\ HasRawTail(p)
  BY Zenon, <1>1, <1>3 DEF MyIndex, HasRawTail, Labels
<1>9. StaleTail(p)' /\ ReturnedOf(p)'
  <2>1. /\ my[p].rawTail.term % PartitionCount = MyIndex(p)
        /\ my[p].rawTail.term <= tail[MyIndex(p)].term
    BY Zenon, <1>8, CallFacts DEF StaleTail, CallInv
  <2>2. tail'[MyIndex(p)].term = tail[MyIndex(p)].term /\ RawTail(p) = tail[MyIndex(p)]
    BY Zenon, <1>5, CallFacts
  <2>3. StaleTail(p)'
    BY Zenon, <1>2, <1>3, <1>8, <2>1, <2>2, CallFacts DEF StaleTail
  <2>4. results' = results /\ ReturnedOf(p)
    BY Zenon, <1>1, CallFacts DEF CallInv
  <2> QED BY Zenon, <2>3, <2>4 DEF ReturnedOf
<1> QED BY Zenon, <1>3, <1>4, <1>6, <1>7, <1>9, OneCallSteps DEF CallInv

\* The frames are written, committed or aborted; an Offer returns with its last one.
LEMMA FrameKeeps ==
    ASSUME ReturnInv, NEW p \in Publishers, WriteFrame(p) \/ SetFrameLength(p) \/ Abort(p)
    PROVE  ReturnInv'
<1>1. ASSUME WriteFrame(p) PROVE ReturnInv'
  <2>1. /\ UNCHANGED <<tail, activeTermCount, my>> /\ pc[p] = "frame" /\ pc' = [pc EXCEPT ![p] = "commit"]
        /\ \/ results' = results
           \/ results' = [results EXCEPT ![p] = [kind |-> "claim", status |-> "position", excess |-> Excess(p)]]
    BY Zenon, <1>1 DEF WriteFrame, Goto
  <2>2. /\ pc'[p] = "commit" /\ HasClaimed(p) /\ HasRawTail(p)
        /\ \A q \in Publishers \ {p} : UNCHANGED <<pc[q], my[q], results[q]>>
        /\ \/ results'[p] = results[p]
           \/ results'[p] = [kind |-> "claim", status |-> "position", excess |-> Excess(p)]
    BY Zenon, <2>1, CallFacts DEF HasClaimed, HasRawTail, Labels
  <2>3. TablesInv'
    BY Zenon, <2>1, CallFacts DEF TablesInv, Labels
  <2>4. LocalsOf(p)' /\ StaleTail(p)'
    BY Zenon, <2>1, <2>2, CallFacts DEF LocalsOf, StaleTail, MyIndex, CallInv
  <2>5. ReturnedOf(p)'
    BY SMTT(30), <2>2, CallFacts, ExcessIsTurns DEF ReturnedOf, CallInv
  <2> QED BY Zenon, <2>1, <2>2, <2>3, <2>4, <2>5, TailKept, OneCallSteps DEF CallInv
<1>2. ASSUME SetFrameLength(p) PROVE ReturnInv'
  <2>0. UNCHANGED <<tail, activeTermCount>> /\ pc[p] = "commit" /\ HasClaimed(p) /\ HasRawTail(p)
    BY Zenon, <1>2 DEF SetFrameLength, HasClaimed, HasRawTail, Labels
  <2>1. CASE Return(p, "position", Excess(p))
    <3>1. Excess(p) <= 0 /\ Excess(p) % (PartitionCount * TermLength) = 0
      BY Zenon, <2>0, CallFacts, ExcessIsTurns
    <3>2. TablesInv' /\ CallInv(p)' /\ \A q \in Publishers \ {p} : UNCHANGED <<pc[q], my[q], results[q]>>
      BY Zenon, <2>1, <3>1, ReturnStep
    <3>3. TailInv' /\ \A i \in Partitions : tail[i].term <= tail'[i].term
      BY Zenon, <2>0, TailKept
    <3> QED BY Zenon, <3>2, <3>3, OneCallSteps
  <2>2. CASE /\ UNCHANGED results
             /\ my' = my \/ my' = [my EXCEPT ![p].frame = @ + 1]
             /\ \E label \in {"frame", "newPosition"} : pc' = [pc EXCEPT ![p] = label]
    <3>1. PICK label \in {"frame", "newPosition"} : pc' = [pc EXCEPT ![p] = label]
      BY Zenon, <2>2
    <3>2. /\ pc'[p] = label
          /\ DOMAIN my' = Publishers /\ DOMAIN my'[p] = DOMAIN my[p] /\ my'[p].claimed = my[p].claimed
          /\ my'[p].rawTail = my[p].rawTail /\ my'[p].nextTail = my[p].nextTail
          /\ my'[p].termCount = my[p].termCount /\ my'[p].length = my[p].length
          /\ \A q \in Publishers \ {p} : UNCHANGED <<pc[q], my[q], results[q]>>
      BY <2>2, <3>1, CallFacts DEF CallInv, LocalsOf, NoLocals
    <3>3. TablesInv'
      BY Zenon, <2>2, <3>1, <3>2, CallFacts DEF TablesInv, Labels
    <3>4. LocalsOf(p)'
      BY Zenon, <3>2, CallFacts DEF LocalsOf, CallInv
    <3>5. StaleTail(p)' /\ ReturnedOf(p)'
      BY <2>0, <2>2, <3>2, CallFacts DEF StaleTail, MyIndex, ReturnedOf, CallInv
    <3> QED BY Zenon, <2>0, <3>2, <3>3, <3>4, <3>5, TailKept, OneCallSteps DEF CallInv
  <2> QED BY Zenon, <1>2, <2>1, <2>2 DEF SetFrameLength, Goto
<1>3. ASSUME Abort(p) PROVE ReturnInv'
  BY Zenon, <1>3, OthersStep DEF Abort
<1> QED BY Zenon, <1>1, <1>2, <1>3

\* newPosition and RotateLog: a tail is only moved on, by a whole turn.
LEMMA RotateKeeps ==
    ASSUME ReturnInv, NEW p \in Publishers,
           \/ ReturnMaxPositionExceeded(p) \/ RotateLogPanics(p)
           \/ RotateGetTail(p) \/ RotateCasTail(p) \/ CasTermCount(p)
    PROVE  ReturnInv'
<1>0. NextIndex(p) \in Partitions /\ my[p].termCount \in Nat
  BY CallFacts, IndexType DEF NextIndex, CallInv, LocalsOf
<1>1. ASSUME ReturnMaxPositionExceeded(p) PROVE ReturnInv'
  BY Zenon, <1>1, ReturnStep, TailKept, OneCallSteps DEF ReturnMaxPositionExceeded, logVars, MaxPositionExceeded
<1>2. ASSUME RotateLogPanics(p) \/ RotateGetTail(p) PROVE ReturnInv'
  <2>1. /\ UNCHANGED <<tail, activeTermCount, results>> /\ pc[p] = "newPosition"
        /\ \/ /\ UNCHANGED my
              /\ \E label \in {"panicked", "termCountCas"} : pc' = [pc EXCEPT ![p] = label]
           \/ /\ pc' = [pc EXCEPT ![p] = "rotateCas"]
              /\ my' = [my EXCEPT ![p].nextTail = tail[NextIndex(p)]]
              /\ tail[NextIndex(p)].term = my[p].claimed.term + 1 - PartitionCount
    BY Zenon, <1>2 DEF RotateLogPanics, RotateGetTail, ExpectedTerm, Goto, logVars
  <2>2. /\ pc'[p] \in {"panicked", "termCountCas", "rotateCas"} /\ HasRawTail(p) /\ HasClaimed(p)
        /\ pc' \in [Publishers -> Labels]
        /\ \A q \in Publishers \ {p} : UNCHANGED <<pc[q], my[q], results[q]>>
    BY Zenon, <2>1, CallFacts DEF HasRawTail, HasClaimed, Labels
  <2>3. /\ DOMAIN my' = Publishers /\ DOMAIN my'[p] = DOMAIN my[p] /\ my'[p].claimed = my[p].claimed
        /\ my'[p].rawTail = my[p].rawTail /\ my'[p].termCount = my[p].termCount /\ my'[p].length = my[p].length
        /\ my'[p].nextTail \in {my[p].nextTail, tail[NextIndex(p)]}
        /\ pc'[p] = "rotateCas" => my'[p].nextTail.term = my[p].claimed.term + 1 - PartitionCount
    BY <2>1, CallFacts DEF CallInv, LocalsOf, NoLocals
  <2>4. TablesInv'
    BY Zenon, <2>1, <2>2, <2>3, CallFacts DEF TablesInv
  <2>5. LocalsOf(p)'
    <3>1. tail[NextIndex(p)] \in RawTails
      BY Zenon, <1>0 DEF ReturnInv, TailInv
    <3> QED BY Zenon, <2>3, <3>1, CallFacts DEF LocalsOf, CallInv
  <2>6. StaleTail(p)' /\ ReturnedOf(p)'
    BY <2>1, <2>2, <2>3, CallFacts DEF StaleTail, MyIndex, ReturnedOf, CallInv
  <2> QED BY Zenon, <2>1, <2>2, <2>4, <2>5, <2>6, TailKept, OneCallSteps DEF CallInv
<1>3. ASSUME RotateCasTail(p) PROVE ReturnInv'
  <2>1. /\ UNCHANGED <<activeTermCount, my, results>> /\ pc[p] = "rotateCas"
        /\ \E label \in {"newPosition", "termCountCas"} : pc' = [pc EXCEPT ![p] = label]
        /\ \/ tail' = tail
           \/ /\ tail[NextIndex(p)] = my[p].nextTail
              /\ tail' = [tail EXCEPT ![NextIndex(p)] = [term |-> my[p].claimed.term + 1, offset |-> 0]]
    BY Zenon, <1>3 DEF RotateCasTail, Goto
  <2>2. /\ pc'[p] \in {"newPosition", "termCountCas"} /\ HasRawTail(p) /\ HasClaimed(p)
        /\ pc' \in [Publishers -> Labels]
        /\ \A q \in Publishers \ {p} : UNCHANGED <<pc[q], my[q], results[q]>>
    BY <2>1, CallFacts DEF HasRawTail, HasClaimed, Labels
  <2>3. TablesInv'
    BY Zenon, <2>1, <2>2, CallFacts DEF TablesInv
  <2>4. my[p].nextTail.term = my[p].claimed.term + 1 - PartitionCount
    BY Zenon, <2>1, CallFacts DEF CallInv, StaleTail
  <2>5. TailInv' /\ \A i \in Partitions : tail[i].term <= tail'[i].term
    <3>1. CASE tail' = tail
      BY Zenon, <2>1, <3>1, TailKept
    <3>2. CASE /\ tail[NextIndex(p)] = my[p].nextTail
               /\ tail' = [tail EXCEPT ![NextIndex(p)] = [term |-> my[p].claimed.term + 1, offset |-> 0]]
      <4>1. /\ tail \in [Partitions -> RawTails] /\ activeTermCount \in Nat
            /\ \A i \in Partitions : tail[i].term \in Int /\ tail[i].term % PartitionCount = i
        BY Zenon DEF ReturnInv, TailInv, RawTails
      <4>2. [term |-> my[p].claimed.term + 1, offset |-> 0] \in RawTails
        BY CallFacts DEF RawTails
      <4>3. tail[NextIndex(p)].term + PartitionCount = my[p].claimed.term + 1
        BY <2>4, <3>2, CallFacts DEF PartitionCount
      <4>4. (my[p].claimed.term + 1) % PartitionCount = NextIndex(p)
        BY <1>0, <4>1, <4>3 DEF PartitionCount
      <4>5. tail' \in [Partitions -> RawTails]
        BY Zenon, <3>2, <4>1, <4>2
      <4>6. \A i \in Partitions : IF i = NextIndex(p) THEN tail'[i].term = my[p].claimed.term + 1
                                  ELSE tail'[i].term = tail[i].term
        BY Zenon, <3>2, <4>1
      <4> QED BY <1>0, <2>1, <4>1, <4>3, <4>4, <4>5, <4>6 DEF TailInv, PartitionCount
    <3> QED BY Zenon, <2>1, <3>1, <3>2
  <2>6. CallInv(p)'
    <3>1. LocalsOf(p)' /\ ReturnedOf(p)' /\ MyIndex(p)' = MyIndex(p)
      BY Zenon, <2>1, CallFacts DEF CallInv, LocalsOf, ReturnedOf, MyIndex
    <3>2. tail[MyIndex(p)].term \in Int /\ tail'[MyIndex(p)].term \in Int /\ tail[MyIndex(p)].term <= tail'[MyIndex(p)].term
      BY Zenon, <2>5, CallFacts DEF ReturnInv, TailInv, RawTails
    <3>3. StaleTail(p)'
      <4>1. /\ my[p].rawTail.term % PartitionCount = MyIndex(p) /\ my[p].rawTail.term <= tail[MyIndex(p)].term
            /\ my[p].claimed.term % PartitionCount = MyIndex(p) /\ my[p].rawTail.term <= my[p].claimed.term
        BY Zenon, <2>2, CallFacts DEF StaleTail, CallInv
      <4>2. my[p].rawTail.term <= tail'[MyIndex(p)].term
        BY <3>2, <4>1, CallFacts
      <4>3. my' = my /\ pc'[p] # "rotateCas"
        BY Zenon, <2>1, <2>2
      <4> QED BY Zenon, <3>1, <4>1, <4>2, <4>3 DEF StaleTail
    <3> QED BY Zenon, <3>1, <3>3 DEF CallInv
  <2> QED BY Zenon, <2>2, <2>3, <2>5, <2>6, OneCallSteps
<1>4. ASSUME CasTermCount(p) PROVE ReturnInv'
  <2>1. /\ Return(p, AdminAction, 0) /\ UNCHANGED tail
        /\ activeTermCount' \in {activeTermCount, my[p].termCount + 1}
    BY Zenon, <1>4 DEF CasTermCount
  <2>2. TailInv' /\ \A i \in Partitions : tail[i].term <= tail'[i].term
    BY <1>0, <2>1 DEF ReturnInv, TailInv, RawTails
  <2> QED BY Zenon, <2>1, <2>2, ReturnStep, OneCallSteps DEF AdminAction
<1> QED BY Zenon, <1>1, <1>2, <1>3, <1>4

-----------------------------------------------------------------------------
(* The theorem.                                                            *)

LEMMA ReturnInvInit == Init => ReturnInv
<1> SUFFICES ASSUME Init PROVE ReturnInv
  BY Zenon
<1>1. TailInv
  <2>1. tail = [i \in Partitions |-> IF i = 0 THEN [term |-> 0, offset |-> StartOffset]
                                     ELSE [term |-> i - PartitionCount, offset |-> 0]]
    BY Zenon DEF Init, LogInit, Partitions
  <2>2. \A i \in Partitions : i - PartitionCount \in Int /\ (i - PartitionCount) % PartitionCount = i
    BY DEF Partitions, PartitionCount
  <2>3. StartOffset \in Nat
    BY StartAssumption, TermAssumption
  <2>4. tail \in [Partitions -> RawTails]
    BY <2>1, <2>2, <2>3 DEF RawTails
  <2>5. \A i \in Partitions : tail[i].term = IF i = 0 THEN 0 ELSE i - PartitionCount
    BY Zenon, <2>1
  <2>6. activeTermCount = 0
    BY Zenon DEF Init, LogInit
  <2> QED BY <2>2, <2>4, <2>5, <2>6 DEF TailInv, PartitionCount
<1>2. /\ pc = [p \in Publishers |-> "idle"] /\ my = [p \in Publishers |-> NoLocals]
      /\ results = [p \in Publishers |-> NoResult]
  BY Zenon DEF Init, PublicationInit
<1>3. TablesInv
  BY Zenon, <1>2 DEF TablesInv, Labels
<1>4. ASSUME NEW p \in Publishers PROVE CallInv(p)
  <2>1. pc[p] = "idle" /\ my[p] = NoLocals /\ results[p] = NoResult
    BY Zenon, <1>2
  <2>2. LocalsOf(p)
    BY <2>1 DEF LocalsOf, NoLocals, NoTail, RawTails
  <2> QED BY <2>1, <2>2 DEF CallInv, StaleTail, HasRawTail, HasClaimed, ReturnedOf, NoResult
<1> QED BY Zenon, <1>1, <1>3, <1>4 DEF ReturnInv

LEMMA ReturnInvNext == ReturnInv /\ [Next]_vars => ReturnInv'
<1> SUFFICES ASSUME ReturnInv, [Next]_vars PROVE ReturnInv'
  BY Zenon
<1>1. ASSUME NEW p \in Publishers, PublisherStep(p) PROVE ReturnInv'
  BY Zenon, <1>1, CheckKeeps, AppendKeeps, FrameKeeps, RotateKeeps DEF PublisherStep
<1>2. ASSUME PublicationNext PROVE ReturnInv'
  <2>1. CASE ClosePublication
    BY Zenon, <2>1, OthersStep DEF ClosePublication, logVars
  <2> QED BY Zenon, <1>1, <1>2, <2>1, CallKeeps, FrameKeeps DEF PublicationNext
\* The subscriber and the driver touch neither the tails nor a publisher.
<1>3. ASSUME SubscriberNext, UNCHANGED pubVars PROVE ReturnInv'
  <2>1. UNCHANGED <<tail, activeTermCount>>
    BY Zenon, <1>3 DEF SubscriberNext, SubscriberPolls, SubscriberStep, PollCall, Poll, ControlledPoll, BoundedPoll,
                StartPoll, HandleFragment, HandlerAborts, HandlerBreaks, HandlerCommits, SkipPadding, EndPoll,
                CloseImage, SetFinalPosition, logVars
  <2> QED BY Zenon, <1>3, <2>1, OthersStep DEF pubVars
<1>4. ASSUME UpdatePublisherLimit, UNCHANGED pubVars PROVE ReturnInv'
  BY Zenon, <1>4, OthersStep DEF UpdatePublisherLimit, pubVars
<1>5. CASE UNCHANGED vars
  BY Zenon, <1>5, OthersStep DEF vars, logVars, pubVars
<1> QED BY Zenon, <1>2, <1>3, <1>4, <1>5 DEF Next

\* A goroutine may check one tail and append at another, of the same partition
\* terms later: what Offer and TryClaim return is then short of the end of the
\* message, but only ever by whole turns of the three partitions, and it is never
\* beyond it.
THEOREM PositionUpToTurns == Spec => []ReturnedPosition
<1>1. ReturnInv => ReturnedPosition
  BY Zenon DEF ReturnInv, CallInv, ReturnedOf, ReturnedPosition
<1> QED BY <1>1, ReturnInvInit, ReturnInvNext, PTL DEF Spec

-----------------------------------------------------------------------------
(* The log: the inductive invariant.                                       *)

Frames == [term : Int, offset : Nat, length : Int, id : Int, part : Nat, of : Nat]

ClaimsInv == claims \in Seq(Frames) /\ FramesAdjoin

\* The publisher found the term full when it added to the tail.
FoundFull(p) ==
    \/ pc[p] \in {"newPosition", "rotateCas", "termCountCas"}
    \/ pc[p] \in {"frame", "commit"} /\ my[p].id = Pad

\* The term count a publisher read is never ahead of its partition; the term it
\* found full stays full for as long as its partition is in it; and before it moves
\* the count on, the next partition is in the next term or a later one.
TermInv(p) ==
    /\ pc[p] \in Labels \ {"idle", "termCount"} => my[p].termCount <= tail[MyIndex(p)].term
    /\ HasClaimed(p) => my[p].termCount <= my[p].claimed.term
                        /\ my[p].claimed.term <= tail[MyIndex(p)].term
    /\ FoundFull(p) /\ my[p].claimed.term = tail[MyIndex(p)].term =>
          tail[MyIndex(p)].offset >= TermLength
    /\ pc[p] = "termCountCas" => my[p].claimed.term < tail[NextIndex(p)].term
    /\ pc[p] \in {"frame", "commit"} =>
          my[p].id = Pad \/ my[p].frame \in 1..Len(FrameLengths(my[p].length))

\* TermsInTurn, for the partition of the latest term.
LastIs(last) ==
    /\ TailsInARow(last)
    /\ \A i \in Partitions :
          tail[i].term \in 0..(tail[last].term - 1) => tail[i].offset >= TermLength
    /\ activeTermCount <= tail[last].term
    /\ claims # <<>> => EndOf(claims[Len(claims)]) = TailPosition(tail[last])

LogInv ==
    /\ ReturnInv /\ ClaimsInv
    /\ \E last \in Partitions : LastIs(last)
    /\ \A p \in Publishers : TermInv(p)

-----------------------------------------------------------------------------
(* Sequences.                                                              *)

LEMMA SeqFacts ==
    ASSUME NEW S, NEW s \in Seq(S)
    PROVE  /\ Len(s) \in Nat /\ DOMAIN s = 1..Len(s) /\ (s = <<>> <=> Len(s) = 0)
           /\ \A i \in 1..Len(s) : s[i] \in S
OBVIOUS

LEMMA SeqOfFunction ==
    ASSUME NEW S, NEW n \in Nat, NEW f \in [1..n -> S]
    PROVE  f \in Seq(S) /\ Len(f) = n
OBVIOUS

LEMMA Concatenated ==
    ASSUME NEW S, NEW s \in Seq(S), NEW t \in Seq(S)
    PROVE  /\ s \o t \in Seq(S) /\ Len(s \o t) = Len(s) + Len(t)
           /\ \A i \in 1..(Len(s) + Len(t)) : (s \o t)[i] = IF i <= Len(s) THEN s[i] ELSE t[i - Len(s)]
OBVIOUS

LEMMA CutOut ==
    ASSUME NEW S, NEW s, NEW a \in Int, NEW b \in Int, \A i \in a..b : s[i] \in S
    PROVE  /\ SubSeq(s, a, b) \in Seq(S) /\ Len(SubSeq(s, a, b)) = IF a <= b THEN b - a + 1 ELSE 0
           /\ \A i \in 1..(b - a + 1) : SubSeq(s, a, b)[i] = s[a + i - 1]
OBVIOUS

-----------------------------------------------------------------------------
(* The frames of a message.                                                *)

\* All frames but the last are full ones, and together they have the length
\* the appender adds to the tail.
LEMMA FrameLengthsSum ==
    ASSUME NEW n \in Nat
    PROVE  LET fl == FrameLengths(n) IN
           /\ fl \in Seq(Nat \ {0}) /\ Len(fl) \in Nat \ {0}
           /\ \A i \in 1..(Len(fl) - 1) : fl[i] = MaxPayload + 1
           /\ (Len(fl) - 1) * (MaxPayload + 1) + fl[Len(fl)] = RequiredLength(n)
<1>1. MaxPayload \in Nat \ {0}
  BY Zenon, LengthsAssumption
<1>2. CASE n <= MaxPayload
  <2>1. FrameLengths(n) = <<n + 1>> /\ RequiredLength(n) = n + 1
    BY Zenon, <1>2 DEF FrameLengths, RequiredLength
  <2> QED BY <1>1, <2>1
<1>3. CASE n > MaxPayload
  <2> DEFINE q    == n \div MaxPayload
             r    == n % MaxPayload
             full == [i \in 1..q |-> MaxPayload + 1]
             rest == IF r > 0 THEN <<r + 1>> ELSE <<>>
  <2>1. q \in Nat /\ r \in 0..(MaxPayload - 1) /\ n = MaxPayload * q + r
    BY <1>1
  <2>2. FrameLengths(n) = full \o rest
    <3>1. ~(n <= MaxPayload)
      BY <1>1, <1>3
    <3> QED BY Zenon, <3>1 DEF FrameLengths
  <2>3. RequiredLength(n) = q * (MaxPayload + 1) + (IF r > 0 THEN r + 1 ELSE 0)
    BY <1>1, <1>3 DEF RequiredLength
  <2> HIDE DEF q, r
  <2>4. q # 0
    BY <1>1, <1>3, <2>1
  <2>5. full \in [1..q -> Nat \ {0}]
    BY <1>1
  <2>6. full \in Seq(Nat \ {0})
    BY Zenon, <2>1, <2>5, SeqOfFunction
  <2>7. Len(full) = q
    BY <2>1, <2>5, <2>6, SeqFacts
  <2>8. rest \in Seq(Nat \ {0}) /\ Len(rest) = (IF r > 0 THEN 1 ELSE 0) /\ (r > 0 => rest[1] = r + 1)
    <3>1. CASE r > 0
      <4>1. rest = <<r + 1>> /\ r + 1 \in Nat \ {0}
        BY <2>1, <3>1
      <4> QED BY <3>1, <4>1
    <3>2. CASE ~(r > 0)
      <4>1. rest = <<>>
        BY Zenon, <3>2
      <4> QED BY <3>2, <4>1, SeqFacts
    <3> QED BY Zenon, <3>1, <3>2
  <2>9. \A i \in 1..q : full[i] = MaxPayload + 1
    BY Zenon
  <2> HIDE DEF full, rest
  <2>10. /\ full \o rest \in Seq(Nat \ {0}) /\ Len(full \o rest) = Len(full) + Len(rest)
         /\ \A i \in 1..(Len(full) + Len(rest)) :
               (full \o rest)[i] = IF i <= Len(full) THEN full[i] ELSE rest[i - Len(full)]
    BY Zenon, <2>6, <2>8, Concatenated
  <2>11. CASE r > 0
    <3>1. Len(full \o rest) = q + 1 /\ (full \o rest)[q + 1] = r + 1
      BY <2>1, <2>7, <2>8, <2>10, <2>11
    <3>2. \A i \in 1..q : (full \o rest)[i] = MaxPayload + 1
      BY <2>1, <2>7, <2>8, <2>9, <2>10
    <3>3. (q + 1) - 1 = q /\ RequiredLength(n) = q * (MaxPayload + 1) + (r + 1)
      BY <2>1, <2>3, <2>11
    <3>4. (Len(full \o rest) - 1) * (MaxPayload + 1) + (full \o rest)[Len(full \o rest)] = RequiredLength(n)
      BY Zenon, <3>1, <3>3
    <3>5. Len(full \o rest) \in Nat \ {0} /\ Len(full \o rest) - 1 = q
      BY <2>1, <3>1
    <3> QED BY Zenon, <2>2, <2>10, <3>2, <3>4, <3>5
  <2>12. CASE r = 0
    <3>1. Len(full \o rest) = q /\ \A i \in 1..q : (full \o rest)[i] = MaxPayload + 1
      BY <2>1, <2>7, <2>8, <2>9, <2>10, <2>12
    <3>2. q \in Nat \ {0} /\ (full \o rest)[q] = MaxPayload + 1
      BY <2>1, <2>4, <3>1
    <3>3. (q - 1) * (MaxPayload + 1) + (MaxPayload + 1) = q * (MaxPayload + 1)
      BY <1>1, <2>1
    <3>4. RequiredLength(n) = q * (MaxPayload + 1)
      BY <1>1, <2>1, <2>3, <2>12
    <3>5. (Len(full \o rest) - 1) * (MaxPayload + 1) + (full \o rest)[Len(full \o rest)] = RequiredLength(n)
      BY Zenon, <3>1, <3>2, <3>3, <3>4
    <3>6. Len(full \o rest) \in Nat \ {0} /\ \A i \in 1..(Len(full \o rest) - 1) : i \in 1..q
      BY <2>1, <3>1, <3>2
    <3> QED BY Zenon, <2>2, <2>10, <3>1, <3>5, <3>6
  <2> QED BY <2>1, <2>11, <2>12
<1> QED BY <1>1, <1>2, <1>3

LEMMA RequiredLengthPositive == \A n \in Nat : RequiredLength(n) >= 1
<1> SUFFICES ASSUME NEW n \in Nat PROVE RequiredLength(n) >= 1
  BY Zenon
<1> DEFINE fl == FrameLengths(n)
<1>1. fl \in Seq(Nat \ {0}) /\ Len(fl) \in Nat \ {0}
      /\ (Len(fl) - 1) * (MaxPayload + 1) + fl[Len(fl)] = RequiredLength(n)
  BY Zenon, FrameLengthsSum
<1> HIDE DEF fl
<1>2. fl[Len(fl)] \in Nat \ {0} /\ Len(fl) - 1 \in Nat /\ MaxPayload + 1 \in Nat
  BY <1>1, SeqFacts, LengthsAssumption
<1> DEFINE x == (Len(fl) - 1) * (MaxPayload + 1)
<1>3. x \in Nat /\ x + fl[Len(fl)] = RequiredLength(n)
  BY <1>1, <1>2
<1> HIDE DEF x
<1> QED BY <1>2, <1>3

\* A message's frames begin at the tail, adjoin, and end where the appender moves it.
Adjoining(fs, n, raw, id) ==
    /\ fs \in Seq(Frames) /\ Len(fs) \in Nat \ {0} /\ Len(fs) = Len(FrameLengths(n))
    /\ StartOf(fs[1]) = PositionOf(raw)
    /\ EndOf(fs[Len(fs)]) = PositionOf(raw) + RequiredLength(n)
    /\ \A i \in 2..Len(fs) : StartOf(fs[i]) = EndOf(fs[i - 1])
    /\ \A i \in 1..Len(fs) : fs[i].id = id

LEMMA FramesOfAdjoin ==
    ASSUME NEW n \in Nat, NEW raw \in RawTails, NEW id \in Int
    PROVE  Adjoining(FramesOf(n, raw, id), n, raw, id)
<1> DEFINE fl == FrameLengths(n)
           k  == Len(fl)
           w  == MaxPayload + 1
           fs == FramesOf(n, raw, id)
<1>1. /\ fl \in Seq(Nat \ {0}) /\ k \in Nat \ {0}
      /\ \A i \in 1..(k - 1) : fl[i] = w
      /\ (k - 1) * w + fl[k] = RequiredLength(n)
  BY Zenon, FrameLengthsSum
<1>2. fs = [i \in 1..k |-> [term |-> raw.term, offset |-> FrameOffset(raw.offset, i),
                            length |-> fl[i], id |-> id, part |-> i, of |-> k]]
  BY Zenon DEF FramesOf
<1>3. w \in Nat \ {0} /\ raw.term \in Int /\ raw.offset \in Nat /\ TermLength \in Nat
  BY LengthsAssumption, TermAssumption DEF RawTails
<1>4. \A i \in 1..k : FrameOffset(raw.offset, i) = raw.offset + (i - 1) * w
  BY Zenon DEF FrameOffset
<1> HIDE DEF fl, w, fs
<1>5. \A i \in 1..k : fl[i] \in Nat \ {0}
  BY Zenon, <1>1, SeqFacts
<1>6. \A i \in 1..k : (i - 1) * w \in Nat
  BY <1>1, <1>3
<1>7. \A i \in 1..k : FrameOffset(raw.offset, i) \in Nat
  BY <1>3, <1>4, <1>6
<1> HIDE DEF k
<1>8. fs \in [1..k -> Frames]
  <2> SUFFICES ASSUME NEW i \in 1..k
               PROVE  [term |-> raw.term, offset |-> FrameOffset(raw.offset, i),
                       length |-> fl[i], id |-> id, part |-> i, of |-> k] \in Frames
    BY Zenon, <1>2
  <2>1. i \in Nat /\ k \in Nat /\ fl[i] \in Int
    BY <1>1, <1>5
  <2> QED BY Zenon, <1>3, <1>7, <2>1 DEF Frames
<1>9. fs \in Seq(Frames)
  BY Zenon, <1>1, <1>8, SeqOfFunction
<1>10. Len(fs) = k
  BY <1>1, <1>8, <1>9, SeqFacts
<1> DEFINE t == raw.term * TermLength
<1>11. t \in Int
  BY <1>3
<1>12. \A i \in 1..k : /\ StartOf(fs[i]) = t + (raw.offset + (i - 1) * w)
                       /\ EndOf(fs[i]) = t + (raw.offset + (i - 1) * w) + fl[i]
                       /\ fs[i].id = id
  BY Zenon, <1>2, <1>4 DEF StartOf, EndOf, ComputeTermBeginPosition
<1>13. PositionOf(raw) = t + raw.offset
  BY Zenon DEF PositionOf, ComputeTermBeginPosition
<1> HIDE DEF t
<1>14. StartOf(fs[1]) = PositionOf(raw)
  <2>1. (1 - 1) * w = 0
    BY <1>3
  <2> QED BY <1>1, <1>3, <1>11, <1>12, <1>13, <2>1
<1>15. EndOf(fs[k]) = PositionOf(raw) + RequiredLength(n)
  <2>0. k \in 1..k
    BY <1>1
  <2>1. EndOf(fs[k]) = t + (raw.offset + (k - 1) * w) + fl[k]
    BY Zenon, <1>12, <2>0
  <2>2. (k - 1) * w \in Nat /\ fl[k] \in Nat
    BY Zenon, <1>5, <1>6, <2>0
  <2> QED BY <1>1, <1>3, <1>11, <1>13, <2>1, <2>2
<1>16. ASSUME NEW i \in 2..k PROVE StartOf(fs[i]) = EndOf(fs[i - 1])
  <2>1. i \in 1..k /\ i - 1 \in 1..k /\ i - 1 \in 1..(k - 1) /\ (i - 1) - 1 = i - 2
    BY <1>1
  <2>2. fl[i - 1] = w
    BY Zenon, <1>1, <2>1
  <2>3. StartOf(fs[i]) = t + (raw.offset + (i - 1) * w)
    BY Zenon, <1>12, <2>1
  <2>4. EndOf(fs[i - 1]) = t + (raw.offset + (i - 2) * w) + w
    BY Zenon, <1>12, <2>1, <2>2
  <2>5. (i - 1) * w = (i - 2) * w + w /\ (i - 2) * w \in Int
    BY <1>3, <2>1
  <2> QED BY <1>3, <1>11, <2>3, <2>4, <2>5
<1> QED BY Zenon, <1>1, <1>9, <1>10, <1>12, <1>14, <1>15, <1>16 DEF fs, k, fl, Adjoining

-----------------------------------------------------------------------------
(* The frames in the log.                                                  *)

\* Frames put behind the log where it ends keep it without gap or overlap.
LEMMA FramesAreAdded ==
    ASSUME ClaimsInv, NEW fs \in Seq(Frames), Len(fs) \in Nat \ {0},
           \A i \in 2..Len(fs) : StartOf(fs[i]) = EndOf(fs[i - 1]),
           claims # <<>> => StartOf(fs[1]) = EndOf(claims[Len(claims)]),
           claims' = claims \o fs
    PROVE  ClaimsInv' /\ EndOf(claims'[Len(claims')]) = EndOf(fs[Len(fs)])
<1> DEFINE k == Len(claims)
           n == Len(fs)
<1>1. /\ claims \in Seq(Frames) /\ k \in Nat /\ DOMAIN claims = 1..k
      /\ \A i \in 1..k : i > 1 => StartOf(claims[i]) = EndOf(claims[i - 1])
  BY Zenon, SeqFacts DEF ClaimsInv, FramesAdjoin
<1>2. /\ claims' \in Seq(Frames) /\ Len(claims') = k + n
      /\ \A i \in 1..(k + n) : claims'[i] = IF i <= k THEN claims[i] ELSE fs[i - k]
  BY Zenon, <1>1, Concatenated
<1>3. DOMAIN claims' = 1..(k + n)
  BY Zenon, <1>2, SeqFacts
<1>4. k # 0 => claims # <<>>
  BY SeqFacts
<1> HIDE DEF k, n
<1>5. n \in Nat \ {0}
  BY Zenon DEF n
<1>6. ASSUME NEW i \in 1..(k + n), i > 1 PROVE StartOf(claims'[i]) = EndOf(claims'[i - 1])
  <2>1. CASE i <= k
    BY <1>1, <1>2, <1>6, <2>1
  <2>2. CASE i = k + 1
    <3>1. claims'[i] = fs[1] /\ claims'[i - 1] = claims[k] /\ k # 0
      BY <1>1, <1>2, <1>5, <1>6, <2>2
    <3> QED BY Zenon, <1>4, <3>1 DEF k
  <2>3. CASE i > k + 1
    <3> DEFINE j == i - k
    <3>1. j \in 2..n /\ (i - 1) - k = j - 1 /\ i - 1 \in 1..(k + n) /\ ~(i <= k) /\ ~(i - 1 <= k)
      BY <1>1, <1>5, <1>6, <2>3
    <3>2. claims'[i] = fs[j] /\ claims'[i - 1] = fs[j - 1]
      BY Zenon, <1>2, <3>1
    <3> HIDE DEF j
    <3> QED BY Zenon, <3>1, <3>2 DEF n
  <2>4. i <= k \/ i = k + 1 \/ i > k + 1
    BY <1>1, <1>5
  <2> QED BY Zenon, <2>1, <2>2, <2>3, <2>4
<1>7. claims'[k + n] = fs[n]
  BY <1>1, <1>2, <1>5
<1> QED BY Zenon, <1>2, <1>3, <1>6, <1>7 DEF ClaimsInv, FramesAdjoin, n

\* The driver cuts consumed frames off the front.
LEMMA LimitStep ==
    ASSUME ClaimsInv, UpdatePublisherLimit
    PROVE  /\ ClaimsInv' /\ UNCHANGED <<tail, activeTermCount>>
           /\ claims' # <<>> => claims # <<>> /\ claims'[Len(claims')] = claims[Len(claims)]
<1> DEFINE k == Len(claims)
<1>1. /\ claims \in Seq(Frames) /\ k \in Nat /\ DOMAIN claims = 1..k
      /\ \A i \in 1..k : claims[i] \in Frames
      /\ \A i \in 1..k : i > 1 => StartOf(claims[i]) = EndOf(claims[i - 1])
  BY Zenon, SeqFacts DEF ClaimsInv, FramesAdjoin
<1>2. PICK c \in 0..k : claims' = SubSeq(claims, c + 1, k)
  BY Zenon DEF UpdatePublisherLimit
<1>3. c \in Nat
  BY <1>1
<1>4. claims' = SubSeq(claims, c + 1, k) /\ UNCHANGED <<tail, activeTermCount>>
  BY Zenon, <1>2 DEF UpdatePublisherLimit
<1>5. /\ claims' \in Seq(Frames)
      /\ Len(claims') = IF c + 1 <= k THEN k - (c + 1) + 1 ELSE 0
      /\ \A i \in 1..(k - (c + 1) + 1) : claims'[i] = claims[(c + 1) + i - 1]
  <2>1. c + 1 \in Int /\ k \in Int /\ \A i \in (c + 1)..k : claims[i] \in Frames
    BY <1>1, <1>3
  <2> HIDE DEF k
  <2>2. /\ SubSeq(claims, c + 1, k) \in Seq(Frames)
        /\ Len(SubSeq(claims, c + 1, k)) = IF c + 1 <= k THEN k - (c + 1) + 1 ELSE 0
        /\ \A i \in 1..(k - (c + 1) + 1) : SubSeq(claims, c + 1, k)[i] = claims[(c + 1) + i - 1]
    BY <2>1, CutOut
  <2> QED BY Zenon, <1>4, <2>2
<1>6. DOMAIN claims' = 1..Len(claims') /\ (claims' # <<>> => Len(claims') # 0)
  BY Zenon, <1>5, SeqFacts
<1> HIDE DEF k
<1>7. \A i \in 1..Len(claims') : claims'[i] = claims[i + c] /\ i + c \in 1..k
  BY <1>1, <1>3, <1>5
<1>8. ASSUME NEW i \in 1..Len(claims'), i > 1 PROVE StartOf(claims'[i]) = EndOf(claims'[i - 1])
  <2>1. Len(claims') \in Nat
    BY <1>1, <1>3, <1>5
  <2>2. i - 1 \in 1..Len(claims') /\ (i - 1) + c = (i + c) - 1 /\ i + c > 1
    BY <1>3, <1>8, <2>1
  <2>3. claims'[i] = claims[i + c] /\ claims'[i - 1] = claims[(i + c) - 1] /\ i + c \in 1..k
    BY Zenon, <1>7, <2>2
  <2> QED BY Zenon, <1>1, <2>2, <2>3
<1>9. claims' # <<>> => k # 0 /\ claims'[Len(claims')] = claims[k]
  BY <1>1, <1>3, <1>5, <1>6, <1>7
<1>10. k # 0 => claims # <<>>
  BY SeqFacts DEF k
<1> QED BY Zenon, <1>4, <1>5, <1>6, <1>8, <1>9, <1>10 DEF ClaimsInv, FramesAdjoin, k

\* Abort only makes a padding frame of a claim; it stays where it is.
LEMMA AbortStep ==
    ASSUME ClaimsInv, NEW p \in Publishers, Abort(p)
    PROVE  /\ ClaimsInv' /\ UNCHANGED <<tail, activeTermCount, pc, my, results>>
           /\ claims' # <<>> =>
                 claims # <<>> /\ EndOf(claims'[Len(claims')]) = EndOf(claims[Len(claims)])
<1> DEFINE k == Len(claims)
<1>1. /\ claims \in Seq(Frames) /\ k \in Nat /\ DOMAIN claims = 1..k
      /\ \A i \in 1..k : claims[i] \in Frames
      /\ \A i \in 1..k : i > 1 => StartOf(claims[i]) = EndOf(claims[i - 1])
  BY Zenon, SeqFacts DEF ClaimsInv, FramesAdjoin
<1>2. PICK id : claims' = [i \in DOMAIN claims |->
                     IF claims[i].id = id THEN [claims[i] EXCEPT !.id = Pad] ELSE claims[i]]
  BY Zenon DEF Abort
<1>3. UNCHANGED <<tail, activeTermCount, pc, my, results>>
  BY Zenon DEF Abort
<1> HIDE DEF k
<1>4. ASSUME NEW f \in Frames
      PROVE  /\ [f EXCEPT !.id = Pad] \in Frames
             /\ StartOf([f EXCEPT !.id = Pad]) = StartOf(f) /\ EndOf([f EXCEPT !.id = Pad]) = EndOf(f)
  BY DEF Frames, StartOf, EndOf, Pad
<1>5. \A i \in 1..k : claims'[i] \in Frames /\ StartOf(claims'[i]) = StartOf(claims[i])
                       /\ EndOf(claims'[i]) = EndOf(claims[i])
  BY Zenon, <1>1, <1>2, <1>4
<1>6. claims' \in [1..k -> Frames]
  <2>1. DOMAIN claims' = 1..k /\ claims' = [i \in DOMAIN claims' |-> claims'[i]]
    BY Zenon, <1>1, <1>2
  <2> QED BY Zenon, <1>5, <2>1
<1>7. claims' \in Seq(Frames)
  BY Zenon, <1>1, <1>6, SeqOfFunction
<1>8. Len(claims') = k /\ DOMAIN claims' = 1..k
  BY <1>1, <1>6, <1>7, SeqFacts
<1>9. ASSUME NEW i \in 1..k, i > 1 PROVE StartOf(claims'[i]) = EndOf(claims'[i - 1])
  <2>1. i - 1 \in 1..k
    BY <1>1, <1>9
  <2> QED BY Zenon, <1>1, <1>5, <1>9, <2>1
<1>10. claims' # <<>> => k # 0
  BY Zenon, <1>7, <1>8, SeqFacts
<1>11. k # 0 => claims # <<>> /\ k \in 1..k
  BY <1>1, SeqFacts DEF k
<1> QED BY Zenon, <1>3, <1>5, <1>7, <1>8, <1>9, <1>10, <1>11 DEF ClaimsInv, FramesAdjoin, k

-----------------------------------------------------------------------------
(* The terms.                                                              *)

\* The tails move on: to a later term, or within the term.
TailsMoveOn ==
    \A i \in Partitions :
        /\ tail[i].term <= tail'[i].term
        /\ tail'[i].term = tail[i].term => tail[i].offset <= tail'[i].offset

LEMMA TailTypes ==
    ASSUME ReturnInv
    PROVE  /\ tail \in [Partitions -> RawTails] /\ activeTermCount \in Nat
           /\ \A i \in Partitions : /\ tail[i].term \in Int /\ tail[i].offset \in Nat
                                     /\ tail[i].term % PartitionCount = i
  BY Zenon DEF ReturnInv, TailInv, RawTails

\* What is known of the two partitions that concern a publisher.
LEMMA TermFacts ==
    ASSUME LogInv, NEW p \in Publishers
    PROVE  /\ TermInv(p) /\ MyIndex(p) \in Partitions /\ NextIndex(p) \in Partitions
           /\ my[p].termCount \in Nat /\ my[p].length \in Nat
           /\ my[p].claimed.term \in Int /\ my[p].claimed.offset \in Nat
           /\ MyIndex(p) = my[p].termCount % 3 /\ NextIndex(p) = (my[p].termCount + 1) % 3
           /\ HasClaimed(p) => my[p].claimed.term % 3 = MyIndex(p)
<1>1. CallInv(p) /\ TermInv(p)
  BY Zenon DEF LogInv, ReturnInv
<1>2. /\ my[p].termCount \in Nat /\ my[p].length \in Nat /\ my[p].claimed \in RawTails
      /\ HasClaimed(p) => my[p].claimed.term % 3 = MyIndex(p)
  BY Zenon, <1>1 DEF CallInv, LocalsOf, StaleTail, PartitionCount
<1> QED BY <1>1, <1>2, IndexType DEF MyIndex, NextIndex, IndexByTermCount, PartitionCount, RawTails

\* A publisher that does not move keeps its part of the invariant.
LEMMA OtherTerms ==
    ASSUME LogInv, ReturnInv', TailsMoveOn, NEW q \in Publishers, UNCHANGED <<pc[q], my[q]>>
    PROVE  TermInv(q)'
<1>1. MyIndex(q)' = MyIndex(q) /\ NextIndex(q)' = NextIndex(q)
  BY Zenon DEF MyIndex, NextIndex
<1>2. \A i \in {MyIndex(q), NextIndex(q)} :
         /\ tail[i].term \in Int /\ tail[i].offset \in Nat
         /\ tail'[i].term \in Int /\ tail'[i].offset \in Nat
         /\ tail[i].term <= tail'[i].term
         /\ tail'[i].term = tail[i].term => tail[i].offset <= tail'[i].offset
  <2>1. \A i \in Partitions : tail'[i].term \in Int /\ tail'[i].offset \in Nat
    BY Zenon DEF ReturnInv, TailInv, RawTails
  <2> QED BY Zenon, <2>1, TermFacts, TailTypes DEF TailsMoveOn, LogInv
<1>3. (HasClaimed(q)' <=> HasClaimed(q)) /\ (FoundFull(q)' <=> FoundFull(q))
  BY Zenon DEF HasClaimed, FoundFull
<1>4. FoundFull(q) => HasClaimed(q)
  BY Zenon DEF FoundFull, HasClaimed, Labels
<1>5. TermLength \in Nat
  BY Zenon, TermAssumption
<1>6. TermInv(q) /\ pc'[q] = pc[q] /\ my'[q] = my[q]
  BY Zenon, TermFacts
<1>7. my[q].termCount \in Int /\ my[q].claimed.term \in Int
  BY TermFacts
<1> DEFINE i == MyIndex(q)
           j == NextIndex(q)
<1>8. /\ pc[q] \in Labels \ {"idle", "termCount"} => my[q].termCount <= tail'[i].term
      /\ HasClaimed(q) => my[q].termCount <= my[q].claimed.term /\ my[q].claimed.term <= tail'[i].term
      /\ pc[q] = "termCountCas" => my[q].claimed.term < tail'[j].term
  <2>1. /\ pc[q] \in Labels \ {"idle", "termCount"} => my[q].termCount <= tail[i].term
        /\ HasClaimed(q) => my[q].termCount <= my[q].claimed.term /\ my[q].claimed.term <= tail[i].term
        /\ pc[q] = "termCountCas" => my[q].claimed.term < tail[j].term
    BY Zenon, <1>6 DEF TermInv
  <2>2. /\ tail[i].term \in Int /\ tail'[i].term \in Int /\ tail[i].term <= tail'[i].term
        /\ tail[j].term \in Int /\ tail'[j].term \in Int /\ tail[j].term <= tail'[j].term
    BY Zenon, <1>2
  <2> HIDE DEF i, j
  <2> QED BY SMTT(30), <1>7, <2>1, <2>2
<1>9. FoundFull(q) /\ my[q].claimed.term = tail'[i].term => tail'[i].offset >= TermLength
  <2>1. FoundFull(q) => my[q].claimed.term <= tail[i].term
    BY Zenon, <1>4, <1>6 DEF TermInv
  <2>2. FoundFull(q) /\ my[q].claimed.term = tail[i].term => tail[i].offset >= TermLength
    BY Zenon, <1>6 DEF TermInv
  <2> QED BY SMTT(30), <1>2, <1>5, <1>7, <2>1, <2>2
<1> QED BY Zenon, <1>1, <1>3, <1>6, <1>8, <1>9 DEF TermInv

\* A publisher between calls, or at the start of one.
LEMMA IdleTerm ==
    ASSUME NEW p \in Publishers, pc'[p] \in {"idle", "termCount"}
    PROVE  TermInv(p)'
  BY Zenon DEF TermInv, HasClaimed, FoundFull

LEMMA OneTermSteps ==
    ASSUME LogInv, ReturnInv', ClaimsInv', TailsMoveOn, \E last \in Partitions : LastIs(last)',
           \A q \in Publishers : TermInv(q)' \/ UNCHANGED <<pc[q], my[q]>>
    PROVE  LogInv'
<1>1. \A q \in Publishers : TermInv(q)'
  BY Zenon, OtherTerms
<1> QED BY Zenon, <1>1 DEF LogInv

\* The log is left alone.
LEMMA LogKept ==
    ASSUME LogInv, UNCHANGED <<tail, activeTermCount, claims>>
    PROVE  /\ ClaimsInv' /\ TailsMoveOn
           /\ \A last \in Partitions : LastIs(last) => LastIs(last)'
           /\ \E last \in Partitions : LastIs(last)'
<1>1. ClaimsInv'
  BY Zenon DEF LogInv, ClaimsInv, FramesAdjoin
<1>2. TailsMoveOn
  BY TailTypes DEF LogInv, TailsMoveOn
<1>3. \A last \in Partitions : LastIs(last) => LastIs(last)'
  BY Zenon DEF LastIs, TailsInARow
<1> QED BY Zenon, <1>1, <1>2, <1>3 DEF LogInv

\* The latest term and those of the two partitions of a publisher.
LEMMA LastFacts ==
    ASSUME LogInv, NEW last \in Partitions, LastIs(last)
    PROVE  /\ tail[last].term \in Nat /\ activeTermCount \in 0..tail[last].term
           /\ \A i \in Partitions : tail[i].term >= tail[last].term - 2 /\ tail[i].term <= tail[last].term
           /\ \A i \in Partitions : tail[i].term >= 0 /\ tail[i].term < tail[last].term => tail[i].offset >= TermLength
<1>1. \A i \in Partitions : tail[i].term \in Int
  BY Zenon, TailTypes DEF LogInv
<1>2. activeTermCount \in Nat /\ activeTermCount <= tail[last].term
  BY Zenon, TailTypes DEF LogInv, LastIs
<1>3. \A i \in Partitions : tail[i].term \in (tail[last].term + 1 - PartitionCount)..tail[last].term
  BY Zenon DEF LastIs, TailsInARow, Partitions
<1>4. \A i \in Partitions : tail[i].term \in 0..(tail[last].term - 1) => tail[i].offset >= TermLength
  BY Zenon DEF LastIs
<1> QED BY <1>1, <1>2, <1>3, <1>4 DEF PartitionCount

-----------------------------------------------------------------------------
(* The steps.                                                              *)

\* A step of one publisher that leaves the log alone.
LEMMA CallStep ==
    ASSUME LogInv, ReturnInv', UNCHANGED <<tail, activeTermCount, claims>>,
           NEW p \in Publishers, TermInv(p)',
           \A q \in Publishers \ {p} : UNCHANGED <<pc[q], my[q]>>
    PROVE  LogInv'
<1>1. ClaimsInv' /\ TailsMoveOn /\ \E last \in Partitions : LastIs(last)'
  BY Zenon, LogKept
<1>2. \A q \in Publishers : TermInv(q)' \/ UNCHANGED <<pc[q], my[q]>>
  BY Zenon
<1> QED BY Zenon, <1>1, <1>2, OneTermSteps

\* The tables have an entry for every publisher.
LEMMA Tables ==
    ASSUME LogInv
    PROVE  /\ ReturnInv /\ pc \in [Publishers -> Labels]
           /\ DOMAIN my = Publishers /\ DOMAIN results = Publishers
           /\ \A p \in Publishers : DOMAIN my[p] = DOMAIN NoLocals
  BY Zenon DEF LogInv, ReturnInv, TablesInv, CallInv, LocalsOf

\* The end of a call that leaves the log alone.
LEMMA CallReturns ==
    ASSUME LogInv, ReturnInv', UNCHANGED <<tail, activeTermCount, claims>>,
           NEW p \in Publishers, NEW status, NEW excess, Return(p, status, excess)
    PROVE  LogInv'
<1>1. pc'[p] = "idle" /\ \A q \in Publishers \ {p} : UNCHANGED <<pc[q], my[q]>>
  BY Zenon, Tables DEF Return
<1> QED BY Zenon, <1>1, IdleTerm, CallStep

LEMMA CallKeepsLog ==
    ASSUME LogInv, ReturnInv', NEW p \in Publishers, PublisherCall(p)
    PROVE  LogInv'
<1>1. ASSUME NEW kind, NEW n, Call(p, kind, n) PROVE LogInv'
  <2>1. UNCHANGED <<tail, activeTermCount, claims>>
    BY Zenon, <1>1 DEF Call, logVars, history
  <2>2. pc'[p] = "termCount" /\ \A q \in Publishers \ {p} : UNCHANGED <<pc[q], my[q]>>
    BY Zenon, <1>1, Tables DEF Call, Goto
  <2> QED BY Zenon, <2>1, <2>2, IdleTerm, CallStep
<1>2. ASSUME CallWhenClosed(p) PROVE LogInv'
  BY Zenon, <1>2, CallReturns DEF CallWhenClosed, logVars, history
<1> QED BY Zenon, <1>1, <1>2 DEF PublisherCall, Offer, TryClaim, Offer2, Position

\* The term count that is read is not ahead of the partition it stands for.
LEMMA ReadTermCountKeepsLog ==
    ASSUME LogInv, ReturnInv', NEW p \in Publishers, ReadTermCount(p)
    PROVE  LogInv'
<1>1. UNCHANGED <<tail, activeTermCount, claims>>
  BY Zenon DEF ReadTermCount, logVars, history
<1>2. /\ pc'[p] = "rawTail" /\ my'[p].termCount = activeTermCount
      /\ \A q \in Publishers \ {p} : UNCHANGED <<pc[q], my[q]>>
  BY Zenon, Tables DEF ReadTermCount, Goto, NoLocals
<1>3. PICK last \in Partitions : LastIs(last)
  BY Zenon DEF LogInv
<1> DEFINE i == activeTermCount % 3
<1>4. activeTermCount \in Nat /\ i \in Partitions
  BY TailTypes DEF LogInv, Partitions, PartitionCount
<1>5. tail[i].term \in Int /\ tail[i].term % 3 = i /\ tail[last].term \in Nat
      /\ activeTermCount <= tail[last].term /\ tail[i].term >= tail[last].term - 2
  BY <1>3, <1>4, TailTypes, LastFacts DEF LogInv, PartitionCount
<1>6. activeTermCount <= tail[i].term
  BY <1>4, <1>5
<1>7. MyIndex(p)' = i
  BY Zenon, <1>2 DEF MyIndex, IndexByTermCount, PartitionCount
<1>8. TermInv(p)'
  BY Zenon, <1>1, <1>2, <1>6, <1>7 DEF TermInv, HasClaimed, FoundFull
<1> QED BY Zenon, <1>1, <1>2, <1>8, CallStep

LEMMA ReadRawTailKeepsLog ==
    ASSUME LogInv, ReturnInv', NEW p \in Publishers, ReadRawTail(p)
    PROVE  LogInv'
<1>1. UNCHANGED <<tail, activeTermCount, claims>> /\ pc[p] = "rawTail"
  BY Zenon DEF ReadRawTail, logVars, history
<1>2. my' = [my EXCEPT ![p].rawTail = RawTail(p), ![p].limit = 0] /\ pc' = [pc EXCEPT ![p] = "append"]
  BY Zenon DEF ReadRawTail, Goto
<1>3. /\ pc'[p] = "append" /\ my'[p].termCount = my[p].termCount
      /\ \A q \in Publishers \ {p} : UNCHANGED <<pc[q], my[q]>>
  BY Zenon, <1>2, Tables DEF NoLocals
<1>4. my[p].termCount <= tail[MyIndex(p)].term /\ MyIndex(p)' = MyIndex(p)
  BY Zenon, <1>1, <1>3, TermFacts DEF TermInv, Labels, MyIndex
<1>5. TermInv(p)'
  BY Zenon, <1>1, <1>3, <1>4 DEF TermInv, HasClaimed, FoundFull
<1> QED BY Zenon, <1>1, <1>3, <1>5, CallStep

\* The frames are written and committed.
LEMMA WriteFrameKeepsLog ==
    ASSUME LogInv, ReturnInv', NEW p \in Publishers, WriteFrame(p)
    PROVE  LogInv'
<1>1. UNCHANGED <<tail, activeTermCount, claims, my>> /\ pc[p] = "frame" /\ pc' = [pc EXCEPT ![p] = "commit"]
  BY Zenon DEF WriteFrame, Goto, history
<1>2. pc'[p] = "commit" /\ \A q \in Publishers \ {p} : UNCHANGED <<pc[q], my[q]>>
  BY Zenon, <1>1, Tables
<1>3. HasClaimed(p) /\ (FoundFull(p) <=> my[p].id = Pad) /\ (FoundFull(p)' <=> my[p].id = Pad)
  BY Zenon, <1>1, <1>2 DEF HasClaimed, FoundFull, Labels
<1>4. MyIndex(p)' = MyIndex(p)
  BY Zenon, <1>1 DEF MyIndex
<1>5. TermInv(p)'
  BY Zenon, <1>1, <1>2, <1>3, <1>4, TermFacts DEF TermInv, Labels
<1> QED BY Zenon, <1>1, <1>2, <1>5, CallStep

\* The frame a publisher commits is padding only if it is padding the term.
LEMMA PaddingIsPadding ==
    ASSUME LogInv, NEW p \in Publishers, pc[p] = "commit", MyFrame(p).id = Pad
    PROVE  my[p].id = Pad
<1> SUFFICES ASSUME my[p].id # Pad PROVE FALSE
  BY Zenon
<1>1. my[p].frame \in 1..Len(FrameLengths(my[p].length))
  BY Zenon, TermFacts DEF TermInv
<1>2. FramesOf(my[p].length, my[p].claimed, my[p].id)[my[p].frame].id = my[p].id
  BY Zenon, <1>1 DEF FramesOf
<1> QED BY Zenon, <1>2 DEF MyFrame

LEMMA SetFrameLengthKeepsLog ==
    ASSUME LogInv, ReturnInv', NEW p \in Publishers, SetFrameLength(p)
    PROVE  LogInv'
<1>1. UNCHANGED <<tail, activeTermCount, claims>> /\ pc[p] = "commit"
  BY Zenon DEF SetFrameLength, history
<1> DEFINE k == Len(FrameLengths(my[p].length))
<1>2. HasClaimed(p) /\ (FoundFull(p) <=> my[p].id = Pad) /\ TermInv(p)
  BY Zenon, <1>1, TermFacts DEF HasClaimed, FoundFull, Labels
<1>3. k \in Nat
  BY Zenon, TermFacts, FrameLengthsSum
<1>4. MyFrame(p).id = Pad => my[p].id = Pad
  BY Zenon, <1>1, PaddingIsPadding
<1>5. CASE MyFrame(p).id = Pad /\ pc' = [pc EXCEPT ![p] = "newPosition"] /\ UNCHANGED my
  <2>1. pc'[p] = "newPosition" /\ \A q \in Publishers \ {p} : UNCHANGED <<pc[q], my[q]>>
    BY Zenon, <1>5, Tables
  <2>2. MyIndex(p)' = MyIndex(p) /\ FoundFull(p)
    BY Zenon, <1>2, <1>4, <1>5 DEF MyIndex
  <2>3. TermInv(p)'
    BY Zenon, <1>1, <1>2, <1>5, <2>1, <2>2 DEF TermInv, Labels
  <2> QED BY Zenon, <1>1, <2>1, <2>3, CallStep
<1>6. CASE MyFrame(p).id # Pad /\ my[p].frame < k
           /\ my' = [my EXCEPT ![p].frame = @ + 1] /\ pc' = [pc EXCEPT ![p] = "frame"]
  <2>1. /\ pc'[p] = "frame" /\ \A q \in Publishers \ {p} : UNCHANGED <<pc[q], my[q]>>
        /\ my'[p].frame = my[p].frame + 1 /\ my'[p].id = my[p].id /\ my'[p].length = my[p].length
        /\ my'[p].claimed = my[p].claimed /\ my'[p].termCount = my[p].termCount
    BY Zenon, <1>6, Tables DEF NoLocals
  <2>2. my[p].id # Pad
    BY Zenon, <1>6 DEF MyFrame, PaddingFrame
  <2>3. my[p].frame \in 1..k
    BY Zenon, <1>1, <1>2, <2>2 DEF TermInv
  <2>4. my'[p].frame \in 1..k
    BY <1>3, <1>6, <2>1, <2>3
  <2>5. MyIndex(p)' = MyIndex(p) /\ HasClaimed(p)' /\ ~FoundFull(p)'
    BY Zenon, <2>1, <2>2 DEF MyIndex, HasClaimed, FoundFull, Labels
  <2>6. TermInv(p)'
    BY Zenon, <1>1, <1>2, <2>1, <2>4, <2>5 DEF TermInv, Labels
  <2> QED BY Zenon, <1>1, <2>1, <2>6, CallStep
<1>7. CASE Return(p, "position", Excess(p))
  BY Zenon, <1>1, <1>7, CallReturns
<1> QED BY Zenon, <1>5, <1>6, <1>7 DEF SetFrameLength, Goto

\* An append that finds room in its partition finds it in the latest term.
LEMMA RoomIsInTheLastTerm ==
    ASSUME LogInv, NEW p \in Publishers, pc[p] = "append", RawTail(p).offset < TermLength,
           NEW last \in Partitions, LastIs(last)
    PROVE  MyIndex(p) = last /\ RawTail(p) = tail[last] /\ RawTail(p).term \in Nat
<1> DEFINE i == MyIndex(p)
<1>1. i \in Partitions /\ RawTail(p) = tail[i]
  BY Zenon, CallFacts, Tables
<1>2. my[p].termCount \in Nat /\ my[p].termCount <= tail[i].term
  BY Zenon, TermFacts DEF TermInv, Labels
<1>3. /\ tail[i].term \in Int /\ tail[i].offset \in Nat /\ tail[i].term % 3 = i
      /\ tail[last].term \in Nat /\ tail[last].term % 3 = last /\ tail[i].term <= tail[last].term
      /\ tail[i].term >= 0 /\ tail[i].term < tail[last].term => tail[i].offset >= TermLength
  BY Zenon, <1>1, TailTypes, LastFacts DEF LogInv, PartitionCount
<1>4. TermLength \in Nat
  BY Zenon, TermAssumption
<1> HIDE DEF i
<1>5. tail[i].term = tail[last].term
  BY <1>1, <1>2, <1>3, <1>4
<1>6. i = last
  BY Zenon, <1>3, <1>5
<1> QED BY Zenon, <1>1, <1>3, <1>6 DEF i

\* What the append does to the tail of its partition.
LEMMA TailAdded ==
    ASSUME LogInv, NEW p \in Publishers, GetAndAddRawTail(p, Required(p))
    PROVE  /\ \A i \in Partitions :
                 /\ tail'[i].term = tail[i].term
                 /\ tail'[i].offset = IF i = MyIndex(p) THEN tail[i].offset + Required(p) ELSE tail[i].offset
           /\ TailsMoveOn /\ Required(p) \in Nat \ {0}
<1>1. tail' = [tail EXCEPT ![MyIndex(p)].offset = @ + Required(p)]
  BY Zenon DEF GetAndAddRawTail, MyIndex
<1>2. Required(p) \in Nat \ {0}
  BY TermFacts, RequiredLengthType, RequiredLengthPositive DEF Required
<1>3. tail \in [Partitions -> RawTails] /\ MyIndex(p) \in Partitions
  BY Zenon, TailTypes, TermFacts DEF LogInv
<1>4. \A i \in Partitions : tail'[i] = IF i = MyIndex(p) THEN [tail[i] EXCEPT !.offset = @ + Required(p)] ELSE tail[i]
  BY Zenon, <1>1, <1>3
<1>5. \A i \in Partitions :
         /\ tail'[i].term = tail[i].term
         /\ tail'[i].offset = IF i = MyIndex(p) THEN tail[i].offset + Required(p) ELSE tail[i].offset
  BY Zenon, <1>3, <1>4 DEF RawTails
<1>6. \A i \in Partitions : tail[i].term \in Int /\ tail[i].offset \in Nat
  BY Zenon, TailTypes DEF LogInv
<1> QED BY <1>2, <1>5, <1>6 DEF TailsMoveOn

\* What stays true of the terms when the append adds to a tail.
LEMMA TermsAfterAppend ==
    ASSUME LogInv, NEW p \in Publishers, GetAndAddRawTail(p, Required(p)), UNCHANGED activeTermCount,
           NEW last \in Partitions, LastIs(last),
           claims' # <<>> => EndOf(claims'[Len(claims')]) = TailPosition(tail'[last])
    PROVE  LastIs(last)'
<1>1. \A i \in Partitions : /\ tail'[i].term = tail[i].term /\ tail[i].term \in Int
                             /\ tail[i].offset \in Nat /\ tail'[i].offset \in Nat
                             /\ tail[i].offset <= tail'[i].offset
  BY SMTT(30), TailAdded, TailTypes DEF LogInv, TailsMoveOn
<1>2. TailsInARow(last)'
  BY Zenon, <1>1 DEF LastIs, TailsInARow, Partitions
<1>3. \A i \in Partitions : tail'[i].term \in 0..(tail'[last].term - 1) => tail'[i].offset >= TermLength
  BY SMTT(30), <1>1, TermAssumption DEF LastIs
<1>4. activeTermCount' <= tail'[last].term
  BY Zenon, <1>1 DEF LastIs
<1> QED BY Zenon, <1>2, <1>3, <1>4 DEF LastIs

LEMMA AppendMessageKeepsLog ==
    ASSUME LogInv, ReturnInv', NEW p \in Publishers, AppendMessage(p)
    PROVE  LogInv'
<1> DEFINE raw == RawTail(p)
           id  == PositionOf(raw) + 1
           fs  == FramesOf(my[p].length, raw, id)
<1>1. /\ pc[p] = "append" /\ raw.offset + Required(p) <= TermLength /\ UNCHANGED activeTermCount
      /\ GetAndAddRawTail(p, Required(p)) /\ claims' = claims \o fs
      /\ my' = [my EXCEPT ![p].claimed = raw, ![p].id = id, ![p].frame = 1]
      /\ pc' = [pc EXCEPT ![p] = "frame"]
  BY Zenon DEF AppendMessage, Fits, Goto
<1>2. PICK last \in Partitions : LastIs(last)
  BY Zenon DEF LogInv
<1>3. /\ raw \in RawTails /\ raw.term \in Int /\ raw.offset \in Nat /\ raw = tail[MyIndex(p)]
      /\ Required(p) \in Nat \ {0} /\ TermLength \in Nat \ {0}
  BY Zenon, <1>1, CallFacts, Tables, TailAdded, TermAssumption
<1>4. raw.offset < TermLength
  BY <1>1, <1>3
<1>5. MyIndex(p) = last /\ raw = tail[last] /\ raw.term \in Nat
  BY Zenon, <1>1, <1>2, <1>4, RoomIsInTheLastTerm
<1>6. tail'[last].term = raw.term /\ tail'[last].offset = raw.offset + Required(p)
  BY Zenon, <1>1, <1>5, TailAdded
<1> DEFINE t == raw.term * TermLength
<1>7. t \in Nat /\ PositionOf(raw) = t + raw.offset
  BY <1>3, <1>5 DEF PositionOf, ComputeTermBeginPosition
<1>8. TailPosition(tail[last]) = t + raw.offset /\ TailPosition(tail'[last]) = t + raw.offset + Required(p)
  <2>1. TailPosition(tail[last]) = t + raw.offset
    BY Zenon, <1>4, <1>5 DEF TailPosition, ComputeTermBeginPosition
  <2>2. TailPosition(tail'[last]) = t + (IF raw.offset + Required(p) < TermLength
                                         THEN raw.offset + Required(p) ELSE TermLength)
    BY Zenon, <1>6 DEF TailPosition, ComputeTermBeginPosition
  <2>3. (IF raw.offset + Required(p) < TermLength THEN raw.offset + Required(p) ELSE TermLength)
            = raw.offset + Required(p)
    BY <1>1, <1>3
  <2> HIDE DEF t
  <2> QED BY <1>3, <1>7, <2>1, <2>2, <2>3
<1> HIDE DEF t
<1>9. id \in Nat \ {0}
  BY <1>3, <1>7
<1>10. /\ fs \in Seq(Frames) /\ Len(fs) \in Nat \ {0} /\ Len(fs) = Len(FrameLengths(my[p].length))
       /\ StartOf(fs[1]) = PositionOf(raw) /\ EndOf(fs[Len(fs)]) = PositionOf(raw) + Required(p)
       /\ \A i \in 2..Len(fs) : StartOf(fs[i]) = EndOf(fs[i - 1])
  <2>1. my[p].length \in Nat /\ id \in Int
    BY <1>9, TermFacts
  <2> HIDE DEF raw, id
  <2>2. Adjoining(fs, my[p].length, raw, id)
    BY Zenon, <1>3, <2>1, FramesOfAdjoin
  <2> QED BY Zenon, <2>2 DEF Adjoining, Required
<1> HIDE DEF fs, id
<1>11. claims # <<>> => StartOf(fs[1]) = EndOf(claims[Len(claims)])
  BY Zenon, <1>2, <1>7, <1>8, <1>10 DEF LastIs
<1>12. ClaimsInv' /\ EndOf(claims'[Len(claims')]) = EndOf(fs[Len(fs)])
  <2>1. ClaimsInv
    BY Zenon DEF LogInv
  <2> QED BY Zenon, <1>1, <1>10, <1>11, <2>1, FramesAreAdded
<1>13. LastIs(last)'
  <2>1. EndOf(claims'[Len(claims')]) = TailPosition(tail'[last])
    BY Zenon, <1>7, <1>8, <1>10, <1>12
  <2> QED BY Zenon, <1>1, <1>2, <2>1, TermsAfterAppend
<1>14. /\ pc'[p] = "frame" /\ \A q \in Publishers \ {p} : UNCHANGED <<pc[q], my[q]>>
       /\ my'[p].claimed = raw /\ my'[p].id = id /\ my'[p].frame = 1
       /\ my'[p].length = my[p].length /\ my'[p].termCount = my[p].termCount
  BY Zenon, <1>1, Tables DEF NoLocals
<1>15. TermInv(p)'
  <2>1. MyIndex(p)' = last /\ ~FoundFull(p)'
    BY <1>5, <1>9, <1>14 DEF MyIndex, FoundFull, Pad
  <2>2. my[p].termCount <= raw.term
    BY Zenon, <1>1, <1>3, TermFacts DEF TermInv, Labels
  <2>3. my'[p].frame \in 1..Len(FrameLengths(my'[p].length))
    BY <1>10, <1>14
  <2>4. /\ my'[p].termCount <= tail'[last].term /\ my'[p].termCount <= my'[p].claimed.term
        /\ my'[p].claimed.term <= tail'[last].term
    BY <1>3, <1>6, <1>14, <2>2
  <2> QED BY Zenon, <1>14, <2>1, <2>3, <2>4 DEF TermInv
<1>16. TailsMoveOn
  BY Zenon, <1>1, TailAdded
<1> QED BY Zenon, <1>12, <1>13, <1>14, <1>15, <1>16, OneTermSteps

LEMMA EndOfLogKeepsLog ==
    ASSUME LogInv, ReturnInv', NEW p \in Publishers, HandleEndOfLogCondition(p)
    PROVE  LogInv'
<1> DEFINE raw == RawTail(p)
<1>1. /\ pc[p] = "append" /\ ~(raw.offset + Required(p) <= TermLength) /\ UNCHANGED activeTermCount
      /\ GetAndAddRawTail(p, Required(p))
  BY Zenon DEF HandleEndOfLogCondition, Fits
<1>2. PICK last \in Partitions : LastIs(last)
  BY Zenon DEF LogInv
<1>3. /\ raw \in RawTails /\ raw.term \in Int /\ raw.offset \in Nat /\ raw = tail[MyIndex(p)]
      /\ MyIndex(p) \in Partitions /\ Required(p) \in Nat \ {0} /\ TermLength \in Nat \ {0}
  BY Zenon, <1>1, CallFacts, Tables, TailAdded, TermAssumption
<1>4. tail'[MyIndex(p)].term = raw.term /\ tail'[MyIndex(p)].offset = raw.offset + Required(p)
  BY Zenon, <1>1, <1>3, TailAdded
<1>5. TailsMoveOn /\ ClaimsInv
  BY Zenon, <1>1, TailAdded DEF LogInv
<1>6. my[p].termCount <= raw.term /\ my[p].termCount \in Nat
  BY Zenon, <1>1, <1>3, TermFacts DEF TermInv, Labels
\* The publisher has found the term full.
<1>7. ASSUME FoundFull(p)', pc'[p] \in {"frame", "newPosition"},
             my'[p].claimed = raw, my'[p].termCount = my[p].termCount,
             pc'[p] = "frame" => my'[p].id = Pad
      PROVE  TermInv(p)'
  <2>1. MyIndex(p)' = MyIndex(p)
    BY Zenon, <1>7 DEF MyIndex
  <2>2. /\ my'[p].termCount <= tail'[MyIndex(p)].term /\ my'[p].termCount <= my'[p].claimed.term
        /\ my'[p].claimed.term <= tail'[MyIndex(p)].term
    BY SMTT(30), <1>3, <1>4, <1>6, <1>7
  <2>3. tail'[MyIndex(p)].offset >= TermLength
    BY <1>1, <1>3, <1>4
  <2> QED BY Zenon, <1>7, <2>1, <2>2, <2>3 DEF TermInv
<1>8. CASE /\ raw.offset < TermLength
           /\ my' = [my EXCEPT ![p].claimed = raw, ![p].id = Pad, ![p].frame = 1]
           /\ claims' = claims \o <<PaddingFrame(raw)>>
           /\ pc' = [pc EXCEPT ![p] = "frame"]
  <2>1. MyIndex(p) = last /\ raw = tail[last] /\ raw.term \in Nat
    BY Zenon, <1>1, <1>2, <1>8, RoomIsInTheLastTerm
  <2> DEFINE t  == raw.term * TermLength
             fs == <<PaddingFrame(raw)>>
  <2>2. t \in Nat /\ StartOf(PaddingFrame(raw)) = t + raw.offset
    BY <1>3, <2>1 DEF StartOf, PaddingFrame, ComputeTermBeginPosition
  <2>3. EndOf(PaddingFrame(raw)) = (t + raw.offset) + (TermLength - raw.offset)
    BY Zenon, <2>2 DEF EndOf, PaddingFrame
  <2>4. TailPosition(tail[last]) = t + raw.offset
    BY Zenon, <1>8, <2>1 DEF TailPosition, ComputeTermBeginPosition
  <2>5. TailPosition(tail'[last]) = t + TermLength
    <3>1. TailPosition(tail'[last]) = t + (IF raw.offset + Required(p) < TermLength
                                           THEN raw.offset + Required(p) ELSE TermLength)
      BY Zenon, <1>4, <2>1 DEF TailPosition, ComputeTermBeginPosition
    <3>2. ~(raw.offset + Required(p) < TermLength)
      BY <1>1, <1>3
    <3> QED BY Zenon, <3>1, <3>2
  <2>6. PaddingFrame(raw) \in Frames
    BY <1>3, <1>8 DEF PaddingFrame, Frames, Pad
  <2> HIDE DEF t
  <2>7. fs \in Seq(Frames) /\ Len(fs) = 1 /\ fs[1] = PaddingFrame(raw)
    BY <2>6
  <2>8. claims # <<>> => StartOf(fs[1]) = EndOf(claims[Len(claims)])
    BY Zenon, <1>2, <2>2, <2>4, <2>7 DEF LastIs
  <2>9. ClaimsInv' /\ EndOf(claims'[Len(claims')]) = EndOf(fs[Len(fs)])
    <3> HIDE DEF fs
    <3>1. claims' = claims \o fs /\ Len(fs) \in Nat \ {0} /\ \A i \in 2..Len(fs) : FALSE
      BY <1>8, <2>7 DEF fs
    <3> QED BY Zenon, <1>5, <2>7, <2>8, <3>1, FramesAreAdded
  <2>10. EndOf(claims'[Len(claims')]) = TailPosition(tail'[last])
    <3>1. (t + raw.offset) + (TermLength - raw.offset) = t + TermLength
      BY <1>3, <2>2
    <3> QED BY Zenon, <2>3, <2>5, <2>7, <2>9, <3>1
  <2>11. LastIs(last)'
    BY Zenon, <1>1, <1>2, <2>10, TermsAfterAppend
  <2>12. /\ pc'[p] = "frame" /\ \A q \in Publishers \ {p} : UNCHANGED <<pc[q], my[q]>>
         /\ my'[p].claimed = raw /\ my'[p].id = Pad /\ my'[p].termCount = my[p].termCount
    BY Zenon, <1>8, Tables DEF NoLocals
  <2>13. TermInv(p)'
    BY Zenon, <1>7, <2>12 DEF FoundFull
  <2> QED BY Zenon, <1>5, <2>9, <2>11, <2>12, <2>13, OneTermSteps
<1>9. CASE /\ raw.offset >= TermLength /\ UNCHANGED claims
           /\ my' = [my EXCEPT ![p].claimed = raw]
           /\ pc' = [pc EXCEPT ![p] = "newPosition"]
  <2>1. ClaimsInv'
    BY Zenon, <1>5, <1>9 DEF ClaimsInv, FramesAdjoin
  <2>2. TailPosition(tail'[last]) = TailPosition(tail[last])
    <3>1. CASE last = MyIndex(p)
      <4>1. ~(raw.offset < TermLength) /\ ~(raw.offset + Required(p) < TermLength)
        BY <1>3, <1>9
      <4> QED BY Zenon, <1>3, <1>4, <3>1, <4>1 DEF TailPosition
    <3>2. CASE last # MyIndex(p)
      BY Zenon, <1>1, <3>2, TailAdded DEF TailPosition
    <3> QED BY Zenon, <3>1, <3>2
  <2>3. claims' # <<>> => EndOf(claims'[Len(claims')]) = TailPosition(tail'[last])
    BY Zenon, <1>2, <1>9, <2>2 DEF LastIs
  <2>4. LastIs(last)'
    BY Zenon, <1>1, <1>2, <2>3, TermsAfterAppend
  <2>5. /\ pc'[p] = "newPosition" /\ \A q \in Publishers \ {p} : UNCHANGED <<pc[q], my[q]>>
        /\ my'[p].claimed = raw /\ my'[p].termCount = my[p].termCount
    BY Zenon, <1>9, Tables DEF NoLocals
  <2>6. TermInv(p)'
    BY Zenon, <1>7, <2>5 DEF FoundFull
  <2> QED BY Zenon, <1>5, <2>1, <2>4, <2>5, <2>6, OneTermSteps
<1> QED BY Zenon, <1>8, <1>9 DEF HandleEndOfLogCondition, Goto

\* A term of the next partition that is not two behind a term is ahead of it.
LEMMA NextTerm ==
    ASSUME NEW c \in Int, NEW t \in Int, NEW n \in Nat, c % 3 = n % 3, t % 3 = (n + 1) % 3, t >= c - 2, t # c - 2
    PROVE  c < t
  BY SMTT(30)

\* RotateLog reads the tail of the next partition.
LEMMA RotateGetTailKeepsLog ==
    ASSUME LogInv, ReturnInv', NEW p \in Publishers, RotateLogPanics(p) \/ RotateGetTail(p)
    PROVE  LogInv'
<1> DEFINE i == MyIndex(p)
           j == NextIndex(p)
<1>1. /\ UNCHANGED <<tail, activeTermCount, claims>> /\ pc[p] = "newPosition"
      /\ \/ pc' = [pc EXCEPT ![p] = "panicked"] /\ UNCHANGED my
         \/ pc' = [pc EXCEPT ![p] = "rotateCas"] /\ my' = [my EXCEPT ![p].nextTail = tail[j]]
         \/ /\ pc' = [pc EXCEPT ![p] = "termCountCas"] /\ UNCHANGED my
            /\ tail[j].term # my[p].claimed.term + 1 - PartitionCount
  BY Zenon DEF RotateLogPanics, RotateGetTail, ExpectedTerm, Goto, logVars, history
<1>2. /\ pc'[p] \in {"panicked", "rotateCas", "termCountCas"}
      /\ pc'[p] = "termCountCas" => tail[j].term # my[p].claimed.term + 1 - PartitionCount
      /\ \A q \in Publishers \ {p} : UNCHANGED <<pc[q], my[q]>>
      /\ my'[p].claimed = my[p].claimed /\ my'[p].termCount = my[p].termCount
  BY Zenon, <1>1, Tables DEF NoLocals
<1>3. HasClaimed(p) /\ FoundFull(p) /\ TermInv(p)
  BY Zenon, <1>1, TermFacts DEF HasClaimed, FoundFull, Labels
<1>4. PICK last \in Partitions : LastIs(last)
  BY Zenon DEF LogInv
<1>5. pc'[p] = "termCountCas" => my[p].claimed.term < tail[j].term
  <2>1. /\ i \in Partitions /\ j \in Partitions /\ my[p].termCount \in Nat /\ my[p].claimed.term \in Int
        /\ i = my[p].termCount % 3 /\ j = (my[p].termCount + 1) % 3 /\ my[p].claimed.term % 3 = i
    BY Zenon, <1>3, TermFacts
  <2>2. /\ tail[i].term \in Int /\ tail[j].term \in Int /\ tail[j].term % 3 = j /\ tail[last].term \in Int
        /\ tail[j].term >= tail[last].term - 2 /\ tail[i].term <= tail[last].term
    <3>1. \A k \in Partitions : tail[k].term \in Int /\ tail[k].term % 3 = k
      BY Zenon, TailTypes DEF LogInv, PartitionCount
    <3>2. \A k \in Partitions : tail[k].term >= tail[last].term - 2 /\ tail[k].term <= tail[last].term
      BY Zenon, <1>4, LastFacts
    <3> HIDE DEF i, j
    <3> QED BY Zenon, <1>4, <2>1, <3>1, <3>2
  <2>3. my[p].claimed.term <= tail[i].term
    BY Zenon, <1>3 DEF TermInv
  <2>4. pc'[p] = "termCountCas" => tail[j].term # my[p].claimed.term - 2
    BY SMTT(30), <1>2, <2>1 DEF PartitionCount
  <2> HIDE DEF i, j
  <2>5. tail[j].term >= my[p].claimed.term - 2
    BY SMTT(30), <2>1, <2>2, <2>3
  <2> QED BY Zenon, <2>1, <2>2, <2>4, <2>5, NextTerm
<1>6. MyIndex(p)' = i /\ NextIndex(p)' = j
  BY Zenon, <1>2 DEF MyIndex, NextIndex
<1>7. TermInv(p)'
  BY Zenon, <1>1, <1>2, <1>3, <1>5, <1>6 DEF TermInv, Labels, HasClaimed, FoundFull
<1> QED BY Zenon, <1>1, <1>2, <1>7, CallStep

\* The compare-and-set succeeds only for the term after the latest one.
LEMMA RotateCasTailKeepsLog ==
    ASSUME LogInv, ReturnInv', NEW p \in Publishers, RotateCasTail(p)
    PROVE  LogInv'
<1> DEFINE i == MyIndex(p)
           j == NextIndex(p)
           c == my[p].claimed.term
<1>1. UNCHANGED <<activeTermCount, claims, my>> /\ pc[p] = "rotateCas"
  BY Zenon DEF RotateCasTail, history
<1>2. HasClaimed(p) /\ FoundFull(p) /\ TermInv(p) /\ MyIndex(p)' = i /\ NextIndex(p)' = j
  BY Zenon, <1>1, TermFacts DEF HasClaimed, FoundFull, Labels, MyIndex, NextIndex
<1>3. CASE UNCHANGED tail /\ pc' = [pc EXCEPT ![p] = "newPosition"]
  <2>1. pc'[p] = "newPosition" /\ \A q \in Publishers \ {p} : UNCHANGED <<pc[q], my[q]>>
    BY Zenon, <1>1, <1>3, Tables
  <2>2. TermInv(p)'
    BY Zenon, <1>1, <1>2, <1>3, <2>1 DEF TermInv, Labels
  <2> QED BY Zenon, <1>1, <1>3, <2>1, <2>2, CallStep
<1>4. CASE /\ tail[j] = my[p].nextTail /\ pc' = [pc EXCEPT ![p] = "termCountCas"]
           /\ tail' = [tail EXCEPT ![j] = [term |-> c + 1, offset |-> 0]]
  <2>1. PICK last \in Partitions : LastIs(last)
    BY Zenon DEF LogInv
  <2>2. /\ i \in Partitions /\ j \in Partitions /\ my[p].termCount \in Nat /\ c \in Int
        /\ i = my[p].termCount % 3 /\ j = (my[p].termCount + 1) % 3 /\ c % 3 = i
    BY Zenon, <1>2, TermFacts
  <2>3. tail[j].term = c - 2
    <3>1. CallInv(p)
      BY Zenon, CallFacts, Tables
    <3>2. my[p].nextTail.term = c + 1 - PartitionCount
      BY Zenon, <1>1, <3>1 DEF CallInv, StaleTail
    <3> QED BY <1>4, <2>2, <3>2 DEF PartitionCount
  <2>4. /\ \A k \in Partitions : tail[k].term \in Int /\ tail[k].offset \in Nat /\ tail[k].term % 3 = k
        /\ tail[last].term \in Nat /\ activeTermCount \in 0..tail[last].term
        /\ \A k \in Partitions : tail[k].term >= tail[last].term - 2 /\ tail[k].term <= tail[last].term
        /\ \A k \in Partitions : tail[k].term >= 0 /\ tail[k].term < tail[last].term => tail[k].offset >= TermLength
    BY Zenon, <2>1, TailTypes, LastFacts DEF LogInv, PartitionCount
  <2>5. c <= tail[i].term /\ (c = tail[i].term => tail[i].offset >= TermLength) /\ my[p].termCount <= c
    BY Zenon, <1>2 DEF TermInv
  <2> HIDE DEF i, j, c
  <2>6. c = tail[last].term /\ c = tail[i].term
    BY SMTT(30), <2>2, <2>3, <2>4, <2>5
  <2>7. i = last
    BY Zenon, <2>2, <2>4, <2>6
  <2>8. PICK next \in Partitions : next = j
    BY Zenon, <2>2
  <2>9. /\ tail'[next].term = c + 1 /\ tail'[next].offset = 0
        /\ \A k \in Partitions \ {next} : tail'[k] = tail[k]
    BY Zenon, <1>4, <2>2, <2>8, TailTypes DEF LogInv
  <2>10. c \in Nat /\ activeTermCount \in Nat /\ activeTermCount <= c /\ tail[next].term = c - 2
    BY <2>3, <2>4, <2>6, <2>8
  <2>11. ASSUME NEW k \in Partitions \ {next}
         PROVE  tail[k].term \in Int /\ tail[k].term >= c - 1 /\ tail[k].term <= c /\ tail[k].term % 3 = k
    <3>1. tail[k].term \in Int /\ tail[k].term >= c - 2 /\ tail[k].term <= c /\ tail[k].term % 3 = k
      BY Zenon, <2>4, <2>6
    <3>2. tail[k].term # c - 2
      BY Zenon, <2>4, <2>10, <3>1
    <3> QED BY <2>10, <3>1, <3>2
  <2>12. i # next
    BY <2>6, <2>10
  <2>13. TailsMoveOn
    <3>1. ASSUME NEW k \in Partitions
          PROVE  /\ tail[k].term <= tail'[k].term
                 /\ tail'[k].term = tail[k].term => tail[k].offset <= tail'[k].offset
      <4>1. CASE k = next
        BY <2>9, <2>10, <4>1
      <4>2. CASE k # next
        BY <2>4, <2>9, <4>2
      <4> QED BY Zenon, <4>1, <4>2
    <3> QED BY Zenon, <3>1 DEF TailsMoveOn
  <2>14. TailsInARow(next)'
    <3>1. ASSUME NEW k \in Partitions
          PROVE  tail'[k].term % 3 = k /\ tail'[k].term \in (tail'[next].term + 1 - 3)..tail'[next].term
      <4>1. CASE k = next
        <5>1. (c + 1) % 3 = next
          BY <2>4, <2>10
        <5> QED BY <2>9, <2>10, <4>1, <5>1
      <4>2. CASE k # next
        BY <2>9, <2>10, <2>11, <4>2
      <4> QED BY Zenon, <4>1, <4>2
    <3> QED BY Zenon, <3>1 DEF TailsInARow, Partitions, PartitionCount
  <2>15. ASSUME NEW k \in Partitions, tail'[k].term \in 0..(tail'[next].term - 1)
         PROVE  tail'[k].offset >= TermLength
    <3>1. k # next
      BY <2>9, <2>10, <2>15
    <3>2. tail'[k] = tail[k] /\ tail[k].term \in Int /\ tail[k].term <= c /\ tail[k].term >= 0 /\ tail[k].term % 3 = k
      BY <2>9, <2>10, <2>11, <2>15, <3>1
    <3>3. CASE tail[k].term = c
      <4>1. k = i
        BY Zenon, <2>2, <3>2, <3>3
      <4> QED BY Zenon, <2>5, <2>6, <3>2, <4>1
    <3>4. CASE tail[k].term # c
      <4>1. tail[k].term < tail[last].term
        BY <2>6, <2>10, <3>2, <3>4
      <4> QED BY Zenon, <2>4, <3>2, <4>1
    <3> QED BY Zenon, <3>3, <3>4
  <2>16. activeTermCount' <= tail'[next].term
    BY <1>1, <2>9, <2>10
  <2>17. claims' # <<>> => EndOf(claims'[Len(claims')]) = TailPosition(tail'[next])
    <3>1. TermLength \in Nat \ {0}
      BY Zenon, TermAssumption
    <3>2. TailPosition(tail[last]) = c * TermLength + TermLength
      <4>1. ~(tail[last].offset < TermLength)
        BY <2>4, <2>5, <2>6, <2>7, <3>1
      <4> QED BY Zenon, <2>6, <4>1 DEF TailPosition, ComputeTermBeginPosition
    <3>3. TailPosition(tail'[next]) = (c + 1) * TermLength + 0
      BY <2>9, <3>1 DEF TailPosition, ComputeTermBeginPosition
    <3>4. (c + 1) * TermLength + 0 = c * TermLength + TermLength
      BY <2>2, <3>1
    <3> QED BY Zenon, <1>1, <2>1, <3>2, <3>3, <3>4 DEF LastIs
  <2>18. LastIs(next)'
    BY Zenon, <2>14, <2>15, <2>16, <2>17 DEF LastIs
  <2>19. pc'[p] = "termCountCas" /\ \A q \in Publishers \ {p} : UNCHANGED <<pc[q], my[q]>>
    BY Zenon, <1>1, <1>4, Tables
  <2>20. TermInv(p)'
    <3>1. tail'[i] = tail[i] /\ tail[i].term = c /\ tail[i].offset >= TermLength
      BY Zenon, <2>2, <2>5, <2>6, <2>9, <2>12
    <3>2. my'[p] = my[p] /\ c < tail'[j].term
      BY SMTT(30), <1>1, <2>8, <2>9, <2>10
    <3>3. c <= c
      BY <2>10
    <3> QED BY Zenon, <1>2, <2>5, <2>19, <3>1, <3>2, <3>3 DEF TermInv, c
  <2>21. ClaimsInv'
    BY Zenon, <1>1 DEF LogInv, ClaimsInv, FramesAdjoin
  <2> QED BY Zenon, <2>13, <2>18, <2>19, <2>20, <2>21, OneTermSteps
<1> QED BY Zenon, <1>3, <1>4 DEF RotateCasTail, Goto

\* The count moves on to a term that has been opened.
LEMMA CasTermCountKeepsLog ==
    ASSUME LogInv, ReturnInv', NEW p \in Publishers, CasTermCount(p)
    PROVE  LogInv'
<1>1. /\ UNCHANGED <<tail, claims>> /\ pc[p] = "termCountCas" /\ Return(p, AdminAction, 0)
      /\ activeTermCount' \in {activeTermCount, my[p].termCount + 1}
  BY Zenon DEF CasTermCount, history
<1>2. PICK last \in Partitions : LastIs(last)
  BY Zenon DEF LogInv
<1>3. /\ NextIndex(p) \in Partitions /\ my[p].termCount \in Nat /\ my[p].claimed.term \in Int
      /\ my[p].termCount <= my[p].claimed.term /\ my[p].claimed.term < tail[NextIndex(p)].term
  BY Zenon, <1>1, TermFacts DEF TermInv, HasClaimed, Labels
<1>4. /\ tail[NextIndex(p)].term \in Int /\ tail[last].term \in Nat
      /\ tail[NextIndex(p)].term <= tail[last].term /\ activeTermCount <= tail[last].term
  <2>1. \A i \in Partitions : tail[i].term \in Int
    BY Zenon, TailTypes DEF LogInv
  <2>2. /\ tail[last].term \in Nat /\ activeTermCount \in 0..tail[last].term
        /\ \A i \in Partitions : tail[i].term <= tail[last].term
    BY Zenon, <1>2, LastFacts
  <2> QED BY <1>3, <2>1, <2>2
<1>5. activeTermCount' <= tail[last].term
  BY <1>1, <1>3, <1>4
<1>6. LastIs(last)'
  BY Zenon, <1>1, <1>2, <1>5 DEF LastIs, TailsInARow
<1>7. ClaimsInv' /\ TailsMoveOn
  <2>1. ClaimsInv'
    BY Zenon, <1>1 DEF LogInv, ClaimsInv, FramesAdjoin
  <2>2. \A i \in Partitions : tail[i].term \in Int /\ tail[i].offset \in Nat
    BY Zenon, TailTypes DEF LogInv
  <2>3. TailsMoveOn
    BY <1>1, <2>2 DEF TailsMoveOn
  <2> QED BY Zenon, <2>1, <2>3
<1>8. pc'[p] = "idle" /\ \A q \in Publishers \ {p} : UNCHANGED <<pc[q], my[q]>>
  BY Zenon, <1>1, Tables DEF Return
<1>9. TermInv(p)'
  BY Zenon, <1>8, IdleTerm
<1> QED BY Zenon, <1>6, <1>7, <1>8, <1>9, OneTermSteps

\* A step that leaves the tails and the publishers alone, and the end of the log.
LEMMA OthersKeepLog ==
    ASSUME LogInv, ReturnInv', ClaimsInv', UNCHANGED <<tail, activeTermCount, pc, my>>,
           claims' # <<>> =>
               claims # <<>> /\ EndOf(claims'[Len(claims')]) = EndOf(claims[Len(claims)])
    PROVE  LogInv'
<1>1. PICK last \in Partitions : LastIs(last)
  BY Zenon DEF LogInv
<1>2. LastIs(last)'
  BY Zenon, <1>1 DEF LastIs, TailsInARow
<1>3. TailsMoveOn
  BY TailTypes DEF LogInv, TailsMoveOn
<1> QED BY Zenon, <1>2, <1>3, OneTermSteps

-----------------------------------------------------------------------------
(* The theorems.                                                           *)

LEMMA LogInvInit == Init => LogInv
<1> SUFFICES ASSUME Init PROVE LogInv
  BY Zenon
<1>1. ReturnInv
  BY Zenon, ReturnInvInit
<1>2. claims = <<>> /\ activeTermCount = 0 /\ pc = [p \in Publishers |-> "idle"]
  BY Zenon DEF Init, LogInit, PublicationInit
<1>3. ClaimsInv
  BY <1>2 DEF ClaimsInv, FramesAdjoin
<1>4. LastIs(0)
  <2>1. tail[0].term = 0 /\ tail[1].term = -2 /\ tail[2].term = -1
    BY DEF Init, LogInit, PartitionCount
  <2>2. \A i \in Partitions : i = 0 \/ i = 1 \/ i = 2
    BY DEF Partitions, PartitionCount
  <2>3. \A i \in Partitions : tail[i].term \in -2..0 /\ tail[i].term % PartitionCount = i
    BY <1>1, <2>1, <2>2, TailTypes
  <2>4. TailsInARow(0)
    BY <2>1, <2>3 DEF TailsInARow, Partitions, PartitionCount
  <2>5. \A i \in Partitions : tail[i].term \notin 0..(tail[0].term - 1)
    BY <2>1, <2>3
  <2> QED BY <1>2, <2>1, <2>4, <2>5 DEF LastIs
<1>5. 0 \in Partitions
  BY DEF Partitions, PartitionCount
<1>6. \A p \in Publishers : TermInv(p)
  BY Zenon, <1>2 DEF TermInv, HasClaimed, FoundFull
<1> QED BY Zenon, <1>1, <1>3, <1>4, <1>5, <1>6 DEF LogInv

LEMMA LogInvNext == LogInv /\ [Next]_vars => LogInv'
<1> SUFFICES ASSUME LogInv, [Next]_vars PROVE LogInv'
  BY Zenon
<1>0. ReturnInv' /\ ClaimsInv
  BY Zenon, ReturnInvNext DEF LogInv
<1>1. ASSUME NEW p \in Publishers, PublisherStep(p) PROVE LogInv'
  <2>1. CASE ReturnPosition(p) \/ OfferTermMoved(p) \/ OfferAtLimit(p) \/ ReturnMaxPositionExceeded(p)
    BY Zenon, <1>0, <2>1, CallReturns
       DEF ReturnPosition, OfferTermMoved, OfferAtLimit, ReturnMaxPositionExceeded, logVars, history
  <2> QED BY Zenon, <1>0, <1>1, <2>1, ReadTermCountKeepsLog, ReadRawTailKeepsLog, AppendMessageKeepsLog,
             EndOfLogKeepsLog, WriteFrameKeepsLog, SetFrameLengthKeepsLog, RotateGetTailKeepsLog,
             RotateCasTailKeepsLog, CasTermCountKeepsLog DEF PublisherStep
<1>2. ASSUME UNCHANGED <<tail, activeTermCount, claims, pc, my>> PROVE LogInv'
  BY Zenon, <1>0, <1>2, LogKept, OthersKeepLog
<1>3. ASSUME PublicationNext PROVE LogInv'
  <2>1. CASE ClosePublication
    BY Zenon, <1>2, <2>1 DEF ClosePublication, logVars, history
  <2>2. ASSUME NEW p \in Publishers, Abort(p) PROVE LogInv'
    BY Zenon, <1>0, <2>2, AbortStep, OthersKeepLog
  <2> QED BY Zenon, <1>0, <1>1, <1>3, <2>1, <2>2, CallKeepsLog DEF PublicationNext
<1>4. ASSUME SubscriberNext, UNCHANGED pubVars PROVE LogInv'
  <2>1. UNCHANGED <<tail, activeTermCount, claims>>
    BY Zenon, <1>4 DEF SubscriberNext, SubscriberPolls, SubscriberStep, PollCall, Poll, ControlledPoll, BoundedPoll,
                StartPoll, HandleFragment, HandlerAborts, HandlerBreaks, HandlerCommits, SkipPadding, EndPoll,
                CloseImage, SetFinalPosition, logVars, history
  <2> QED BY Zenon, <1>2, <1>4, <2>1 DEF pubVars
<1>5. ASSUME UpdatePublisherLimit, UNCHANGED pubVars PROVE LogInv'
  <2>1. UNCHANGED <<pc, my>>
    BY Zenon, <1>5 DEF pubVars
  <2> QED BY Zenon, <1>0, <1>5, <2>1, LimitStep, OthersKeepLog
<1>6. CASE UNCHANGED vars
  BY Zenon, <1>2, <1>6 DEF vars, logVars, pubVars, history
<1> QED BY Zenon, <1>3, <1>4, <1>5, <1>6 DEF Next

\* The invariant holds in every state of a stream; other proofs build on it.
THEOREM LogInvHolds == Spec => []LogInv
BY LogInvInit, LogInvNext, PTL DEF Spec

\* The frames that the publishers claim, padding included, follow one another
\* without gap or overlap.  RotateLog opens the next term only when the one before
\* it is full, no late compare-and-set resets a tail in use, the active term count
\* never leads, and the log ends where the tail of the latest term says.
THEOREM LogHasNoGaps == Spec => []LogIsContiguous
<1>1. LogInv => TermsInTurn
  <2>1. ASSUME NEW last \in Partitions, LastIs(last) PROVE TermsInTurn
    BY Zenon, <2>1 DEF LastIs, TermsInTurn, EndOfLog, Partitions
  <2> QED BY Zenon, <2>1 DEF LogInv
<1>2. LogInv => LogIsContiguous
  BY Zenon, <1>1 DEF LogInv, ClaimsInv, LogIsContiguous
<1> QED BY <1>2, LogInvHolds, PTL

-----------------------------------------------------------------------------
(* The end of the stream.                                                  *)

\* What a call knows of its message, and that it found no room for it.
FullInv(p) ==
    /\ pc[p] \in {"termCount", "rawTail"} /\ my[p].kind # "position" => my[p].length \in Lengths
    /\ HasRawTail(p) => my[p].length \in Lengths
    /\ FoundFull(p) => my[p].claimed.offset + Required(p) > TermLength
    /\ pc[p] = "panicked" => my[p].claimed # my[p].rawTail

PanicInv == \A p \in Publishers : FullInv(p)

\* A tail that no one moved, and after which the message did not fit, is in the
\* second half of the term, since two messages fit in a term: twice its offset
\* takes newPosition past the end of the stream.
LEMMA UnmovedTailExceeds ==
    ASSUME LogInv, NEW p \in Publishers, FullInv(p), pc[p] = "newPosition",
           my[p].termCount + 1 = MaxTerms, my[p].claimed = my[p].rawTail
    PROVE  ExceedsMaxPosition(p)
<1> DEFINE t == my[p].claimed.term
           o == my[p].claimed.offset
           n == Required(p)
<1>1. HasClaimed(p) /\ HasRawTail(p) /\ FoundFull(p)
  BY Zenon DEF HasClaimed, HasRawTail, FoundFull, Labels
<1>2. t \in Int /\ o \in Nat /\ my[p].termCount \in Nat /\ my[p].termCount <= t
  BY Zenon, <1>1, TermFacts DEF TermInv
<1>3. n \in Nat /\ 2 * n <= TermLength /\ o + n > TermLength
  BY Zenon, <1>1, LengthsAssumption, CallFacts DEF FullInv, Required, LogInv
<1>4. TermLength \in Nat /\ MaxTerms \in Nat
  BY Zenon, TermAssumption
<1>5. PositionOf(my[p].rawTail) + my[p].rawTail.offset = t * TermLength + o + o
  BY Zenon DEF PositionOf, ComputeTermBeginPosition
<1> HIDE DEF t, o, n
<1>6. t * TermLength >= (MaxTerms - 1) * TermLength
  <2>1. MaxTerms - 1 <= t /\ MaxTerms - 1 \in Int
    BY <1>2, <1>4
  <2> QED BY <1>2, <1>4, <2>1
<1>7. (MaxTerms - 1) * TermLength = MaxTerms * TermLength - TermLength /\ MaxTerms * TermLength \in Nat
      /\ t * TermLength \in Int
  BY <1>2, <1>4
<1>8. o + o > TermLength
  BY <1>2, <1>3, <1>4
<1>9. t * TermLength + o + o > MaxTerms * TermLength
  <2> DEFINE a == t * TermLength
             b == MaxTerms * TermLength
  <2>1. a \in Int /\ b \in Nat /\ a >= b - TermLength
    BY <1>6, <1>7
  <2> HIDE DEF a, b
  <2>2. a + o + o > b
    BY <1>2, <1>4, <1>8, <2>1
  <2> QED BY Zenon, <2>2 DEF a, b
<1> QED BY Zenon, <1>5, <1>9 DEF ExceedsMaxPosition, MaxPossiblePosition

\* The steps that end a call, or begin one.
LEMMA PanicCalls ==
    ASSUME LogInv, PanicInv, NEW p \in Publishers,
           \/ \E status, excess : Return(p, status, excess)
           \/ PublisherCall(p)
    PROVE  PanicInv'
<1>1. SUFFICES ASSUME TRUE PROVE FullInv(p)' /\ \A q \in Publishers \ {p} : UNCHANGED <<pc[q], my[q]>>
  BY Zenon DEF PanicInv, FullInv, HasRawTail, FoundFull, Required
<1>2. ASSUME NEW status, NEW excess, Return(p, status, excess)
      PROVE  FullInv(p)' /\ \A q \in Publishers \ {p} : UNCHANGED <<pc[q], my[q]>>
  <2>1. pc'[p] = "idle" /\ \A q \in Publishers \ {p} : UNCHANGED <<pc[q], my[q]>>
    BY Zenon, <1>2, Tables DEF Return
  <2> QED BY Zenon, <2>1 DEF FullInv, HasRawTail, FoundFull
<1>3. ASSUME NEW kind, NEW n, Call(p, kind, n), kind = "position" \/ n \in Lengths
      PROVE  FullInv(p)' /\ \A q \in Publishers \ {p} : UNCHANGED <<pc[q], my[q]>>
  <2>1. /\ pc'[p] = "termCount" /\ my'[p].kind = kind /\ my'[p].length = n
        /\ \A q \in Publishers \ {p} : UNCHANGED <<pc[q], my[q]>>
    BY Zenon, <1>3, Tables DEF Call, Goto, NoLocals
  <2> QED BY Zenon, <1>3, <2>1 DEF FullInv, HasRawTail, FoundFull
<1> QED BY Zenon, <1>2, <1>3 DEF PublisherCall, Offer, TryClaim, Offer2, Position, CallWhenClosed

\* A step of a call that keeps its message and, once it has one, its claim.
LEMMA PanicStep ==
    ASSUME LogInv, PanicInv, NEW p \in Publishers, PublisherStep(p)
    PROVE  PanicInv'
<1>1. ASSUME NEW status, NEW excess, Return(p, status, excess) PROVE PanicInv'
  BY Zenon, <1>1, PanicCalls
<1>2. ASSUME \A q \in Publishers \ {p} : UNCHANGED <<pc[q], my[q]>>, FullInv(p)' PROVE PanicInv'
  BY Zenon, <1>2 DEF PanicInv, FullInv, HasRawTail, FoundFull, Required
<1>3. FullInv(p)
  BY Zenon DEF PanicInv
<1>4. CASE ReadTermCount(p) \/ ReadRawTail(p)
  <2>1. /\ \/ pc[p] = "termCount" /\ pc'[p] = "rawTail"
           \/ pc[p] = "rawTail" /\ pc'[p] = "append" /\ my[p].kind # "position"
        /\ my'[p].kind = my[p].kind /\ my'[p].length = my[p].length
        /\ \A q \in Publishers \ {p} : UNCHANGED <<pc[q], my[q]>>
    <3>1. CASE ReadTermCount(p)
      BY Zenon, <3>1, Tables DEF ReadTermCount, Goto, NoLocals
    <3>2. CASE ReadRawTail(p)
      BY Zenon, <3>2, Tables DEF ReadRawTail, Goto, NoLocals
    <3> QED BY Zenon, <1>4, <3>1, <3>2
  <2> QED BY Zenon, <1>2, <1>3, <2>1 DEF FullInv, HasRawTail, FoundFull, Labels
<1>5. CASE AppendMessage(p)
  <2>1. /\ pc[p] = "append" /\ pc'[p] = "frame" /\ my'[p].id = PositionOf(RawTail(p)) + 1
        /\ my'[p].length = my[p].length
        /\ \A q \in Publishers \ {p} : UNCHANGED <<pc[q], my[q]>>
    BY Zenon, <1>5, Tables DEF AppendMessage, Goto, NoLocals
  <2>2. PositionOf(RawTail(p)) + 1 # Pad
    <3>1. RawTail(p) = tail[MyIndex(p)] /\ RawTail(p).term \in Int /\ RawTail(p).offset \in Nat
      BY Zenon, CallFacts DEF LogInv
    <3>2. my[p].termCount <= RawTail(p).term /\ my[p].termCount \in Nat
      BY Zenon, <2>1, <3>1, TermFacts DEF TermInv, Labels
    <3>3. RawTail(p).term * TermLength \in Nat
      BY <3>1, <3>2, TermAssumption
    <3> QED BY <3>1, <3>3 DEF PositionOf, ComputeTermBeginPosition, Pad
  <2> QED BY Zenon, <1>2, <1>3, <2>1, <2>2 DEF FullInv, HasRawTail, FoundFull, Labels
<1>6. CASE HandleEndOfLogCondition(p)
  <2> DEFINE Claimed == /\ pc'[p] \in {"frame", "newPosition"}
                        /\ my'[p].claimed = RawTail(p) /\ my'[p].length = my[p].length
                        /\ \A q \in Publishers \ {p} : UNCHANGED <<pc[q], my[q]>>
  <2>1. pc[p] = "append" /\ Claimed
    <3>1. ASSUME my' = [my EXCEPT ![p].claimed = RawTail(p), ![p].id = Pad, ![p].frame = 1],
                 pc' = [pc EXCEPT ![p] = "frame"]
          PROVE  Claimed
      BY Zenon, <3>1, Tables DEF NoLocals
    <3>2. ASSUME my' = [my EXCEPT ![p].claimed = RawTail(p)], pc' = [pc EXCEPT ![p] = "newPosition"]
          PROVE  Claimed
      BY Zenon, <3>2, Tables DEF NoLocals
    <3> HIDE DEF Claimed
    <3> QED BY Zenon, <1>6, <3>1, <3>2 DEF HandleEndOfLogCondition, Goto
  <2>2. RawTail(p).offset + Required(p) > TermLength
    BY <1>6, CallFacts, TermAssumption DEF HandleEndOfLogCondition, Fits, LogInv
  <2> QED BY Zenon, <1>2, <1>3, <2>1, <2>2 DEF FullInv, HasRawTail, FoundFull, Required, Labels
<1>7. CASE WriteFrame(p) \/ RotateCasTail(p)
  <2>1. /\ my' = my /\ \A q \in Publishers \ {p} : UNCHANGED <<pc[q], my[q]>>
        /\ \/ pc[p] = "frame" /\ pc'[p] = "commit"
           \/ pc[p] = "rotateCas" /\ pc'[p] \in {"newPosition", "termCountCas"}
    BY Zenon, <1>7, Tables DEF WriteFrame, RotateCasTail, Goto
  <2> QED BY Zenon, <1>2, <1>3, <2>1 DEF FullInv, HasRawTail, FoundFull, Required, Labels
<1>8. CASE SetFrameLength(p)
  <2>1. pc[p] = "commit"
    BY Zenon, <1>8 DEF SetFrameLength
  <2>2. CASE MyFrame(p).id = Pad /\ pc' = [pc EXCEPT ![p] = "newPosition"] /\ UNCHANGED my
    <3>1. my[p].id = Pad
      BY Zenon, <2>1, <2>2, PaddingIsPadding
    <3>2. pc'[p] = "newPosition" /\ \A q \in Publishers \ {p} : UNCHANGED <<pc[q], my[q]>>
      BY Zenon, <2>2, Tables
    <3> QED BY Zenon, <1>2, <1>3, <2>1, <2>2, <3>1, <3>2 DEF FullInv, HasRawTail, FoundFull, Required, Labels
  <2>3. CASE MyFrame(p).id # Pad /\ my' = [my EXCEPT ![p].frame = @ + 1] /\ pc' = [pc EXCEPT ![p] = "frame"]
    <3>1. my[p].id # Pad
      BY Zenon, <2>3 DEF MyFrame, PaddingFrame
    <3>2. /\ pc'[p] = "frame" /\ my'[p].id = my[p].id /\ my'[p].length = my[p].length
          /\ \A q \in Publishers \ {p} : UNCHANGED <<pc[q], my[q]>>
      BY Zenon, <2>3, Tables DEF NoLocals
    <3> QED BY Zenon, <1>2, <1>3, <2>1, <3>1, <3>2 DEF FullInv, HasRawTail, FoundFull, Labels
  <2> QED BY Zenon, <1>1, <1>8, <2>2, <2>3 DEF SetFrameLength, Goto
<1>9. CASE RotateLogPanics(p)
  <2>1. /\ pc[p] = "newPosition" /\ pc'[p] = "panicked" /\ my' = my
        /\ \A q \in Publishers \ {p} : UNCHANGED <<pc[q], my[q]>>
        /\ ~ExceedsMaxPosition(p) /\ my[p].termCount + 1 = MaxTerms
    BY Zenon, <1>9, Tables DEF RotateLogPanics, Goto
  <2>2. my[p].claimed # my[p].rawTail
    BY Zenon, <1>3, <2>1, UnmovedTailExceeds
  <2> QED BY Zenon, <1>2, <1>3, <2>1, <2>2 DEF FullInv, HasRawTail, FoundFull, Labels
<1>10. CASE RotateGetTail(p)
  <2>1. /\ pc[p] = "newPosition" /\ pc'[p] \in {"rotateCas", "termCountCas"}
        /\ my'[p].claimed = my[p].claimed /\ my'[p].length = my[p].length
        /\ \A q \in Publishers \ {p} : UNCHANGED <<pc[q], my[q]>>
    BY Zenon, <1>10, Tables DEF RotateGetTail, Goto, NoLocals
  <2> QED BY Zenon, <1>2, <1>3, <2>1 DEF FullInv, HasRawTail, FoundFull, Required, Labels
<1> QED BY Zenon, <1>1, <1>4, <1>5, <1>6, <1>7, <1>8, <1>9, <1>10
        DEF PublisherStep, ReturnPosition, OfferTermMoved, OfferAtLimit, ReturnMaxPositionExceeded, CasTermCount

LEMMA PanicInvNext == LogInv /\ PanicInv /\ [Next]_vars => PanicInv'
<1> SUFFICES ASSUME LogInv, PanicInv, [Next]_vars PROVE PanicInv'
  BY Zenon
<1>1. ASSUME UNCHANGED <<pc, my>> PROVE PanicInv'
  BY Zenon, <1>1 DEF PanicInv, FullInv, HasRawTail, FoundFull, Required
<1>2. ASSUME PublicationNext PROVE PanicInv'
  BY Zenon, <1>1, <1>2, PanicStep, PanicCalls DEF PublicationNext, ClosePublication, Abort
<1> QED BY Zenon, <1>1, <1>2 DEF Next, vars, pubVars

\* However many goroutines share the publication, RotateLog panics at the end of
\* the stream only in a call whose tail another one moved between its read and
\* its append: a publisher that nobody raced gets MaxPositionExceeded.
THEOREM EndOfStreamIsReported == Spec => []RotatePanicIsARace
<1>1. Init => PanicInv
  BY Zenon DEF Init, PublicationInit, PanicInv, FullInv, HasRawTail, FoundFull
<1>2. PanicInv => RotatePanicIsARace
  BY Zenon DEF PanicInv, FullInv, RotatePanicIsARace
<1> QED BY <1>1, <1>2, PanicInvNext, LogInvHolds, PTL DEF Spec
=============================================================================
