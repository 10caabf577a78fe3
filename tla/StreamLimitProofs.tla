--------------------------- MODULE StreamLimitProofs --------------------------
(*****************************************************************************)
(* The invariant of the publishers' checks: how far the log can run over the *)
(* limit, however stale the limit, the term count and the raw tail were that *)
(* a publisher read before it appended.  What the publishers may still       *)
(* append is measured by a function d of sets of publishers that grows by m  *)
(* with each of them.                                                        *)
(*****************************************************************************)
EXTENDS StreamProofs

\* First-order steps are the rule; those with arithmetic say so.
USE Zenon

-----------------------------------------------------------------------------
(* What the publishers may still append.  A publisher that has passed the  *)
(* check owes the log one message.                                         *)

\* The publishers that are about to append to partition l, those that have read the
\* term count and are at it, and those that are at the partition used next: they
\* sleep until a rotation takes it into the latest term.
Live(l)   == {p \in Publishers : pc[p] = "append" /\ MyIndex(p) = l}
Woken(l)  == {p \in Publishers : pc[p] \in {"rawTail", "append"} /\ MyIndex(p) = l}
Asleep(l) == Woken((l + 1) % PartitionCount)

\* No message is longer than m, d grows by m with each publisher, and one message
\* of every publisher fits in a term.
Few(d, m) ==
    /\ m \in Nat \ {0}
    /\ \A n \in Lengths : RequiredLength(n) <= m
    /\ d \in [SUBSET Publishers -> Nat] /\ d[Publishers] <= TermLength
    /\ \A S \in SUBSET Publishers : \A T \in SUBSET S :
          /\ d[T] <= d[S]
          /\ \A p \in S : p \notin T => d[T] + m <= d[S]

LEMMA DebtGrows ==
    ASSUME NEW d, NEW m, Few(d, m), NEW S \in SUBSET Publishers, NEW T \in SUBSET S
    PROVE  /\ d[T] <= d[S]
           /\ \A p \in S : p \notin T => d[T] + m <= d[S]
  BY DEF Few

-----------------------------------------------------------------------------
(* How far the log runs over the limit.                                    *)

Begin(l) == ComputeTermBeginPosition(tail[l].term)
End(l)   == TailPosition(tail[l])

IsLast(l) == \A i \in Partitions : tail[i].term <= tail[l].term

\* While the count is behind, only those append to the latest term that read the
\* count of an earlier turn; the log runs over the limit by one message for each
\* publisher that has passed the check and not appended; and when the limit is in
\* an earlier term nobody passes it.
LimitAt(d, m, l) ==
    LET all == d[Publishers] IN
    /\ activeTermCount \in {tail[l].term - 1, tail[l].term}
    /\ activeTermCount = tail[l].term - 1 => End(l) + d[Woken(l)] + m <= Begin(l) + all
    /\ pubLimit > Begin(l) => End(l) + d[Live(l) \cup Asleep(l)] < pubLimit + all
    /\ pubLimit <= Begin(l) => /\ End(l) + d[Live(l) \cup Asleep(l)] + m <= Begin(l) + all
                               /\ End(l) + d[Live(l)] < pubLimit + all

LimitInv(d, m) == \A l \in Partitions : IsLast(l) => LimitAt(d, m, l)

LEMMA PositionFacts ==
    ASSUME NEW raw \in RawTails
    PROVE  /\ ComputeTermBeginPosition(raw.term) \in Int /\ TailPosition(raw) \in Int
           /\ PositionOf(raw) \in Int
           /\ ComputeTermBeginPosition(raw.term) <= TailPosition(raw)
           /\ TailPosition(raw) <= PositionOf(raw)
           /\ TailPosition(raw) <= ComputeTermBeginPosition(raw.term) + TermLength
<1>1. raw.term \in Int /\ raw.offset \in Nat /\ TermLength \in Nat \ {0}
  BY TermAssumption DEF RawTails
<1> DEFINE b == raw.term * TermLength
<1>2. b \in Int
  BY SMT, <1>1
<1>3. /\ TailPosition(raw) = b + (IF raw.offset < TermLength THEN raw.offset ELSE TermLength)
      /\ PositionOf(raw) = b + raw.offset /\ ComputeTermBeginPosition(raw.term) = b
  BY DEF TailPosition, PositionOf, ComputeTermBeginPosition
<1> HIDE DEF b
<1> QED BY SMT, <1>1, <1>2, <1>3

\* The sets of publishers, of the latest term and of the one that comes next.
LEMMA SetTypes ==
    ASSUME NEW l
    PROVE  /\ Live(l) \in SUBSET Publishers /\ Woken(l) \in SUBSET Publishers
           /\ Asleep(l) \in SUBSET Publishers /\ Live(l) \cup Asleep(l) \in SUBSET Publishers
           /\ Live(l) \subseteq Woken(l)
  BY DEF Live, Woken, Asleep

LEMMA LimitTypes ==
    ASSUME LogInv, NEW d, NEW m, Few(d, m), NEW l \in Partitions
    PROVE  /\ tail[l] \in RawTails /\ tail[l].term \in Int
           /\ Begin(l) \in Int /\ End(l) \in Int /\ m \in Nat \ {0} /\ TermLength \in Nat \ {0}
           /\ Begin(l) <= End(l) /\ End(l) <= Begin(l) + TermLength
           /\ d[Publishers] \in Nat /\ d[Publishers] <= TermLength
           /\ \A S \in SUBSET Publishers : d[S] \in Nat /\ d[S] <= d[Publishers]
<1>1. tail[l] \in RawTails /\ tail[l].term \in Int
  BY TailTypes DEF LogInv
<1>2. /\ Begin(l) \in Int /\ End(l) \in Int /\ Begin(l) <= End(l) /\ End(l) <= Begin(l) + TermLength
  BY <1>1, PositionFacts DEF Begin, End
<1>3. m \in Nat \ {0} /\ TermLength \in Nat \ {0}
  BY TermAssumption DEF Few
<1>4. Publishers \in SUBSET Publishers
  OBVIOUS
<1>5. d[Publishers] \in Nat /\ d[Publishers] <= TermLength
  BY <1>4 DEF Few
<1>6. ASSUME NEW S \in SUBSET Publishers PROVE d[S] \in Nat /\ d[S] <= d[Publishers]
  BY <1>4, DebtGrows DEF Few
<1> QED BY <1>1, <1>2, <1>3, <1>5, <1>6

\* A step within the term: nobody comes to append who was not there, and when
\* the log grows it is by a message of one who was.
WithinTheTerm(m, l) ==
    /\ tail'[l].term = tail[l].term /\ activeTermCount' = activeTermCount
    /\ pubLimit \in Int /\ pubLimit' \in Int /\ pubLimit <= pubLimit'
    /\ Live(l)' \subseteq Live(l) /\ Woken(l)' \subseteq Woken(l) /\ Asleep(l)' \subseteq Asleep(l)
    /\ \/ End(l)' = End(l)
       \/ \E p \in Live(l) : /\ p \notin Woken(l)' /\ p \notin Live(l)' /\ p \notin Asleep(l)'
                             /\ End(l)' <= End(l) + m

LEMMA WithinTheTermKeeps ==
    ASSUME LogInv, LogInv', NEW d, NEW m, Few(d, m), NEW l \in Partitions, LimitAt(d, m, l), WithinTheTerm(m, l)
    PROVE  LimitAt(d, m, l)'
<1> DEFINE all == d[Publishers]
           w == d[Woken(l)]
           v == d[Live(l)]
           x == d[Live(l) \cup Asleep(l)]
           w2 == d[Woken(l)']
           v2 == d[Live(l)']
           x2 == d[(Live(l) \cup Asleep(l))']
<1>1. /\ Begin(l) \in Int /\ End(l) \in Int /\ m \in Nat \ {0} /\ all \in Nat
      /\ \A S \in SUBSET Publishers : d[S] \in Nat
      /\ tail[l].term \in Int
  BY LimitTypes
<1>2. /\ Live(l) \in SUBSET Publishers /\ Woken(l) \in SUBSET Publishers
      /\ Live(l) \cup Asleep(l) \in SUBSET Publishers /\ Live(l) \subseteq Woken(l)
  BY SetTypes
<1>3. /\ Live(l)' \in SUBSET Live(l) /\ Woken(l)' \in SUBSET Woken(l)
      /\ (Live(l) \cup Asleep(l))' \in SUBSET (Live(l) \cup Asleep(l))
  BY DEF WithinTheTerm
<1>4. w \in Nat /\ v \in Nat /\ x \in Nat /\ w2 \in Nat /\ v2 \in Nat /\ x2 \in Nat
  BY <1>1, <1>2, <1>3
<1>5. w2 <= w /\ v2 <= v /\ x2 <= x
  BY <1>2, <1>3, DebtGrows
<1>6. \/ End(l)' = End(l)
      \/ End(l)' <= End(l) + m /\ w2 + m <= w /\ v2 + m <= v /\ x2 + m <= x
  <2>1. ASSUME NEW p \in Live(l), p \notin Woken(l)', p \notin Live(l)', p \notin Asleep(l)'
        PROVE  w2 + m <= w /\ v2 + m <= v /\ x2 + m <= x
    <3>1. p \in Woken(l) /\ p \in Live(l) \cup Asleep(l) /\ p \notin (Live(l) \cup Asleep(l))'
      BY <1>2, <2>1
    <3> QED BY <1>2, <1>3, <2>1, <3>1, DebtGrows
  <2> QED BY <2>1 DEF WithinTheTerm
<1>7. Begin(l)' = Begin(l) /\ End(l)' \in Int
  <2>1. tail' \in [Partitions -> RawTails]
    BY DEF LogInv, ReturnInv, TailInv
  <2>2. tail'[l] \in RawTails
    BY <2>1
  <2>3. End(l)' \in Int
    BY <2>2, PositionFacts DEF End
  <2> QED BY <2>3 DEF Begin, WithinTheTerm
<1>8. /\ activeTermCount' \in {tail'[l].term - 1, tail'[l].term}
      /\ activeTermCount' = tail'[l].term - 1 => activeTermCount = tail[l].term - 1
  BY DEF LimitAt, WithinTheTerm
<1>9. pubLimit \in Int /\ pubLimit' \in Int /\ pubLimit <= pubLimit'
  BY DEF WithinTheTerm
<1>10. /\ activeTermCount = tail[l].term - 1 => End(l) + w + m <= Begin(l) + all
       /\ pubLimit > Begin(l) => End(l) + x < pubLimit + all
       /\ pubLimit <= Begin(l) => End(l) + x + m <= Begin(l) + all /\ End(l) + v < pubLimit + all
  BY DEF LimitAt
<1> HIDE DEF all, w, v, x, w2, v2, x2
<1>11. activeTermCount' = tail'[l].term - 1 => End(l)' + w2 + m <= Begin(l)' + all
  BY SMT, <1>1, <1>4, <1>5, <1>6, <1>7, <1>8, <1>10
<1>12. pubLimit' > Begin(l)' => End(l)' + x2 < pubLimit' + all
  BY SMT, <1>1, <1>4, <1>5, <1>6, <1>7, <1>9, <1>10
<1>13. pubLimit' <= Begin(l)' => End(l)' + x2 + m <= Begin(l)' + all /\ End(l)' + v2 < pubLimit' + all
  BY SMT, <1>1, <1>4, <1>5, <1>6, <1>7, <1>9, <1>10
<1> QED BY <1>8, <1>11, <1>12, <1>13 DEF LimitAt, all, w2, v2, x2

-----------------------------------------------------------------------------
(* The locals of the checks, the memory, and the poll under way.           *)

Addresses == 0..(PartitionCount * TermLength - 1)
Cells     == [length : Int, id : Int, term : Int, flags : SUBSET {BeginFrag, EndFrag}]

PollLocals == [kind : Polls, index : Partitions, initialPosition : Nat, initialOffset : Nat, offset : Nat,
               limitOffset : Int, fragmentsRead : Nat, fragmentLimit : FragmentLimits]

\* A poll starts from the subscriber position and goes forward, within the term.
PollInv ==
    /\ poll \in PollLocals /\ poll.initialPosition = subscriberPosition
    /\ poll.initialOffset <= poll.offset /\ poll.limitOffset <= TermLength

ReaderInv ==
    /\ memory \in [Addresses -> Cells]
    /\ pubLimit \in Int /\ subscriberPosition \in Nat /\ CleanPosition <= subscriberPosition
    /\ poll # NoPoll => PollInv

\* The limit a publisher compares with is the one that holds, or an earlier one,
\* and what it appends is a message it may send.
CheckInv(p) ==
    /\ pc[p] \in {"termCount", "rawTail"} => my[p].limit \in Int /\ my[p].limit <= pubLimit
    /\ pc[p] # "idle" => \/ my[p].length \in Lengths
                         \/ my[p].kind = "position" /\ pc[p] \in {"termCount", "rawTail"}
    /\ my[p].id \in Int

ChecksInv == ReaderInv /\ \A p \in Publishers : CheckInv(p)

LEMMA CleanType ==
    ASSUME ReaderInv
    PROVE  /\ Window \in Nat \ {0} /\ TermLength \in Nat \ {0} /\ 2 * Window <= TermLength
           /\ CleanPosition \in Int /\ CleanPosition = pubLimit - Window
  BY SMT, WindowAssumption, TermAssumption DEF ReaderInv, CleanPosition

\* The unit that the loop looks at.
LEMMA UnitType ==
    ASSUME ReaderInv, poll # NoPoll, NEW o \in Nat, o < TermLength
    PROVE  Unit(o) \in Cells /\ Unit(o).length \in Int /\ poll.index * TermLength + o \in Addresses
<1>1. poll.index \in 0..2 /\ TermLength \in Nat \ {0}
  BY SMT, TermAssumption DEF ReaderInv, PollInv, PollLocals, Partitions, PartitionCount
<1>2. poll.index * TermLength + o \in Addresses
  <2>1. poll.index = 0 \/ poll.index = 1 \/ poll.index = 2
    BY SMT, <1>1
  <2> QED BY SMT, <1>1, <2>1 DEF Addresses, PartitionCount
<1>3. Unit(o) \in Cells
  BY <1>2 DEF Unit, ReaderInv
<1> QED BY <1>2, <1>3 DEF Cells

LEMMA FrameReadyFacts ==
    ASSUME ReaderInv, FrameReady
    PROVE  /\ PollInv /\ poll.offset \in Nat /\ poll.offset < TermLength
           /\ Unit(poll.offset) \in Cells /\ Unit(poll.offset).length \in Nat \ {0}
           /\ Advanced \in Nat /\ Advanced > poll.offset
<1>1. PollInv /\ poll # NoPoll /\ poll.offset < poll.limitOffset /\ Unit(poll.offset).length > 0
  BY DEF FrameReady, ReaderInv
<1>2. poll.offset \in Nat /\ poll.limitOffset \in Int /\ poll.limitOffset <= TermLength /\ TermLength \in Nat
  BY <1>1, TermAssumption DEF PollInv, PollLocals
<1>3. poll.offset < TermLength
  BY SMT, <1>1, <1>2
<1>4. Unit(poll.offset) \in Cells /\ Unit(poll.offset).length \in Int
  BY <1>1, <1>2, <1>3, UnitType
<1>5. Unit(poll.offset).length \in Nat \ {0}
  BY SMT, <1>1, <1>4
<1>6. Advanced = poll.offset + Unit(poll.offset).length
  BY DEF Advanced
<1> DEFINE u == Unit(poll.offset).length
<1>7. u \in Nat \ {0}
  BY <1>5
<1> HIDE DEF u
<1>8. poll.offset + u \in Nat /\ poll.offset + u > poll.offset
  BY SMT, <1>2, <1>7
<1> QED BY <1>1, <1>2, <1>3, <1>4, <1>5, <1>6, <1>8 DEF u

\* The position only goes forward.
LEMMA PositionGoesForward ==
    ASSUME ReaderInv, PollInv, NEW o \in Nat, poll.offset <= o
    PROVE  /\ ResultingPosition(o) \in Nat /\ ResultingPosition(o) >= subscriberPosition
           /\ SetPosition(o) => subscriberPosition' = ResultingPosition(o)
<1>1. /\ poll.initialPosition = subscriberPosition /\ poll.initialOffset <= poll.offset
      /\ poll.initialOffset \in Nat /\ poll.offset \in Nat /\ subscriberPosition \in Nat
  BY DEF ReaderInv, PollInv, PollLocals
<1>2. ResultingPosition(o) = subscriberPosition + (o - poll.initialOffset)
  BY <1>1 DEF ResultingPosition
<1>3. ResultingPosition(o) \in Nat /\ ResultingPosition(o) >= subscriberPosition
  BY SMT, <1>1, <1>2
<1>4. ASSUME SetPosition(o) PROVE subscriberPosition' = ResultingPosition(o)
  <2>1. subscriberPosition' = IF ResultingPosition(o) > subscriberPosition
                              THEN ResultingPosition(o) ELSE subscriberPosition
    BY <1>1, <1>4 DEF SetPosition
  <2> QED BY SMT, <1>1, <1>3, <2>1
<1> QED BY <1>3, <1>4

\* The log and the limit are left alone, and the position goes forward.
LEMMA ReaderStep ==
    ASSUME ReaderInv, UNCHANGED <<memory, pubLimit>>, subscriberPosition' \in Nat,
           subscriberPosition <= subscriberPosition', poll' # NoPoll => PollInv'
    PROVE  ReaderInv'
<1>1. CleanPosition' = CleanPosition /\ CleanPosition \in Int
  BY CleanType DEF CleanPosition
<1>2. subscriberPosition \in Nat /\ CleanPosition <= subscriberPosition
  BY DEF ReaderInv
<1>3. CleanPosition <= subscriberPosition'
  BY SMT, <1>1, <1>2
<1> QED BY <1>1, <1>3 DEF ReaderInv

\* A poll begins at the subscriber position and stops at the end of the term.
LEMMA StartPollKeeps ==
    ASSUME ReaderInv, NEW kind, NEW n \in FragmentLimits, NEW limit \in Int, limit <= TermLength,
           StartPoll(kind, n, limit)
    PROVE  ReaderInv' /\ UNCHANGED <<pubLimit, subscriberPosition>>
<1>1. /\ kind \in Polls
      /\ poll' = [kind |-> kind, index |-> IndexByPosition(subscriberPosition),
                initialPosition |-> subscriberPosition,
                initialOffset |-> subscriberPosition % TermLength,
                offset |-> subscriberPosition % TermLength,
                limitOffset |-> limit, fragmentsRead |-> 0,
                fragmentLimit |-> n]
      /\ UNCHANGED <<memory, pubLimit, subscriberPosition>>
  BY DEF StartPoll, logVars
<1>2. subscriberPosition \in Nat /\ TermLength \in Nat \ {0}
  BY TermAssumption DEF ReaderInv
<1>3. IndexByPosition(subscriberPosition) \in Partitions /\ subscriberPosition % TermLength \in Nat
  <2>1. subscriberPosition \div TermLength \in Int /\ subscriberPosition % TermLength \in Nat
    BY SMT, <1>2
  <2>2. (subscriberPosition \div TermLength) % 3 \in 0..2
    BY SMT, <2>1
  <2> QED BY SMT, <2>1, <2>2 DEF IndexByPosition, Partitions, PartitionCount
<1>4. PollInv'
  <2> DEFINE i == IndexByPosition(subscriberPosition)
             o == subscriberPosition % TermLength
  <2>1. i \in Partitions /\ o \in Nat
    BY <1>3
  <2>2. poll' = [kind |-> kind, index |-> i, initialPosition |-> subscriberPosition, initialOffset |-> o,
                 offset |-> o, limitOffset |-> limit, fragmentsRead |-> 0, fragmentLimit |-> n]
    BY <1>1
  <2> HIDE DEF i, o
  <2>3. 0 \in Nat /\ o <= o
    BY SMT, <2>1
  <2>4. poll' \in PollLocals
    BY SMT, <1>1, <1>2, <2>1, <2>2, <2>3 DEF PollLocals
  <2>5. poll'.initialPosition = subscriberPosition' /\ poll'.initialOffset = o /\ poll'.offset = o /\ poll'.limitOffset = limit
    BY SMT, <1>1, <2>2
  <2> QED BY <2>3, <2>4, <2>5 DEF PollInv
<1>5. subscriberPosition' \in Nat /\ subscriberPosition <= subscriberPosition'
  BY SMT, <1>1, <1>2
<1> QED BY <1>1, <1>4, <1>5, ReaderStep

LEMMA PollCallKeeps ==
    ASSUME ReaderInv, PollCall
    PROVE  ReaderInv' /\ UNCHANGED <<pubLimit, subscriberPosition>>
<1>1. TermLength \in Nat \ {0} /\ TermLength <= TermLength /\ subscriberPosition \in Nat
  BY SMT, TermAssumption DEF ReaderInv
<1>2. ASSUME NEW d \in LimitDistances
      PROVE  LET b == BoundedLimitOffset(subscriberPosition + d, subscriberPosition, subscriberPosition % TermLength)
             IN  b \in Int /\ b <= TermLength
  <2> DEFINE h == Int32Modulus \div 2
             x == (subscriberPosition + d) - subscriberPosition
             r == (x + h) % Int32Modulus
             o == subscriberPosition % TermLength
             y == (r - h) + o
  <2>1. Int32Modulus \in Nat \ {0} /\ d \in Int
    BY PollAssumption
  <2>2. h \in Int /\ x \in Int /\ o \in Int
    BY SMT, <1>1, <2>1
  <2>3. ToInt32(x) = r - h
    BY DEF ToInt32
  <2>4. BoundedLimitOffset(subscriberPosition + d, subscriberPosition, o) = IF y > TermLength THEN TermLength ELSE y
    BY <2>3 DEF BoundedLimitOffset
  <2> HIDE DEF h, x, o
  <2>5. r \in Int
    BY SMT, <2>1, <2>2
  <2> HIDE DEF r
  <2>6. y \in Int
    BY SMT, <2>2, <2>5
  <2> HIDE DEF y
  <2>7. (IF y > TermLength THEN TermLength ELSE y) \in Int /\ (IF y > TermLength THEN TermLength ELSE y) <= TermLength
    BY SMT, <1>1, <2>6
  <2> QED BY <2>4, <2>7 DEF o
<1>3. TermLength \in Int
  BY SMT, <1>1
<1>4. ASSUME NEW n \in FragmentLimits, Poll(n) \/ ControlledPoll(n)
      PROVE  ReaderInv' /\ UNCHANGED <<pubLimit, subscriberPosition>>
  BY <1>1, <1>3, <1>4, StartPollKeeps DEF Poll, ControlledPoll
<1>5. ASSUME NEW n \in FragmentLimits, NEW d \in LimitDistances, BoundedPoll(n, d)
      PROVE  ReaderInv' /\ UNCHANGED <<pubLimit, subscriberPosition>>
  <2>1. PICK b : b = BoundedLimitOffset(subscriberPosition + d, subscriberPosition, subscriberPosition % TermLength)
    OBVIOUS
  <2>2. b \in Int /\ b <= TermLength /\ StartPoll("bounded", n, b)
    BY <1>2, <1>5, <2>1 DEF BoundedPoll
  <2> QED BY <2>2, StartPollKeeps
<1> QED BY <1>4, <1>5 DEF PollCall

\* The poll goes on behind the frame.
LEMMA PollGoesOn ==
    ASSUME ReaderInv, FrameReady, NEW n \in Nat, UNCHANGED subscriberPosition,
           poll' = [[poll EXCEPT !.offset = Advanced] EXCEPT !.fragmentsRead = n]
    PROVE  PollInv'
<1>1. PollInv /\ poll.offset \in Nat /\ Advanced \in Nat /\ Advanced > poll.offset
  BY FrameReadyFacts
<1>2. PICK a \in Nat : a = Advanced
  BY <1>1
<1>3. poll \in PollLocals /\ poll.initialOffset \in Nat /\ poll.initialOffset <= a
  <2>1. poll \in PollLocals /\ poll.initialOffset \in Nat /\ poll.initialOffset <= poll.offset
    BY <1>1 DEF PollInv, PollLocals
  <2> QED BY SMT, <1>1, <1>2, <2>1
<1>4. poll' = [[poll EXCEPT !.offset = a] EXCEPT !.fragmentsRead = n]
  BY <1>2
<1>5. poll' \in PollLocals
  BY <1>3, <1>4 DEF PollLocals
<1>6. /\ poll'.initialPosition = poll.initialPosition /\ poll'.initialOffset = poll.initialOffset
      /\ poll'.offset = a /\ poll'.limitOffset = poll.limitOffset
  BY <1>3, <1>4 DEF PollLocals
<1> QED BY <1>1, <1>3, <1>5, <1>6 DEF PollInv

LEMMA PollStepKeeps ==
    ASSUME ReaderInv, SkipPadding \/ HandleFragment \/ HandlerAborts \/ HandlerBreaks \/ HandlerCommits \/ EndPoll
    PROVE  ReaderInv' /\ UNCHANGED pubLimit /\ subscriberPosition <= subscriberPosition'
<1>0. subscriberPosition \in Nat /\ subscriberPosition <= subscriberPosition
  BY SMT DEF ReaderInv
<1>1. ASSUME SkipPadding PROVE ReaderInv' /\ UNCHANGED <<pubLimit, subscriberPosition>>
  <2>1. FrameReady /\ poll' = [poll EXCEPT !.offset = Advanced] /\ UNCHANGED <<memory, pubLimit, subscriberPosition>>
    BY <1>1 DEF SkipPadding, logVars
  <2>2. poll \in PollLocals
    BY <2>1, FrameReadyFacts DEF PollInv
  <2>3. PICK a : a = Advanced
    OBVIOUS
  <2>4. PICK n \in Nat : n = poll.fragmentsRead
    BY <2>2 DEF PollLocals
  <2>5. [poll EXCEPT !.offset = a] = [[poll EXCEPT !.offset = a] EXCEPT !.fragmentsRead = n]
    BY <2>2, <2>4 DEF PollLocals
  <2>6. PollInv'
    BY <2>1, <2>3, <2>4, <2>5, PollGoesOn
  <2> QED BY <1>0, <2>1, <2>6, ReaderStep
<1>2. ASSUME HandleFragment PROVE ReaderInv' /\ UNCHANGED <<pubLimit, subscriberPosition>>
  <2>1. /\ FrameReady /\ poll' = [poll EXCEPT !.offset = Advanced, !.fragmentsRead = @ + 1]
        /\ UNCHANGED <<memory, pubLimit, subscriberPosition>>
    BY <1>2 DEF HandleFragment
  <2>2. poll \in PollLocals
    BY <2>1, FrameReadyFacts DEF PollInv
  <2>3. PICK a : a = Advanced
    OBVIOUS
  <2>4. PICK n \in Nat : n = poll.fragmentsRead + 1
    BY SMT, <2>2 DEF PollLocals
  <2>5. poll' = [[poll EXCEPT !.offset = a] EXCEPT !.fragmentsRead = n]
    BY SMT, <2>1, <2>2, <2>3, <2>4 DEF PollLocals
  <2>6. PollInv'
    BY <2>1, <2>3, <2>4, <2>5, PollGoesOn
  <2> QED BY <1>0, <2>1, <2>6, ReaderStep
<1>3. ASSUME NEW o \in Nat, PollInv, poll.offset <= o, SetPosition(o), poll' = NoPoll, UNCHANGED <<memory, pubLimit>>
      PROVE  ReaderInv' /\ subscriberPosition <= subscriberPosition'
  <2>1. ResultingPosition(o) \in Nat /\ ResultingPosition(o) >= subscriberPosition
        /\ subscriberPosition' = ResultingPosition(o)
    BY <1>3, PositionGoesForward
  <2>2. subscriberPosition' \in Nat /\ subscriberPosition <= subscriberPosition'
    BY SMT, <1>0, <2>1
  <2> QED BY <1>3, <2>2, ReaderStep
<1>4. ASSUME HandlerAborts \/ HandlerBreaks PROVE ReaderInv' /\ UNCHANGED pubLimit /\ subscriberPosition <= subscriberPosition'
  <2>1. FrameReady /\ poll' = NoPoll /\ UNCHANGED <<memory, pubLimit>> /\ (SetPosition(poll.offset) \/ SetPosition(Advanced))
    BY <1>4 DEF HandlerAborts, HandlerBreaks
  <2>2. PollInv /\ poll.offset \in Nat /\ Advanced \in Nat /\ poll.offset <= poll.offset /\ poll.offset <= Advanced
    BY SMT, <2>1, FrameReadyFacts
  <2> QED BY <1>3, <2>1, <2>2
<1>5. ASSUME EndPoll PROVE ReaderInv' /\ UNCHANGED pubLimit /\ subscriberPosition <= subscriberPosition'
  <2>1. poll # NoPoll /\ poll' = NoPoll /\ UNCHANGED <<memory, pubLimit>> /\ SetPosition(poll.offset)
    BY <1>5 DEF EndPoll
  <2>2. PollInv /\ poll.offset \in Nat
    BY <2>1 DEF ReaderInv, PollInv, PollLocals
  <2>3. poll.offset <= poll.offset
    BY SMT, <2>2
  <2> QED BY <1>3, <2>1, <2>2, <2>3
<1>6. ASSUME HandlerCommits PROVE ReaderInv' /\ UNCHANGED pubLimit /\ subscriberPosition <= subscriberPosition'
  <2>1. /\ FrameReady /\ subscriberPosition' = ResultingPosition(Advanced) /\ UNCHANGED <<memory, pubLimit>>
        /\ poll' = [poll EXCEPT !.initialPosition = ResultingPosition(Advanced),
                            !.initialOffset = Advanced, !.offset = Advanced,
                            !.fragmentsRead = @ + 1]
    BY <1>6 DEF HandlerCommits
  <2>2. PollInv /\ poll.offset \in Nat /\ Advanced \in Nat /\ poll.offset <= Advanced
    BY SMT, <2>1, FrameReadyFacts
  <2>3. PICK a \in Nat : a = Advanced
    BY <2>2
  <2>4. PICK r \in Nat : r = ResultingPosition(a) /\ r >= subscriberPosition
    BY <2>2, <2>3, PositionGoesForward
  <2>5. poll \in PollLocals /\ poll.limitOffset <= TermLength
    BY <2>2 DEF PollInv
  <2>6. poll' = [poll EXCEPT !.initialPosition = r, !.initialOffset = a, !.offset = a, !.fragmentsRead = @ + 1]
    BY <2>1, <2>3, <2>4
  <2>7. PICK q \in PollLocals : q = [poll EXCEPT !.initialPosition = r, !.initialOffset = a]
    BY <2>5 DEF PollLocals
  <2>8. /\ poll' \in PollLocals /\ poll'.initialPosition = r /\ poll'.initialOffset = a
        /\ poll'.offset = a /\ poll'.limitOffset = poll.limitOffset
    <3>1. q.initialPosition = r /\ q.initialOffset = a /\ q.limitOffset = poll.limitOffset
          /\ q.fragmentsRead = poll.fragmentsRead /\ poll.fragmentsRead \in Nat
      BY SMT, <2>5, <2>7 DEF PollLocals
    <3>2. poll' = [q EXCEPT !.offset = a, !.fragmentsRead = poll.fragmentsRead + 1]
      BY SMT, <2>5, <2>6, <2>7 DEF PollLocals
    <3>3. PICK n \in Nat : n = poll.fragmentsRead + 1
      BY SMT, <3>1
    <3>4. poll' = [q EXCEPT !.offset = a, !.fragmentsRead = n]
      BY <3>2, <3>3
    <3> QED BY <2>7, <3>1, <3>4 DEF PollLocals
  <2>9. subscriberPosition' = r /\ a <= a /\ subscriberPosition <= r
    BY SMT, <1>0, <2>1, <2>3, <2>4
  <2>10. PollInv'
    BY <2>5, <2>8, <2>9 DEF PollInv
  <2> QED BY <2>1, <2>4, <2>9, <2>10, ReaderStep
<1> QED BY <1>0, <1>1, <1>2, <1>4, <1>5, <1>6

-----------------------------------------------------------------------------
(* What the publishers and the driver write.                               *)

LEMMA MyFrameType ==
    ASSUME LogInv, NEW p \in Publishers, CheckInv(p), pc[p] \in {"frame", "commit"}
    PROVE  MyFrame(p) \in Frames /\ MyFlags(p) \in SUBSET {BeginFrag, EndFrag}
<1>1. my[p].length \in Nat /\ my[p].claimed \in RawTails /\ my[p].id \in Int
  BY DEF LogInv, ReturnInv, CallInv, LocalsOf, CheckInv
<1>2. MyFlags(p) \in SUBSET {BeginFrag, EndFrag}
  BY DEF MyFlags, FlagsOf
<1>3. CASE my[p].id = Pad
  <2>1. MyFrame(p) = PaddingFrame(my[p].claimed)
    BY <1>3 DEF MyFrame
  <2>2. PICK c \in RawTails : c = my[p].claimed
    BY <1>1
  <2>3. c.term \in Int /\ c.offset \in Nat /\ TermLength - c.offset \in Int /\ Pad \in Int /\ 1 \in Nat
    BY SMT, TermAssumption DEF RawTails, Pad
  <2>4. PaddingFrame(c) \in Frames
    BY <2>3 DEF PaddingFrame, Frames
  <2> QED BY <1>2, <2>1, <2>2, <2>4
<1>4. CASE my[p].id # Pad
  <2>1. MyFrame(p) = FramesOf(my[p].length, my[p].claimed, my[p].id)[my[p].frame]
    BY <1>4 DEF MyFrame
  <2>2. my[p].frame \in 1..Len(FrameLengths(my[p].length))
    BY <1>4, TermFacts DEF TermInv
  <2>3. PICK fs : fs = FramesOf(my[p].length, my[p].claimed, my[p].id)
    OBVIOUS
  <2>4. Adjoining(fs, my[p].length, my[p].claimed, my[p].id)
    BY <1>1, <2>3, FramesOfAdjoin
  <2>5. fs \in Seq(Frames) /\ my[p].frame \in 1..Len(fs)
    BY <2>2, <2>4 DEF Adjoining
  <2>6. fs[my[p].frame] \in Frames
    BY <2>5, SeqFacts
  <2> QED BY <1>2, <2>1, <2>3, <2>6
<1> QED BY <1>3, <1>4

\* The memory is written, and nothing else that the reader sees.
LEMMA MemoryStep ==
    ASSUME ReaderInv, memory' \in [Addresses -> Cells], UNCHANGED <<pubLimit, subscriberPosition, poll>>
    PROVE  ReaderInv'
  BY DEF ReaderInv, PollInv, CleanPosition

LEMMA WriteFrameMemory ==
    ASSUME LogInv, ReaderInv, NEW p \in Publishers, CheckInv(p), WriteFrame(p)
    PROVE  memory' \in [Addresses -> Cells]
<1>1. PICK f \in Frames : f = MyFrame(p)
  BY MyFrameType DEF WriteFrame
<1>2. PICK flags \in SUBSET {BeginFrag, EndFrag} : flags = MyFlags(p)
  BY MyFrameType DEF WriteFrame
<1>3. memory' = WithFrame(f, - f.length, flags)
  BY <1>1, <1>2 DEF WriteFrame
<1>4. f.length \in Int /\ f.id \in Int /\ f.term \in Int /\ -f.length \in Int /\ 1 \in Int /\ {} \in SUBSET {BeginFrag, EndFrag}
  BY SMT, <1>1 DEF Frames
<1>5. memory \in [Addresses -> Cells]
  BY DEF ReaderInv
<1>6. /\ [length |-> -f.length, id |-> f.id, term |-> f.term, flags |-> flags] \in Cells
      /\ [length |-> 1, id |-> f.id, term |-> f.term, flags |-> {}] \in Cells
  BY <1>2, <1>4 DEF Cells
<1> QED BY <1>3, <1>5, <1>6 DEF WithFrame

LEMMA AbortMemory ==
    ASSUME ReaderInv, NEW p \in Publishers, Abort(p)
    PROVE  memory' \in [Addresses -> Cells]
<1>1. PICK a : memory' = [memory EXCEPT ![a].id = Pad]
  BY DEF Abort
<1>2. Pad \in Int
  BY SMT DEF Pad
<1>3. memory \in [Addresses -> Cells]
  BY DEF ReaderInv
<1>4. a \in Addresses => [memory[a] EXCEPT !.id = Pad] \in Cells
  BY <1>2, <1>3 DEF Cells
<1> QED BY <1>1, <1>3, <1>4

LEMMA SetFrameLengthMemory ==
    ASSUME LogInv, ReaderInv, NEW p \in Publishers, CheckInv(p), SetFrameLength(p)
    PROVE  memory' \in [Addresses -> Cells]
<1>1. PICK f \in Frames : f = MyFrame(p)
  BY MyFrameType DEF SetFrameLength
<1>2. PICK a : memory' = [memory EXCEPT ![a].length = f.length]
  BY <1>1 DEF SetFrameLength
<1>3. memory \in [Addresses -> Cells] /\ f.length \in Int
  BY <1>1 DEF ReaderInv, Frames
<1>4. a \in Addresses => [memory[a] EXCEPT !.length = f.length] \in Cells
  BY <1>3 DEF Cells
<1> QED BY <1>2, <1>3, <1>4

\* The driver moves the limit forward, to the window behind the position.
LEMMA LimitMoves ==
    ASSUME ReaderInv, UpdatePublisherLimit, UNCHANGED poll
    PROVE  ReaderInv' /\ pubLimit < pubLimit' /\ UNCHANGED subscriberPosition
<1>1. /\ CleanPosition # subscriberPosition /\ pubLimit' = subscriberPosition + Window
      /\ UNCHANGED subscriberPosition /\ DOMAIN memory' = DOMAIN memory
      /\ \A a \in DOMAIN memory : memory'[a] = ZeroCell \/ memory'[a] = memory[a]
      /\ memory' = [a \in DOMAIN memory |-> memory'[a]]
  BY DEF UpdatePublisherLimit
<1>2. /\ pubLimit \in Int /\ subscriberPosition \in Nat /\ CleanPosition <= subscriberPosition
      /\ memory \in [Addresses -> Cells]
  BY DEF ReaderInv
<1>3. Window \in Nat \ {0} /\ CleanPosition = pubLimit - Window
  BY CleanType
<1>4. pubLimit' \in Int /\ pubLimit < pubLimit' /\ pubLimit' - Window <= subscriberPosition'
  BY SMT, <1>1, <1>2, <1>3
<1>5. ZeroCell \in Cells
  BY SMT DEF ZeroCell, Cells, Nothing
<1>6. memory' \in [Addresses -> Cells]
  <2>1. DOMAIN memory = Addresses
    BY <1>2
  <2>2. \A a \in Addresses : memory'[a] \in Cells
    BY <1>1, <1>2, <1>5, <2>1
  <2> QED BY <1>1, <2>1, <2>2
<1>7. CleanPosition' <= subscriberPosition'
  BY <1>4 DEF CleanPosition
<1> QED BY <1>1, <1>2, <1>4, <1>6, <1>7 DEF ReaderInv, PollInv

-----------------------------------------------------------------------------
(* The steps and the limit.                                                *)

LEMMA TermStep ==
    ASSUME LogInv, LogInv', NEW d, NEW m, Few(d, m), LimitInv(d, m),
           \A i \in Partitions : tail'[i].term = tail[i].term,
           \A l \in Partitions : IsLast(l) => WithinTheTerm(m, l)
    PROVE  LimitInv(d, m)'
<1>1. ASSUME NEW l \in Partitions, IsLast(l)' PROVE LimitAt(d, m, l)'
  <2>1. IsLast(l)
    BY <1>1 DEF IsLast
  <2>2. LimitAt(d, m, l) /\ WithinTheTerm(m, l)
    BY <2>1 DEF LimitInv
  <2> QED BY <2>2, WithinTheTermKeeps
<1> QED BY <1>1 DEF LimitInv

\* Every publisher stays where it is or is at neither of the two steps.
Leaves == \A q \in Publishers : UNCHANGED <<pc[q], my[q]>> \/ pc'[q] \notin {"rawTail", "append"}

LEMMA SetsShrink ==
    ASSUME Leaves, NEW l
    PROVE  /\ Live(l)' \subseteq Live(l) /\ Woken(l)' \subseteq Woken(l) /\ Asleep(l)' \subseteq Asleep(l)
           /\ \A p \in Publishers : pc'[p] \notin {"rawTail", "append"} =>
                 p \notin Live(l)' /\ p \notin Woken(l)' /\ p \notin Asleep(l)'
<1>1. \A q \in Publishers : pc'[q] \in {"rawTail", "append"} => pc'[q] = pc[q] /\ MyIndex(q)' = MyIndex(q)
  BY DEF Leaves, MyIndex
<1>2. \A k : Live(k)' \subseteq Live(k) /\ Woken(k)' \subseteq Woken(k)
  BY <1>1 DEF Live, Woken
<1>3. Asleep(l)' \subseteq Asleep(l)
  BY <1>2 DEF Asleep
<1>4. ASSUME NEW p \in Publishers, pc'[p] \notin {"rawTail", "append"}
      PROVE  \A k : p \notin Live(k)' /\ p \notin Woken(k)'
  BY <1>4 DEF Live, Woken
<1> QED BY <1>2, <1>3, <1>4 DEF Asleep

LEMMA QuietKeeps ==
    ASSUME LogInv, LogInv', NEW d, NEW m, Few(d, m), LimitInv(d, m), Leaves, UNCHANGED <<tail, activeTermCount>>,
           pubLimit \in Int, pubLimit' \in Int, pubLimit <= pubLimit'
    PROVE  LimitInv(d, m)'
<1>1. ASSUME NEW l \in Partitions PROVE WithinTheTerm(m, l)
  <2>1. /\ Live(l)' \subseteq Live(l) /\ Woken(l)' \subseteq Woken(l) /\ Asleep(l)' \subseteq Asleep(l)
    BY SetsShrink
  <2>2. End(l)' = End(l)
    BY DEF End
  <2> QED BY <2>1, <2>2 DEF WithinTheTerm
<1> QED BY <1>1, TermStep

\* The latest term's partition, and the two others.
LEMMA IsLastFacts ==
    ASSUME LogInv, NEW l \in Partitions, IsLast(l)
    PROVE  /\ LastIs(l) /\ tail[l].term \in Nat /\ tail[l].term % 3 = l
           /\ (l + 1) % PartitionCount \in Partitions
           /\ tail[(l + 1) % PartitionCount].term = tail[l].term - 2
           /\ \A i \in Partitions : i # l => tail[i].term < tail[l].term
<1>1. PICK k \in Partitions : LastIs(k)
  BY DEF LogInv
<1>2. \A i \in Partitions : tail[i].term \in Int /\ tail[i].term % 3 = i
  BY TailTypes DEF LogInv, PartitionCount
<1>3. /\ tail[k].term \in Nat
      /\ \A i \in Partitions : tail[i].term >= tail[k].term - 2 /\ tail[i].term <= tail[k].term
  BY <1>1, LastFacts
<1>4. tail[k].term = tail[l].term
  <2>1. tail[k].term <= tail[l].term /\ tail[l].term <= tail[k].term
    BY <1>3 DEF IsLast
  <2>2. tail[k].term \in Int /\ tail[l].term \in Int
    BY <1>2
  <2> QED BY SMT, <2>1, <2>2
<1>5. k = l
  BY <1>2, <1>4
<1>6. (l + 1) % 3 \in Partitions /\ (l + 1) % 3 # l
  BY SMT DEF Partitions, PartitionCount
<1>7. ASSUME NEW i \in Partitions, i # l PROVE tail[i].term < tail[l].term
  <2>1. tail[i].term # tail[l].term
    BY <1>2, <1>7
  <2> QED BY SMT, <1>2, <1>3, <1>5, <2>1
<1>8. tail[(l + 1) % 3].term = tail[l].term - 2
  <2>1. PICK j \in Partitions : j = (l + 1) % 3
    BY <1>6
  <2>2. tail[j].term \in Int /\ tail[l].term \in Int /\ tail[j].term % 3 = j /\ tail[l].term % 3 = l
        /\ tail[j].term >= tail[l].term - 2 /\ tail[j].term < tail[l].term
    BY <1>2, <1>3, <1>5, <1>6, <1>7, <2>1
  <2>3. tail[j].term = tail[l].term - 2
    BY SMT, <2>1, <2>2 DEF Partitions, PartitionCount
  <2> QED BY <2>1, <2>3
<1> QED BY <1>1, <1>2, <1>3, <1>5, <1>6, <1>7, <1>8 DEF PartitionCount

\* Whoever reads the count will append to the term it stands for: the latest
\* one, or the full one before it.
LEMMA ReadTermCountLimit ==
    ASSUME LogInv, LogInv', NEW d, NEW m, Few(d, m), LimitInv(d, m), NEW p \in Publishers, ReadTermCount(p)
    PROVE  LimitInv(d, m)'
<1>1. UNCHANGED <<tail, activeTermCount, pubLimit>>
  BY DEF ReadTermCount, logVars
<1>2. /\ pc'[p] = "rawTail" /\ my'[p].termCount = activeTermCount /\ pc[p] = "termCount"
      /\ \A q \in Publishers \ {p} : UNCHANGED <<pc[q], my[q]>>
  BY Tables DEF ReadTermCount, Goto, NoLocals
<1>3. MyIndex(p)' = activeTermCount % 3
  BY <1>2 DEF MyIndex, IndexByTermCount, PartitionCount
<1>4. \A q \in Publishers \ {p} : MyIndex(q)' = MyIndex(q) /\ pc'[q] = pc[q]
  BY <1>2 DEF MyIndex
<1>5. ASSUME NEW l \in Partitions, IsLast(l)' PROVE LimitAt(d, m, l)'
  <2>1. IsLast(l)
    BY <1>1, <1>5 DEF IsLast
  <2>2. LimitAt(d, m, l) /\ tail[l].term \in Nat /\ tail[l].term % 3 = l
    BY <2>1, IsLastFacts DEF LimitInv
  <2>3. activeTermCount \in {tail[l].term - 1, tail[l].term}
    BY <2>2 DEF LimitAt
  <2>4. activeTermCount % 3 # (l + 1) % 3 /\ (activeTermCount = tail[l].term - 1 => activeTermCount % 3 # l)
    BY SMT, <2>2, <2>3
  <2>5. Live(l)' = Live(l)
    BY <1>2, <1>4 DEF Live
  <2>6. Asleep(l)' = Asleep(l)
    <3>1. \A q \in Publishers : pc'[q] \in {"rawTail", "append"} /\ MyIndex(q)' = (l + 1) % 3
                             <=> pc[q] \in {"rawTail", "append"} /\ MyIndex(q) = (l + 1) % 3
      BY <1>2, <1>3, <1>4, <2>4
    <3> QED BY <3>1 DEF Asleep, Woken, PartitionCount
  <2>7. activeTermCount = tail[l].term - 1 => Woken(l)' = Woken(l)
    <3>1. ASSUME activeTermCount % 3 # l
          PROVE  \A q \in Publishers : pc'[q] \in {"rawTail", "append"} /\ MyIndex(q)' = l
                             <=> pc[q] \in {"rawTail", "append"} /\ MyIndex(q) = l
      BY <1>2, <1>3, <1>4, <3>1
    <3> QED BY <2>4, <3>1 DEF Woken
  <2>8. End(l)' = End(l) /\ Begin(l)' = Begin(l)
    BY <1>1 DEF End, Begin
  <2> QED BY <1>1, <2>2, <2>5, <2>6, <2>7, <2>8 DEF LimitAt
<1> QED BY <1>5 DEF LimitInv

\* Whoever passes the check in the latest term found the log below the limit.
LEMMA ReadRawTailLimit ==
    ASSUME LogInv, LogInv', NEW d, NEW m, Few(d, m), LimitInv(d, m), NEW p \in Publishers, CheckInv(p), pubLimit \in Int,
           ReadRawTail(p)
    PROVE  LimitInv(d, m)'
<1>1. UNCHANGED <<tail, activeTermCount, pubLimit>> /\ pc[p] = "rawTail" /\ ~AtLimit(p)
  BY DEF ReadRawTail, logVars
<1>2. my' = [my EXCEPT ![p].rawTail = RawTail(p), ![p].limit = 0] /\ pc' = [pc EXCEPT ![p] = "append"]
  BY DEF ReadRawTail, Goto
<1>3. /\ pc'[p] = "append" /\ my'[p].termCount = my[p].termCount
      /\ \A q \in Publishers \ {p} : UNCHANGED <<pc[q], my[q]>>
  BY <1>2, Tables DEF NoLocals
<1>4. \A q \in Publishers : MyIndex(q)' = MyIndex(q)
  BY <1>3 DEF MyIndex
<1>5. \A k : Woken(k)' = Woken(k)
  <2>1. \A q \in Publishers : pc'[q] \in {"rawTail", "append"} <=> pc[q] \in {"rawTail", "append"}
    BY <1>1, <1>3
  <2> QED BY <1>4, <2>1 DEF Woken
<1>6. ASSUME NEW l \in Partitions, IsLast(l)' PROVE LimitAt(d, m, l)'
  <2>1. IsLast(l)
    BY <1>1, <1>6 DEF IsLast
  <2>2. LimitAt(d, m, l)
    BY <2>1 DEF LimitInv
  <2>3. End(l)' = End(l) /\ Begin(l)' = Begin(l) /\ Asleep(l)' = Asleep(l)
    BY <1>1, <1>5 DEF End, Begin, Asleep
  <2>4. CASE MyIndex(p) # l
    <3>1. Live(l)' = Live(l)
      BY <1>3, <1>4, <2>4 DEF Live
    <3> QED BY <1>1, <1>5, <2>2, <2>3, <3>1 DEF LimitAt
  <2>5. CASE MyIndex(p) = l
    <3>1. RawTail(p) = tail[l] /\ tail[l] \in RawTails
      BY <2>5, CallFacts, Tables
    <3>2. my[p].limit \in Int /\ my[p].limit <= pubLimit
      BY <1>1 DEF CheckInv
    <3>3. PositionOf(tail[l]) \in Int /\ TailPosition(tail[l]) \in Int /\ TailPosition(tail[l]) <= PositionOf(tail[l])
      BY <3>1, PositionFacts
    <3>4. ~(PositionOf(tail[l]) >= my[p].limit)
      BY <1>1, <3>1 DEF AtLimit
    <3>5. End(l) < pubLimit
      <4>1. TailPosition(tail[l]) < pubLimit
        BY SMT, <3>2, <3>3, <3>4
      <4> QED BY <4>1 DEF End
    <3> DEFINE x == d[(Live(l) \cup Asleep(l))']
               all == d[Publishers]
    <3>6. x \in Nat /\ x <= all /\ all \in Nat
      <4>1. (Live(l) \cup Asleep(l))' \in SUBSET Publishers
        BY DEF Live, Asleep, Woken
      <4> QED BY <4>1, LimitTypes
    <3>7. Begin(l) \in Int /\ End(l) \in Int /\ Begin(l) <= End(l)
      BY LimitTypes
    <3> HIDE DEF x, all
    <3>8. End(l) + x < pubLimit + all /\ ~(pubLimit <= Begin(l))
      BY SMT, <3>5, <3>6, <3>7
    <3> QED BY <1>1, <1>5, <2>2, <2>3, <3>8 DEF LimitAt, x, all
  <2> QED BY <2>4, <2>5
<1> QED BY <1>6 DEF LimitInv

\* An append moves the end of the log by the message, or to the end of the term,
\* and a publisher that appends to another term leaves it alone.
LEMMA AppendLimit ==
    ASSUME LogInv, LogInv', NEW d, NEW m, Few(d, m), LimitInv(d, m), NEW p \in Publishers, CheckInv(p), pubLimit \in Int,
           AppendMessage(p) \/ HandleEndOfLogCondition(p)
    PROVE  LimitInv(d, m)'
<1>1. pc[p] = "append" /\ GetAndAddRawTail(p, Required(p)) /\ UNCHANGED <<activeTermCount, pubLimit>>
  BY DEF AppendMessage, HandleEndOfLogCondition
<1>2. pc'[p] \notin {"rawTail", "append"} /\ \A q \in Publishers \ {p} : UNCHANGED <<pc[q], my[q]>>
  <2>1. \/ pc' = [pc EXCEPT ![p] = "frame"]
        \/ pc' = [pc EXCEPT ![p] = "newPosition"]
    BY DEF AppendMessage, HandleEndOfLogCondition, Goto
  <2>2. \A q \in Publishers \ {p} : my'[q] = my[q]
    BY Tables DEF AppendMessage, HandleEndOfLogCondition
  <2>3. pc'[p] = "frame" \/ pc'[p] = "newPosition"
    BY <2>1, Tables
  <2>4. \A q \in Publishers \ {p} : pc'[q] = pc[q]
    BY <2>1, Tables
  <2> QED BY <2>2, <2>3, <2>4
<1>3. Leaves
  BY <1>2 DEF Leaves
<1>4. \A i \in Partitions :
         /\ tail'[i].term = tail[i].term
         /\ tail'[i].offset = IF i = MyIndex(p) THEN tail[i].offset + Required(p) ELSE tail[i].offset
  BY <1>1, TailAdded
<1>5. Required(p) \in Nat \ {0} /\ Required(p) <= m
  <2>1. my[p].length \in Lengths
    BY <1>1 DEF CheckInv
  <2>2. Required(p) \in Nat \ {0}
    BY <1>1, TailAdded
  <2> QED BY <2>1, <2>2 DEF Few, Required
<1>6. pubLimit <= pubLimit' /\ pubLimit' \in Int
  BY SMT, <1>1
<1>7. ASSUME NEW l \in Partitions, IsLast(l) PROVE WithinTheTerm(m, l)
  <2>1. /\ Live(l)' \subseteq Live(l) /\ Woken(l)' \subseteq Woken(l) /\ Asleep(l)' \subseteq Asleep(l)
        /\ p \notin Live(l)' /\ p \notin Woken(l)' /\ p \notin Asleep(l)'
    BY <1>2, <1>3, SetsShrink
  <2>2. \/ End(l)' = End(l)
        \/ p \in Live(l) /\ End(l)' <= End(l) + m
    <3>1. CASE MyIndex(p) # l
      <4>1. tail'[l].term = tail[l].term /\ tail'[l].offset = tail[l].offset
        BY <1>4, <3>1
      <4> QED BY <4>1 DEF End, TailPosition
    <3>2. CASE MyIndex(p) = l
      <4>1. p \in Live(l)
        BY <1>1, <3>2 DEF Live
      <4>2. tail'[l].term = tail[l].term /\ tail'[l].offset = tail[l].offset + Required(p)
        BY <1>4, <3>2
      <4> DEFINE b == ComputeTermBeginPosition(tail[l].term)
                 o == tail[l].offset
                 r == Required(p)
      <4>3. b \in Int /\ o \in Nat /\ TermLength \in Nat /\ m \in Nat
        <5>1. tail[l] \in RawTails /\ m \in Nat \ {0} /\ TermLength \in Nat \ {0}
          BY LimitTypes
        <5> QED BY <5>1, PositionFacts DEF RawTails
      <4>4. /\ End(l) = b + (IF o < TermLength THEN o ELSE TermLength)
            /\ End(l)' = b + (IF o + r < TermLength THEN o + r ELSE TermLength)
        BY <4>2 DEF End, TailPosition
      <4>5. r \in Nat /\ r <= m
        BY <1>5
      <4> HIDE DEF b, o, r
      <4>6. End(l)' <= End(l) + m
        BY SMT, <4>3, <4>4, <4>5
      <4> QED BY <4>1, <4>6
    <3> QED BY <3>1, <3>2
  <2> QED BY <1>1, <1>4, <1>6, <2>1, <2>2 DEF WithinTheTerm
<1> QED BY <1>4, <1>7, TermStep

\* The count catches up.
LEMMA CasTermCountLimit ==
    ASSUME LogInv, LogInv', NEW d, NEW m, Few(d, m), LimitInv(d, m), NEW p \in Publishers, CasTermCount(p)
    PROVE  LimitInv(d, m)'
<1>1. UNCHANGED <<tail, pubLimit>> /\ pc[p] = "termCountCas" /\ Return(p, AdminAction, 0)
      /\ activeTermCount' = IF activeTermCount = my[p].termCount THEN my[p].termCount + 1 ELSE activeTermCount
  BY DEF CasTermCount
<1>2. pc'[p] = "idle" /\ \A q \in Publishers \ {p} : UNCHANGED <<pc[q], my[q]>>
  BY <1>1, Tables DEF Return
<1>3. \A q \in Publishers : pc'[q] \in {"rawTail", "append"} \/ pc[q] \in {"rawTail", "append"}
                                => pc'[q] = pc[q] /\ MyIndex(q)' = MyIndex(q)
  <2>1. pc[p] \notin {"rawTail", "append"} /\ pc'[p] \notin {"rawTail", "append"}
    BY <1>1, <1>2
  <2> QED BY <1>2, <2>1 DEF MyIndex
<1>4. \A k : Live(k)' = Live(k) /\ Woken(k)' = Woken(k)
  BY <1>3 DEF Live, Woken
<1>5. ASSUME NEW l \in Partitions, IsLast(l)' PROVE LimitAt(d, m, l)'
  <2>1. IsLast(l)
    BY <1>1, <1>5 DEF IsLast
  <2>2. LimitAt(d, m, l) /\ tail[l].term \in Nat
    BY <2>1, IsLastFacts DEF LimitInv
  <2>3. activeTermCount \in {tail[l].term - 1, tail[l].term}
    BY <2>2 DEF LimitAt
  <2>4. activeTermCount' <= tail[l].term
    <3>1. PICK k \in Partitions : LastIs(k)'
      BY DEF LogInv
    <3>2. activeTermCount' <= tail[k].term
      BY <1>1, <3>1 DEF LastIs
    <3>3. tail[k].term <= tail[l].term
      BY <2>1 DEF IsLast
    <3>4. tail[k].term \in Int /\ tail[l].term \in Int /\ activeTermCount' \in Int
      <4>1. activeTermCount' \in Nat
        BY DEF LogInv, ReturnInv, TailInv
      <4> QED BY SMT, <4>1, TailTypes DEF LogInv
    <3> QED BY SMT, <3>2, <3>3, <3>4
  <2>5. /\ activeTermCount' \in {tail[l].term - 1, tail[l].term}
        /\ activeTermCount' = tail[l].term - 1 => activeTermCount = tail[l].term - 1
    BY SMT, <1>1, <2>2, <2>3, <2>4
  <2>6. End(l)' = End(l) /\ Begin(l)' = Begin(l) /\ Asleep(l)' = Asleep(l)
    BY <1>1, <1>4 DEF End, Begin, Asleep
  <2> QED BY <1>1, <1>4, <2>2, <2>5, <2>6 DEF LimitAt
<1> QED BY <1>5 DEF LimitInv

\* What the compare-and-set of a tail does when it succeeds: the term after the
\* latest one is opened, which is full.
LEMMA TailRotates ==
    ASSUME LogInv, LogInv', NEW p \in Publishers, RotateCasTail(p), tail' # tail,
           NEW l \in Partitions, IsLast(l)
    PROVE  LET next == (l + 1) % PartitionCount IN
           /\ next \in Partitions
           /\ tail'[next].term = tail[l].term + 1 /\ tail'[next].offset = 0
           /\ tail[l].offset >= TermLength
           /\ \A k \in Partitions : IsLast(k)' => k = next
<1> DEFINE c == my[p].claimed.term
           j == NextIndex(p)
           i == MyIndex(p)
           n == (l + 1) % PartitionCount
<1>1. /\ tail[j] = my[p].nextTail /\ tail' = [tail EXCEPT ![j] = [term |-> c + 1, offset |-> 0]]
      /\ pc[p] = "rotateCas"
  BY DEF RotateCasTail
<1>2. /\ i \in Partitions /\ j \in Partitions /\ my[p].termCount \in Nat /\ c \in Int
      /\ i = my[p].termCount % 3 /\ j = (my[p].termCount + 1) % 3 /\ c % 3 = i /\ TermInv(p)
      /\ HasClaimed(p) /\ FoundFull(p)
  BY <1>1, TermFacts DEF HasClaimed, FoundFull, Labels
<1>3. tail[j].term = c - 2
  <2>1. CallInv(p)
    BY CallFacts, Tables
  <2>2. my[p].nextTail.term = c + 1 - PartitionCount
    BY <1>1, <2>1 DEF CallInv, StaleTail
  <2> QED BY SMTT(30), <1>1, <1>2, <2>2 DEF PartitionCount
<1>4. c <= tail[i].term /\ (c = tail[i].term => tail[i].offset >= TermLength) /\ my[p].termCount <= c
  BY <1>2 DEF TermInv
<1>5. /\ LastIs(l) /\ tail[l].term \in Nat /\ tail[l].term % 3 = l /\ n \in Partitions
      /\ tail[n].term = tail[l].term - 2
  BY IsLastFacts
<1>6. /\ \A k \in Partitions : tail[k].term \in Int /\ tail[k].term % 3 = k
      /\ \A k \in Partitions : tail[k].term >= tail[l].term - 2 /\ tail[k].term <= tail[l].term
  BY <1>5, TailTypes, LastFacts DEF LogInv, PartitionCount
<1> HIDE DEF c, j, i
<1>7. c = tail[l].term /\ c = tail[i].term
  <2>1. /\ tail[j].term \in Int /\ tail[j].term >= tail[l].term - 2
        /\ tail[i].term \in Int /\ tail[i].term <= tail[l].term
    BY <1>2, <1>6
  <2>2. c \in Int /\ tail[l].term \in Nat /\ c <= tail[i].term
    BY <1>2, <1>4, <1>5
  <2> QED BY SMT, <1>3, <2>1, <2>2
<1>8. j = n
  <2>1. tail[j].term = tail[n].term
    BY <1>3, <1>5, <1>7
  <2> QED BY <1>2, <1>5, <1>6, <2>1
<1>9. i = l
  BY <1>2, <1>5, <1>7
<1>10. PICK next \in Partitions : next = n
  BY <1>5
<1>11. tail'[next].term = c + 1 /\ tail'[next].offset = 0 /\ \A k \in Partitions \ {next} : tail'[k] = tail[k]
  BY <1>1, <1>8, <1>10, TailTypes DEF LogInv
<1>12. ASSUME NEW k \in Partitions, IsLast(k)' PROVE k = next
  <2>1. tail'[next].term <= tail'[k].term
    BY <1>10, <1>12 DEF IsLast
  <2>2. tail[k].term <= c /\ tail[k].term \in Int
    BY <1>6, <1>7
  <2>3. ASSUME k # next PROVE FALSE
    <3>1. tail'[k] = tail[k]
      BY <1>11, <2>3
    <3> QED BY SMT, <1>2, <1>11, <2>1, <2>2, <3>1
  <2> QED BY <2>3
<1> QED BY <1>4, <1>5, <1>7, <1>9, <1>10, <1>11, <1>12

\* Those that passed the check in the term three before are the only ones that can
\* append to the new term, and the one that opens it is none of them.
LEMMA RotateCasTailLimit ==
    ASSUME LogInv, LogInv', NEW d, NEW m, Few(d, m), LimitInv(d, m), NEW p \in Publishers, pubLimit \in Int,
           RotateCasTail(p)
    PROVE  LimitInv(d, m)'
<1>1. UNCHANGED <<activeTermCount, my, pubLimit>> /\ pc[p] = "rotateCas"
  BY DEF RotateCasTail
<1>2. /\ pc'[p] \in {"termCountCas", "newPosition"}
      /\ \A q \in Publishers \ {p} : UNCHANGED <<pc[q], my[q]>>
  BY <1>1, Tables DEF RotateCasTail, Goto
<1>3. pc'[p] \notin {"rawTail", "append"}
  BY <1>2
<1>4. Leaves
  BY <1>2, <1>3 DEF Leaves
<1>5. CASE UNCHANGED tail
  <2>1. pubLimit <= pubLimit' /\ pubLimit' \in Int
    BY SMT, <1>1
  <2> QED BY <1>1, <1>4, <1>5, <2>1, QuietKeeps
<1>6. CASE tail' # tail
  <2>0. PICK l \in Partitions : LastIs(l)
    BY DEF LogInv
  <2>1. IsLast(l)
    BY <2>0, LastFacts DEF IsLast
  <2>2. PICK next \in Partitions : next = (l + 1) % PartitionCount
    BY <2>1, IsLastFacts
  <2>3. /\ tail'[next].term = tail[l].term + 1 /\ tail'[next].offset = 0 /\ tail[l].offset >= TermLength
        /\ \A k \in Partitions : IsLast(k)' => k = next
    BY <1>6, <2>1, <2>2, TailRotates
  <2>4. LimitAt(d, m, l)
    BY <2>1 DEF LimitInv
  <2> DEFINE all == d[Publishers]
             t == tail[l].term
             b == t * TermLength
  <2>5. /\ t \in Int /\ m \in Nat \ {0} /\ TermLength \in Nat \ {0} /\ tail[l].offset \in Nat
        /\ all \in Nat /\ all <= TermLength /\ Begin(l) = b
        /\ \A S \in SUBSET Publishers : d[S] \in Nat /\ d[S] <= all
    <3>1. tail[l] \in RawTails
      BY LimitTypes
    <3> QED BY <3>1, LimitTypes DEF Begin, ComputeTermBeginPosition, RawTails
  <2>6. Publishers \in SUBSET Publishers /\ \A S \in SUBSET Publishers : p \notin S => d[S] + m <= all
    BY DebtGrows
  <2>7. End(l) = b + TermLength
    <3>1. ~(tail[l].offset < TermLength)
      BY SMT, <2>3, <2>5
    <3> QED BY <3>1 DEF End, TailPosition, ComputeTermBeginPosition
  <2>8. Begin(next)' = (t + 1) * TermLength /\ End(next)' = (t + 1) * TermLength + 0
    <3>1. 0 < TermLength
      BY SMT, <2>5
    <3> QED BY <2>3, <3>1 DEF Begin, End, TailPosition, ComputeTermBeginPosition
  <2>9. b \in Int /\ (t + 1) * TermLength = b + TermLength
    BY SMT, <2>5
  <2>10. /\ Woken(next)' \in SUBSET Publishers /\ (Live(next) \cup Asleep(next))' \in SUBSET Publishers
         /\ p \notin Woken(next)' /\ p \notin (Live(next) \cup Asleep(next))'
    <3>1. p \notin Live(next)' /\ p \notin Woken(next)' /\ p \notin Asleep(next)'
      BY <1>3, <1>4, SetsShrink
    <3>2. /\ Woken(next)' \in SUBSET Publishers /\ (Live(next) \cup Asleep(next))' \in SUBSET Publishers
      BY DEF Live, Asleep, Woken
    <3> QED BY <3>1, <3>2
  <2>11. Live(next)' \in SUBSET (Live(l) \cup Asleep(l)) /\ Live(l) \cup Asleep(l) \in SUBSET Publishers
    <3>1. Live(next)' \subseteq Live(next)
      BY <1>4, SetsShrink
    <3>2. Live(next) \subseteq Asleep(l)
      BY <2>2 DEF Live, Asleep, Woken
    <3> QED BY <3>1, <3>2, SetTypes
  <2> DEFINE w2 == d[Woken(next)']
             x2 == d[(Live(next) \cup Asleep(next))']
             v2 == d[Live(next)']
             x  == d[Live(l) \cup Asleep(l)]
             w  == d[Woken(l)]
  <2>12. w2 \in Nat /\ w2 + m <= all /\ x2 \in Nat /\ x2 + m <= all
    BY <2>5, <2>6, <2>10
  <2>13. v2 \in Nat /\ x \in Nat /\ v2 <= x /\ w \in Nat
    <3>1. Live(next)' \in SUBSET Publishers /\ Woken(l) \in SUBSET Publishers
      BY <2>11, SetTypes
    <3> QED BY <2>5, <2>11, <3>1, DebtGrows
  <2>14. /\ activeTermCount \in {t - 1, t}
         /\ activeTermCount = t - 1 => End(l) + w + m <= b + all
         /\ pubLimit > b => End(l) + x < pubLimit + all
         /\ pubLimit <= b => End(l) + x + m <= b + all
    BY <2>4, <2>5 DEF LimitAt
  <2> HIDE DEF all, t, b, w2, x2, v2, x, w
  <2>15. activeTermCount = t /\ pubLimit > b /\ End(l) + x < pubLimit + all
    BY SMT, <2>5, <2>7, <2>9, <2>13, <2>14
  <2>16. activeTermCount' = tail'[next].term - 1
    BY SMT, <1>1, <2>3, <2>5, <2>15 DEF t
  <2> DEFINE e == (t + 1) * TermLength
  <2>17. /\ (e + 0) + w2 + m <= e + all
         /\ pubLimit > e => (e + 0) + x2 < pubLimit + all
         /\ pubLimit <= e => (e + 0) + x2 + m <= e + all /\ (e + 0) + v2 < pubLimit + all
    <3>1. e \in Int /\ e = End(l)
      BY SMT, <2>5, <2>7, <2>9
    <3> HIDE DEF e
    <3> QED BY SMT, <2>5, <2>12, <2>13, <2>15, <3>1
  <2>18. LimitAt(d, m, next)'
    BY <1>1, <2>8, <2>16, <2>17 DEF LimitAt, all, w2, x2, v2
  <2> QED BY <2>3, <2>18 DEF LimitInv
<1> QED BY <1>5, <1>6

-----------------------------------------------------------------------------
(* The invariant and the theorem.                                          *)

SpaceInv(d, m) == LogInv /\ ChecksInv /\ LimitInv(d, m)

LEMMA OthersCheck ==
    ASSUME NEW q \in Publishers, CheckInv(q), UNCHANGED <<pc[q], my[q]>>,
           pubLimit \in Int, pubLimit' \in Int, pubLimit <= pubLimit'
    PROVE  CheckInv(q)'
<1>1. pc[q] \in {"termCount", "rawTail"} => my[q].limit <= pubLimit'
  BY SMT DEF CheckInv
<1> QED BY <1>1 DEF CheckInv

\* A call past the check, and one that has returned.
LEMMA OwnCheck ==
    ASSUME NEW p \in Publishers, CheckInv(p), pc[p] \notin {"idle", "termCount", "rawTail"},
           pc'[p] \notin {"idle", "termCount", "rawTail"},
           my'[p].length = my[p].length, my'[p].id \in Int
    PROVE  CheckInv(p)'
  BY DEF CheckInv

LEMMA ReturnCheck ==
    ASSUME LogInv, NEW p \in Publishers, NEW status, NEW excess, Return(p, status, excess)
    PROVE  CheckInv(p)' /\ Leaves /\ \A q \in Publishers \ {p} : UNCHANGED <<pc[q], my[q]>>
<1>1. pc'[p] = "idle" /\ my'[p] = NoLocals /\ \A q \in Publishers \ {p} : UNCHANGED <<pc[q], my[q]>>
  BY Tables DEF Return
<1>2. NoLocals.id \in Int
  BY SMT DEF NoLocals, Nothing
<1>3. pc'[p] \notin {"termCount", "rawTail", "append"}
  BY <1>1
<1> QED BY <1>1, <1>2, <1>3 DEF CheckInv, Leaves

\* A step of one publisher, the reader's part and the limit apart.
LEMMA OneChecks ==
    ASSUME ChecksInv, ReaderInv', NEW p \in Publishers, CheckInv(p)', UNCHANGED pubLimit,
           \A q \in Publishers \ {p} : UNCHANGED <<pc[q], my[q]>>
    PROVE  ChecksInv'
<1>1. pubLimit \in Int /\ pubLimit' \in Int /\ pubLimit <= pubLimit'
  BY SMT DEF ChecksInv, ReaderInv
<1>2. \A q \in Publishers : CheckInv(q)'
  BY <1>1, OthersCheck DEF ChecksInv
<1> QED BY <1>2 DEF ChecksInv

\* The same for a step that leaves the log's memory and counters alone.
LEMMA CallSpace ==
    ASSUME NEW d, NEW m, Few(d, m), SpaceInv(d, m), LogInv', NEW p \in Publishers, CheckInv(p)', Leaves,
           \A q \in Publishers \ {p} : UNCHANGED <<pc[q], my[q]>>,
           UNCHANGED <<tail, activeTermCount, pubLimit, subscriberPosition, poll>>, memory' \in [Addresses -> Cells]
    PROVE  SpaceInv(d, m)'
<1>1. pubLimit \in Int /\ pubLimit' \in Int /\ pubLimit <= pubLimit'
  BY SMT DEF SpaceInv, ChecksInv, ReaderInv
<1>2. LimitInv(d, m)'
  BY <1>1, QuietKeeps DEF SpaceInv
<1>3. ReaderInv'
  BY MemoryStep DEF SpaceInv, ChecksInv
<1>4. ChecksInv'
  BY <1>3, OneChecks DEF SpaceInv
<1> QED BY <1>2, <1>4 DEF SpaceInv

LEMMA MemoryKept ==
    ASSUME ChecksInv, UNCHANGED memory PROVE memory' \in [Addresses -> Cells]
  BY DEF ChecksInv, ReaderInv

LEMMA CallKeepsSpace ==
    ASSUME NEW d, NEW m, Few(d, m), SpaceInv(d, m), LogInv', NEW p \in Publishers, PublisherCall(p), UNCHANGED readerVars
    PROVE  SpaceInv(d, m)'
<1>0. LogInv /\ ChecksInv /\ UNCHANGED poll /\ pubLimit \in Int
  BY DEF SpaceInv, ChecksInv, ReaderInv, readerVars, imageVars
<1>1. ASSUME NEW kind, NEW n, Call(p, kind, n), n \in Lengths \/ kind = "position" PROVE SpaceInv(d, m)'
  <2>1. UNCHANGED <<tail, activeTermCount, pubLimit, subscriberPosition, memory>>
    BY <1>1 DEF Call, logVars
  <2>2. /\ pc'[p] = "termCount" /\ my'[p] = [NoLocals EXCEPT !.kind = kind, !.length = n, !.limit = pubLimit]
        /\ \A q \in Publishers \ {p} : UNCHANGED <<pc[q], my[q]>>
    BY <1>0, <1>1, Tables DEF Call, Goto
  <2>3. my'[p].kind = kind /\ my'[p].length = n /\ my'[p].limit = pubLimit /\ my'[p].id = Nothing
    BY <2>2 DEF NoLocals
  <2>4. pubLimit <= pubLimit' /\ Nothing \in Int
    BY SMT, <1>0, <2>1 DEF Nothing
  <2>5. CheckInv(p)'
    BY <1>0, <1>1, <2>2, <2>3, <2>4 DEF CheckInv
  <2>6. pc'[p] \notin {"rawTail", "append"}
    BY <2>2
  <2>7. Leaves
    BY <2>2, <2>6 DEF Leaves
  <2> QED BY <1>0, <2>1, <2>2, <2>5, <2>7, CallSpace, MemoryKept
<1>2. ASSUME CallWhenClosed(p) PROVE SpaceInv(d, m)'
  <2>1. Return(p, PublicationClosed, 0) /\ UNCHANGED <<tail, activeTermCount, pubLimit, subscriberPosition, memory>>
    BY <1>2 DEF CallWhenClosed, logVars
  <2> QED BY <1>0, <2>1, ReturnCheck, CallSpace, MemoryKept
<1> QED BY <1>1, <1>2 DEF PublisherCall, Offer, TryClaim, Offer2, Position

\* The steps that end a call and leave the log alone.
LEMMA ReturnKeepsSpace ==
    ASSUME NEW d, NEW m, Few(d, m), SpaceInv(d, m), LogInv', NEW p \in Publishers, UNCHANGED readerVars,
           ReturnPosition(p) \/ OfferTermMoved(p) \/ OfferAtLimit(p) \/ ReturnMaxPositionExceeded(p)
    PROVE  SpaceInv(d, m)'
<1>1. LogInv /\ ChecksInv /\ UNCHANGED poll
  BY DEF SpaceInv, readerVars, imageVars
<1>2. PICK status, excess : Return(p, status, excess)
  BY DEF ReturnPosition, OfferTermMoved, OfferAtLimit, ReturnMaxPositionExceeded
<1>3. UNCHANGED <<tail, activeTermCount, pubLimit, subscriberPosition, memory>>
  BY DEF ReturnPosition, OfferTermMoved, OfferAtLimit, ReturnMaxPositionExceeded, logVars
<1> QED BY <1>1, <1>2, <1>3, ReturnCheck, CallSpace, MemoryKept

LEMMA CheckKeepsSpace ==
    ASSUME NEW d, NEW m, Few(d, m), SpaceInv(d, m), LogInv', NEW p \in Publishers, UNCHANGED readerVars,
           ReadTermCount(p) \/ ReadRawTail(p)
    PROVE  SpaceInv(d, m)'
<1>1. LogInv /\ ChecksInv /\ LimitInv(d, m) /\ CheckInv(p) /\ UNCHANGED poll /\ pubLimit \in Int
  BY DEF SpaceInv, ChecksInv, ReaderInv, readerVars, imageVars
<1>2. UNCHANGED <<tail, activeTermCount, pubLimit, subscriberPosition, memory>>
  BY DEF ReadTermCount, ReadRawTail, logVars
<1>3. \A q \in Publishers \ {p} : UNCHANGED <<pc[q], my[q]>>
  BY <1>1, Tables DEF ReadTermCount, ReadRawTail, Goto
<1>4. LimitInv(d, m)'
  BY <1>1, ReadTermCountLimit, ReadRawTailLimit
<1>5. CheckInv(p)'
  <2>1. CASE ReadTermCount(p)
    <3>1. /\ pc[p] = "termCount" /\ pc'[p] = "rawTail" /\ my'[p].limit = my[p].limit /\ my'[p].length = my[p].length
          /\ my'[p].kind = my[p].kind /\ my'[p].id = my[p].id
      BY <1>1, <2>1, Tables DEF ReadTermCount, Goto, NoLocals
    <3> QED BY <1>1, <1>2, <3>1 DEF CheckInv
  <2>2. CASE ReadRawTail(p)
    <3>1. pc[p] = "rawTail" /\ my[p].kind # "position"
          /\ my' = [my EXCEPT ![p].rawTail = RawTail(p), ![p].limit = 0] /\ pc' = [pc EXCEPT ![p] = "append"]
      BY <2>2 DEF ReadRawTail, Goto
    <3>2. pc'[p] = "append" /\ my'[p].length = my[p].length /\ my'[p].id = my[p].id
      BY <1>1, <3>1, Tables DEF NoLocals
    <3> QED BY <1>1, <3>1, <3>2 DEF CheckInv
  <2> QED BY <2>1, <2>2
<1>6. ReaderInv'
  BY <1>1, <1>2, MemoryStep, MemoryKept DEF ChecksInv
<1>7. ChecksInv'
  BY <1>1, <1>2, <1>3, <1>5, <1>6, OneChecks
<1> QED BY <1>4, <1>7 DEF SpaceInv

LEMMA AppendKeepsSpace ==
    ASSUME NEW d, NEW m, Few(d, m), SpaceInv(d, m), LogInv', NEW p \in Publishers, UNCHANGED readerVars,
           AppendMessage(p) \/ HandleEndOfLogCondition(p)
    PROVE  SpaceInv(d, m)'
<1>1. LogInv /\ ChecksInv /\ LimitInv(d, m) /\ CheckInv(p) /\ UNCHANGED poll /\ pubLimit \in Int
  BY DEF SpaceInv, ChecksInv, ReaderInv, readerVars, imageVars
<1>2. UNCHANGED <<pubLimit, subscriberPosition, memory>> /\ pc[p] = "append"
  BY DEF AppendMessage, HandleEndOfLogCondition
<1>3. \/ pc' = [pc EXCEPT ![p] = "frame"]
      \/ pc' = [pc EXCEPT ![p] = "newPosition"]
  BY DEF AppendMessage, HandleEndOfLogCondition, Goto
<1>4. \A q \in Publishers \ {p} : UNCHANGED <<pc[q], my[q]>>
  <2>1. \A q \in Publishers \ {p} : my'[q] = my[q]
    BY <1>1, Tables DEF AppendMessage, HandleEndOfLogCondition
  <2>2. \A q \in Publishers \ {p} : pc'[q] = pc[q]
    BY <1>1, <1>3, Tables
  <2> QED BY <2>1, <2>2
<1>5. pc'[p] \in {"frame", "newPosition"}
  BY <1>1, <1>3, Tables
<1>6. my'[p].length = my[p].length /\ my'[p].id \in Int
  <2>1. PICK c, id, f : \/ my' = [my EXCEPT ![p].claimed = c, ![p].id = id, ![p].frame = f] /\ id \in Int
                        \/ my' = [my EXCEPT ![p].claimed = c]
    <3>1. CASE AppendMessage(p)
      <4>1. my' = [my EXCEPT ![p].claimed = RawTail(p), ![p].id = PositionOf(RawTail(p)) + 1, ![p].frame = 1]
        BY <3>1 DEF AppendMessage
      <4>2. PositionOf(RawTail(p)) \in Int
        BY <1>1, CallFacts, Tables, PositionFacts
      <4>3. PositionOf(RawTail(p)) + 1 \in Int
        BY SMT, <4>2
      <4> QED BY <4>1, <4>3
    <3>2. CASE HandleEndOfLogCondition(p)
      <4>1. \/ my' = [my EXCEPT ![p].claimed = RawTail(p), ![p].id = Pad, ![p].frame = 1]
            \/ my' = [my EXCEPT ![p].claimed = RawTail(p)]
        BY <3>2 DEF HandleEndOfLogCondition
      <4>2. Pad \in Int
        BY SMT DEF Pad
      <4> QED BY <4>1, <4>2
    <3> QED BY <3>1, <3>2
  <2>2. my[p].id \in Int
    BY <1>1 DEF CheckInv
  <2> QED BY ZenonT(30), <1>1, <2>1, <2>2, Tables DEF NoLocals
<1>7. CheckInv(p)'
  <2>1. pc[p] \notin {"idle", "termCount", "rawTail"} /\ pc'[p] \notin {"idle", "termCount", "rawTail"}
    BY <1>2, <1>5
  <2> QED BY <1>1, <1>6, <2>1, OwnCheck
<1>8. LimitInv(d, m)'
  BY <1>1, AppendLimit
<1>9. ReaderInv'
  BY <1>1, <1>2, MemoryStep, MemoryKept DEF ChecksInv
<1>10. ChecksInv'
  BY <1>1, <1>2, <1>4, <1>7, <1>9, OneChecks
<1> QED BY <1>8, <1>10 DEF SpaceInv

LEMMA FrameKeepsSpace ==
    ASSUME NEW d, NEW m, Few(d, m), SpaceInv(d, m), LogInv', NEW p \in Publishers, UNCHANGED readerVars,
           WriteFrame(p) \/ SetFrameLength(p) \/ Abort(p)
    PROVE  SpaceInv(d, m)'
<1>1. LogInv /\ ChecksInv /\ ReaderInv /\ CheckInv(p) /\ UNCHANGED poll
  BY DEF SpaceInv, ChecksInv, readerVars, imageVars
<1>2. UNCHANGED <<tail, activeTermCount, pubLimit, subscriberPosition>> /\ pc[p] \in {"frame", "commit"}
  BY DEF WriteFrame, SetFrameLength, Abort
<1>3. memory' \in [Addresses -> Cells]
  BY <1>1, WriteFrameMemory, SetFrameLengthMemory, AbortMemory
<1>4. \/ Return(p, "position", Excess(p))
      \/ /\ \/ pc' = [pc EXCEPT ![p] = "commit"] \/ pc' = [pc EXCEPT ![p] = "frame"]
            \/ pc' = [pc EXCEPT ![p] = "newPosition"] \/ pc' = pc
         /\ my' = my \/ my' = [my EXCEPT ![p].frame = @ + 1]
  BY DEF WriteFrame, SetFrameLength, Abort, Goto
<1>5. CASE Return(p, "position", Excess(p))
  BY <1>1, <1>2, <1>3, <1>5, ReturnCheck, CallSpace
<1>6. CASE /\ \/ pc' = [pc EXCEPT ![p] = "commit"] \/ pc' = [pc EXCEPT ![p] = "frame"]
              \/ pc' = [pc EXCEPT ![p] = "newPosition"] \/ pc' = pc
           /\ my' = my \/ my' = [my EXCEPT ![p].frame = @ + 1]
  <2>1. pc'[p] \in {"commit", "frame", "newPosition"} /\ \A q \in Publishers \ {p} : pc'[q] = pc[q]
    BY <1>1, <1>2, <1>6, Tables
  <2>2. my'[p].length = my[p].length /\ my'[p].id = my[p].id /\ \A q \in Publishers \ {p} : my'[q] = my[q]
    BY <1>1, <1>6, Tables DEF NoLocals
  <2>3. /\ pc[p] \notin {"idle", "termCount", "rawTail"} /\ pc'[p] \notin {"idle", "termCount", "rawTail"}
        /\ pc'[p] \notin {"rawTail", "append"}
    BY <1>2, <2>1
  <2>4. CheckInv(p)'
    BY <1>1, <2>2, <2>3, OwnCheck DEF CheckInv
  <2>5. Leaves
    BY <2>1, <2>2, <2>3 DEF Leaves
  <2> QED BY <1>1, <1>2, <1>3, <2>1, <2>2, <2>4, <2>5, CallSpace
<1> QED BY <1>4, <1>5, <1>6

LEMMA RotateKeepsSpace ==
    ASSUME NEW d, NEW m, Few(d, m), SpaceInv(d, m), LogInv', NEW p \in Publishers, UNCHANGED readerVars,
           RotateLogPanics(p) \/ RotateGetTail(p) \/ RotateCasTail(p)
    PROVE  SpaceInv(d, m)'
<1>1. LogInv /\ ChecksInv /\ ReaderInv /\ LimitInv(d, m) /\ CheckInv(p) /\ UNCHANGED poll /\ pubLimit \in Int
  BY DEF SpaceInv, ChecksInv, ReaderInv, readerVars, imageVars
<1>2. UNCHANGED <<activeTermCount, memory, pubLimit, subscriberPosition>> /\ pc[p] \in {"newPosition", "rotateCas"}
  BY DEF RotateLogPanics, RotateGetTail, RotateCasTail, logVars
<1>3. /\ \/ pc' = [pc EXCEPT ![p] = "panicked"] \/ pc' = [pc EXCEPT ![p] = "rotateCas"]
         \/ pc' = [pc EXCEPT ![p] = "termCountCas"] \/ pc' = [pc EXCEPT ![p] = "newPosition"]
      /\ my' = my \/ \E raw : my' = [my EXCEPT ![p].nextTail = raw]
  BY DEF RotateLogPanics, RotateGetTail, RotateCasTail, Goto
<1>4. pc'[p] \in {"panicked", "rotateCas", "termCountCas", "newPosition"} /\ \A q \in Publishers \ {p} : pc'[q] = pc[q]
  BY <1>1, <1>3, Tables
<1>5. my'[p].length = my[p].length /\ my'[p].id = my[p].id /\ \A q \in Publishers \ {p} : my'[q] = my[q]
  BY <1>1, <1>3, Tables DEF NoLocals
<1>6. /\ pc[p] \notin {"idle", "termCount", "rawTail"} /\ pc'[p] \notin {"idle", "termCount", "rawTail"}
      /\ pc'[p] \notin {"rawTail", "append"}
  BY <1>2, <1>4
<1>7. CheckInv(p)'
  BY <1>1, <1>5, <1>6, OwnCheck DEF CheckInv
<1>8. CASE RotateCasTail(p)
  <2>1. LimitInv(d, m)'
    BY <1>1, <1>8, RotateCasTailLimit
  <2>2. ReaderInv'
    BY <1>1, <1>2, MemoryStep, MemoryKept
  <2>3. ChecksInv'
    BY <1>1, <1>2, <1>4, <1>5, <1>7, <2>2, OneChecks
  <2> QED BY <2>1, <2>3 DEF SpaceInv
<1>9. CASE RotateLogPanics(p) \/ RotateGetTail(p)
  <2>1. UNCHANGED tail
    BY <1>9 DEF RotateLogPanics, RotateGetTail, logVars
  <2>2. Leaves
    BY <1>4, <1>5, <1>6 DEF Leaves
  <2> QED BY <1>1, <1>2, <1>4, <1>5, <1>7, <2>1, <2>2, CallSpace, MemoryKept
<1> QED BY <1>8, <1>9

LEMMA CasTermCountKeepsSpace ==
    ASSUME NEW d, NEW m, Few(d, m), SpaceInv(d, m), LogInv', NEW p \in Publishers, UNCHANGED readerVars, CasTermCount(p)
    PROVE  SpaceInv(d, m)'
<1>1. LogInv /\ ChecksInv /\ ReaderInv /\ LimitInv(d, m) /\ UNCHANGED poll
  BY DEF SpaceInv, ChecksInv, readerVars, imageVars
<1>2. UNCHANGED <<memory, pubLimit, subscriberPosition>> /\ Return(p, AdminAction, 0)
  BY DEF CasTermCount
<1>3. CheckInv(p)' /\ \A q \in Publishers \ {p} : UNCHANGED <<pc[q], my[q]>>
  BY <1>1, <1>2, ReturnCheck
<1>4. LimitInv(d, m)'
  BY <1>1, CasTermCountLimit
<1>5. ReaderInv'
  BY <1>1, <1>2, MemoryStep, MemoryKept
<1>6. ChecksInv'
  BY <1>1, <1>2, <1>3, <1>5, OneChecks
<1> QED BY <1>4, <1>6 DEF SpaceInv

\* No publisher moves: the subscriber's steps, the driver's, and the close.
LEMMA OthersKeepSpace ==
    ASSUME NEW d, NEW m, Few(d, m), SpaceInv(d, m), LogInv', ReaderInv', pubLimit <= pubLimit',
           UNCHANGED <<pc, my, tail, activeTermCount>>
    PROVE  SpaceInv(d, m)'
<1>1. LogInv /\ LimitInv(d, m) /\ pubLimit \in Int /\ pubLimit' \in Int
  BY DEF SpaceInv, ChecksInv, ReaderInv
<1>2. Leaves
  BY DEF Leaves
<1>3. LimitInv(d, m)'
  BY <1>1, <1>2, QuietKeeps
<1>4. \A q \in Publishers : CheckInv(q)'
  BY <1>1, OthersCheck DEF SpaceInv, ChecksInv
<1> QED BY <1>3, <1>4 DEF SpaceInv, ChecksInv

LEMMA SubscriberKeepsSpace ==
    ASSUME NEW d, NEW m, Few(d, m), SpaceInv(d, m), LogInv', SubscriberNext, UNCHANGED pubVars
    PROVE  SpaceInv(d, m)'
<1>1. ReaderInv /\ UNCHANGED <<pc, my>> /\ pubLimit \in Int /\ pubLimit <= pubLimit
  BY SMT DEF SpaceInv, ChecksInv, ReaderInv, pubVars
<1>2. CASE PollCall
  <2>1. ReaderInv' /\ UNCHANGED <<pubLimit, tail, activeTermCount>>
    BY <1>1, <1>2, PollCallKeeps DEF PollCall, Poll, ControlledPoll, BoundedPoll, StartPoll, logVars
  <2> QED BY <1>1, <2>1, OthersKeepSpace
<1>3. CASE SkipPadding \/ HandleFragment \/ HandlerAborts \/ HandlerBreaks \/ HandlerCommits \/ EndPoll
  <2>1. ReaderInv' /\ UNCHANGED pubLimit
    BY <1>1, <1>3, PollStepKeeps
  <2>2. UNCHANGED <<tail, activeTermCount>>
    BY <1>3 DEF SkipPadding, HandleFragment, HandlerAborts, HandlerBreaks, HandlerCommits, EndPoll, logVars
  <2> QED BY <1>1, <2>1, <2>2, OthersKeepSpace
<1>4. CASE CloseImage \/ SetFinalPosition
  <2>1. UNCHANGED <<tail, activeTermCount, memory, pubLimit, subscriberPosition, poll>>
    BY <1>4 DEF CloseImage, SetFinalPosition, logVars
  <2>2. ReaderInv'
    BY <1>1, <2>1, MemoryStep DEF ReaderInv
  <2> QED BY <1>1, <2>1, <2>2, OthersKeepSpace
<1> QED BY <1>2, <1>3, <1>4 DEF SubscriberNext, SubscriberPolls, SubscriberStep

LEMMA SpaceInvInit == ASSUME NEW d, NEW m, Few(d, m), Init PROVE SpaceInv(d, m)
<1>1. LogInv
  BY LogInvInit
<1>2. /\ memory = [a \in Addresses |-> ZeroCell] /\ pubLimit = StartOffset + Window
      /\ subscriberPosition = StartOffset /\ poll = NoPoll
      /\ pc = [p \in Publishers |-> "idle"] /\ my = [p \in Publishers |-> NoLocals] /\ activeTermCount = 0
  BY DEF Init, LogInit, PublicationInit, ImageInit, Addresses
<1>3. StartOffset \in Nat /\ StartOffset < TermLength /\ Window \in Nat \ {0} /\ TermLength \in Nat \ {0}
  BY SMT, StartAssumption, WindowAssumption, TermAssumption
<1>4. ReaderInv
  <2>1. ZeroCell \in Cells
    BY SMT DEF ZeroCell, Cells, Nothing
  <2>2. memory \in [Addresses -> Cells]
    BY <1>2, <2>1
  <2>3. pubLimit \in Int /\ subscriberPosition \in Nat /\ CleanPosition <= subscriberPosition
    BY SMT, <1>2, <1>3 DEF CleanPosition
  <2> QED BY <1>2, <2>2, <2>3 DEF ReaderInv
<1>5. \A p \in Publishers : CheckInv(p)
  <2>1. NoLocals.id \in Int
    BY SMT DEF NoLocals, Nothing
  <2> QED BY <1>2, <2>1 DEF CheckInv
<1>6. ASSUME NEW l \in Partitions, IsLast(l) PROVE LimitAt(d, m, l)
  <2>1. tail[0].term = 0 /\ tail[0].offset = StartOffset /\ tail[1].term = -2 /\ tail[2].term = -1
    BY SMT DEF Init, LogInit, PartitionCount
  <2>2. l = 0
    <3>1. tail[0].term <= tail[l].term /\ (l = 0 \/ l = 1 \/ l = 2)
      BY SMT, <1>6 DEF IsLast, Partitions, PartitionCount
    <3> QED BY SMT, <2>1, <3>1
  <2>3. Begin(l) = 0 /\ End(l) = StartOffset
    BY SMT, <1>3, <2>1, <2>2 DEF Begin, End, TailPosition, ComputeTermBeginPosition
  <2> DEFINE x == d[Live(l) \cup Asleep(l)]
             all == d[Publishers]
  <2>4. x \in Nat /\ all \in Nat /\ x <= all
    BY <1>1, LimitTypes, SetTypes
  <2>5. tail[l].term = 0
    BY <2>1, <2>2
  <2> HIDE DEF x, all
  <2>6. pubLimit > Begin(l) /\ ~(pubLimit <= Begin(l)) /\ End(l) + x < pubLimit + all
    BY SMT, <1>2, <1>3, <2>3, <2>4
  <2>7. activeTermCount \in {tail[l].term - 1, tail[l].term} /\ activeTermCount # tail[l].term - 1
    BY SMT, <1>2, <2>5
  <2> QED BY <2>6, <2>7 DEF LimitAt, x, all
<1> QED BY <1>1, <1>4, <1>5, <1>6 DEF SpaceInv, ChecksInv, LimitInv

LEMMA SpaceInvNext == ASSUME NEW d, NEW m, Few(d, m), SpaceInv(d, m), [Next]_vars PROVE SpaceInv(d, m)'
<1>1. LogInv /\ LogInv' /\ ReaderInv /\ pubLimit \in Int /\ pubLimit <= pubLimit
  <2>1. LogInv /\ ReaderInv /\ pubLimit \in Int
    BY DEF SpaceInv, ChecksInv, ReaderInv
  <2>2. LogInv'
    BY <2>1, LogInvNext
  <2> QED BY SMT, <2>1, <2>2
<1>2. CASE PublicationNext /\ UNCHANGED readerVars
  <2>1. ASSUME NEW p \in Publishers, PublisherCall(p) PROVE SpaceInv(d, m)'
    BY <1>1, <1>2, <2>1, CallKeepsSpace
  <2>2. ASSUME NEW p \in Publishers, PublisherStep(p) PROVE SpaceInv(d, m)'
    BY <1>1, <1>2, <2>2, ReturnKeepsSpace, CheckKeepsSpace, AppendKeepsSpace, FrameKeepsSpace,
       RotateKeepsSpace, CasTermCountKeepsSpace DEF PublisherStep
  <2>3. ASSUME NEW p \in Publishers, Abort(p) PROVE SpaceInv(d, m)'
    BY <1>1, <1>2, <2>3, FrameKeepsSpace
  <2>4. ASSUME ClosePublication PROVE SpaceInv(d, m)'
    <3>1. UNCHANGED <<pc, my, tail, activeTermCount, memory, pubLimit, subscriberPosition, poll>>
      BY <1>2, <2>4 DEF ClosePublication, logVars, readerVars, imageVars
    <3>2. ReaderInv'
      BY <1>1, <3>1, MemoryStep DEF ReaderInv
    <3> QED BY <1>1, <3>1, <3>2, OthersKeepSpace
  <2> QED BY <1>2, <2>1, <2>2, <2>3, <2>4 DEF PublicationNext
<1>3. CASE SubscriberNext /\ UNCHANGED pubVars
  BY <1>1, <1>3, SubscriberKeepsSpace
<1>4. CASE UpdatePublisherLimit /\ UNCHANGED <<pubVars, readerVars>>
  <2>1. UNCHANGED <<pc, my, tail, activeTermCount, poll>>
    BY <1>4 DEF UpdatePublisherLimit, pubVars, readerVars, imageVars
  <2>2. ReaderInv' /\ pubLimit < pubLimit'
    BY <1>1, <1>4, <2>1, LimitMoves
  <2>3. pubLimit <= pubLimit'
    BY SMT, <1>1, <2>2 DEF ReaderInv
  <2> QED BY <1>1, <2>1, <2>2, <2>3, OthersKeepSpace
<1>5. CASE UNCHANGED vars
  <2>1. UNCHANGED <<pc, my, tail, activeTermCount, memory, pubLimit, subscriberPosition, poll>>
    BY <1>5 DEF vars, logVars, pubVars, readerVars, imageVars
  <2>2. ReaderInv'
    BY <1>1, <2>1, MemoryStep DEF ReaderInv
  <2> QED BY <1>1, <2>1, <2>2, OthersKeepSpace
<1> QED BY <1>2, <1>3, <1>4, <1>5 DEF Next

\* The end of the log is less than one message of every publisher over the limit.
LEMMA SpaceIsClean ==
    ASSUME NEW d, NEW m, Few(d, m), SpaceInv(d, m)
    PROVE  EndOfLog < pubLimit + d[Publishers] /\ EndOfLog <= CleanPosition + 3 * TermLength
<1>1. LogInv /\ ReaderInv /\ LimitInv(d, m)
  BY DEF SpaceInv, ChecksInv
<1>2. PICK l \in Partitions : LastIs(l)
  BY <1>1 DEF LogInv
<1>3. IsLast(l)
  <2>1. \A i \in Partitions : tail[i].term \in (tail[l].term + 1 - PartitionCount)..tail[l].term
    BY <1>2 DEF LastIs, TailsInARow, Partitions
  <2>2. \A i \in Partitions : tail[i].term \in Int
    BY <1>1, TailTypes DEF LogInv
  <2>3. \A i \in Partitions : tail[i].term <= tail[l].term
    BY SMT, <2>1, <2>2 DEF PartitionCount
  <2> QED BY <2>3 DEF IsLast
<1>4. LimitAt(d, m, l)
  BY <1>1, <1>3 DEF LimitInv
<1> DEFINE all == d[Publishers]
           v == d[Live(l)]
           x == d[Live(l) \cup Asleep(l)]
<1>5. /\ Begin(l) \in Int /\ End(l) \in Int /\ all \in Nat /\ all <= TermLength /\ v \in Nat /\ x \in Nat
  BY <1>1, LimitTypes, SetTypes
<1>6. /\ pubLimit > Begin(l) => End(l) + x < pubLimit + all
      /\ pubLimit <= Begin(l) => End(l) + v < pubLimit + all
  BY <1>4 DEF LimitAt
<1>7. /\ pubLimit \in Int /\ Window \in Nat \ {0} /\ TermLength \in Nat \ {0} /\ 2 * Window <= TermLength
      /\ CleanPosition = pubLimit - Window
  BY <1>1, CleanType DEF ReaderInv
<1>8. EndOfLog = End(l) \/ EndOfLog = CleanPosition
  BY <1>2 DEF LastIs, EndOfLog, End
<1> HIDE DEF all, v, x
<1>9. EndOfLog < pubLimit + all
  BY SMT, <1>5, <1>6, <1>7, <1>8
<1>10. EndOfLog <= CleanPosition + 3 * TermLength
  BY SMT, <1>5, <1>7, <1>8, <1>9
<1> QED BY <1>9, <1>10 DEF all
=============================================================================
