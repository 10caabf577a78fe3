-------------------------------- MODULE Stream -------------------------------
(***************************************************************************)
(* A stream over IPC: the publication and its publishers, the image that   *)
(* polls the same log, and the driver that moves the publisher's limit and *)
(* zeroes what has been consumed.                                          *)
(***************************************************************************)
EXTENDS Publication, FragmentAssembler

readerVars == <<imageVars, assemblerVars>>
vars       == <<logVars, pubVars, readerVars>>

Init == LogInit /\ PublicationInit /\ ImageInit /\ AssemblerInit

Next ==
    \/ PublicationNext /\ UNCHANGED readerVars
    \/ SubscriberNext /\ UNCHANGED pubVars
    \/ UpdatePublisherLimit /\ UNCHANGED <<pubVars, readerVars>>

Spec == Init /\ [][Next]_vars

\* The goroutine inside a call is scheduled; the subscriber polls in a loop
\* and the driver's duty cycle runs.  Nobody is bound to call Offer.
FairSpec ==
    /\ Spec
    /\ \A p \in Publishers : WF_vars(PublisherStep(p) /\ UNCHANGED readerVars)
    /\ WF_vars((SubscriberStep \/ SubscriberPolls) /\ UNCHANGED pubVars)
    /\ WF_vars(UpdatePublisherLimit /\ UNCHANGED <<pubVars, readerVars>>)

-----------------------------------------------------------------------------
(* Properties.                                                             *)

Labels == {"idle", "termCount", "rawTail", "append", "frame", "commit",
           "newPosition", "panicked", "rotateCas", "termCountCas"}

\* The tails are in three terms in a row, each in its own partition, and partition
\* last is in the latest of them.
TailsInARow(last) ==
    \A i \in 0..(PartitionCount - 1) :
        /\ tail[i].term % PartitionCount = i
        /\ tail[i].term \in (tail[last].term + 1 - PartitionCount)..tail[last].term

\* Where the tail of a partition says the log ends: an append that does not fit
\* takes the counter past the end of the term.
TailPosition(raw) ==
    ComputeTermBeginPosition(raw.term)
        + (IF raw.offset < TermLength THEN raw.offset ELSE TermLength)

\* The terms are used in turn: RotateLog opens the next term only when the one
\* before it is full, never resets the tail of a term that is in use, and the
\* active term count follows and never leads.
TermsInTurn ==
    \E last \in 0..(PartitionCount - 1) :
        /\ TailsInARow(last)
        /\ \A i \in 0..(PartitionCount - 1) :
              tail[i].term \in 0..(tail[last].term - 1) => tail[i].offset >= TermLength
        /\ activeTermCount <= tail[last].term
        /\ claims # <<>> => EndOfLog = TailPosition(tail[last])

FramesAdjoin == \A i \in DOMAIN claims : i > 1 => StartOf(claims[i]) = EndOf(claims[i - 1])

\* The frames the publishers claim follow one another without gap or overlap,
\* across the ends of terms, whichever of them pads the term, rotates the log, or
\* does it late with an old term count.  The terms are used in turn, and the log
\* ends where the tail of the latest one says, whoever stalls between the reads
\* and the compare-and-sets.
LogIsContiguous == FramesAdjoin /\ TermsInTurn

\* What the reader must find of a frame.
FragmentOf(f) ==
    [length |-> f.length, content |-> {<<f.id, f.term>>},
     flags |-> {g \in {BeginFrag, EndFrag} : \/ g = BeginFrag /\ f.part = 1
                                             \/ g = EndFrag /\ f.part = f.of}]

\* The handler gets every message frame once, in log order, whole and with
\* its own flags: never memory that is half written, stale or overwritten.
DeliveredIsTheLog ==
    LET data == DataFrames(claims) IN
    /\ Len(delivered) <= Len(data)
    /\ \A i \in DOMAIN delivered : delivered[i] = FragmentOf(data[i])

\* The subscriber position is the end of a frame, and so is the position that a
\* closed image reports once Close is through (the model forgets the frames
\* below CleanPosition, where the driver has zeroed the log, and the first frame
\* it remembers starts there).  Between two polls the subscriber position has
\* passed exactly the message frames the handler accepted, whole and with their
\* own flags: none is lost or seen again, also when a controlled handler aborts,
\* breaks or commits.
PositionCoversDelivered ==
    /\ subscriberPosition >= CleanPosition
    /\ \A position \in {subscriberPosition} \cup (IF closing THEN {} ELSE {ImagePosition}) :
          \/ position <= CleanPosition
          \/ \E i \in DOMAIN claims : position = EndOf(claims[i])
    /\ claims # <<>> => StartOf(claims[1]) = CleanPosition
    /\ poll = NoPoll =>
          LET passed == DataFrames(SelectSeq(claims, LAMBDA f : EndOf(f) <= subscriberPosition))
          IN  delivered = [i \in DOMAIN passed |-> FragmentOf(passed[i])]

\* Every message an assembler hands on is whole: its fragments in order, the
\* first with the begin flag and the last with the end flag and no other, all of
\* one message and none twice, also when the delegate aborted it before
\* (ControlledFragmentAssembler truncates the builder).  And none is kept back:
\* the delegate gets one with every last fragment, and the builder holds
\* something exactly between the first and the last fragment.
MessagesAreWhole ==
    /\ whole
    /\ handler # "raw" /\ delivered # <<>> =>
          LET last == delivered[Len(delivered)] IN
          /\ builder # <<>> <=> EndFrag \notin last.flags
          /\ builder # <<>> => builder[Len(builder)] = last

\* However stale the tail and the limit were that a publisher checked, the log
\* runs over the limit by less than one message of every publisher, and so a
\* frame is claimed only where every earlier use of its memory has been zeroed.
ClaimsFindCleanMemory ==
    /\ \E n \in Lengths : EndOfLog < pubLimit + Cardinality(Publishers) * RequiredLength(n)
    /\ EndOfLog <= CleanPosition + PartitionCount * TermLength

\* The position Offer and TryClaim return is the end of the message they put
\* in the log, or it is short of it by whole turns of the partitions.
ReturnedPosition ==
    \A p \in Publishers :
        results[p].status = "position" /\ results[p].kind # "position" =>
            /\ results[p].excess <= 0
            /\ results[p].excess % (PartitionCount * TermLength) = 0

\* What the tests of Offer expect: the position returned is the position the
\* publication advanced to with the message.
OfferReturnsItsPosition ==
    \A p \in Publishers :
        results[p].status = "position" /\ results[p].kind # "position" => results[p].excess = 0

\* RotateLog panics at the end of the stream, where the next term count does
\* not fit in an int32, only in a call whose tail another publisher moved
\* between its read of the tail and its append: newPosition compares the limit
\* with the tail that was read.  A publisher that is not raced there gets
\* MaxPositionExceeded.
RotatePanicIsARace ==
    \A p \in Publishers : pc[p] = "panicked" => my[p].claimed # my[p].rawTail

\* A frame in the log is consumed, whatever the publishers do after it.
ClaimedIsConsumed ==
    \A q \in 1..((TermBound + 1) * TermLength) : EndOfLog >= q ~> subscriberPosition >= q

\* A full term is followed by the next one: a call that found the term full
\* returns, and then the count has moved on.
FullTermIsRotated ==
    \A c \in 0..TermBound :
        (\E p \in Publishers : pc[p] = "newPosition" /\ my[p].termCount = c)
            ~> activeTermCount > c
=============================================================================
