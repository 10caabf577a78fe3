----------------------------- MODULE Publication -----------------------------
(***************************************************************************)
(* A publication (aeron/publication.go) and the term appenders it writes   *)
(* with (aeron/logbuffer/term/appender.go), shared by several goroutines   *)
(* that offer messages, claim buffers and ask for the position.  Every     *)
(* access to a counter or to a frame's length is a step.                   *)
(***************************************************************************)
EXTENDS LogBuffer

CONSTANTS Publishers,      \* goroutines that share the publication
          Kinds,           \* the methods they call
          Lengths,         \* payload lengths they send, in units
          MaxPayload,      \* maxPayloadLength, in units
          Connected,       \* metaData.IsConnected, which the driver sets
          TermBound        \* bound: no call begins once this many terms are full

\* The frames of a message: one, or full ones and what remains.
FrameLengths(length) ==
    IF length <= MaxPayload THEN <<length + 1>>
    ELSE [i \in 1..(length \div MaxPayload) |-> MaxPayload + 1]
         \o (IF length % MaxPayload > 0 THEN <<(length % MaxPayload) + 1>> ELSE <<>>)

\* alignedLength of an unfragmented message, requiredLength of a fragmented one.
RequiredLength(length) ==
    IF length <= MaxPayload THEN length + 1
    ELSE (length \div MaxPayload) * (MaxPayload + 1)
         + (IF length % MaxPayload > 0 THEN (length % MaxPayload) + 1 ELSE 0)

\* checkForMaxMessageLength panics on a message longer than an eighth of the
\* term; what the model needs is that two of them fit in a term.
ASSUME LengthsAssumption ==
    /\ MaxPayload \in Nat \ {0}
    /\ Lengths \subseteq Nat
    /\ \A n \in Lengths : 2 * RequiredLength(n) <= TermLength

\* What Offer and TryClaim return when they do not return a position.
BackPressured       == "BackPressured"
NotConnected        == "NotConnected"
AdminAction         == "AdminAction"
PublicationClosed   == "PublicationClosed"
MaxPositionExceeded == "MaxPositionExceeded"

VARIABLES
    isClosed,  \* the publication is closed
    pc,        \* where every publisher is
    my,        \* the locals of its call
    results    \* what its last call returned

pubVars == <<isClosed, pc, my, results>>

NoTail   == [term |-> 0, offset |-> 0]
NoLocals == [kind |-> "none", length |-> 0, limit |-> 0, termCount |-> 0,
             rawTail |-> NoTail, claimed |-> NoTail, nextTail |-> NoTail,
             id |-> Nothing, frame |-> 0]
NoResult == [kind |-> "none", status |-> "none", excess |-> 0]

PublicationInit ==
    /\ isClosed = FALSE
    /\ pc = [p \in Publishers |-> "idle"]
    /\ my = [p \in Publishers |-> NoLocals]
    /\ results = [p \in Publishers |-> NoResult]

Goto(p, label) == pc' = [pc EXCEPT ![p] = label]

\* The call returns: a status, or a position.  Of a position we keep how far
\* it is from the one that it should be.
Return(p, status, excess) ==
    /\ pc' = [pc EXCEPT ![p] = "idle"]
    /\ my' = [my EXCEPT ![p] = NoLocals]
    /\ results' = [results EXCEPT ![p] =
          [kind |-> my[p].kind, status |-> status, excess |-> excess]]

MaxPossiblePosition == MaxTerms * TermLength

PositionOf(raw) == ComputeTermBeginPosition(raw.term) + raw.offset

Required(p) == RequiredLength(my[p].length)

-----------------------------------------------------------------------------
(* Offer, Offer2, TryClaim and Position: the checks before the append.     *)

\* The call finds the publication open and reads the limit.
Call(p, kind, length) ==
    /\ pc[p] = "idle"
    /\ activeTermCount < TermBound
    /\ ~isClosed
    /\ my' = [my EXCEPT ![p] = [NoLocals EXCEPT !.kind = kind, !.length = length,
                                                !.limit = pubLimit]]
    /\ results' = [results EXCEPT ![p] = NoResult]
    /\ Goto(p, "termCount")
    /\ UNCHANGED <<isClosed, logVars>>

Offer(p, length)    == "offer" \in Kinds /\ Call(p, "offer", length)
TryClaim(p, length) == /\ "claim" \in Kinds
                       /\ length <= MaxPayload
                       /\ Call(p, "claim", length)
Position(p)         == "position" \in Kinds /\ Call(p, "position", 0)

\* Offer2 sends a message in two parts; their lengths only matter summed.
Offer2(p, lengthOne, lengthTwo) ==
    /\ "offer2" \in Kinds
    /\ lengthOne + lengthTwo \in Lengths
    /\ Call(p, "offer2", lengthOne + lengthTwo)

CallWhenClosed(p) ==
    /\ pc[p] = "idle"
    /\ isClosed
    /\ results[p].status # PublicationClosed
    /\ Return(p, PublicationClosed, 0)
    /\ UNCHANGED <<isClosed, logVars>>

ReadTermCount(p) ==
    /\ pc[p] = "termCount"
    /\ my' = [my EXCEPT ![p].termCount = activeTermCount]
    /\ Goto(p, "rawTail")
    /\ UNCHANGED <<isClosed, results, logVars>>

\* The raw tail of the partition of the term count that was read.
RawTail(p) == tail[IndexByTermCount(my[p].termCount)]

ReturnPosition(p) ==
    /\ pc[p] = "rawTail"
    /\ my[p].kind = "position"
    /\ Return(p, "position", PositionOf(RawTail(p)) - EndOfLog)
    /\ UNCHANGED <<isClosed, logVars>>

\* The partition is in another term than the count that was read says.  Only
\* Offer and Offer2 look.
TermMoved(p) == my[p].kind \in {"offer", "offer2"} /\ my[p].termCount # RawTail(p).term

OfferTermMoved(p) ==
    /\ pc[p] = "rawTail"
    /\ TermMoved(p)
    /\ Return(p, AdminAction, 0)
    /\ UNCHANGED <<isClosed, logVars>>

BackPressureStatus(p) ==
    IF PositionOf(RawTail(p)) + my[p].length >= MaxPossiblePosition THEN MaxPositionExceeded
    ELSE IF Connected THEN BackPressured ELSE NotConnected

\* Mutated form: the limit is not looked at.
LimitIgnored(p) == FALSE

\* The position the raw tail stands for is not below the limit.
AtLimit(p) == PositionOf(RawTail(p)) >= my[p].limit

OfferAtLimit(p) ==
    /\ pc[p] = "rawTail"
    /\ my[p].kind # "position" /\ ~TermMoved(p) /\ AtLimit(p)
    /\ Return(p, BackPressureStatus(p), 0)
    /\ UNCHANGED <<isClosed, logVars>>

ReadRawTail(p) ==
    /\ pc[p] = "rawTail"
    /\ my[p].kind # "position" /\ ~TermMoved(p) /\ ~AtLimit(p)
    /\ my' = [my EXCEPT ![p].rawTail = RawTail(p), ![p].limit = 0]
    /\ Goto(p, "append")
    /\ UNCHANGED <<isClosed, results, logVars>>

-----------------------------------------------------------------------------
(* The appender: the tail is advanced in one step, then the claimed range  *)
(* is filled, frame by frame.                                              *)

\* The flags of the frame: which end of the message it is.
FlagsOf(length, frame) ==
    (IF frame = 1 THEN {BeginFrag} ELSE {})
    \cup (IF frame = Len(FrameLengths(length)) THEN {EndFrag} ELSE {})

\* Where the frame starts: all before it are full ones.
FrameOffset(offset, frame) == offset + (frame - 1) * (MaxPayload + 1)

\* The frames a message adds to the log; each knows which part of how many it is.
FramesOf(length, raw, id) ==
    [i \in 1..Len(FrameLengths(length)) |->
        [term |-> raw.term, offset |-> FrameOffset(raw.offset, i),
         length |-> FrameLengths(length)[i], id |-> id,
         part |-> i, of |-> Len(FrameLengths(length))]]

PaddingFrame(raw) ==
    [term |-> raw.term, offset |-> raw.offset, length |-> TermLength - raw.offset,
     id |-> Pad, part |-> 1, of |-> 1]

\* getAndAddRawTail on the appender of the partition.
GetAndAddRawTail(p, length) ==
    tail' = [tail EXCEPT ![IndexByTermCount(my[p].termCount)].offset = @ + length]

Fits(p) == RawTail(p).offset + Required(p) <= TermLength

\* The range is the publisher's.  The id stands for the message, a
\* number no other message has.
AppendMessage(p) ==
    LET id == PositionOf(RawTail(p)) + 1 IN
    /\ pc[p] = "append"
    /\ Fits(p)
    /\ my' = [my EXCEPT ![p].claimed = RawTail(p), ![p].id = id, ![p].frame = 1]
    /\ GetAndAddRawTail(p, Required(p))
    /\ claims' = claims \o FramesOf(my[p].length, RawTail(p), id)
    /\ Goto(p, "frame")
    /\ UNCHANGED <<isClosed, results, activeTermCount, memory, pubLimit, subscriberPosition, delivered>>

\* Mutated form: the rest of the term is not padded.
NoPadding(p) ==
    /\ pc[p] = "append"
    /\ ~Fits(p)
    /\ GetAndAddRawTail(p, Required(p))
    /\ my' = [my EXCEPT ![p].claimed = RawTail(p)]
    /\ claims' = IF RawTail(p).offset < TermLength
                 THEN claims \o <<PaddingFrame(RawTail(p))>> ELSE claims
    /\ Goto(p, "newPosition")
    /\ UNCHANGED <<isClosed, results, activeTermCount, memory, pubLimit, subscriberPosition, delivered>>

\* handleEndOfLogCondition: the append that crosses the end of the term pads
\* what is left of it; those that come later write nothing.
HandleEndOfLogCondition(p) ==
    /\ pc[p] = "append"
    /\ ~Fits(p)
    /\ GetAndAddRawTail(p, Required(p))
    /\ \/ /\ RawTail(p).offset < TermLength
          /\ my' = [my EXCEPT ![p].claimed = RawTail(p), ![p].id = Pad, ![p].frame = 1]
          /\ claims' = claims \o <<PaddingFrame(RawTail(p))>>
          /\ Goto(p, "frame")
       \/ /\ RawTail(p).offset >= TermLength
          /\ my' = [my EXCEPT ![p].claimed = RawTail(p)]
          /\ Goto(p, "newPosition")
          /\ UNCHANGED claims
    /\ UNCHANGED <<isClosed, results, activeTermCount, memory, pubLimit, subscriberPosition, delivered>>

\* The frame the publisher is at.
MyFrame(p) ==
    IF my[p].id = Pad THEN PaddingFrame(my[p].claimed)
    ELSE FramesOf(my[p].length, my[p].claimed, my[p].id)[my[p].frame]

\* Its flags; headerWriter.write marks a padding frame as unfragmented.
MyFlags(p) ==
    IF my[p].id = Pad THEN {BeginFrag, EndFrag} ELSE FlagsOf(my[p].length, my[p].frame)

\* The memory of a frame, its first unit left out or not.
UnitsOf(f) == {Address(f.term, f.offset + i) : i \in 0..(f.length - 1)}
BodyOf(f)  == UnitsOf(f) \ {Address(f.term, f.offset)}

\* Mutated form: the offset that was read is counted too.
NewPositionFromTail(p) ==
    PositionOf(my[p].rawTail) + my[p].claimed.offset + Required(p)

\* newPosition when the append succeeded.
NewPosition(p) ==
    PositionOf(my[p].rawTail) - my[p].rawTail.offset + my[p].claimed.offset + Required(p)

\* How far that is from the end of the message in the log.
Excess(p) == NewPosition(p) - (PositionOf(my[p].claimed) + Required(p))

\* The memory with the frame written: the negative length first, so that no
\* reader goes on, then the header's fields, the payload, the flags.
WithFrame(f, length, flags) ==
    [a \in DOMAIN memory |->
        IF a = Address(f.term, f.offset)
        THEN [length |-> length, id |-> f.id, term |-> f.term, flags |-> flags]
        ELSE IF a \in BodyOf(f) /\ f.id # Pad
        THEN [length |-> 1, id |-> f.id, term |-> f.term, flags |-> {}]
        ELSE memory[a]]

\* Mutated form: the length is there before the payload is.
FrameLengthFirst(p) ==
    LET f == MyFrame(p) IN
    /\ pc[p] = "frame"
    /\ memory' = [memory EXCEPT ![Address(f.term, f.offset)] =
                     [length |-> f.length, id |-> f.id, term |-> f.term,
                      flags |-> MyFlags(p)]]
    /\ Goto(p, "commit")
    /\ UNCHANGED <<my, results, isClosed, tail, activeTermCount, pubLimit, subscriberPosition, history>>

\* headerWriter.write, the payload and the flags, or the type of a padding
\* frame.  Nobody reads them before the length is set, so this is one step.
\* TryClaim returns after the header and its caller writes the payload.
WriteFrame(p) ==
    LET f == MyFrame(p) IN
    /\ pc[p] = "frame"
    /\ memory' = WithFrame(f, - f.length, MyFlags(p))
    /\ Goto(p, "commit")
    /\ results' = IF my[p].kind = "claim" /\ f.id # Pad
                  THEN [results EXCEPT ![p] =
                           [kind |-> "claim", status |-> "position", excess |-> Excess(p)]]
                  ELSE results
    /\ UNCHANGED <<my, isClosed, tail, activeTermCount, pubLimit, subscriberPosition, history>>

\* Claim.Abort makes a padding frame of the claim.
Abort(p) ==
    LET f == MyFrame(p) IN
    /\ pc[p] = "commit"
    /\ my[p].kind = "claim" /\ f.id # Pad
    /\ memory[Address(f.term, f.offset)].id # Pad
    /\ memory' = [memory EXCEPT ![Address(f.term, f.offset)].id = Pad]
    /\ claims' = [i \in DOMAIN claims |->
                     IF claims[i].id = f.id THEN [claims[i] EXCEPT !.id = Pad] ELSE claims[i]]
    /\ UNCHANGED <<pc, my, results, isClosed, tail, activeTermCount, pubLimit, subscriberPosition, delivered>>

\* SetFrameLength, or Claim.Commit: the frame is there for the readers.
SetFrameLength(p) ==
    LET f == MyFrame(p) IN
    /\ pc[p] = "commit"
    /\ memory' = [memory EXCEPT ![Address(f.term, f.offset)].length = f.length]
    /\ \/ /\ f.id = Pad
          /\ Goto(p, "newPosition")
          /\ UNCHANGED <<my, results>>
       \/ /\ f.id # Pad /\ my[p].frame < Len(FrameLengths(my[p].length))
          /\ my' = [my EXCEPT ![p].frame = @ + 1]
          /\ Goto(p, "frame")
          /\ UNCHANGED results
       \/ /\ f.id # Pad /\ my[p].frame = Len(FrameLengths(my[p].length))
          /\ Return(p, "position", Excess(p))
    /\ UNCHANGED <<isClosed, tail, activeTermCount, pubLimit, subscriberPosition, history>>

-----------------------------------------------------------------------------
(* newPosition and RotateLog after an append that did not fit.             *)

\* Mutated form: the offset is not added.
ExceedsWithoutOffset(p) == PositionOf(my[p].rawTail) > MaxPossiblePosition

ExceedsMaxPosition(p) ==
    PositionOf(my[p].rawTail) + my[p].rawTail.offset > MaxPossiblePosition

ReturnMaxPositionExceeded(p) ==
    /\ pc[p] = "newPosition"
    /\ ExceedsMaxPosition(p)
    /\ Return(p, MaxPositionExceeded, 0)
    /\ UNCHANGED <<isClosed, logVars>>

\* The next term count does not fit in an int32: the index of its partition
\* is negative and RotateLog panics.
RotateLogPanics(p) ==
    /\ pc[p] = "newPosition"
    /\ ~ExceedsMaxPosition(p)
    /\ my[p].termCount + 1 = MaxTerms
    /\ Goto(p, "panicked")
    /\ UNCHANGED <<my, results, isClosed, logVars>>

NextIndex(p) == IndexByTermCount(my[p].termCount + 1)

\* Whether the next partition is still in the term it had three terms ago.
ExpectedTerm(p, raw) == raw.term = my[p].claimed.term + 1 - PartitionCount

\* RotateLog reads the raw tail of the next partition: it was rotated already,
\* or not.
RotateGetTail(p) ==
    LET raw == tail[NextIndex(p)] IN
    /\ pc[p] = "newPosition"
    /\ ~ExceedsMaxPosition(p)
    /\ my[p].termCount + 1 < MaxTerms
    /\ \/ /\ ExpectedTerm(p, raw)
          /\ my' = [my EXCEPT ![p].nextTail = raw]
          /\ Goto(p, "rotateCas")
       \/ /\ ~ExpectedTerm(p, raw)
          /\ Goto(p, "termCountCas")
          /\ UNCHANGED my
    /\ UNCHANGED <<results, isClosed, logVars>>

\* Mutated form: the tail is stored, whatever became of it since it was read.
RotateStoresTail(p) ==
    /\ pc[p] = "rotateCas"
    /\ tail' = [tail EXCEPT ![NextIndex(p)] = [term |-> my[p].claimed.term + 1, offset |-> 0]]
    /\ Goto(p, "termCountCas")
    /\ UNCHANGED <<my, results, isClosed, activeTermCount, memory, pubLimit, subscriberPosition, history>>

\* The compare-and-set of that tail; when it fails the tail is read again.
RotateCasTail(p) ==
    /\ pc[p] = "rotateCas"
    /\ \/ /\ tail[NextIndex(p)] = my[p].nextTail
          /\ tail' = [tail EXCEPT ![NextIndex(p)] =
                         [term |-> my[p].claimed.term + 1, offset |-> 0]]
          /\ Goto(p, "termCountCas")
       \/ /\ tail[NextIndex(p)] # my[p].nextTail
          /\ Goto(p, "newPosition")
          /\ UNCHANGED tail
    /\ UNCHANGED <<my, results, isClosed, activeTermCount, memory, pubLimit, subscriberPosition, history>>

\* Mutated form: the tail is rotated and the count is not.
TermCountKept(p) ==
    /\ pc[p] = "termCountCas"
    /\ Return(p, AdminAction, 0)
    /\ UNCHANGED <<isClosed, logVars>>

\* The compare-and-set of the active term count ends RotateLog.
CasTermCount(p) ==
    /\ pc[p] = "termCountCas"
    /\ activeTermCount' = IF activeTermCount = my[p].termCount
                          THEN my[p].termCount + 1 ELSE activeTermCount
    /\ Return(p, AdminAction, 0)
    /\ UNCHANGED <<isClosed, tail, memory, pubLimit, subscriberPosition, history>>

-----------------------------------------------------------------------------

\* Close marks the publication closed; the conductor releases it.
ClosePublication ==
    /\ "close" \in Kinds
    /\ ~isClosed
    /\ isClosed' = TRUE
    /\ UNCHANGED <<pc, my, results, logVars>>

\* The steps of a call once it has begun.
PublisherStep(p) ==
    \/ ReadTermCount(p) \/ ReturnPosition(p) \/ OfferTermMoved(p) \/ OfferAtLimit(p)
    \/ ReadRawTail(p) \/ AppendMessage(p) \/ HandleEndOfLogCondition(p)
    \/ WriteFrame(p) \/ SetFrameLength(p)
    \/ ReturnMaxPositionExceeded(p) \/ RotateLogPanics(p)
    \/ RotateGetTail(p) \/ RotateCasTail(p) \/ CasTermCount(p)

PublisherCall(p) ==
    \/ \E n \in Lengths : Offer(p, n) \/ TryClaim(p, n)
    \/ \E n \in Lengths, m \in Lengths : Offer2(p, n, m)
    \/ Position(p) \/ CallWhenClosed(p)

PublicationNext ==
    \/ \E p \in Publishers : PublisherCall(p) \/ PublisherStep(p) \/ Abort(p)
    \/ ClosePublication
=============================================================================
