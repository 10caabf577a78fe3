-------------------------------- MODULE Image --------------------------------
(***************************************************************************)
(* The image of a stream (aeron/image_impl.go): Poll, BoundedPoll and      *)
(* ControlledPoll read frames from the log at the subscriber position and  *)
(* hand them to a handler.  One goroutine polls; another one may close.    *)
(***************************************************************************)
EXTENDS LogBuffer

CONSTANTS Polls,           \* the poll methods the subscriber calls
          FragmentLimits,  \* the fragment limits it passes
          LimitDistances,  \* how far ahead of it BoundedPoll's limits are
          Int32Modulus     \* units that an int32 counts before it wraps

ASSUME PollAssumption == Int32Modulus \in Nat \ {0} /\ LimitDistances \subseteq Int

VARIABLES
    imageClosed,    \* isClosed of the image
    finalPosition,  \* the position it was closed at
    closing,        \* Close is between the two
    poll            \* the poll under way: its locals

imageVars == <<imageClosed, finalPosition, closing, poll>>

NoPoll == [kind |-> "none", index |-> 0, initialPosition |-> 0, initialOffset |-> 0,
           offset |-> 0, limitOffset |-> 0, fragmentsRead |-> 0, fragmentLimit |-> 0]

ImageInit ==
    /\ imageClosed = FALSE
    /\ finalPosition = 0
    /\ closing = FALSE
    /\ poll = NoPoll

IndexByPosition(position) == (position \div TermLength) % PartitionCount

\* Conversion of an int64 number of units to int32.
ToInt32(n) == ((n + (Int32Modulus \div 2)) % Int32Modulus) - (Int32Modulus \div 2)

\* The offset Poll and ControlledPoll stop at, and BoundedPoll for a limit.
BoundedLimitOffset(limitPosition, position, offset) ==
    LET limitOffset == ToInt32(limitPosition - position) + offset
    IN  IF limitOffset > TermLength THEN TermLength ELSE limitOffset

StartPoll(kind, fragmentLimit, limitOffset) ==
    /\ poll = NoPoll
    /\ ~imageClosed
    /\ kind \in Polls
    /\ poll' = [kind |-> kind, index |-> IndexByPosition(subscriberPosition),
                initialPosition |-> subscriberPosition,
                initialOffset |-> subscriberPosition % TermLength,
                offset |-> subscriberPosition % TermLength,
                limitOffset |-> limitOffset, fragmentsRead |-> 0,
                fragmentLimit |-> fragmentLimit]
    /\ UNCHANGED <<imageClosed, finalPosition, closing, logVars>>

Poll(fragmentLimit)           == StartPoll("poll", fragmentLimit, TermLength)
ControlledPoll(fragmentLimit) == StartPoll("controlled", fragmentLimit, TermLength)
BoundedPoll(fragmentLimit, distance) ==
    StartPoll("bounded", fragmentLimit,
              BoundedLimitOffset(subscriberPosition + distance, subscriberPosition,
                                 subscriberPosition % TermLength))

-----------------------------------------------------------------------------
(* The loop of a poll, and what it does after it.                          *)

\* The unit of the polled partition at an offset.
Unit(offset) == memory[poll.index * TermLength + offset]

\* The loop goes on: the limits are not reached and a frame is there.
FrameReady ==
    /\ poll # NoPoll
    /\ poll.fragmentsRead < poll.fragmentLimit
    /\ poll.offset < poll.limitOffset
    /\ Unit(poll.offset).length > 0

\* What the handler finds in the frame.
Fragment ==
    [length |-> Unit(poll.offset).length, flags |-> Unit(poll.offset).flags,
     content |-> {<<Unit(poll.offset + i).id, Unit(poll.offset + i).term>> :
                     i \in 0..(Unit(poll.offset).length - 1)}]

Advanced == poll.offset + Unit(poll.offset).length

SkipPadding ==
    /\ FrameReady
    /\ Unit(poll.offset).id = Pad
    /\ poll' = [poll EXCEPT !.offset = Advanced]
    /\ UNCHANGED <<imageClosed, finalPosition, closing, logVars>>

\* The handler takes the fragment, and a controlled one lets the poll go on.
HandleFragment ==
    /\ FrameReady
    /\ Unit(poll.offset).id # Pad
    /\ delivered' = Append(delivered, Fragment)
    /\ poll' = [poll EXCEPT !.offset = Advanced, !.fragmentsRead = @ + 1]
    /\ UNCHANGED <<imageClosed, finalPosition, closing, tail, activeTermCount, memory, pubLimit,
                   subscriberPosition, claims>>

\* The position after the poll, set when it is beyond the initial one.
ResultingPosition(offset) == poll.initialPosition + (offset - poll.initialOffset)

SetPosition(offset) ==
    subscriberPosition' = IF ResultingPosition(offset) > poll.initialPosition
                          THEN ResultingPosition(offset) ELSE subscriberPosition

\* Mutated form: the position is set to where the frame ended.
AbortAdvances ==
    /\ FrameReady
    /\ poll.kind = "controlled"
    /\ Unit(poll.offset).id # Pad
    /\ SetPosition(Advanced)
    /\ poll' = NoPoll
    /\ UNCHANGED <<imageClosed, finalPosition, closing, tail, activeTermCount, memory, pubLimit,
                   history>>

\* A controlled handler returns Abort: the fragment is not consumed.
HandlerAborts ==
    /\ FrameReady
    /\ poll.kind = "controlled"
    /\ Unit(poll.offset).id # Pad
    /\ SetPosition(poll.offset)
    /\ poll' = NoPoll
    /\ UNCHANGED <<imageClosed, finalPosition, closing, tail, activeTermCount, memory, pubLimit,
                   history>>

\* It returns Break: the fragment is the last one of this poll.
HandlerBreaks ==
    /\ FrameReady
    /\ poll.kind = "controlled"
    /\ Unit(poll.offset).id # Pad
    /\ delivered' = Append(delivered, Fragment)
    /\ SetPosition(Advanced)
    /\ poll' = NoPoll
    /\ UNCHANGED <<imageClosed, finalPosition, closing, tail, activeTermCount, memory, pubLimit,
                   claims>>

\* It returns Commit: the position is set and the poll goes on.
HandlerCommits ==
    /\ FrameReady
    /\ poll.kind = "controlled"
    /\ Unit(poll.offset).id # Pad
    /\ delivered' = Append(delivered, Fragment)
    /\ subscriberPosition' = ResultingPosition(Advanced)
    /\ poll' = [poll EXCEPT !.initialPosition = ResultingPosition(Advanced),
                            !.initialOffset = Advanced, !.offset = Advanced,
                            !.fragmentsRead = @ + 1]
    /\ UNCHANGED <<imageClosed, finalPosition, closing, tail, activeTermCount, memory, pubLimit,
                   claims>>

EndPoll ==
    /\ poll # NoPoll
    /\ ~FrameReady
    /\ SetPosition(poll.offset)
    /\ poll' = NoPoll
    /\ UNCHANGED <<imageClosed, finalPosition, closing, tail, activeTermCount, memory, pubLimit,
                   history>>

\* Close: the flag first, then the position is kept for those who ask later.
CloseImage ==
    /\ "close" \in Polls
    /\ ~imageClosed
    /\ imageClosed' = TRUE
    /\ closing' = TRUE
    /\ UNCHANGED <<finalPosition, poll, logVars>>

SetFinalPosition ==
    /\ closing
    /\ finalPosition' = subscriberPosition
    /\ closing' = FALSE
    /\ UNCHANGED <<imageClosed, poll, logVars>>

\* Position of the image, as a caller sees it.
ImagePosition == IF imageClosed THEN finalPosition ELSE subscriberPosition

PollCall ==
    \E n \in FragmentLimits :
        \/ Poll(n) \/ ControlledPoll(n)
        \/ \E d \in LimitDistances : BoundedPoll(n, d)
=============================================================================
