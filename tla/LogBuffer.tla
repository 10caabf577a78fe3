------------------------------ MODULE LogBuffer ------------------------------
(***************************************************************************)
(* The log of a stream (aeron/logbuffer): three term partitions, used in   *)
(* turn, the tail counter of each of them, and the count of the active     *)
(* term.  The publication appends frames to it and the image of a          *)
(* subscription reads them; over IPC both map the same file.               *)
(*                                                                         *)
(* Lengths and offsets are counted in units of FrameAlignment (32 bytes),  *)
(* which is also the length of the frame header, so that lengths are       *)
(* aligned as AlignInt32 leaves them.  A term is named by its distance     *)
(* from the initial term id, as every use of a term id in the code         *)
(* subtracts it or compares it with another one.                           *)
(***************************************************************************)
EXTENDS Integers, Sequences, FiniteSets

CONSTANTS TermLength,  \* units in a term
          MaxTerms,    \* terms in the life of a stream, 2^31 in the code
          Window,      \* how far the driver lets the publisher run ahead
          StartOffset  \* where the driver starts the stream in the first term

PartitionCount == 3

ASSUME TermAssumption == TermLength \in Nat \ {0} /\ MaxTerms \in Nat \ {0}
ASSUME WindowAssumption == Window \in 1..(TermLength \div 2)
ASSUME StartAssumption == StartOffset \in 0..(TermLength - 1)

\* The message id of a padding frame, and of memory that holds nothing.
Pad     == -1
Nothing == 0

BeginFrag == "begin"
EndFrag   == "end"

\* A unit of memory: the int32 at its start, which is the frame length when a
\* frame starts there, and the message, term and flags it was written for.
ZeroCell == [length |-> 0, id |-> Nothing, term |-> 0, flags |-> {}]

VARIABLES
    tail,               \* the raw tail counters: a term id and an offset each
    activeTermCount,    \* metaData.ActiveTermCountOff
    memory,             \* the units of the three partitions
    pubLimit,           \* the position counter that limits the publication
    subscriberPosition, \* the position counter of the image
    claims,             \* history: the frames in the log, in log order
    delivered           \* history: what the subscriber's handler took of them

history == <<claims, delivered>>
logVars == <<tail, activeTermCount, memory, pubLimit, subscriberPosition, history>>

IndexByTermCount(termCount) == termCount % PartitionCount

ComputeTermBeginPosition(term) == term * TermLength

\* Where a unit of a term lies in memory.
Address(term, offset) == IndexByTermCount(term) * TermLength + offset

\* The log as the driver made it: the tails of the partitions that are not
\* active hold the term three before the one that will use them.
LogInit ==
    /\ tail = [i \in 0..(PartitionCount - 1) |->
                  IF i = 0 THEN [term |-> 0, offset |-> StartOffset]
                  ELSE [term |-> i - PartitionCount, offset |-> 0]]
    /\ activeTermCount = 0
    /\ memory = [a \in 0..(PartitionCount * TermLength - 1) |-> ZeroCell]
    /\ pubLimit = StartOffset + Window
    /\ subscriberPosition = StartOffset
    /\ claims = <<>>
    /\ delivered = <<>>

StartOf(f) == ComputeTermBeginPosition(f.term) + f.offset
EndOf(f)   == StartOf(f) + f.length

\* The driver has zeroed the log up to here.
CleanPosition == pubLimit - Window

\* The position at which the claimed frames end.
EndOfLog == IF claims = <<>> THEN CleanPosition ELSE EndOf(claims[Len(claims)])

DataFrames(frames) == SelectSeq(frames, LAMBDA f : f.id # Pad)

\* The driver zeroes what the subscriber has consumed and moves the limit; the
\* histories forget what is no longer in the log.
UpdatePublisherLimit ==
    LET zeroed == {q % (PartitionCount * TermLength) :
                      q \in CleanPosition..(subscriberPosition - 1)}
    IN
    /\ CleanPosition # subscriberPosition
    /\ memory' = [a \in DOMAIN memory |-> IF a \in zeroed THEN ZeroCell ELSE memory[a]]
    /\ pubLimit' = subscriberPosition + Window
    /\ \E n \in 0..Len(claims) :
          /\ \A i \in DOMAIN claims : EndOf(claims[i]) <= subscriberPosition <=> i <= n
          /\ claims' = SubSeq(claims, n + 1, Len(claims))
          /\ delivered' = SubSeq(delivered, Len(DataFrames(SubSeq(claims, 1, n))) + 1, Len(delivered))
    /\ UNCHANGED <<tail, activeTermCount, subscriberPosition>>
=============================================================================
