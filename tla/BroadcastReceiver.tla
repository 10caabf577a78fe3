--------------------------- MODULE BroadcastReceiver --------------------------
(***************************************************************************)
(* The receiving side of the broadcast buffer by which the media driver    *)
(* answers its clients (aeron/broadcast/receiver.go, copyreceiver.go).     *)
(* The transmitter never waits: a receiver that is too slow is lapped, and *)
(* must notice it although every read races with the writes that overwrite *)
(* what it reads.  One step is one access to the shared buffer.            *)
(*                                                                         *)
(* Positions and lengths are counted in units of RecordAlignment, the size *)
(* of a record header; a message is a number, and its payload repeats it.  *)
(***************************************************************************)
EXTENDS Integers, Sequences

CONSTANTS Capacity,         \* units of the buffer
          Payloads,         \* lengths of messages
          MaxTransmitted,   \* bound: messages transmitted in a behaviour
          GarbageLengths,   \* what a payload is taken for when read as a length
          GarbageTypes,     \* and when read as a type
          ScratchCapacity   \* of the buffer messages are copied to

ASSUME BroadcastAssumption ==
    /\ Capacity \in Nat \ {0} /\ MaxTransmitted \in Nat /\ ScratchCapacity \in Nat
    /\ Payloads \subseteq 1..(Capacity - 1)
    /\ GarbageLengths \subseteq Int /\ GarbageTypes \subseteq Int

DataType         == 1
PaddingMsgTypeID == -1
HeaderLength     == 1
TrailerLength    == 16  \* two cache lines

VARIABLES
    buffer,      \* the units: a header or a piece of a payload
    tailIntent, tail, latest,
    sent,        \* the messages transmitted: lengths and ends
    tpc, record, \* the transmitter and the record it is writing
    recordOffset, cursor, nextRecord,  \* fields of Receiver
    lapped,      \* lappedCount has moved on since Receive read it
    pc, scrolling, length, msgTypeID, copied,  \* locals of the receiver
    delivered,   \* history: what the handler was given, until
    strayed      \* it went on from a header that nothing validates

shared      == <<buffer, tailIntent, tail, latest>>
transmitter == <<tpc, record, sent>>
receiver    == <<recordOffset, cursor, nextRecord, lapped>>
locals      == <<scrolling, length, msgTypeID, copied>>
outcome     == <<delivered, strayed>>
vars == <<shared, transmitter, receiver, locals, pc, outcome>>

Header(len, type) == [length |-> len, type |-> type]
Payload(m)        == [msg |-> m]
IsHeader(unit)    == "length" \in DOMAIN unit

Init ==
    /\ buffer = [i \in 0..(Capacity - 1) |-> Header(0, 0)]
    /\ tailIntent = 0 /\ tail = 0 /\ latest = 0
    /\ sent = <<>> /\ tpc = "idle" /\ record = [at |-> 0, length |-> 0, padding |-> 0, written |-> 0]
    /\ recordOffset = 0 /\ cursor = 0 /\ nextRecord = 0 /\ lapped = FALSE
    /\ pc = "tail" /\ scrolling = TRUE /\ length = 0 /\ msgTypeID = 0 /\ copied = <<>>
    /\ delivered = <<>> /\ strayed = FALSE

-----------------------------------------------------------------------------
(* The transmitter, in the media driver.                                   *)

\* A record does not wrap: what is left of the buffer is filled with padding.
Transmit ==
    /\ tpc = "idle"
    /\ Len(sent) < MaxTransmitted
    /\ \E n \in Payloads :
          LET toEnd   == Capacity - (tail % Capacity)
              padding == IF toEnd < n + HeaderLength THEN toEnd ELSE 0
              end     == tail + padding + n + HeaderLength
          IN /\ tailIntent' = end
             /\ sent' = Append(sent, [payload |-> n, end |-> end])
             /\ record' = [at |-> tail + padding, length |-> n + HeaderLength, padding |-> padding, written |-> 0]
             /\ tpc' = IF padding > 0 THEN "padLength" ELSE "length"
    /\ UNCHANGED <<buffer, tail, latest, receiver, locals, pc, outcome>>

\* The length and the type of a header are written one after the other.
WriteLength(label, next, at, len) ==
    /\ tpc = label
    /\ \E type \in IF IsHeader(buffer[at % Capacity]) THEN {buffer[at % Capacity].type}
                   ELSE GarbageTypes :
          buffer' = [buffer EXCEPT ![at % Capacity] = Header(len, type)]
    /\ tpc' = next
    /\ UNCHANGED <<tailIntent, tail, latest, record, sent, receiver, locals, pc, outcome>>

WriteType(label, next, at, type) ==
    /\ tpc = label
    /\ buffer' = [buffer EXCEPT ![at % Capacity].type = type]
    /\ tpc' = next
    /\ UNCHANGED <<tailIntent, tail, latest, record, sent, receiver, locals, pc, outcome>>

WritePadding ==
    \/ WriteLength("padLength", "padType", record.at - record.padding, record.padding)
    \/ WriteType("padType", "length", record.at - record.padding, PaddingMsgTypeID)

WriteHeader ==
    \/ WriteLength("length", "type", record.at, record.length)
    \/ WriteType("type", "payload", record.at, DataType)

WritePayload ==
    /\ tpc = "payload"
    /\ record.written + HeaderLength < record.length
    /\ buffer' = [buffer EXCEPT ![(record.at + HeaderLength + record.written) % Capacity] = Payload(Len(sent))]
    /\ record' = [record EXCEPT !.written = @ + 1]
    /\ UNCHANGED <<tailIntent, tail, latest, tpc, sent, receiver, locals, pc, outcome>>

WriteLatest ==
    /\ tpc = "payload"
    /\ record.written + HeaderLength = record.length
    /\ latest' = record.at
    /\ tpc' = "tail"
    /\ UNCHANGED <<buffer, tailIntent, tail, record, sent, receiver, locals, pc, outcome>>

WriteTail ==
    /\ tpc = "tail"
    /\ tail' = tailIntent
    /\ tpc' = "idle"
    /\ UNCHANGED <<buffer, tailIntent, latest, record, sent, receiver, locals, pc, outcome>>

-----------------------------------------------------------------------------
(* Receiver.receiveNext.                                                   *)

Goto(label) == pc' = label

LengthsAt(offset) == IF IsHeader(buffer[offset]) THEN {buffer[offset].length} ELSE GarbageLengths
TypesAt(offset)   == IF IsHeader(buffer[offset]) THEN {buffer[offset].type} ELSE GarbageTypes

\* The strict comparison keeps one position in reserve.
Validated(position) == position + Capacity > tailIntent

\* Receive of CopyReceiver: the lapped count is remembered first.
Receive ==
    /\ pc = "idle"
    /\ lapped' = FALSE
    /\ Goto("tail")
    /\ UNCHANGED <<shared, transmitter, recordOffset, cursor, nextRecord, locals, outcome>>

\* Mutated form: the counter of the latest record is read for the tail.
ReadTailOfLatest ==
    /\ pc = "tail"
    /\ IF latest > nextRecord
       THEN Goto("validate") /\ UNCHANGED scrolling
       ELSE Goto("idle") /\ scrolling' = FALSE
    /\ UNCHANGED <<shared, transmitter, receiver, length, msgTypeID, copied, outcome>>

\* Nothing new: receiveNext returns false, and ends the scrolling.
ReadTail ==
    /\ pc = "tail"
    /\ IF tail > nextRecord
       THEN Goto("validate") /\ UNCHANGED scrolling
       ELSE Goto("idle") /\ scrolling' = FALSE
    /\ UNCHANGED <<shared, transmitter, receiver, length, msgTypeID, copied, outcome>>

Validate ==
    /\ pc = "validate"
    /\ IF Validated(nextRecord)
       THEN cursor' = nextRecord /\ Goto("length") /\ UNCHANGED lapped
       ELSE lapped' = TRUE /\ Goto("latest") /\ UNCHANGED cursor
    /\ UNCHANGED <<shared, transmitter, recordOffset, nextRecord, locals, outcome>>

ReadLatest ==
    /\ pc = "latest"
    /\ cursor' = latest
    /\ Goto("length")
    /\ UNCHANGED <<shared, transmitter, recordOffset, nextRecord, lapped, locals, outcome>>

ReadLength ==
    /\ pc = "length"
    /\ \E len \in LengthsAt(cursor % Capacity) : nextRecord' = cursor + len
    /\ Goto("type")
    /\ UNCHANGED <<shared, transmitter, recordOffset, cursor, lapped, locals, outcome>>

\* A record was found: the next one while scrolling, a lapped receiver else.
Found ==
    Goto(IF scrolling THEN "tail" ELSE IF lapped THEN "panicked" ELSE "recordLength")

\* What was read of the record at the cursor may have been overwritten, and no
\* Validate follows that would notice: none does while scrolling, and the one
\* after the copy looks at the record behind the padding.
Stray(unchecked) == strayed' = (strayed \/ (unchecked /\ ~Validated(cursor)))

ReadType ==
    /\ pc = "type"
    /\ \E type \in TypesAt(cursor % Capacity) :
          /\ IF type = PaddingMsgTypeID
             THEN recordOffset' = 0 /\ cursor' = nextRecord /\ Goto("skip")
             ELSE recordOffset' = cursor % Capacity /\ Found /\ UNCHANGED cursor
          /\ Stray(scrolling \/ type = PaddingMsgTypeID)
    /\ UNCHANGED <<shared, transmitter, nextRecord, lapped, locals, delivered>>

\* Mutated form: the record behind the padding is not passed.
SkipPaddingOnly ==
    /\ pc = "skip"
    /\ Found
    /\ Stray(scrolling)
    /\ UNCHANGED <<shared, transmitter, receiver, locals, delivered>>

\* The record behind the padding is the first one of the buffer.
SkipPadding ==
    /\ pc = "skip"
    /\ \E len \in LengthsAt(0) : nextRecord' = nextRecord + len
    /\ Found
    /\ Stray(scrolling)
    /\ UNCHANGED <<shared, transmitter, recordOffset, cursor, lapped, locals, delivered>>

-----------------------------------------------------------------------------
(* CopyReceiver.Receive, once a record is found.                           *)

ReadRecordLength ==
    /\ pc = "recordLength"
    /\ \E len \in LengthsAt(recordOffset) :
          /\ length' = len - HeaderLength
          /\ Goto(IF length' > ScratchCapacity THEN "panicked" ELSE "typeID")
    /\ UNCHANGED <<shared, transmitter, receiver, scrolling, msgTypeID, copied, outcome>>

\* The type is read a second time, then the bounds of the copy are checked:
\* log.Fatal ends the process.
ReadTypeID ==
    /\ pc = "typeID"
    /\ \E type \in TypesAt(recordOffset) : msgTypeID' = type
    /\ copied' = <<>>
    /\ Goto(IF recordOffset + HeaderLength + length > Capacity + TrailerLength THEN "panicked" ELSE "copy")
    /\ UNCHANGED <<shared, transmitter, receiver, scrolling, length, outcome>>

\* What a header, or the trailer behind the buffer, is taken for as a payload.
Garbled == 0

MessageAt(offset) ==
    IF offset >= Capacity THEN Garbled
    ELSE IF IsHeader(buffer[offset]) THEN Garbled ELSE buffer[offset].msg

Copy ==
    /\ pc = "copy"
    /\ Len(copied) < length
    /\ copied' = Append(copied, MessageAt(recordOffset + HeaderLength + Len(copied)))
    /\ UNCHANGED <<shared, transmitter, receiver, scrolling, length, msgTypeID, pc, outcome>>

\* The handler is called.
Hand == delivered' = IF strayed THEN delivered ELSE Append(delivered, [type |-> msgTypeID, copy |-> copied])

\* Mutated form: the copy is not validated.
DeliverUnvalidated ==
    /\ pc = "copy"
    /\ Len(copied) >= length
    /\ Hand
    /\ Goto("idle")
    /\ UNCHANGED <<shared, transmitter, receiver, locals, strayed>>

\* The handler gets the copy if the record was not overwritten meanwhile.
Deliver ==
    /\ pc = "copy"
    /\ Len(copied) >= length
    /\ IF Validated(cursor)
       THEN Hand /\ Goto("idle")
       ELSE Goto("panicked") /\ UNCHANGED delivered
    /\ length' = 0 /\ msgTypeID' = 0 /\ copied' = <<>>
    /\ UNCHANGED <<shared, transmitter, receiver, scrolling, strayed>>

-----------------------------------------------------------------------------

Transmission == WritePadding \/ WriteHeader \/ WritePayload \/ WriteLatest \/ WriteTail

Reception ==
    \/ ReadTail \/ Validate \/ ReadLatest \/ ReadLength \/ ReadType \/ SkipPadding
    \/ ReadRecordLength \/ ReadTypeID \/ Copy \/ Deliver

Next == Transmit \/ Transmission \/ Receive \/ Reception

Spec == Init /\ [][Next]_vars

\* The driver finishes what it began to write, and the conductor keeps polling.
FairSpec == Spec /\ WF_vars(Transmission) /\ WF_vars(Reception) /\ WF_vars(Receive)

-----------------------------------------------------------------------------

\* The variables keep their types.
TypeOK ==
    /\ \A i \in 0..(Capacity - 1) :
          IF IsHeader(buffer[i]) THEN buffer[i].type \in {0, DataType, PaddingMsgTypeID} \cup GarbageTypes
          ELSE buffer[i].msg \in 1..MaxTransmitted
    /\ tail \in Nat /\ tailIntent \in Nat /\ latest \in Nat /\ tail <= tailIntent
    /\ cursor \in Int /\ nextRecord \in Int /\ lapped \in BOOLEAN
    /\ recordOffset \in 0..(Capacity - 1)
    /\ \A k \in DOMAIN sent : sent[k].payload \in Payloads
    /\ scrolling \in BOOLEAN /\ strayed \in BOOLEAN
    /\ pc \in {"idle", "tail", "validate", "latest", "length", "type", "skip", "recordLength", "typeID",
               "copy", "panicked"}

\* What the handler was given is a whole message of the transmitter.
IsMessage(d) ==
    /\ d.type = DataType
    /\ d.copy # <<>> /\ d.copy[1] \in DOMAIN sent
    /\ Len(d.copy) = sent[d.copy[1]].payload
    /\ \A k \in DOMAIN d.copy : d.copy[k] = d.copy[1]

\* Every message that Receive hands to its handler is whole, with its own type,
\* and the next one in the order of transmission: a receiver that is lapped, at
\* whatever point of a record and of its reads, panics and neither skips a
\* message nor delivers an overwritten one.  Two points are excepted, where no
\* Validate follows a read that a lap spoilt: a header that is overwritten before
\* its type is read as padding (receiver.go:122), and one that is overwritten
\* while NewCopyReceiver scrolls (copyreceiver.go:38).
DeliveredIsTransmitted ==
    ~strayed =>
        \A k \in DOMAIN delivered :
            /\ IsMessage(delivered[k])
            /\ k > 1 => delivered[k].copy[1] = delivered[k - 1].copy[1] + 1

\* What the driver begins to transmit once the receiver is made is delivered in
\* the end, over every padding, unless the receiver could not keep up: it panicked, or it was
\* lapped at one of the two points at which it does not notice.
TransmittedIsReceived ==
    \A m \in 1..MaxTransmitted :
        (Len(sent) = m /\ tpc \in {"padLength", "length"} /\ ~scrolling) ~>
            \/ pc = "panicked" \/ strayed
            \/ \E k \in DOMAIN delivered : delivered[k].copy[1] = m

\* "Scroll to the latest unprocessed": between two calls, and when it is made, the
\* receiver is at the end of a record of the transmitter, however often it was
\* lapped and sent on to the latest record while it scrolled.  Excepted are the
\* laps between its Validate and the end of its reads of a header, where
\* receiveNext goes on from whatever it read (copyreceiver.go:38).
AtRecordEnd ==
    pc = "idle" /\ ~strayed => nextRecord = 0 \/ \E k \in DOMAIN sent : nextRecord = sent[k].end
=============================================================================
