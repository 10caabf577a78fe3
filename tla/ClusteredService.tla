-------------------------- MODULE ClusteredService --------------------------
(***************************************************************************)
(* The service container of a cluster member (cluster/): the agent of      *)
(* clustered_service_agent.go with its log adapter, its service adapter,   *)
(* the snapshot taker and loader and the proxy of the consensus module.    *)
(* The consensus module, the driver and the archive are external: they are *)
(* modelled from the messages that the agent reads and answers.            *)
(*                                                                         *)
(* The agent is one goroutine.  DoWork polls the service adapter on a tick *)
(* of the clock and then the log up to the commit position; the consensus  *)
(* module runs between the two.  Log positions count frames: the frame at  *)
(* position i ends there.  The state of the service is what it was told,   *)
(* so a snapshot of it is that sequence.                                   *)
(***************************************************************************)
EXTENDS Integers, Sequences, FiniteSets, SequencesExt

CONSTANTS Sessions,          \* cluster session ids
          Scripts,           \* bound: the kinds of the frames in a log, but for the terms
          MaxAsks,           \* bound on requested acks
          Roles,             \* roles that elections give to the member
          MaxTerms,          \* bound on leadership terms
          MaxCrashes,        \* bound on crashes
          MaxFaults,         \* bound on faults, each of which happens once
          Faults,            \* the faults there may be
          IsStandby,         \* whether the member joins as a standby
          LogFragmentLimit   \* options.LogFragmentLimit

Null == -1

\* memberId of a membership change, and the id this member got when it joined
ThisMember    == 0
AnotherMember == 1

\* "begin" and "end" are the fragments of a session message that has two,
\* "standby" is a snapshot action for standby members, "other" a template the
\* adapter does not know and "badTerm" a term with another major version.
Kinds == {"open", "close", "message", "begin", "end", "timer", "term", "badTerm",
          "snapshot", "standby", "quit", "other"}

\* What fails: the log's subscription or image; the recording of a snapshot; a
\* session's publication, in the log or in the snapshot ("loader"); the archive
\* or driver in loadSnapshot; and versions that differ.
FaultKinds == {"addSubscription", "imageLost", "snapshot", "session", "loader", "archive",
               "appVersion", "badTerm"}

ASSUME BoundsAssumption ==
    /\ \A script \in Scripts : script \in Seq(Kinds \ {"term", "badTerm"})
    /\ Faults \subseteq FaultKinds
    /\ IsStandby \in BOOLEAN
    /\ Roles \subseteq {"Leader", "Follower"}
    /\ {MaxAsks, MaxTerms, MaxCrashes, MaxFaults, LogFragmentLimit} \subseteq Nat

VARIABLES agent,      \* the ClusteredServiceAgent and its adapters, a record
          pc          \* "service": at the start of DoWork; "log": after the service adapter

VARIABLES log,        \* the member's log
          oldLog,     \* the log of the session before this one
          committed,  \* how much of the log is committed
          counter,    \* the commit position counter
          term,       \* leadership term
          session,    \* log session id: the log image that the agent is to read
          cm,         \* what the consensus module does
          target,     \* the position at which it awaits the service's ack
          ackId,      \* the id of that ack
          inbox,      \* messages to the service
          acks,       \* ServiceAcks under way
          snapshot,   \* the latest snapshot that the service has acknowledged
          asks,       \* how often it has requested an ack
          crashes,    \* how many crashes there were
          faults      \* the faults that have happened

module == <<log, oldLog, committed, counter, term, session, cm, target, ackId, inbox, acks, snapshot, asks, crashes, faults>>
vars   == <<agent, pc, module>>

NoImage == [session |-> 0, position |-> 0, closed |-> FALSE]
NoEvent == [logPosition |-> Null, maxLogPosition |-> Null, session |-> 0, role |-> "Follower"]

\* A snapshot is the frames that takeSnapshot records, and what the consensus
\* module keeps about it: the recovery counter.
NoRecording == <<>>      \* NullValue in an ack
NoSnapshot == [position |-> 0, term |-> Null, frames |-> <<>>]

NewAgent ==
    [status |-> "starting", logPosition |-> Null, clusterTime |-> 0, term |-> Null, sessions |-> {},
     image |-> NoImage, maxLogPosition |-> 0, builder |-> <<>>, event |-> NoEvent,
     termination |-> Null, requestedAck |-> Null, nextAckId |-> 0, role |-> "Follower",
     standby |-> FALSE, service |-> <<>>, sent |-> <<>>, joinError |-> "none"]

Infinity == 1000    \* a position beyond every log

-----------------------------------------------------------------------------
(* What the agent does with its state a.                                   *)

\* proxy.serviceAckRequest
serviceAck(a, position, relevant) ==
    [a EXCEPT !.nextAckId = @ + 1,
              !.sent = Append(@, [id |-> a.nextAckId, position |-> position, relevant |-> relevant])]

Panic(a) == [a EXCEPT !.status = "panicked"]

\* A callback of the service.
Tell(a, kind, arg, content) ==
    [a EXCEPT !.service = Append(@, [kind |-> kind, arg |-> arg, content |-> content])]

At(a, position) == [a EXCEPT !.logPosition = position, !.clusterTime = position]

terminate(a) ==
    [serviceAck([a EXCEPT !.status = "terminated"], a.logPosition, NoRecording) EXCEPT !.termination = Null]

setRole(a, role) == [a EXCEPT !.role = role]

\* An error, of a session that is open or of the publication to the client,
\* makes the adapter panic.
onSessionOpen(a, s, position, content, fails) ==
    IF s \in a.sessions \/ fails = "session"
    THEN Panic(At(a, position))
    ELSE Tell([At(a, position) EXCEPT !.sessions = @ \cup {s}], "open", s, content)

onSessionClose(a, s, position, content) ==
    IF s \in a.sessions
    THEN Tell([At(a, position) EXCEPT !.sessions = @ \ {s}], "close", s, content)
    ELSE At(a, position)

onNewLeadershipTermEvent(a, t, position, content) ==
    Tell([At(a, position) EXCEPT !.term = t], "term", t, content)

\* The frames of the recording: markBegin, the sessions, markEnd, and then what
\* the service writes in OnTakeSnapshot.
takeSnapshot(a) ==
    <<[type |-> "BEGIN"]>>
    \o SetToSeq({[type |-> "session", id |-> s] : s \in a.sessions})
    \o <<[type |-> "END"], [type |-> "service", data |-> a.service]>>

shouldSnapshot(a, kind) == kind = "snapshot" \/ a.standby

\* The ack carries the recording, or none (NullValue) if the snapshot failed.
onServiceAction(a, kind, position, fails) ==
    IF shouldSnapshot(a, kind)
    THEN serviceAck(At(a, position), position,
                    IF fails = "snapshot" THEN NoRecording ELSE takeSnapshot(At(a, position)))
    ELSE At(a, position)

\* boundedLogAdapter.onMessage: content says which frames the message is made of,
\* fails which fault there is, if any.
onMessage(a, kind, arg, content, position, fails) ==
    CASE kind = "open"    -> onSessionOpen(a, arg, position, content, fails)
      [] kind = "close"   -> onSessionClose(a, arg, position, content)
      [] kind = "message" -> Tell(At(a, position), "message", arg, content)
      [] kind = "timer"   -> Tell(At(a, position), "timer", arg, content)
      [] kind = "term"    -> onNewLeadershipTermEvent(a, arg, position, content)
      [] kind = "badTerm" -> Panic(a)
      [] kind \in {"snapshot", "standby"} -> onServiceAction(a, kind, position, fails)
      [] kind = "quit"    -> IF arg = ThisMember THEN terminate(At(a, position)) ELSE At(a, position)
      [] kind = "other"   -> a

\* Mutated form: the first fragment does not start a new message
onFragmentAppends(a, frame, position, fails) ==
    LET unit == <<frame.term, position>> IN
    CASE frame.kind = "begin" -> [a EXCEPT !.builder = Append(@, unit)]
      [] frame.kind = "end"   ->
           IF a.builder = <<>> THEN a
           ELSE [onMessage(a, "message", frame.arg, Append(a.builder, unit), position, fails) EXCEPT !.builder = <<>>]
      [] OTHER -> onMessage(a, frame.kind, frame.arg, <<unit>>, position, fails)

\* boundedLogAdapter.onFragment: a builder puts fragmented messages together.
onFragment(a, frame, position, fails) ==
    LET unit == <<frame.term, position>> IN
    CASE frame.kind = "begin" -> [a EXCEPT !.builder = <<unit>>]
      [] frame.kind = "end"   ->
           IF a.builder = <<>> THEN a
           ELSE [onMessage(a, "message", frame.arg, Append(a.builder, unit), position, fails) EXCEPT !.builder = <<>>]
      [] OTHER -> onMessage(a, frame.kind, frame.arg, <<unit>>, position, fails)

-----------------------------------------------------------------------------
(* The two halves of DoWork.                                               *)

\* serviceAdapter.onFragment.  A join limits the log that is being read to
\* where the new one starts.
onServiceMessage(a, m) ==
    CASE m.type = "join"      -> [a EXCEPT !.maxLogPosition = m.event.logPosition, !.event = m.event]
      [] m.type = "terminate" -> [a EXCEPT !.termination = m.position]
      [] m.type = "ack"       -> [a EXCEPT !.requestedAck = m.position]

\* The image of the new log stands at the position of the event; the error is
\* dropped by the caller.  ok: whether the subscription can be added.
joinActiveLog(a, event, ok) ==
    IF ~ok THEN [a EXCEPT !.joinError = "driver"]
    ELSE IF event.logPosition # a.logPosition THEN [a EXCEPT !.joinError = "position"]
    ELSE setRole(serviceAck([a EXCEPT !.image = [session |-> event.session, position |-> event.logPosition, closed |-> FALSE],
                                      !.maxLogPosition = event.maxLogPosition, !.standby = IsStandby],
                            event.logPosition, NoRecording), event.role)

Joins(a) == a.event # NoEvent /\ a.image = NoImage

\* Mutated form: terminates without waiting for the position
TerminatesAtOnce(a) == a.termination # Null

Terminates(a) == a.termination # Null /\ a.logPosition >= a.termination

pollServiceAdapter(a, messages, ok) ==
    LET polled == FoldLeft(onServiceMessage, a, messages)
        joined == IF Joins(polled)
                  THEN joinActiveLog([polled EXCEPT !.event = NoEvent], polled.event, ok) ELSE polled
        ended  == IF Terminates(joined) THEN terminate(joined) ELSE joined
    IN  IF ended.requestedAck # Null /\ ended.logPosition >= ended.requestedAck
        THEN [serviceAck(ended, ended.logPosition, NoRecording) EXCEPT !.requestedAck = Null]
        ELSE ended

\* Mutated form: what the image passed over is not counted
closeLogInPlace(a) == setRole([a EXCEPT !.image = NoImage], "Follower")

closeLog(a) ==
    setRole([a EXCEPT !.logPosition = IF a.image.position > @ THEN a.image.position ELSE @,
                      !.image = NoImage],
            "Follower")

\* Where the image gets its frames: the log, or the one before if the consensus
\* module has gone on to another.
Content(image) == IF image.session = session THEN log ELSE oldLog

isDone(a) == a.image.position >= a.maxLogPosition \/ a.image.closed

\* The position that boundedLogAdapter.poll reads up to
PollLimit(a, limit) ==
    LET ends == {Len(Content(a.image)), limit, a.image.position + LogFragmentLimit} IN
    IF a.image.closed \/ limit < a.image.position THEN a.image.position
    ELSE CHOOSE p \in ends : \A q \in ends : p <= q

\* A panic in a handler ends the batch.
pollLog(a, limit, fails) ==
    LET last  == PollLimit(a, limit)
        Step(b, p) == IF b.status = "panicked" THEN b ELSE onFragment(b, Content(a.image)[p], p, fails)
        batch == [i \in 1..(last - a.image.position) |-> a.image.position + i]
    IN  IF batch # <<>> THEN [FoldLeft(Step, a, batch) EXCEPT !.image.position = last]
        ELSE IF isDone(a) THEN closeLog(a)
        ELSE a

-----------------------------------------------------------------------------
(* Recovery.                                                               *)

\* snapshotLoader.onFragment, called until isDone, one frame a poll.  A session
\* whose publication cannot be made ends the loading: err is set, not read.
loaderOnFragment(l, frame) ==
    CASE l.isDone -> l
      [] frame.type = "BEGIN"   -> [l EXCEPT !.isDone = l.inSnapshot, !.inSnapshot = TRUE, !.read = @ + 1]
      [] frame.type = "END"     -> [l EXCEPT !.isDone = TRUE, !.inSnapshot = FALSE, !.read = @ + 1]
      [] frame.type = "session" ->
           IF frame.id \in l.failing THEN [l EXCEPT !.isDone = TRUE, !.read = @ + 1]
           ELSE [l EXCEPT !.sessions = @ \cup {frame.id}, !.read = @ + 1]
      [] OTHER -> [l EXCEPT !.read = @ + 1]

\* The service reads the image from where the loader has left it.
OnStart(rest) ==
    IF rest # <<>> /\ rest[1].type = "service" THEN rest[1].data
    ELSE <<[kind |-> "unreadable", arg |-> 0, content |-> <<>>]>>

\* The second half of loadSnapshot, once the image is there: the archive replays
\* the recording.
loadImage(a, frames, failing) ==
    LET l == FoldLeft(loaderOnFragment,
                      [isDone |-> FALSE, inSnapshot |-> FALSE, sessions |-> {}, read |-> 0, failing |-> failing],
                      frames)
    IN  [a EXCEPT !.sessions = l.sessions, !.service = OnStart(SubSeq(frames, l.read + 1, Len(frames)))]

\* The end of recoverState: the service has started.
Started(a) == serviceAck([a EXCEPT !.status = "running"], a.logPosition, NoRecording)

\* The first half of loadSnapshot: archive, replay and subscription.  An error of
\* any ends StartAndRun.
loadSnapshot(a, ok) == [a EXCEPT !.status = IF ok THEN "loading" ELSE "stopped"]

\* The recovery counter gives position, time and term.
recoverState(a, ok) ==
    LET b == [a EXCEPT !.logPosition = snapshot.position, !.clusterTime = snapshot.position,
                       !.term = snapshot.term]
    IN  IF snapshot.term = Null THEN Started(b) ELSE loadSnapshot(b, ok)

-----------------------------------------------------------------------------
(* The agent's actions.                                                    *)

\* Mutated form: an ack is offered once, and lost to back pressure
PostNothing(a) == agent' = [a EXCEPT !.sent = <<>>] /\ UNCHANGED acks

\* What was sent is on its way; proxy.offer panics if the consensus module is gone.
Post(a) ==
    IF cm = "down" /\ a.sent # <<>>
    THEN agent' = Panic([a EXCEPT !.sent = <<>>]) /\ UNCHANGED acks
    ELSE agent' = [a EXCEPT !.sent = <<>>] /\ acks' = acks \o a.sent

Fault(f) ==
    /\ f \in Faults \ faults /\ Cardinality(faults) < MaxFaults
    /\ faults' = faults \cup {f}

\* OnStart of the agent
Recover ==
    /\ agent.status = "starting" /\ cm = "recovering"
    /\ \E ok \in BOOLEAN :
         /\ Post(recoverState(agent, ok))
         /\ IF ok THEN UNCHANGED faults
            ELSE recoverState(agent, ok) # recoverState(agent, TRUE) /\ Fault("archive")
    /\ UNCHANGED <<asks, pc, log, oldLog, committed, counter, term, session, cm, target, ackId, inbox, snapshot, crashes>>

\* awaitImage waits until the image is there, for ever if it does not come.
AwaitImage ==
    /\ agent.status = "loading"
    /\ \/ agent' = Panic(agent) /\ Fault("appVersion") /\ UNCHANGED acks
       \/ \E failing \in SUBSET Sessions :
            LET a == loadImage(agent, snapshot.frames, failing) IN
            /\ Post(Started(a))
            /\ IF a = loadImage(agent, snapshot.frames, {}) THEN UNCHANGED faults ELSE Fault("loader")
    /\ UNCHANGED <<asks, pc, log, oldLog, committed, counter, term, session, cm, target, ackId, inbox, snapshot, crashes>>

\* checkForClockTick is true: the commit position counter must be there.
Tick ==
    /\ agent.status = "running" /\ pc = "service"
    /\ \/ /\ cm = "down" /\ agent' = Panic(agent)
          /\ UNCHANGED <<pc, inbox, acks, faults>>
       \/ /\ cm # "down"
          /\ \E ok \in BOOLEAN :
               LET a == pollServiceAdapter(agent, inbox, ok) IN
               /\ Post(a)
               /\ pc' = IF a.image = NoImage THEN "service" ELSE "log"
               /\ IF ok THEN UNCHANGED faults ELSE a.joinError = "driver" /\ Fault("addSubscription")
          /\ inbox' = <<>>
    /\ UNCHANGED <<asks, log, oldLog, committed, counter, term, session, cm, target, ackId, snapshot, crashes>>

\* With or without a tick before it; the loop ends only after DoWork.
PollLog ==
    /\ agent.status = "running" \/ (agent.status = "terminated" /\ pc = "log")
    /\ agent.image # NoImage
    /\ \E fails \in {"none", "snapshot", "session"} :
         LET a == pollLog(agent, counter, fails) IN
         /\ Post(a)
         /\ IF fails = "none" THEN UNCHANGED faults
            ELSE a # pollLog(agent, counter, "none") /\ Fault(fails)
    /\ pc' = "service"
    /\ UNCHANGED <<asks, log, oldLog, committed, counter, term, session, cm, target, ackId, inbox, snapshot, crashes>>

-----------------------------------------------------------------------------
(* The consensus module, the driver and crashes (external).                *)

\* The last leadership term of a log
TermOf(l) ==
    LET terms == {i \in DOMAIN l : l[i].kind \in {"term", "badTerm"}}
    IN  IF terms = {} THEN Null ELSE l[CHOOSE i \in terms : \A j \in terms : j <= i].arg

OpenIn(l) ==
    {s \in Sessions : \E i \in DOMAIN l :
        /\ l[i].kind = "open" /\ l[i].arg = s
        /\ \A j \in DOMAIN l : j > i /\ l[j].kind = "close" => l[j].arg # s}

\* A leader starts its term with the term event, and nothing comes between the
\* fragments of a message.
MayFollow(l, kind, arg) ==
    IF TermOf(l) # term THEN kind \in {"term", "badTerm"} /\ arg = term
    ELSE IF Last(l).kind = "begin" THEN kind = "end" /\ arg = Last(l).arg
    ELSE \/ kind = "open" /\ arg \in Sessions \ OpenIn(l)
         \/ kind \in {"close", "message", "begin"} /\ arg \in OpenIn(l)
         \/ kind \in {"timer", "snapshot", "standby", "other"} /\ arg = 0
         \/ kind = "quit" /\ arg \in {ThisMember, AnotherMember}

TakesSnapshot(kind) == kind = "snapshot" \/ (kind = "standby" /\ IsStandby)

InScripts(l) ==
    \E script \in Scripts :
        IsPrefix(SelectSeq([i \in DOMAIN l |-> l[i].kind], LAMBDA kind : kind \notin {"term", "badTerm"}), script)

\* After a snapshot action, or the member's removal, it waits for the service.
AppendFrame(kind, arg) ==
    /\ cm = "live" /\ MayFollow(log, kind, arg)
    /\ kind \in {"term", "badTerm"} \/ InScripts(Append(log, [kind |-> kind]))
    /\ IF kind = "badTerm" THEN Fault("badTerm") ELSE UNCHANGED faults
    /\ log' = Append(log, [kind |-> kind, arg |-> arg, term |-> term])
    /\ cm' = IF TakesSnapshot(kind) THEN "snapshotting"
             ELSE IF kind = "quit" /\ arg = ThisMember THEN "terminating"
             ELSE cm
    /\ target' = IF cm' = cm THEN target ELSE Len(log')
    /\ UNCHANGED <<asks, agent, pc, oldLog, committed, counter, term, session, ackId, inbox, acks, snapshot, crashes>>

Commit ==
    /\ cm \in {"live", "snapshotting", "waiting", "terminating"}
    /\ committed < Len(log)
    /\ committed' = committed + 1 /\ counter' = committed'
    /\ UNCHANGED <<asks, agent, pc, log, oldLog, term, session, cm, target, ackId, inbox, acks, snapshot, crashes, faults>>

SendJoin(position, max, role) ==
    /\ session' = session + 1 /\ oldLog' = log /\ target' = position
    /\ inbox' = Append(inbox, [type |-> "join",
                               event |-> [logPosition |-> position, maxLogPosition |-> max,
                                          session |-> session + 1, role |-> role]])

\* The log since the snapshot is replayed to the service.
JoinReplay ==
    /\ cm = "recovered" /\ counter < committed
    /\ SendJoin(counter, committed, "Follower")
    /\ cm' = "joiningReplay"
    /\ UNCHANGED <<asks, agent, pc, log, committed, counter, term, ackId, acks, snapshot, crashes, faults>>

Removes(frame) == frame.kind = "quit" /\ frame.arg = ThisMember

\* It goes on to the next frame that the service acknowledges, now as before, or
\* to the end.
ReplayAdvances ==
    LET stops == {p \in (counter + 1)..committed : TakesSnapshot(log[p].kind) \/ Removes(log[p])}
        next  == IF stops = {} THEN committed ELSE CHOOSE p \in stops : \A q \in stops : p <= q
    IN  /\ cm = "replaying" /\ counter < committed
        /\ counter' = next /\ target' = next
        /\ cm' = IF stops = {} THEN cm ELSE IF Removes(log[next]) THEN "terminating" ELSE "snapshottingReplay"
        /\ UNCHANGED <<asks, agent, pc, log, oldLog, committed, term, session, ackId, inbox, acks, snapshot, crashes, faults>>

\* An election, at the end of recovery or at any time: a new log follows what
\* is committed.
Elect(role) ==
    /\ \/ cm \in {"recovered", "replaying"} /\ counter = committed
       \/ cm = "live" /\ term - crashes < MaxTerms
    /\ SendJoin(committed, Infinity, role)
    /\ log' = SubSeq(log, 1, committed) /\ term' = term + 1
    /\ cm' = "joining"
    /\ UNCHANGED <<asks, agent, pc, committed, counter, ackId, acks, snapshot, crashes, faults>>

\* The position is the end of a message that the service knows: the agent does
\* not count others (logPosition), so it would not reach theirs.
Ask(type, state) ==
    /\ cm = "live" /\ log # <<>> /\ Last(log).kind \notin {"begin", "other"}
    /\ inbox' = Append(inbox, [type |-> type, position |-> Len(log)])
    /\ target' = Len(log) /\ cm' = state
    /\ asks' = IF type = "ack" THEN asks + 1 ELSE asks
    /\ UNCHANGED <<agent, pc, log, oldLog, committed, counter, term, session, ackId, acks, snapshot, crashes, faults>>

Terminate  == Ask("terminate", "terminating")
RequestAck == asks < MaxAsks /\ Ask("ack", "waiting")

\* What the consensus module does once the service has reached target.
AfterAck ==
    CASE cm = "recovering"    -> "recovered"
      [] cm \in {"joiningReplay", "snapshottingReplay"} -> "replaying"
      [] cm \in {"joining", "snapshotting", "waiting"} -> "live"
      [] cm = "terminating"   -> "done"
      [] OTHER -> cm

AckIsRead == /\ cm # "down" /\ acks # <<>> /\ Head(acks).id = ackId
             /\ Head(acks).position >= target

OnServiceAck ==
    /\ AckIsRead
    /\ acks' = Tail(acks) /\ ackId' = ackId + 1
    /\ cm' = AfterAck /\ oldLog' = <<>> /\ target' = IF cm' = "done" THEN target ELSE 0
    /\ snapshot' = IF Head(acks).relevant = NoRecording THEN snapshot
                   ELSE [position |-> Head(acks).position, frames |-> Head(acks).relevant,
                         term |-> TermOf(SubSeq(log, 1, Head(acks).position))]
    /\ UNCHANGED <<asks, agent, pc, log, committed, counter, term, session, inbox, crashes, faults>>

\* The driver closes the image of a log that is done with, or one that it loses.
ImageCloses ==
    /\ agent.image # NoImage /\ ~agent.image.closed
    /\ \/ /\ agent.image.session # session /\ agent.image.position >= target
          /\ UNCHANGED faults
       \/ Fault("imageLost")
    /\ agent' = [agent EXCEPT !.image.closed = TRUE]
    /\ UNCHANGED <<asks, pc, log, oldLog, committed, counter, term, session, cm, target, ackId, inbox, acks, snapshot, crashes>>

\* The consensus module dies, alone or with the container; messages are lost.
Crash ==
    /\ cm # "down" /\ crashes < MaxCrashes
    /\ cm' = "down" /\ inbox' = <<>> /\ acks' = <<>> /\ crashes' = crashes + 1
    /\ agent' \in {agent, [NewAgent EXCEPT !.status = "crashed"]}
    /\ UNCHANGED <<asks, pc, log, oldLog, committed, counter, term, session, target, ackId, snapshot, faults>>

\* Both are started again, from the latest snapshot.
Restart ==
    /\ cm = "down" /\ agent.status \in {"starting", "loading", "stopped", "crashed", "panicked", "terminated"}
    /\ agent' = NewAgent /\ pc' = "service"
    /\ cm' = "recovering" /\ counter' = snapshot.position /\ target' = snapshot.position /\ ackId' = 0
    /\ UNCHANGED <<asks, log, oldLog, committed, term, session, inbox, acks, snapshot, crashes, faults>>

-----------------------------------------------------------------------------

Init ==
    /\ agent = NewAgent /\ pc = "service"
    /\ log = <<>> /\ oldLog = <<>> /\ committed = 0 /\ counter = 0 /\ term = 0 /\ session = 0
    /\ cm = "recovering" /\ target = 0 /\ ackId = 0 /\ inbox = <<>> /\ acks = <<>>
    /\ snapshot = NoSnapshot /\ asks = 0 /\ crashes = 0 /\ faults = {}

Agent == Recover \/ AwaitImage \/ Tick \/ PollLog

Next ==
    \/ Agent
    \/ \E kind \in Kinds, arg \in Sessions \cup 0..(MaxTerms + MaxCrashes) : AppendFrame(kind, arg)
    \/ Commit \/ OnServiceAck
    \/ JoinReplay \/ ReplayAdvances \/ Restart
    \/ \E role \in Roles : Elect(role)
    \/ Terminate \/ RequestAck
    \/ ImageCloses \/ Crash

Spec == Init /\ [][Next]_vars

-----------------------------------------------------------------------------
(* Properties.                                                             *)

\* The messages of a log: where each ends, and what it is made of.  Parts of a
\* message that never ended, actions and unknown templates are none.
MessagesOf(l) ==
    LET ends == {i \in DOMAIN l : /\ l[i].kind \in {"open", "close", "message", "end", "timer", "term"}
                                  /\ l[i].kind = "end" => i > 1 /\ l[i - 1].kind = "begin"}
        unit(i) == <<l[i].term, i>>
        whole(i) == IF l[i].kind = "end"
                    THEN [kind |-> "message", arg |-> l[i].arg, content |-> <<unit(i - 1), unit(i)>>]
                    ELSE [kind |-> l[i].kind, arg |-> l[i].arg, content |-> <<unit(i)>>]
        order == SelectSeq([i \in DOMAIN l |-> i], LAMBDA i : i \in ends)
    IN  [j \in DOMAIN order |-> whole(order[j])]

Applied == SubSeq(log, 1, agent.logPosition)

\* Whatever crashes, elections, joins, replays and snapshots there were, the
\* service has been told exactly the messages of the committed log up to the
\* agent's log position: in order, once, and put together from their own
\* fragments (boundedLogAdapter, loadSnapshot, joinActiveLog).  And the sessions,
\* and the term that goes into the headers of what the service sends, are those
\* of the log at that position, restored or replayed.  The exception is a session
\* that failed to load: the loader's err is not looked at.
AppliedIsTheLog ==
    agent.status \in {"running", "terminated"} /\ "loader" \notin faults =>
        /\ agent.logPosition <= committed
        /\ agent.service = MessagesOf(Applied)
        /\ agent.sessions = OpenIn(Applied)
        /\ agent.term = TermOf(Applied)

\* A join fails only if the driver refuses the subscription or has lost an
\* image: otherwise the log that was read ends where the new one starts, also
\* when padding or part of a message is the last of it (closeLog).  And the
\* consensus module goes on after a join only when the service reads the new log
\* (the ack of joinActiveLog).
JoinsWhereItEnded ==
    /\ agent.joinError # "none" => faults \cap {"addSubscription", "imageLost"} # {}
    /\ cm \in {"live", "snapshotting", "waiting"} /\ agent.status = "running" /\ "imageLost" \notin faults =>
          agent.image.session = session

\* A container that was told to terminate ends with the log applied up to that
\* position, not before (pollServiceAdapter).
TerminatesAtPosition ==
    agent.status = "terminated" /\ cm \in {"terminating", "done"} => agent.logPosition = target

\* The agent and the consensus module never wait for each other: when the agent
\* has dealt with every message and frame that it can see, and its acks are
\* read, the module is not in a state that only an ack ends, but for one at a
\* position that is not committed yet, and the log is read as far as it is
\* committed.  So a join, a snapshot or a request is always acknowledged, unless
\* the join was lost to a fault of the driver.
NobodyWaits ==
    /\ agent.status = "running" /\ cm # "down" /\ faults \cap {"addSubscription", "imageLost"} = {}
    /\ inbox = <<>> /\ pollServiceAdapter(agent, <<>>, TRUE) = agent
    /\ agent.image # NoImage => pollLog(agent, counter, "none") = agent
    /\ ~AckIsRead
    => /\ cm \in {"live", "recovered", "replaying"} \/ target > counter
       /\ cm = "live" => agent.image.position = counter
=============================================================================
