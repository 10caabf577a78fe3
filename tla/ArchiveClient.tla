---------------------------- MODULE ArchiveClient ----------------------------
(***************************************************************************)
(* The archive client (archive/): NewArchive connects a control session,   *)
(* and every method sends a request and polls the response stream for its  *)
(* answer, with archive.mtx held, until it comes or time is out.           *)
(*                                                                         *)
(* The response stream may be shared with other clients, answers may come  *)
(* after their call has given up, and what one call reads another cannot.  *)
(* The archive is external.                                                *)
(***************************************************************************)
EXTENDS Integers, Sequences, FiniteSets, SequencesExt

CONSTANTS Callers,          \* goroutines
          Ops,              \* what they call
          Wanted,           \* recordCount of the list calls
          MaxCalls,         \* bound on calls
          MaxNoise,         \* bound on messages that nobody asked for
          Challenges,       \* whether the archive challenges the client
          FragmentLimit     \* fragments in one poll

ASSUME ClientAssumption ==
    /\ Ops \subseteq {"call", "list", "subscriptions", "errors", "close"}
    /\ {Wanted, MaxCalls, MaxNoise, FragmentLimit} \subseteq Nat
    /\ Challenges \in BOOLEAN

NoOne        == 0      \* no holder of the lock, no session, no correlation id
OurSession   == 7
OtherSession == 8

VARIABLES control,    \* Control with its State and Results, archive.SessionID
          nextId,     \* _correlationID
          mtx,        \* archive.mtx: who holds it
          calls,      \* what each goroutine is doing and what its last call returned
          made        \* how many calls there were

VARIABLES requests,   \* the request stream: what the archive has yet to answer
          stream,     \* the response stream: what the client has yet to read
          answered,   \* history: all that was sent to this session
          noise       \* how many messages nobody asked for

client == <<control, nextId, mtx, calls, made>>
wire   == <<requests, stream, answered, noise>>
vars   == <<client, wire>>

Message(type, session, id, code, value) ==
    [type |-> type, session |-> session, id |-> id, code |-> code, value |-> value]
NoMessage == Message("none", NoOne, NoOne, "none", 0)

NoResults == [complete |-> FALSE, response |-> NoMessage, correlation |-> NoOne,
              descriptors |-> <<>>, error |-> NoMessage]

-----------------------------------------------------------------------------
(* Handlers of a fragment: k is the control, m the message.                *)

\* Mutated form: any response on the session is taken
controlFragmentHandlerAny(k, m, id) ==
    IF m.type = "response" /\ m.session = k.session
    THEN [k EXCEPT !.results.response = m, !.results.complete = TRUE] ELSE k

\* Mutated form: only a positive answer ends the call
controlFragmentHandlerOK(k, m, id) ==
    IF m.type = "response" /\ m.session = k.session /\ m.id = id /\ m.code = "OK"
    THEN [k EXCEPT !.results.response = m, !.results.complete = TRUE] ELSE k

\* Descriptors, other sessions and the answers of calls that gave up are ignored.
controlFragmentHandler(k, m, id) ==
    IF m.type = "response" /\ m.session = k.session /\ m.id = id
    THEN [k EXCEPT !.results.response = m, !.results.complete = TRUE] ELSE k

\* A challenge (m.value: whether it is the expected one) is answered by the
\* caller.  A response in any other state than connectRequestSent is an error
\* that the next assignment overwrites.
ConnectionControlFragmentHandler(k, m, id) ==
    CASE m.type = "response" /\ m.id = id ->
           IF m.code # "OK" THEN [k EXCEPT !.state = "error", !.err = TRUE]
           ELSE [k EXCEPT !.state = "connected", !.err = FALSE, !.session = m.session]
      [] m.type = "challenge" /\ m.id = id ->
           IF m.value = 1 THEN [k EXCEPT !.state = "challenged", !.err = FALSE, !.session = m.session]
           ELSE [k EXCEPT !.err = TRUE]
      [] OTHER -> k

\* An ERROR ends the call whatever it answers; SUBSCRIPTION_UNKNOWN does not.
DescriptorFragmentHandler(k, m, id) ==
    CASE m.type = "descriptor" /\ m.session = k.session /\ m.id = id ->
           [k EXCEPT !.results.descriptors = Append(@, m.value)]
      [] /\ m.type = "response" /\ m.session = k.session
         /\ (m.id = id /\ m.code = "RECORDING_UNKNOWN") \/ m.code = "ERROR" ->
           [k EXCEPT !.results.response = m, !.results.complete = TRUE]
      [] OTHER -> k

errorResponseFragmentHandler(k, m) ==
    IF /\ m.session = k.session
       /\ m.type \in {"challenge", "descriptor"} \/ (m.type = "response" /\ m.code = "ERROR")
    THEN [k EXCEPT !.results.error = m] ELSE k

-----------------------------------------------------------------------------
(* Polling the response stream.                                            *)

Complete(k) == k.results.complete
HasError(k) == k.results.error # NoMessage

\* Control.onFragment: any response will do
onFragment(k, m) ==
    IF m.type = "response"
    THEN [k EXCEPT !.results.response = m, !.results.complete = TRUE, !.results.correlation = m.id] ELSE k

\* The handler that a poll is given, and when it breaks or aborts.
Handled(handler, k, m, id) ==
    CASE handler = "connection"  -> ConnectionControlFragmentHandler(k, m, id)
      [] handler = "response"    -> controlFragmentHandler(k, m, id)
      [] handler = "descriptors" -> DescriptorFragmentHandler(k, m, id)
      [] handler = "errors"      -> errorResponseFragmentHandler(k, m)
      [] handler = "any"         -> onFragment(k, m)

Breaks(handler, k) == (handler \in {"response", "any"} /\ Complete(k)) \/ (handler = "errors" /\ HasError(k))

\* Subscription.ControlledPoll: n is how many fragments were taken.  A closed
\* subscription has no images.
ControlledPoll(k, handler, id, limit) ==
    FoldLeft(LAMBDA p, m : IF Breaks(handler, p.k) THEN p ELSE [k |-> Handled(handler, p.k, m, id), n |-> p.n + 1],
             [k |-> k, n |-> 0],
             SubSeq(stream, 1, IF k.closed THEN 0 ELSE IF limit < Len(stream) THEN limit ELSE Len(stream)))

\* control.poll clears the old results first.
Cleared(k) == [k EXCEPT !.results.response = NoMessage, !.results.complete = FALSE]

Take(p) == control' = p.k /\ stream' = SubSeq(stream, p.n + 1, Len(stream))

-----------------------------------------------------------------------------
(* NewArchive                                                              *)

Request(op, id) == [op |-> op, id |-> id, sent |-> 0]

\* A request that cannot be sent ends it.
ConnectRequest(sent) ==
    /\ control.state = "new" /\ (sent => ~control.closed)
    /\ control' = [control EXCEPT !.state = "sent", !.err = ~sent]
    /\ nextId' = nextId + 1
    /\ requests' = IF sent THEN Append(requests, Request("connect", nextId)) ELSE requests
    /\ UNCHANGED <<mtx, calls, made, stream, answered, noise>>

\* One turn of the loop that waits for the connection.  Time is looked at after
\* every poll, also after the one that connected.
PollForConnection ==
    LET id == nextId - 1
        p  == ControlledPoll(Cleared(control), "connection", id, 1)
    IN  /\ control.state \in {"sent", "challenged"} /\ ~control.err
        /\ \/ Take(p)
           \/ Take([p EXCEPT !.k.state = "timedOut", !.k.err = TRUE])
        /\ requests' = IF p.n = 1 /\ p.k.state = "challenged" /\ stream[1].type = "challenge" /\ stream[1].id = id
                       THEN Append(requests, Request("challengeResponse", id)) ELSE requests
        /\ UNCHANGED <<nextId, mtx, calls, made, answered, noise>>

Connected == control.state = "connected" /\ ~control.err

-----------------------------------------------------------------------------
(* The calls.                                                              *)

IdleCall == [pc |-> "idle", op |-> "none", id |-> NoOne, ok |-> FALSE, timedOut |-> FALSE, values |-> <<>>]

Asks(op) == op \notin {"errors", "close"}

\* The id is taken before the lock.
Call(c, op) ==
    /\ Connected /\ calls[c].pc = "idle" /\ made < MaxCalls
    /\ made' = made + 1 /\ nextId' = IF Asks(op) THEN nextId + 1 ELSE nextId
    /\ calls' = [calls EXCEPT ![c] = [IdleCall EXCEPT !.pc = "lock", !.op = op,
                                                      !.id = IF Asks(op) THEN nextId ELSE NoOne]]
    /\ UNCHANGED <<control, mtx, wire>>

\* What c's call returns; the deferred call unlocks.
Return(c, ok, timedOut, values) ==
    /\ calls' = [calls EXCEPT ![c].pc = "idle", ![c].ok = ok, ![c].timedOut = timedOut, ![c].values = values]
    /\ mtx' = NoOne

\* The results of a list call are cleared before its first poll.
Fresh(op) ==
    IF op \in {"list", "subscriptions"} THEN [Cleared(control) EXCEPT !.results.descriptors = <<>>]
    ELSE IF op = "errors" THEN [control EXCEPT !.results.error = NoMessage]
    ELSE control

\* Lock and send.  Proxy.Offer gives up when the time is out or the publication
\* is closed; Close closes publication, subscription and client.
Send(c, sent) ==
    /\ calls[c].pc = "lock" /\ mtx = NoOne
    /\ IF calls[c].op = "close"
       THEN /\ control' = [control EXCEPT !.closed = TRUE]
            /\ Return(c, TRUE, FALSE, <<>>)
            /\ UNCHANGED requests
       ELSE IF control.closed \/ (Asks(calls[c].op) /\ ~sent)
       THEN Return(c, FALSE, FALSE, <<>>) /\ UNCHANGED <<control, requests>>
       ELSE /\ mtx' = c /\ calls' = [calls EXCEPT ![c].pc = "poll"] /\ control' = Fresh(calls[c].op)
            /\ requests' = IF Asks(calls[c].op) THEN Append(requests, Request(calls[c].op, calls[c].id))
                           ELSE requests
    /\ UNCHANGED <<nextId, made, stream, answered, noise>>

\* One turn of the loop in PollForResponse
PollForResponse(c) ==
    LET p == ControlledPoll(Cleared(control), "response", calls[c].id, FragmentLimit)
    IN  /\ calls[c].pc = "poll" /\ calls[c].op = "call"
        /\ Take(p)
        /\ IF Complete(p.k)
           THEN Return(c, p.k.results.response.code = "OK", FALSE, <<p.k.results.response.value>>)
           ELSE IF control.closed THEN Return(c, FALSE, FALSE, <<>>)
           ELSE \/ UNCHANGED <<calls, mtx>>
                \/ Return(c, FALSE, TRUE, <<>>)
        /\ UNCHANGED <<nextId, made, requests, answered, noise>>

\* One turn of the loop in PollForDescriptors, and what the caller makes of its result
PollForDescriptors(c) ==
    LET p     == ControlledPoll(Cleared(control), "descriptors", calls[c].id,
                                Wanted - Len(control.results.descriptors))
        found == p.k.results.descriptors
    IN  /\ calls[c].pc = "poll" /\ calls[c].op \in {"list", "subscriptions"}
        /\ Take(p)
        /\ IF Complete(p.k) \/ Len(found) >= Wanted
           THEN Return(c, p.k.results.response.code # "ERROR", FALSE, found)
           ELSE IF control.closed THEN Return(c, FALSE, FALSE, <<>>)
           ELSE \/ UNCHANGED <<calls, mtx>>
                \/ Return(c, FALSE, TRUE, <<>>)
        /\ UNCHANGED <<nextId, made, requests, answered, noise>>

\* One turn of the loop in PollForErrorResponse
PollForErrorResponse(c) ==
    LET p == ControlledPoll(Cleared(control), "errors", NoOne, FragmentLimit)
    IN  /\ calls[c].pc = "poll" /\ calls[c].op = "errors"
        /\ Take(p)
        /\ IF HasError(p.k) THEN Return(c, FALSE, FALSE, <<>>)
           ELSE IF p.n = 0 THEN Return(c, TRUE, FALSE, <<>>)
           ELSE UNCHANGED <<calls, mtx>>
        /\ UNCHANGED <<nextId, made, requests, answered, noise>>

\* The conductor of the Aeron client, which takes no lock of the archive client,
\* closes all publications and subscriptions.  Between the calls that is what
\* Close does; here it happens under a call, or under NewArchive.
closeAllResources ==
    /\ ~control.closed /\ (mtx # NoOne \/ ~Connected)
    /\ control' = [control EXCEPT !.closed = TRUE]
    /\ UNCHANGED <<nextId, mtx, calls, made, wire>>

-----------------------------------------------------------------------------
(* The archive (external).                                                 *)

Reply(m) == stream' = Append(stream, m) /\ answered' = Append(answered, m)

Answers(i, m) == Reply(m) /\ requests' = RemoveAt(requests, i)

\* The descriptors of a list one by one, fewer than wanted with a last word.
Lists(i) ==
    LET q == requests[i] IN
    \/ /\ q.sent < Wanted
       /\ Reply(Message("descriptor", OurSession, q.id, "none", q.sent + 1))
       /\ requests' = IF q.sent + 1 = Wanted THEN RemoveAt(requests, i) ELSE [requests EXCEPT ![i].sent = @ + 1]
    \/ /\ q.sent < Wanted
       /\ Answers(i, Message("response", OurSession, q.id,
                             IF q.op = "list" THEN "RECORDING_UNKNOWN" ELSE "SUBSCRIPTION_UNKNOWN", 0))

\* Requests are worked off in any order.
Archive ==
    /\ \E i \in DOMAIN requests :
         LET q == requests[i] IN
         \/ /\ q.op = "connect"
            /\ \/ /\ Challenges
                  /\ \E expected \in {0, 1} : Answers(i, Message("challenge", OurSession, q.id, "none", expected))
               \/ \E code \in {"OK", "ERROR"} : Answers(i, Message("response", OurSession, q.id, code, 0))
         \/ /\ q.op \in {"challengeResponse", "call"}
            /\ \E code \in {"OK", "ERROR"} : Answers(i, Message("response", OurSession, q.id, code, q.id))
         \/ q.op \in {"list", "subscriptions"} /\ Lists(i)
         \/ q.op \in {"list", "subscriptions"} /\ Answers(i, Message("response", OurSession, q.id, "ERROR", 0))
    /\ UNCHANGED <<client, noise>>

\* Signals, and the answers to others who use the same channel and stream
Noise ==
    /\ noise < MaxNoise /\ noise' = noise + 1
    /\ \E m \in {Message("signal", OurSession, NoOne, "none", 0),
                 Message("response", OtherSession, NoOne, "OK", 0),
                 Message("response", OtherSession, NoOne, "ERROR", 0),
                 Message("descriptor", OtherSession, NoOne, "none", 0)} :
         stream' = Append(stream, m)
    /\ UNCHANGED <<client, requests, answered>>

-----------------------------------------------------------------------------

Init ==
    /\ control = [state |-> "new", err |-> FALSE, session |-> NoOne, closed |-> FALSE, results |-> NoResults]
    /\ nextId = 1 /\ mtx = NoOne /\ made = 0
    /\ calls = [c \in Callers |-> IdleCall]
    /\ requests = <<>> /\ stream = <<>> /\ answered = <<>> /\ noise = 0

Client ==
    \/ \E sent \in BOOLEAN : ConnectRequest(sent)
    \/ PollForConnection
    \/ \E c \in Callers :
         \/ \E op \in Ops : Call(c, op)
         \/ \E sent \in BOOLEAN : Send(c, sent)
         \/ PollForResponse(c) \/ PollForDescriptors(c) \/ PollForErrorResponse(c)
    \/ closeAllResources

Next == Client \/ Archive \/ Noise

Spec == Init /\ [][Next]_vars

-----------------------------------------------------------------------------
(* Properties.                                                             *)

\* The messages of a type that the archive has sent for a request
SentFor(id, type) == SelectSeq(answered, LAMBDA m : m.id = id /\ m.type = type)

\* What a call returns is the archive's answer to that very call, whatever
\* late answers to earlier calls, other clients' answers and signals are in
\* the stream (controlFragmentHandler, DescriptorFragmentHandler): the value of
\* an OK response; a list's descriptors in order, as many as were wanted or all
\* there are.  And the session that the client uses is the one the archive gave
\* it, by a positive answer to its own connect request or challenge response.
ResultIsOurs ==
    /\ \A c \in Callers : LET r == calls[c] IN r.pc = "idle" /\ r.ok =>
        /\ r.op = "call" => \E m \in ToSet(SentFor(r.id, "response")) : m.code = "OK" /\ r.values = <<m.value>>
        /\ r.op = "list" =>
             LET sent == SentFor(r.id, "descriptor") IN
             /\ r.values = [i \in DOMAIN sent |-> sent[i].value]
             /\ Len(sent) = Wanted \/ \E m \in ToSet(SentFor(r.id, "response")) : m.code = "RECORDING_UNKNOWN"
        /\ r.op = "subscriptions" => r.values = [i \in 1..Wanted |-> i]
    /\ Connected => /\ control.session = OurSession
                    /\ \E m \in ToSet(answered) : m.type = "response" /\ m.code = "OK" /\ m.id = 1

\* A call that gives up has not missed its answer: none was read, also not by
\* a call of another goroutine (archive.mtx).  SUBSCRIPTION_UNKNOWN is the
\* exception: ListRecordingSubscriptions waits on for what does not come.
TimeoutMissesNothing ==
    [][\A c \in Callers :
         calls[c].pc = "poll" /\ calls'[c].pc = "idle" /\ calls'[c].timedOut =>
             \A m \in ToSet(SentFor(calls[c].id, "response")) :
                 m \in ToSet(stream') \/ m.code = "SUBSCRIPTION_UNKNOWN"]_vars
=============================================================================
