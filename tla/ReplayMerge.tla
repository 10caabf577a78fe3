----------------------------- MODULE ReplayMerge -----------------------------
(***************************************************************************)
(* The replay merge (archive/replaymerge) on top of the archive client: a  *)
(* state machine that replays a recording into a subscription, waits until *)
(* the image has caught up, adds the live destination and, once both       *)
(* transports feed the image, stops the replay.  It polls the same         *)
(* response stream as the calls of ArchiveClient, without their lock; as   *)
(* it is not safe for concurrent use, it works only between two calls.     *)
(*                                                                         *)
(* The recording, the replay in the archive, the subscription's            *)
(* destinations and the image are external.                                *)
(***************************************************************************)
EXTENDS ArchiveClient

CONSTANTS MaxPosition,     \* bound on what is recorded
          MaxAsks,         \* bound on the merge's requests
          MaxTrouble,      \* bound on what disturbs a merge
          BesideOps,       \* bound: which calls do
          LiveAddWindow    \* min(term length / 4, LiveAddMaxWindow)

ASSUME MergeAssumption == {MaxPosition, MaxAsks, MaxTrouble, LiveAddWindow} \subseteq Nat /\ BesideOps \subseteq Ops

Null          == -1   \* RecordingPositionNull, NullValue of positions
ReplaySession == 20   \* what the archive calls the replay
NoReplay      == 0

VARIABLES rm,           \* the fields of ReplayMerge
          late,         \* mergeProgressTimeoutMs have passed since timeOfLastProgressMs
          destinations, \* of the subscription
          image,        \* the subscription's image of the stream
          recording,    \* its position and whether it is active
          replaying,    \* the archive replays the recording
          history       \* asks; erred: one was answered by an error;
                        \* unsent: the one to stop the replay could not be sent;
                        \* atLive: what was recorded when the live destination was added

merge == <<rm, late, destinations, image, recording, replaying, history>>
all   == <<vars, merge>>

-----------------------------------------------------------------------------
(* A piece of work w: what it does to the merge, the control, the wire and *)
(* the destinations; ok is whether requests can be sent.                   *)

Work == [rm |-> rm, k |-> control, n |-> 0, asked |-> <<>>, progress |-> FALSE,
         err |-> FALSE, destinations |-> destinations, unsent |-> history.unsent]

setState(w, s) == [w EXCEPT !.rm.state = s, !.rm.id = NoOne]

\* Proxy.XRequest with the next correlation id
Asked(w, op) == [w EXCEPT !.asked = <<Request(op, nextId)>>]

Ask(w, op, ok, progress) ==
    IF ok THEN [Asked(w, op) EXCEPT !.rm.id = nextId, !.progress = @ \/ progress] ELSE w

\* Control.Poll
Poll == ControlledPoll(IF Complete(control) THEN [control EXCEPT !.results = NoResults] ELSE control,
                       "any", NoOne, FragmentLimit)

\* Mutated form: the answer of another request is taken for its own
pollForResponseAny ==
    LET p == Poll
        r == p.k.results
    IN  [k |-> p.k, n |-> p.n,
         err |-> p.n > 0 /\ r.complete /\ r.response.session = p.k.session /\ r.error # NoMessage,
         success |-> p.n > 0 /\ r.complete]

\* An error is one that PollForErrorResponse has left; an answer whose code is
\* ERROR is a success.
pollForResponse ==
    LET p == Poll
        r == p.k.results
    IN  [k |-> p.k, n |-> p.n,
         err |-> p.n > 0 /\ r.complete /\ r.response.session = p.k.session /\ r.error # NoMessage,
         success |-> p.n > 0 /\ r.complete /\ r.correlation = rm.id]

\* Work that has polled
Polled(p) == [Work EXCEPT !.k = p.k, !.n = p.n, !.err = p.err]

polledRelevantId(p) == p.k.results.response.value

resolveReplayPort(ok) ==
    IF ok THEN setState([Work EXCEPT !.progress = TRUE], "getRecordingPosition") ELSE Work

getRecordingPosition(ok) ==
    LET p == pollForResponse
        w == [Polled(p) EXCEPT !.rm.target = polledRelevantId(p), !.rm.id = NoOne]
    IN  IF rm.id = NoOne THEN Ask(Work, "position", ok, TRUE)
        ELSE IF p.err \/ ~p.success THEN Polled(p)
        ELSE IF w.rm.target = Null THEN Ask(w, "stopPosition", ok, TRUE)
        ELSE setState([w EXCEPT !.progress = TRUE], "replay")

replay(ok) ==
    LET p == pollForResponse
    IN  IF rm.id = NoOne THEN Ask(Work, "replay", ok, TRUE)
        ELSE IF p.err \/ ~p.success THEN Polled(p)
        ELSE setState([Polled(p) EXCEPT !.rm.active = TRUE, !.rm.session = polledRelevantId(p),
                                        !.progress = TRUE], "catchup")

IsConnected == image.there /\ ~image.closed

catchup ==
    LET first == ~rm.image /\ IsConnected
        found == rm.session = ReplaySession   \* ImageBySessionID
        w     == IF first THEN [Work EXCEPT !.progress = TRUE, !.rm.image = found,
                                            !.rm.last = IF found THEN image.position ELSE Null]
                 ELSE Work
    IN  IF ~w.rm.image THEN w
        ELSE IF image.position >= rm.target
        THEN setState([w EXCEPT !.progress = TRUE, !.rm.last = image.position], "attemptLiveJoin")
        ELSE IF image.position > w.rm.last THEN [w EXCEPT !.progress = TRUE, !.rm.last = image.position]
        ELSE [w EXCEPT !.err = image.closed]

stopReplay(w, ok) ==
    IF ok THEN [Asked(w, "stopReplay") EXCEPT !.rm.active = FALSE, !.unsent = FALSE]
    ELSE [w EXCEPT !.unsent = TRUE]

shouldAddLiveDestination(r) == ~r.live /\ r.target - image.position <= LiveAddWindow

shouldStopAndRemoveReplay(r) ==
    r.live /\ r.target - image.position <= 0 /\ Cardinality(image.transports) >= 2

\* What is done with a position the archive reports
Joined(w, ok) ==
    LET progressed == [w EXCEPT !.progress = TRUE, !.rm.last = image.position] IN
    IF shouldAddLiveDestination(w.rm)
    THEN setState([progressed EXCEPT !.destinations = @ \cup {"live"}, !.rm.live = TRUE], "catchup")
    ELSE IF shouldStopAndRemoveReplay(w.rm)
    THEN setState(stopReplay([progressed EXCEPT !.destinations = @ \ {"replay"}], ok), "merged")
    ELSE setState(w, "catchup")

attemptLiveJoin(ok) ==
    LET p == pollForResponse
        w == [Polled(p) EXCEPT !.rm.target = polledRelevantId(p), !.rm.id = NoOne]
    IN  IF rm.id = NoOne THEN Ask(Work, "position", ok, FALSE)
        ELSE IF p.err \/ ~p.success THEN Polled(p)
        ELSE IF w.rm.target = Null THEN Ask(w, "position", ok, FALSE)
        ELSE Joined(w, ok)

-----------------------------------------------------------------------------

\* The merge and the calls do not overlap.
Alone == mtx = NoOne /\ Connected

\* The effect of a piece of work
Apply(w) ==
    /\ Take([k |-> w.k, n |-> w.n])
    /\ requests' = requests \o w.asked
    /\ nextId' = nextId + Len(w.asked)
    /\ destinations' = w.destinations
    /\ history' = [history EXCEPT !.asks = @ + Len(w.asked),
                                  !.unsent = w.unsent,
                                  !.atLive = IF w.rm.live /\ ~rm.live THEN recording.position ELSE @]
    /\ UNCHANGED <<mtx, calls, made, answered, noise, image, recording, replaying>>

\* checkProgress: time is out when there was no progress now or before
checkProgress(w) == late /\ ~w.progress

DoWork(ok) ==
    /\ Alone /\ ~control.closed /\ history.asks < MaxAsks
    /\ rm.state \in {"resolveReplayPort", "getRecordingPosition", "replay", "catchup", "attemptLiveJoin"}
    /\ LET w == CASE rm.state = "resolveReplayPort"    -> resolveReplayPort(ok)
                  [] rm.state = "getRecordingPosition" -> getRecordingPosition(ok)
                  [] rm.state = "replay"               -> replay(ok)
                  [] rm.state = "catchup"              -> catchup
                  [] rm.state = "attemptLiveJoin"      -> attemptLiveJoin(ok)
       IN  /\ rm' = IF w.err \/ checkProgress(w) THEN setState(w, "failed").rm ELSE w.rm
           /\ late' = (late /\ ~w.progress)
           /\ Apply(w)

NewReplayMerge ==
    /\ Alone /\ rm.state = "new"
    /\ \E s \in {"resolveReplayPort", "getRecordingPosition"} : rm' = [rm EXCEPT !.state = s]
    /\ destinations' = destinations \cup {"replay"}
    /\ late' = FALSE
    /\ UNCHANGED <<vars, image, recording, replaying, history>>

\* Mutated form: the replay of a merge that failed is left alone
CloseLeavesFailed(ok) ==
    /\ Alone /\ rm.state \notin {"none", "new", "closed"}
    /\ LET removed == IF control.closed \/ rm.state = "merged" THEN Work
                      ELSE [Work EXCEPT !.destinations = @ \ {"replay"}]
           w == IF control.closed \/ ~rm.active \/ rm.state = "failed" THEN removed ELSE stopReplay(removed, ok)
       IN  rm' = setState(w, "closed").rm /\ Apply(w)
    /\ UNCHANGED late

\* ok: the publication is connected and takes the request
Close(ok) ==
    /\ Alone /\ rm.state \notin {"none", "new", "closed"}
    /\ LET removed == IF control.closed \/ rm.state = "merged" THEN Work
                      ELSE [Work EXCEPT !.destinations = @ \ {"replay"}]
           w == IF control.closed \/ ~rm.active THEN removed ELSE stopReplay(removed, ok)
       IN  rm' = setState(w, "closed").rm /\ Apply(w)
    /\ UNCHANGED late

-----------------------------------------------------------------------------
(* The archive's side and the driver's side (external).                    *)

Position(op) == IF (op = "position") = recording.active THEN recording.position ELSE Null

AnswerMerge ==
    /\ \E i \in DOMAIN requests :
         LET q == requests[i]
             Says(code, value) == /\ stream' = Append(stream, Message("response", OurSession, q.id, code, value))
                                  /\ requests' = RemoveAt(requests, i)
         IN \/ /\ q.op \in {"position", "stopPosition"} /\ Says("OK", Position(q.op))
               /\ UNCHANGED <<replaying, history>>
            \/ /\ q.op = "replay" /\ Says("OK", ReplaySession)
               /\ replaying' = TRUE /\ UNCHANGED history
            \/ /\ q.op = "stopReplay" /\ Says("OK", 0)
               /\ replaying' = FALSE /\ UNCHANGED history
            \/ /\ q.op \in {"position", "stopPosition", "replay"} /\ Says("ERROR", 0)
               /\ history' = [history EXCEPT !.erred = TRUE] /\ UNCHANGED replaying
    /\ UNCHANGED <<client, answered, noise, rm, late, destinations, image, recording>>

Records ==
    /\ recording.active
    /\ \/ /\ recording.position < MaxPosition
          /\ recording' = [recording EXCEPT !.position = @ + 1]
       \/ recording' = [recording EXCEPT !.active = FALSE]
    /\ UNCHANGED <<vars, rm, late, destinations, image, replaying, history>>

\* A replay of a recording that was stopped ends.
ReplayEnds ==
    /\ replaying /\ ~recording.active /\ replaying' = FALSE
    /\ UNCHANGED <<vars, rm, late, destinations, image, recording, history>>

\* The image comes with the replay, is fed and consumed, gets the live
\* transport, loses that of the replay, and goes when it has none.
ImageChanges ==
    /\ \/ /\ ~image.there /\ replaying /\ "replay" \in destinations
          /\ image' = [image EXCEPT !.there = TRUE, !.transports = {"replay"}]
       \/ /\ image.transports # {} /\ image.position < recording.position
          /\ image' = [image EXCEPT !.position = @ + 1]
       \/ /\ IsConnected /\ recording.active /\ "live" \in destinations \ image.transports
          /\ image' = [image EXCEPT !.transports = @ \cup {"live"}]
       \/ /\ "replay" \in image.transports /\ ("replay" \notin destinations \/ ~replaying)
          /\ image' = [image EXCEPT !.transports = @ \ {"replay"}]
       \/ /\ IsConnected /\ image.transports = {}
          /\ image' = [image EXCEPT !.closed = TRUE]
    /\ UNCHANGED <<vars, rm, late, destinations, recording, replaying, history>>

TimePasses ==
    /\ rm.state \notin {"none", "new", "merged", "failed", "closed"} /\ ~late /\ late' = TRUE
    /\ UNCHANGED <<vars, rm, destinations, image, recording, replaying, history>>

-----------------------------------------------------------------------------

\* "none": the archive client alone
MergeInit ==
    /\ Init
    /\ \E s \in {"none", "new"} :
         rm = [state |-> s, id |-> NoOne, target |-> Null, last |-> Null, session |-> NoReplay,
               live |-> FALSE, active |-> FALSE, image |-> FALSE]
    /\ late = FALSE /\ destinations = {} /\ replaying = FALSE
    /\ image = [there |-> FALSE, position |-> 0, transports |-> {}, closed |-> FALSE]
    /\ recording = [position |-> 1, active |-> TRUE]
    /\ history = [asks |-> 0, erred |-> FALSE, unsent |-> FALSE, atLive |-> Null]

Merge ==
    \/ NewReplayMerge
    \/ \E ok \in BOOLEAN : DoWork(ok) \/ Close(ok)
    \/ AnswerMerge \/ Records \/ ReplayEnds \/ ImageChanges \/ TimePasses

\* Calls beside the merge, messages nobody asked for, a recording that stopped,
\* an error answered to the merge, time that is running out, a client that its
\* conductor closed
Trouble == made + noise + Cardinality({t \in {"stopped", "error", "late", "closed"} :
             \/ t = "stopped" /\ ~recording.active
             \/ t = "error" /\ history.erred
             \/ t = "late" /\ late
             \/ t = "closed" /\ control.closed /\ \A c \in Callers : calls[c].op # "close"})

MergeNext ==
    \/ rm.state = "none" /\ Next /\ UNCHANGED merge
    \/ rm.state # "none" /\ (Merge \/ (Next /\ UNCHANGED merge))
       /\ Trouble' <= MaxTrouble /\ \A c \in Callers : calls'[c].op \in BesideOps \cup {"none"}

MergeSpec == MergeInit /\ [][MergeNext]_all

-----------------------------------------------------------------------------
(* Properties.  An error the archive answers to a request of the merge is  *)
(* taken for a success (pollForResponse): they are about merges without.   *)

\* A merge that says it is merged has caught up: the image is fed by the live
\* transport, the replay's destination is gone, and all that had been recorded
\* when the live destination was added has been consumed, so nothing is missing
\* between replay and live (attemptLiveJoin asks for a new position after it
\* added the live destination, and takes no other answer for it).  On the way the
\* position it heads for is one the recording has reached: no answer to a call,
\* and no late one to an earlier request, is taken for it (pollForResponse's
\* comparison of correlation ids).
MergedIsCaughtUp ==
    ~history.erred =>
        /\ rm.target <= recording.position
        /\ rm.state = "merged" =>
              /\ destinations = {"live"} /\ "live" \in image.transports
              /\ history.atLive # Null /\ image.position >= history.atLive

\* When the merge is over, merged or closed, also after it failed, the replay
\* whose session it was told runs no longer, or a request to stop it is on its
\* way, unless that could not be sent (Close, stopReplay).
NoReplayIsLeft ==
    /\ rm.state \in {"merged", "closed"} /\ rm.session = ReplaySession
    /\ ~history.unsent /\ ~history.erred /\ ~control.closed
    => ~replaying \/ \E i \in DOMAIN requests : requests[i].op = "stopReplay"
=============================================================================
