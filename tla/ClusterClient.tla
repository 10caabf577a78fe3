----------------------------- MODULE ClusterClient -----------------------------
(*
  The cluster client (cluster/client/aeron_cluster.go) and the cluster it
  talks to.  The client is a state machine driven by Poll: it opens ingress
  publications, sends a connect request to a member whose publication is
  connected, follows redirects to the leader and, once connected, follows
  changes of leadership.  The cluster, the driver and the clock are external:
  they are modelled from what the client's code reads and handles.

  A connect request matters only by whether it is the latest (the client
  compares the correlation id of a reply with the last one it used), so
  requests and replies carry that and not the id.
*)
EXTENDS Naturals, Sequences

CONSTANTS Members,           \* the members of the cluster
          Addresses,         \* the ingress addresses a member can have
          SessionIds,        \* ids the cluster gives to sessions, none of them 0
          MaxTerm,           \* bound on the leadership terms
          MaxMoves,          \* bound on the changes of a member's address
          MaxFailures,       \* bound on failures: outages, refusals, failed driver calls
          MaxEgress,         \* bound on the events of a member under way
          FragmentLimit,     \* fragments a connected client takes in a Poll (10 in the code)
          EndpointsGiven,    \* whether options.IngressEndpoints is given, as a set of BOOLEAN
          Prompt             \* timeouts expire only with nothing under way

Channel == "channel"         \* the publication used when memberByIdMap is empty
NoOne   == "none"            \* cluster.NullValue as a member id

ASSUME ClusterAssumption ==
  /\ Members \cap {Channel, NoOne, "nil", "orphan"} = {}
  /\ "unknown" \notin Addresses /\ Addresses # {}
  /\ SessionIds \subseteq Nat \ {0}
  /\ MaxTerm \in Nat \ {0} /\ MaxMoves \in Nat /\ MaxFailures \in Nat /\ MaxEgress \in Nat
  /\ FragmentLimit \in Nat \ {0}
  /\ EndpointsGiven \subseteq BOOLEAN

VARIABLES hasEndpoints,      \* options.IngressEndpoints # "": UDP; without, ingress is IPC
          state,             \* AeronCluster.state; "panicked" after a nil dereference
          endpoint,          \* memberByIdMap: the endpoint of each member in it
          publication,       \* memberIngress.publication, and the ingressPub without endpoints
          ingressPub,        \* whose publication ingressPub is; "orphan": one nobody else refers to
          leaderMemberId, leadershipTermId, clusterSessionId,
          hdr,               \* <<term, session>> in sessionMsgHdrBuffer and keepAliveBuffer
          awaitTimedOut,     \* now > awaitTimeoutTime, while the client awaits something
          retryDue,          \* now > nextRetryConnectTime
          resolved,          \* the egress port is known to the driver
          polling            \* fragments the Poll under way may still take

client == <<hasEndpoints, state, endpoint, publication, ingressPub, leaderMemberId, leadershipTermId,
            clusterSessionId, hdr, awaitTimedOut, retryDue, resolved, polling>>

VARIABLES leader, term,      \* of the cluster
          home,              \* the member whose driver the client shares: IPC reaches this one
          up,                \* the members that can be reached
          address,           \* where each member can be reached
          moves, failures,   \* how often the cluster moved and something failed
          cutOff,            \* history: what the last leader the client was told of lacked
          sessions,          \* the open sessions
          granted,           \* the sessions opened for the latest connect request
          requests,          \* connect requests under way
          egress             \* egress[m]: what member m sent the client, in order

cluster == <<leader, term, home, up, address, moves, failures, cutOff, sessions, granted, requests, egress>>
vars == <<client, cluster>>

Known == {m \in Members : endpoint[m] # "unknown"}

\* The member a publication reaches
Reaches(m) == IF hasEndpoints THEN m ELSE home

IsConnectedPub(m) ==
  /\ publication[m] = "open"
  /\ Reaches(m) \in up
  /\ hasEndpoints => endpoint[m] = address[m]

IngressIsConnected == ingressPub \in Members \cup {Channel} /\ IsConnectedPub(ingressPub)

\* An ingress endpoints string, as updateMemberEndpoints reads it: "unknown" is a
\* member that is not in it, or not as id=address with an id that parses; all are
\* "unknown" in the empty string.
Listings == [Members -> Addresses \cup {"unknown"}]

\* What a member sends: SessionEvent, NewLeaderEvent and Challenge
Events ==
  [type : {"session"}, code : {"OK", "REDIRECT", "ERROR", "AUTHENTICATION_REJECTED", "CLOSED"},
   latest : BOOLEAN, session : SessionIds \cup {0}, term : 0..MaxTerm, leader : Members,
   endpoints : Listings]
  \cup [type : {"leader"}, session : SessionIds, term : 0..MaxTerm, leader : Members,
        endpoints : Listings]
  \cup [type : {"challenge"}]

ClientTypes ==
  /\ hasEndpoints \in BOOLEAN
  /\ state \in {"Disconnected", "CreatePublications", "AwaitPublicationConnected",
                "AwaitConnectReply", "Connected", "Closed", "panicked"}
  /\ endpoint \in [Members -> Addresses \cup {"unknown"}]
  /\ publication \in [Members \cup {Channel} -> {"nil", "open", "closed"}]
  /\ ingressPub \in Members \cup {Channel, "nil", "orphan"}
  /\ leaderMemberId \in Members \cup {NoOne}
  /\ leadershipTermId \in 0..MaxTerm /\ clusterSessionId \in SessionIds \cup {0}
  /\ hdr \in (0..MaxTerm) \X (SessionIds \cup {0})
  /\ awaitTimedOut \in BOOLEAN /\ retryDue \in BOOLEAN /\ resolved \in BOOLEAN
  /\ polling \in 0..FragmentLimit

ClusterTypes ==
  /\ leader \in Members /\ home \in Members /\ term \in 1..MaxTerm /\ up \subseteq Members
  /\ address \in [Members -> Addresses]
  /\ moves \in 0..MaxMoves /\ failures \in 0..MaxFailures /\ cutOff \in {"no", "refused", "unlisted"}
  /\ sessions \subseteq SessionIds /\ granted \subseteq SessionIds
  /\ requests \subseteq [to : Members, latest : BOOLEAN]
  /\ egress \in [Members -> Seq(Events)] /\ \A m \in Members : Len(egress[m]) <= MaxEgress

(* The variables have their types; a Poll takes no more fragments than its   *)
(* limit, whatever the handlers do to the client's state (pollEgress).       *)
TypeOK == ClientTypes /\ ClusterTypes

\* NewAeronCluster; options.IngressEndpoints names all the members, or is empty
Init ==
  /\ hasEndpoints \in EndpointsGiven
  /\ address \in [Members -> {CHOOSE a \in Addresses : TRUE}]
  /\ endpoint = IF hasEndpoints THEN address ELSE [m \in Members |-> "unknown"]
  /\ state = "Disconnected"
  /\ publication = [m \in Members \cup {Channel} |-> "nil"] /\ ingressPub = "nil"
  /\ leaderMemberId = NoOne /\ leadershipTermId = 0 /\ clusterSessionId = 0 /\ hdr = <<0, 0>>
  /\ awaitTimedOut = FALSE /\ retryDue = TRUE /\ resolved = FALSE /\ polling = 0
  /\ leader \in Members /\ home \in (IF hasEndpoints THEN {leader} ELSE Members)
  /\ term = 1 /\ up = Members
  /\ moves = 0 /\ failures = 0 /\ cutOff = "no" /\ sessions = {} /\ granted = {} /\ requests = {}
  /\ egress = [m \in Members |-> <<>>]

---------------------------------------------------------------------------
(* Poll, by state *)

\* A call of the driver or an offer can fail, a bounded number of times.
CanFail == failures < MaxFailures
Fail == CanFail /\ failures' = failures + 1

PollDisconnected ==
  /\ state = "Disconnected" /\ polling = 0 /\ retryDue
  /\ state' = "CreatePublications"
  /\ UNCHANGED <<hasEndpoints, endpoint, publication, ingressPub, leaderMemberId, leadershipTermId,
                 clusterSessionId, hdr, awaitTimedOut, retryDue, resolved, polling, cluster>>

\* An error of createIngressPublication leaves the publications made before it;
\* the map is iterated in any order.
createPublications ==
  /\ state = "CreatePublications" /\ polling = 0
  /\ LET missing == IF Known # {} THEN {m \in Known : publication[m] = "nil"}
                    ELSE IF ingressPub = "nil" THEN {Channel} ELSE {}
     IN  \E made \in SUBSET missing :
           /\ publication' = [m \in DOMAIN publication |-> IF m \in made THEN "open" ELSE publication[m]]
           /\ ingressPub' = IF made = {Channel} THEN Channel ELSE ingressPub
           /\ IF made = missing
              THEN state' = "AwaitPublicationConnected" /\ awaitTimedOut' = FALSE /\ UNCHANGED failures
              ELSE Fail /\ UNCHANGED <<state, awaitTimedOut>>
  /\ UNCHANGED <<hasEndpoints, endpoint, leaderMemberId, leadershipTermId, clusterSessionId, hdr, retryDue,
                 resolved, polling, leader, term, home, up, address, moves, cutOff, sessions, granted,
                 requests, egress>>

\* The correlation id is a new one whether or not the offer succeeds.
NoneIsLatest == {[r EXCEPT !.latest = FALSE] : r \in requests}
Outdated(events) ==
  [i \in DOMAIN events |-> IF events[i].type = "session" THEN [events[i] EXCEPT !.latest = FALSE] ELSE events[i]]

sendConnectRequest(m, ok) ==
  /\ requests' = NoneIsLatest \cup (IF ok THEN {[to |-> Reaches(m), latest |-> TRUE]} ELSE {})
  /\ egress' = [n \in Members |-> Outdated(egress[n])]
  /\ granted' = {}
  /\ IF ok THEN UNCHANGED failures ELSE Fail

awaitPublicationConnected ==
  /\ state = "AwaitPublicationConnected" /\ polling = 0 /\ resolved
  /\ \/ /\ awaitTimedOut
        /\ state' = "Disconnected" /\ retryDue' = FALSE /\ awaitTimedOut' = FALSE
        /\ UNCHANGED <<ingressPub, failures, granted, requests, egress>>
     \/ \* a member whose publication is connected, the last one tried
        /\ ~awaitTimedOut
        /\ \E m \in (IF Known # {} THEN Known ELSE {ingressPub}), ok \in BOOLEAN :
             /\ IF m \in DOMAIN publication THEN IsConnectedPub(m) ELSE FALSE
             /\ ingressPub' = m
             /\ sendConnectRequest(m, ok)
             /\ IF ok THEN state' = "AwaitConnectReply" /\ awaitTimedOut' = FALSE
                      ELSE UNCHANGED <<state, awaitTimedOut>>
        /\ UNCHANGED retryDue
  /\ UNCHANGED <<hasEndpoints, endpoint, publication, leaderMemberId, leadershipTermId, clusterSessionId, hdr,
                 resolved, polling, leader, term, home, up, address, moves, cutOff, sessions>>

PollAwaitConnectReply ==
  /\ state = "AwaitConnectReply" /\ polling = 0
  /\ IF IngressIsConnected /\ ~awaitTimedOut
     THEN polling' = 1 /\ UNCHANGED <<state, retryDue, awaitTimedOut>>
     ELSE state' = "Disconnected" /\ retryDue' = FALSE /\ awaitTimedOut' = FALSE /\ UNCHANGED polling
  /\ UNCHANGED <<hasEndpoints, endpoint, publication, ingressPub, leaderMemberId, leadershipTermId,
                 clusterSessionId, hdr, resolved, cluster>>

PollConnected ==
  /\ state = "Connected" /\ polling = 0
  /\ \/ ingressPub = "nil" /\ state' = "panicked" /\ UNCHANGED polling
     \/ IngressIsConnected /\ polling' = FragmentLimit /\ UNCHANGED state
     \/ ingressPub # "nil" /\ ~IngressIsConnected /\ state' = "CreatePublications" /\ UNCHANGED polling
  /\ UNCHANGED <<hasEndpoints, endpoint, publication, ingressPub, leaderMemberId, leadershipTermId,
                 clusterSessionId, hdr, awaitTimedOut, retryDue, resolved, cluster>>

---------------------------------------------------------------------------
(* Egress.  A handler yields the client's publications and state.          *)

\* memberIngress.close for each of ms
CloseMembers(c, ms) ==
  [c EXCEPT !.publication = [m \in DOMAIN @ |-> IF m \in ms THEN "nil" ELSE @[m]],
            !.ingressPub  = IF @ \in ms /\ c.publication[@] # "nil" THEN "orphan" ELSE @]

\* created: whether createIngressPublication succeeds, if it is called
updateMemberEndpoints(c, endpoints, created) ==
  LET listed == {m \in Members : endpoints[m] # "unknown"}
      moved  == {m \in listed : c.endpoint[m] \notin {"unknown", endpoints[m]}}
      d      == [CloseMembers(c, moved) EXCEPT
                   !.endpoint = [m \in Members |-> IF m \in listed THEN endpoints[m] ELSE @[m]]]
      pub    == IF d.publication[d.leaderMemberId] # "nil" THEN d.publication[d.leaderMemberId]
                ELSE IF created THEN "open" ELSE "nil"
  IN  IF d.leaderMemberId \in listed
      THEN [d EXCEPT !.publication = [@ EXCEPT ![d.leaderMemberId] = pub],
                     !.ingressPub = IF pub = "nil" THEN "nil" ELSE d.leaderMemberId]
      ELSE d

\* Mutated form: a redirect leaves the publication it came through open
closeNonLeaderPublicationsNot(c) == c

closeNonLeaderPublications(c) ==
  CloseMembers(c, {m \in Members : c.endpoint[m] # "unknown" /\ m # c.leaderMemberId})

\* Mutated form: any session event answers the request
AnswersRequestAny(e) == state = "AwaitConnectReply"

AnswersRequest(e) == state = "AwaitConnectReply" /\ e.latest

onSessionEvent(c, e, created) ==
  CASE AnswersRequest(e) /\ e.code = "OK" ->
         closeNonLeaderPublications(
           [c EXCEPT !.leadershipTermId = e.term, !.leaderMemberId = e.leader, !.clusterSessionId = e.session,
                     !.hdr = <<e.term, e.session>>, !.state = "Connected"])
    [] AnswersRequest(e) /\ e.code = "REDIRECT" ->
         [closeNonLeaderPublications(
            updateMemberEndpoints([c EXCEPT !.leaderMemberId = e.leader], e.endpoints, created))
          EXCEPT !.state = "AwaitPublicationConnected"]
    [] AnswersRequest(e) /\ e.code \in {"ERROR", "AUTHENTICATION_REJECTED"} ->
         [c EXCEPT !.state = "Disconnected", !.retryDue = FALSE]
    [] c.state = "Connected" /\ e.session = c.clusterSessionId /\ e.code = "CLOSED" ->
         [c EXCEPT !.state = "Closed"]
    [] OTHER -> c

\* Mutated form: nothing replaces the publication of the old leader
onNewLeaderEventDrops(c, e, created) ==
  IF c.state = "Connected" /\ e.session = c.clusterSessionId
  THEN [c EXCEPT !.leadershipTermId = e.term, !.leaderMemberId = e.leader, !.hdr = <<e.term, @[2]>>,
                 !.publication = [m \in DOMAIN @ |-> IF m = c.ingressPub THEN "closed" ELSE @[m]],
                 !.ingressPub = "nil"]
  ELSE c

\* The old ingressPub is closed, but the member it belongs to keeps it.
onNewLeaderEvent(c, e, created) ==
  IF c.state = "Connected" /\ e.session = c.clusterSessionId
  THEN LET d == [c EXCEPT !.leadershipTermId = e.term, !.leaderMemberId = e.leader, !.hdr = <<e.term, @[2]>>]
       IN  IF ~hasEndpoints THEN d
           ELSE updateMemberEndpoints(
                  [d EXCEPT !.publication =
                              [m \in DOMAIN @ |-> IF m = d.ingressPub THEN "closed" ELSE @[m]],
                            !.ingressPub = "nil"],
                  e.endpoints, created)
  ELSE c

\* A challenge is only logged.
onFragment(c, e, created) ==
  CASE e.type = "session" -> onSessionEvent(c, e, created)
    [] e.type = "leader"  -> onNewLeaderEvent(c, e, created)
    [] OTHER -> c

Client == [state |-> state, endpoint |-> endpoint, publication |-> publication, ingressPub |-> ingressPub,
           leaderMemberId |-> leaderMemberId, leadershipTermId |-> leadershipTermId,
           clusterSessionId |-> clusterSessionId, hdr |-> hdr, retryDue |-> retryDue]

\* What a leader the client is told of lacks: an address among the endpoints it
\* is told of too, or a publication, which the driver refused.
CutOffBy(e, created) ==
  CASE e.type = "session" /\ AnswersRequest(e) /\ e.code = "OK" -> "no"
    [] e.type = "leader" /\ state = "Connected" /\ e.session = clusterSessionId /\ hasEndpoints ->
         IF e.endpoints[e.leader] = "unknown" THEN "unlisted" ELSE IF created THEN "no" ELSE "refused"
    [] OTHER -> cutOff

\* Subscription.Poll hands the next fragment of some image to onFragment.
pollEgress(m) ==
  /\ polling > 0 /\ state # "panicked" /\ egress[m] # <<>>
  /\ \E created \in BOOLEAN :
       LET c == onFragment(Client, Head(egress[m]), created)
       IN  /\ state' = c.state /\ endpoint' = c.endpoint /\ publication' = c.publication
           /\ ingressPub' = c.ingressPub /\ leaderMemberId' = c.leaderMemberId
           /\ leadershipTermId' = c.leadershipTermId /\ clusterSessionId' = c.clusterSessionId
           /\ hdr' = c.hdr /\ retryDue' = c.retryDue
           /\ cutOff' = CutOffBy(Head(egress[m]), created)
           /\ IF created THEN UNCHANGED failures
              ELSE Fail /\ c # onFragment(Client, Head(egress[m]), TRUE)
  /\ polling' = polling - 1
  /\ egress' = [egress EXCEPT ![m] = Tail(@)]
  /\ UNCHANGED <<hasEndpoints, awaitTimedOut, resolved, leader, term, home, up, address, moves,
                 sessions, granted, requests>>

PollReturns ==
  /\ polling > 0 /\ \A m \in Members : egress[m] = <<>>
  /\ polling' = 0
  /\ UNCHANGED <<hasEndpoints, state, endpoint, publication, ingressPub, leaderMemberId, leadershipTermId,
                 clusterSessionId, hdr, awaitTimedOut, retryDue, resolved, cluster>>

---------------------------------------------------------------------------
(* The application *)

\* Offer and SendKeepAlive change nothing of the client's, but dereference ingressPub.
Offer ==
  /\ state = "Connected" /\ ingressPub = "nil" /\ state' = "panicked"
  /\ UNCHANGED <<hasEndpoints, endpoint, publication, ingressPub, leaderMemberId, leadershipTermId,
                 clusterSessionId, hdr, awaitTimedOut, retryDue, resolved, polling, cluster>>

\* The close request reaches the cluster if the leader is at the other end and
\* one of the three offers succeeds.
Close ==
  /\ state # "panicked" /\ (state = "Closed" => ingressPub # "nil")
  /\ IF state = "Connected" /\ ingressPub = "nil"
     THEN state' = "panicked" /\ UNCHANGED <<publication, ingressPub, sessions>>
     ELSE /\ state' = "Closed" /\ ingressPub' = "nil"
          /\ publication' = [m \in DOMAIN publication |->
                               IF m = ingressPub THEN "closed" ELSE publication[m]]
          /\ IF state = "Connected" /\ IngressIsConnected
             THEN \E sent \in BOOLEAN :
                    sessions' = IF sent /\ Reaches(ingressPub) = leader THEN sessions \ {clusterSessionId} ELSE sessions
             ELSE UNCHANGED sessions
  /\ UNCHANGED <<hasEndpoints, endpoint, leaderMemberId, leadershipTermId, clusterSessionId, hdr, awaitTimedOut,
                 retryDue, resolved, polling, leader, term, home, up, address, moves, failures,
                 cutOff, granted, requests, egress>>

---------------------------------------------------------------------------
(* The clock and the driver *)

UnderWay ==
  IF state = "AwaitPublicationConnected" THEN \E m \in Known : IsConnectedPub(m)
  ELSE \/ \E r \in requests : r.latest
       \/ \E m \in Members : \E i \in DOMAIN egress[m] : egress[m][i].type = "session" /\ egress[m][i].latest

AwaitTimesOut ==
  /\ state \in {"AwaitPublicationConnected", "AwaitConnectReply"} /\ ~awaitTimedOut
  /\ Prompt => ~UnderWay
  /\ awaitTimedOut' = TRUE
  /\ UNCHANGED <<hasEndpoints, state, endpoint, publication, ingressPub, leaderMemberId, leadershipTermId,
                 clusterSessionId, hdr, retryDue, resolved, polling, cluster>>

RetryComesDue ==
  /\ state = "Disconnected" /\ ~retryDue
  /\ retryDue' = TRUE
  /\ UNCHANGED <<hasEndpoints, state, endpoint, publication, ingressPub, leaderMemberId, leadershipTermId,
                 clusterSessionId, hdr, awaitTimedOut, resolved, polling, cluster>>

EgressPortResolves ==
  /\ ~resolved /\ resolved' = TRUE
  /\ UNCHANGED <<hasEndpoints, state, endpoint, publication, ingressPub, leaderMemberId, leadershipTermId,
                 clusterSessionId, hdr, awaitTimedOut, retryDue, polling, cluster>>

---------------------------------------------------------------------------
(* The cluster *)

\* The members the string lists; those it leaves out count as a failure.
Listing(listed) == [m \in Members |-> IF m \in listed THEN address[m] ELSE "unknown"]
LeavesOut(listed) == IF listed = Members THEN UNCHANGED failures ELSE Fail

Event(code, latest, session, listed) ==
  [type |-> "session", code |-> code, latest |-> latest, session |-> session, term |-> term,
   leader |-> leader, endpoints |-> Listing(listed)]

NewLeader(m, session, listed) ==
  [type |-> "leader", session |-> session, term |-> term + 1, leader |-> m, endpoints |-> Listing(listed)]

Challenge == [type |-> "challenge"]

Send(m, events) ==
  /\ Len(egress[m]) + Len(events) <= MaxEgress
  /\ egress' = [egress EXCEPT ![m] = @ \o events]

\* Ids are unique: none that is still known anywhere is given again.
Mentioned ==
  {clusterSessionId} \cup sessions \cup granted \cup
  UNION {{egress[m][i].session : i \in {j \in DOMAIN egress[m] : egress[m][j].type # "challenge"}} : m \in Members}

AnswerConnect(r) ==
  /\ r \in requests /\ r.to \in up
  /\ requests' = requests \ {r}
  /\ \/ /\ r.to = leader
        /\ \E s \in SessionIds \ Mentioned :
             /\ sessions' = sessions \cup {s}
             /\ granted' = IF r.latest THEN granted \cup {s} ELSE granted
             /\ Send(r.to, <<Event("OK", r.latest, s, {})>>)
        /\ UNCHANGED failures
     \/ /\ r.to # leader
        /\ \E listed \in SUBSET Members :
             Send(r.to, <<Event("REDIRECT", r.latest, 0, listed)>>) /\ LeavesOut(listed)
        /\ UNCHANGED <<sessions, granted>>
     \/ /\ Fail
        /\ \E e \in {Event("ERROR", r.latest, 0, {}), Event("AUTHENTICATION_REJECTED", r.latest, 0, {}), Challenge} :
             Send(r.to, <<e>>)
        /\ UNCHANGED <<sessions, granted>>
  /\ UNCHANGED <<client, leader, term, home, up, address, moves, cutOff>>

\* The new leader tells every session, in any order.
Elect(m) ==
  /\ m \in up /\ term < MaxTerm
  /\ leader' = m /\ term' = term + 1
  /\ \E n \in 0..MaxEgress, listed \in SUBSET Members : \E told \in [1..n -> sessions] :
       /\ \A s \in sessions : \E i \in 1..n : told[i] = s
       /\ \A i, j \in 1..n : told[i] = told[j] => i = j
       /\ Send(m, [i \in 1..n |-> NewLeader(m, told[i], listed)])
       /\ LeavesOut(listed)
  /\ UNCHANGED <<client, home, up, address, moves, cutOff, sessions, granted, requests>>

\* A session is closed for want of keep-alives, or by the service.
CloseSession(s) ==
  /\ s \in sessions /\ leader \in up
  /\ sessions' = sessions \ {s}
  /\ Send(leader, <<Event("CLOSED", FALSE, s, {})>>)
  /\ UNCHANGED <<client, leader, term, home, up, address, moves, failures, cutOff, granted, requests>>

\* A member cannot be reached; what was under way to it is lost.
Down(m) ==
  /\ m \in up /\ Fail
  /\ up' = up \ {m}
  /\ requests' = {r \in requests : r.to # m}
  /\ UNCHANGED <<client, leader, term, home, address, moves, cutOff, sessions, granted, egress>>

Up(m) ==
  /\ m \notin up
  /\ up' = up \cup {m}
  /\ UNCHANGED <<client, leader, term, home, address, moves, failures, cutOff, sessions, granted, requests, egress>>

Move(m) ==
  /\ m \notin up /\ moves < MaxMoves
  /\ moves' = moves + 1
  /\ \E a \in Addresses \ {address[m]} : address' = [address EXCEPT ![m] = a]
  /\ UNCHANGED <<client, leader, term, home, up, failures, cutOff, sessions, granted, requests, egress>>

---------------------------------------------------------------------------
Poll ==
  \/ PollDisconnected \/ createPublications \/ awaitPublicationConnected
  \/ PollAwaitConnectReply \/ PollConnected \/ PollReturns
  \/ \E m \in Members : pollEgress(m)

Next ==
  \/ Poll
  \/ Offer \/ Close
  \/ AwaitTimesOut \/ RetryComesDue \/ EgressPortResolves
  \/ \E r \in requests : AnswerConnect(r)
  \/ \E s \in sessions : CloseSession(s)
  \/ \E m \in Members : Elect(m) \/ Down(m) \/ Up(m) \/ Move(m)

Spec == Init /\ [][Next]_vars

\* The application keeps polling; time passes; the cluster answers, members come
\* back, and sessions the client has given up are closed.
Fairness ==
  /\ WF_vars(Poll)
  /\ WF_vars(AwaitTimesOut) /\ WF_vars(RetryComesDue) /\ WF_vars(EgressPortResolves)
  /\ WF_vars(\E r \in requests : AnswerConnect(r))
  /\ WF_vars(\E s \in sessions \ {clusterSessionId} : CloseSession(s))
  /\ WF_vars(\E m \in Members : Up(m))

FairSpec == Spec /\ Fairness

---------------------------------------------------------------------------
(* Properties *)

(* A connected client uses a session that the cluster opened for its latest  *)
(* connect request, and what it puts into the headers of its messages and    *)
(* keep-alives is that session and the term it was last told of: replies to  *)
(* requests it has given up (AwaitConnectReply timed out) never count.       *)
SessionWasGranted ==
  state = "Connected" =>
    /\ clusterSessionId \in granted
    /\ hdr = <<leadershipTermId, clusterSessionId>>

(* A connected client with configured endpoints publishes to the member it   *)
(* believes to be leader, and has closed the publications to all others      *)
(* (onSessionEvent, onNewLeaderEvent, closeNonLeaderPublications).           *)
IngressIsTheLeaders ==
  state = "Connected" /\ hasEndpoints =>
    /\ ingressPub \in {leaderMemberId, "nil"}
    /\ \A m \in Members \ {leaderMemberId} : publication[m] # "open"

(* Poll, Offer and Close dereference a nil publication only when the last    *)
(* new leader that the client followed was missing from the endpoints it was *)
(* told of with it (updateMemberEndpoints), or its publication was refused   *)
(* by the driver: in no other order of redirects, lost members, retries and  *)
(* changes of leader does a connected client lose its publication.           *)
PanicsOnlyIfCutOff == state = "panicked" => cutOff # "no"

(* A client that keeps polling is connected again and again, unless it is    *)
(* closed: no state of its publications keeps it from reaching a leader that *)
(* answers.                                                                  *)
Reconnects == []<>(state \in {"Connected", "Closed", "panicked"})
===========================================================================
