------------------------- MODULE ClusterClientProofs -------------------------
(*
  Proofs about the cluster client, for any cluster, any number of addresses
  and sessions, and any bounds.  What its connected state promises rests on
  what is under way to it: an answer to the latest connect request comes from
  the member ingressPub belongs to and names a session opened for it.
*)
EXTENDS ClusterClient, TLAPS

IsAnswer(e) == e.type = "session" /\ e.latest /\ e.code = "OK"

\* The answers to the latest request name sessions opened for it.
AnswersAreGranted ==
  \A m \in Members : \A i \in DOMAIN egress[m] : IsAnswer(egress[m][i]) => egress[m][i].session \in granted

\* While the client waits for an answer, the request and the answers to it
\* belong to the member that ingressPub reaches.
AwaitsItsMember ==
  state = "AwaitConnectReply" =>
    /\ ingressPub \in Members \cup {Channel}
    /\ hasEndpoints =>
         /\ ingressPub \in Members
         /\ \A r \in requests : r.latest => r.to = ingressPub
         /\ \A m \in Members : \A i \in DOMAIN egress[m] : IsAnswer(egress[m][i]) => egress[m][i].leader = ingressPub

\* The only open publication of a connected client is ingressPub.
OneOpenPublication ==
  state = "Connected" /\ hasEndpoints =>
    /\ ingressPub \in {leaderMemberId, "nil"}
    /\ \A m \in Members : publication[m] = "open" => m = ingressPub

NilIfCutOff == (state = "Connected" /\ ingressPub = "nil") \/ state = "panicked" => cutOff # "no"

EndpointsKnown == hasEndpoints => \A m \in Members : endpoint[m] # "unknown"

ClusterInv ==
  /\ TypeOK /\ EndpointsKnown
  /\ AnswersAreGranted /\ AwaitsItsMember /\ SessionWasGranted /\ OneOpenPublication /\ NilIfCutOff

-----------------------------------------------------------------------------
(* What is under way.                                                      *)

LEMMA EventTypes ==
  ASSUME NEW e \in Events
  PROVE  /\ e.type \in {"session", "leader", "challenge"}
         /\ e.type = "session" =>
              /\ e.code \in {"OK", "REDIRECT", "ERROR", "AUTHENTICATION_REJECTED", "CLOSED"}
              /\ e.latest \in BOOLEAN /\ e.session \in SessionIds \cup {0} /\ e.term \in 0..MaxTerm
              /\ e.leader \in Members /\ e.endpoints \in Listings
         /\ e.type = "leader" =>
              /\ e.session \in SessionIds /\ e.term \in 0..MaxTerm
              /\ e.leader \in Members /\ e.endpoints \in Listings
  BY Zenon DEF Events

\* A request that becomes outdated takes its answers with it.
LEMMA OutdatedEvents ==
  ASSUME NEW events \in Seq(Events)
  PROVE  /\ Outdated(events) \in Seq(Events) /\ Len(Outdated(events)) = Len(events)
         /\ \A i \in DOMAIN Outdated(events) : ~IsAnswer(Outdated(events)[i])
<1> DEFINE f(i) == IF events[i].type = "session" THEN [events[i] EXCEPT !.latest = FALSE] ELSE events[i]
<1>1. ASSUME NEW i \in DOMAIN events
      PROVE  f(i) \in Events /\ ~IsAnswer(f(i))
  <2>1. events[i] \in Events
    OBVIOUS
  <2>2. CASE events[i].type = "session"
    <3>1. [events[i] EXCEPT !.latest = FALSE] \in Events
      BY Zenon, <2>1, <2>2 DEF Events
    <3>2. [events[i] EXCEPT !.latest = FALSE].latest = FALSE
      BY Zenon, <2>1, <2>2 DEF Events
    <3> QED BY Zenon, <2>2, <3>1, <3>2 DEF IsAnswer
  <2>3. CASE events[i].type # "session"
    BY Zenon, <2>1, <2>3 DEF IsAnswer
  <2> QED BY Zenon, <2>2, <2>3
<1>2. Outdated(events) = [i \in DOMAIN events |-> f(i)]
  BY Zenon DEF Outdated
<1>3. DOMAIN events = 1..Len(events) /\ Len(events) \in Nat
  OBVIOUS
<1> HIDE DEF f
<1> QED BY <1>1, <1>2, <1>3

\* What a member sends follows what it has sent.
LEMMA SentEvents ==
  ASSUME ClusterTypes, NEW m \in Members, NEW events \in Seq(Events), Send(m, events)
  PROVE  /\ egress' \in [Members -> Seq(Events)] /\ \A n \in Members : Len(egress'[n]) <= MaxEgress
         /\ \A n \in Members : \A i \in DOMAIN egress'[n] :
              \/ i \in DOMAIN egress[n] /\ egress'[n][i] = egress[n][i]
              \/ \E j \in DOMAIN events : egress'[n][i] = events[j]
<1>1. egress \in [Members -> Seq(Events)] /\ \A n \in Members : Len(egress[n]) <= MaxEgress
  BY Zenon DEF ClusterTypes
<1>2. egress' = [egress EXCEPT ![m] = egress[m] \o events] /\ Len(egress[m]) + Len(events) <= MaxEgress
  BY Zenon DEF Send
<1>3. egress[m] \in Seq(Events)
  BY Zenon, <1>1
<1> DEFINE both == egress[m] \o events
<1>4. /\ both \in Seq(Events) /\ Len(both) = Len(egress[m]) + Len(events)
      /\ \A i \in DOMAIN both : \/ i \in DOMAIN egress[m] /\ both[i] = egress[m][i]
                                \/ \E j \in DOMAIN events : both[i] = events[j]
  <2>1. both \in Seq(Events) /\ Len(both) = Len(egress[m]) + Len(events)
    BY <1>3
  <2>2. ASSUME NEW i \in DOMAIN both, i > Len(egress[m])
        PROVE  i - Len(egress[m]) \in DOMAIN events /\ both[i] = events[i - Len(egress[m])]
    BY <1>3, <2>2
  <2>3. ASSUME NEW i \in DOMAIN both, i <= Len(egress[m])
        PROVE  i \in DOMAIN egress[m] /\ both[i] = egress[m][i]
    BY <1>3, <2>3
  <2>4. \A i \in DOMAIN both : i \in Nat
    BY <2>1
  <2> QED BY <1>3, <2>1, <2>2, <2>3, <2>4
<1>5. egress'[m] = both /\ \A n \in Members \ {m} : egress'[n] = egress[n]
  BY Zenon, <1>1, <1>2
<1> HIDE DEF both
<1>6. egress' \in [Members -> Seq(Events)]
  BY Zenon, <1>1, <1>2, <1>4 DEF both
<1>7. \A n \in Members : Len(egress'[n]) <= MaxEgress
  BY Zenon, <1>1, <1>2, <1>4, <1>5
<1> QED BY SMTT(30), <1>4, <1>5, <1>6, <1>7

-----------------------------------------------------------------------------
(* The handlers: what a fragment does to the client's state.               *)

Handled(c) ==
  /\ state' = c.state /\ endpoint' = c.endpoint /\ publication' = c.publication
  /\ ingressPub' = c.ingressPub /\ leaderMemberId' = c.leaderMemberId
  /\ leadershipTermId' = c.leadershipTermId /\ clusterSessionId' = c.clusterSessionId
  /\ hdr' = c.hdr /\ retryDue' = c.retryDue

\* The publications after memberIngress.close of those in ms
Closing(pubs, ms) == [m \in DOMAIN pubs |-> IF m \in ms THEN "nil" ELSE pubs[m]]

Fields == {"state", "endpoint", "publication", "ingressPub", "leaderMemberId", "leadershipTermId",
           "clusterSessionId", "hdr", "retryDue"}

LEMMA CloseMembersFields ==
  ASSUME NEW c, DOMAIN c = Fields, NEW ms, NEW d, d = CloseMembers(c, ms)
  PROVE  /\ DOMAIN d = Fields
         /\ d.publication = Closing(c.publication, ms)
         /\ d.ingressPub = IF c.ingressPub \in ms /\ c.publication[c.ingressPub] # "nil"
                           THEN "orphan" ELSE c.ingressPub
         /\ \A f \in Fields \ {"publication", "ingressPub"} : d[f] = c[f]
  BY Zenon DEF CloseMembers, Closing, Fields

\* The publication updateMemberEndpoints leaves the leader with, given the one it had
LeadersPub(pub, created) == IF pub # "nil" THEN pub ELSE IF created THEN "open" ELSE "nil"

\* The members in the endpoints string, those it gives another address, and all addresses after it
Listed(endpoints) == {m \in Members : endpoints[m] # "unknown"}
Moved(ep, endpoints) == {m \in Listed(endpoints) : ep[m] \notin {"unknown", endpoints[m]}}
Learned(ep, endpoints) == [m \in Members |-> IF m \in Listed(endpoints) THEN endpoints[m] ELSE ep[m]]

LEMMA LearnedEndpoints ==
  ASSUME NEW ep \in Listings, NEW endpoints \in Listings
  PROVE  /\ Learned(ep, endpoints) \in Listings
         /\ \A m \in Members : ep[m] # "unknown" => Learned(ep, endpoints)[m] # "unknown"
  BY Zenon DEF Learned, Listed, Listings

Updated(d, c, endpoints, created) ==
  LET moved == Moved(c.endpoint, endpoints)
      kept  == Closing(c.publication, moved)
      pub   == LeadersPub(kept[c.leaderMemberId], created)
  IN  /\ DOMAIN d = Fields
      /\ c.leaderMemberId \in Listed(endpoints) =>
           /\ d.publication = [kept EXCEPT ![c.leaderMemberId] = pub]
           /\ d.ingressPub = IF pub = "nil" THEN "nil" ELSE c.leaderMemberId
      /\ c.leaderMemberId \notin Listed(endpoints) =>
           /\ d.publication = kept
           /\ d.ingressPub = IF c.ingressPub \in moved /\ c.publication[c.ingressPub] # "nil"
                             THEN "orphan" ELSE c.ingressPub
      /\ d.endpoint = Learned(c.endpoint, endpoints)
      /\ \A f \in Fields \ {"publication", "ingressPub", "endpoint"} : d[f] = c[f]

LEMMA UpdateFields ==
  ASSUME NEW c, DOMAIN c = Fields, NEW endpoints, NEW created
  PROVE  Updated(updateMemberEndpoints(c, endpoints, created), c, endpoints, created)
<1> DEFINE moved == Moved(c.endpoint, endpoints)
           b == CloseMembers(c, moved)
           learned == [m \in Members |-> IF m \in Listed(endpoints) THEN endpoints[m] ELSE b.endpoint[m]]
           a == [b EXCEPT !.endpoint = learned]
           pub == LeadersPub(a.publication[a.leaderMemberId], created)
           g == [a EXCEPT !.publication = [@ EXCEPT ![a.leaderMemberId] = pub],
                          !.ingressPub = IF pub = "nil" THEN "nil" ELSE a.leaderMemberId]
           d == updateMemberEndpoints(c, endpoints, created)
<1>1. /\ DOMAIN b = Fields /\ b.publication = Closing(c.publication, moved)
      /\ b.ingressPub = IF c.ingressPub \in moved /\ c.publication[c.ingressPub] # "nil"
                        THEN "orphan" ELSE c.ingressPub
      /\ \A f \in Fields \ {"publication", "ingressPub"} : b[f] = c[f]
  BY CloseMembersFields
<1>2. d = IF a.leaderMemberId \in Listed(endpoints) THEN g ELSE a
  BY Zenon DEF updateMemberEndpoints, LeadersPub, Moved, Listed
<1> HIDE DEF b, moved
<1>3. learned = Learned(c.endpoint, endpoints)
  BY Zenon, <1>1 DEF Learned, Fields
<1> HIDE DEF learned
<1>4. /\ DOMAIN a = Fields /\ a.endpoint = learned /\ a.publication = b.publication
      /\ a.ingressPub = b.ingressPub /\ a.leaderMemberId = c.leaderMemberId
      /\ \A f \in Fields \ {"publication", "ingressPub", "endpoint"} : a[f] = c[f]
  BY Zenon, <1>1 DEF Fields
<1> HIDE DEF a, pub
<1>5. /\ DOMAIN g = Fields /\ g.publication = [a.publication EXCEPT ![a.leaderMemberId] = pub]
      /\ g.ingressPub = IF pub = "nil" THEN "nil" ELSE a.leaderMemberId
      /\ \A f \in Fields \ {"publication", "ingressPub"} : g[f] = a[f]
  BY Zenon, <1>4 DEF Fields
<1> HIDE DEF g, d
<1>6. CASE c.leaderMemberId \in Listed(endpoints)
  <2>1. d = g
    BY Zenon, <1>2, <1>4, <1>6
  <2> QED BY Zenon, <1>1, <1>3, <1>4, <1>5, <1>6, <2>1 DEF pub, moved, Fields, Updated, d
<1>7. CASE c.leaderMemberId \notin Listed(endpoints)
  <2>1. d = a
    BY Zenon, <1>2, <1>4, <1>7
  <2> QED BY Zenon, <1>1, <1>3, <1>4, <1>7, <2>1 DEF moved, Updated, d
<1> QED BY Zenon, <1>6, <1>7

LEMMA AnswerIsHandled ==
  ASSUME NEW e, e.type = "session", AnswersRequest(e), e.code = "OK", NEW created,
         Handled(onFragment(Client, e, created))
  PROVE  LET ms == {m \in Members : endpoint[m] # "unknown" /\ m # e.leader}
         IN  /\ state' = "Connected" /\ UNCHANGED <<endpoint, retryDue>>
             /\ publication' = Closing(publication, ms)
             /\ ingressPub' = IF ingressPub \in ms /\ publication[ingressPub] # "nil" THEN "orphan" ELSE ingressPub
             /\ leaderMemberId' = e.leader /\ leadershipTermId' = e.term
             /\ clusterSessionId' = e.session /\ hdr' = <<e.term, e.session>>
  BY Zenon DEF onFragment, onSessionEvent, closeNonLeaderPublications, CloseMembers, Closing, Client, Handled

\* What updateMemberEndpoints leaves of the publications: those of ms closed, and the leader's made
Kept(pubs, ms, m, created) == [Closing(pubs, ms) EXCEPT ![m] = LeadersPub(Closing(pubs, ms)[m], created)]

LEMMA RedirectIsHandled ==
  ASSUME NEW e, e.type = "session", AnswersRequest(e), e.code = "REDIRECT", NEW created,
         Handled(onFragment(Client, e, created))
  PROVE  /\ state' = "AwaitPublicationConnected" /\ leaderMemberId' = e.leader
         /\ endpoint' = Learned(endpoint, e.endpoints)
         /\ UNCHANGED <<leadershipTermId, clusterSessionId, hdr, retryDue>>
         /\ \E ms1, ms2 : \/ publication' = Closing(Kept(publication, ms1, e.leader, created), ms2)
                          \/ publication' = Closing(Closing(publication, ms1), ms2)
         /\ ingressPub' \in {"orphan", "nil", e.leader, ingressPub}
<1> DEFINE c == [Client EXCEPT !.leaderMemberId = e.leader]
           d == updateMemberEndpoints(c, e.endpoints, created)
           b == closeNonLeaderPublications(d)
           moved == Moved(c.endpoint, e.endpoints)
           others == {m \in Members : d.endpoint[m] # "unknown" /\ m # d.leaderMemberId}
<1>1. /\ DOMAIN c = Fields /\ c.leaderMemberId = e.leader /\ c.publication = publication
      /\ c.leadershipTermId = leadershipTermId /\ c.clusterSessionId = clusterSessionId
      /\ c.hdr = hdr /\ c.retryDue = retryDue /\ c.endpoint = endpoint /\ c.ingressPub = ingressPub
  BY Zenon DEF Client, Fields
<1>2. Handled([b EXCEPT !.state = "AwaitPublicationConnected"])
  BY Zenon DEF onFragment, onSessionEvent
<1> HIDE DEF c
<1>3. /\ DOMAIN d = Fields /\ d.endpoint = Learned(c.endpoint, e.endpoints)
      /\ \/ d.publication = Kept(c.publication, moved, c.leaderMemberId, created)
         \/ d.publication = Closing(c.publication, moved)
      /\ d.ingressPub \in {"orphan", "nil", c.leaderMemberId, c.ingressPub}
      /\ \A f \in Fields \ {"publication", "ingressPub", "endpoint"} : d[f] = c[f]
  <2>1. Updated(d, c, e.endpoints, created)
    BY Zenon, <1>1, UpdateFields
  <2> HIDE DEF d
  <2>2. CASE c.leaderMemberId \in Listed(e.endpoints)
    BY Zenon, <2>1, <2>2 DEF Updated, Kept
  <2>3. CASE c.leaderMemberId \notin Listed(e.endpoints)
    BY Zenon, <2>1, <2>3 DEF Updated
  <2> QED BY Zenon, <2>2, <2>3
<1> HIDE DEF d
<1>4. b = CloseMembers(d, others)
  BY Zenon DEF closeNonLeaderPublications
<1> HIDE DEF b, others, moved
<1>5. /\ DOMAIN b = Fields /\ b.publication = Closing(d.publication, others)
      /\ b.ingressPub \in {"orphan", d.ingressPub}
      /\ \A f \in Fields \ {"publication", "ingressPub"} : b[f] = d[f]
  BY <1>3, <1>4, CloseMembersFields
<1>6. /\ b.endpoint = Learned(endpoint, e.endpoints) /\ b.leaderMemberId = e.leader
      /\ b.leadershipTermId = leadershipTermId /\ b.clusterSessionId = clusterSessionId
      /\ b.hdr = hdr /\ b.retryDue = retryDue
      /\ b.ingressPub \in {"orphan", "nil", e.leader, ingressPub}
  BY <1>1, <1>3, <1>5 DEF Fields
<1>7. /\ state' = "AwaitPublicationConnected" /\ endpoint' = b.endpoint /\ leaderMemberId' = b.leaderMemberId
      /\ leadershipTermId' = b.leadershipTermId /\ clusterSessionId' = b.clusterSessionId /\ hdr' = b.hdr
      /\ retryDue' = b.retryDue /\ publication' = b.publication /\ ingressPub' = b.ingressPub
  BY Zenon, <1>2, <1>5 DEF Handled, Fields
<1>8. \/ publication' = Closing(Kept(publication, moved, e.leader, created), others)
      \/ publication' = Closing(Closing(publication, moved), others)
  BY Zenon, <1>1, <1>3, <1>5, <1>7
<1> QED BY Zenon, <1>6, <1>7, <1>8

LEMMA ErrorIsHandled ==
  ASSUME NEW e, e.type = "session", AnswersRequest(e), e.code \in {"ERROR", "AUTHENTICATION_REJECTED"},
         NEW created, Handled(onFragment(Client, e, created))
  PROVE  /\ state' = "Disconnected" /\ retryDue' = FALSE
         /\ UNCHANGED <<endpoint, publication, ingressPub, leaderMemberId, leadershipTermId, clusterSessionId, hdr>>
  BY Zenon DEF onFragment, onSessionEvent, Client, Handled

LEMMA NewLeaderIsHandled ==
  ASSUME NEW e, e.type = "leader", state = "Connected", e.session = clusterSessionId, hasEndpoints,
         NEW created, Handled(onFragment(Client, e, created)), "nil" \notin Members
  PROVE  LET closed == [m \in DOMAIN publication |-> IF m = ingressPub THEN "closed" ELSE publication[m]]
             kept   == Closing(closed, Moved(endpoint, e.endpoints))
             pub    == LeadersPub(kept[e.leader], created)
         IN  /\ UNCHANGED <<state, clusterSessionId, retryDue>>
             /\ endpoint' = Learned(endpoint, e.endpoints)
             /\ leaderMemberId' = e.leader /\ leadershipTermId' = e.term
             /\ hdr' = <<e.term, hdr[2]>>
             /\ e.leader \in Listed(e.endpoints) =>
                  /\ publication' = [kept EXCEPT ![e.leader] = pub]
                  /\ ingressPub' = IF pub = "nil" THEN "nil" ELSE e.leader
             /\ e.leader \notin Listed(e.endpoints) => publication' = kept /\ ingressPub' = "nil"
<1> DEFINE d == [Client EXCEPT !.leadershipTermId = e.term, !.leaderMemberId = e.leader, !.hdr = <<e.term, @[2]>>]
           c == [d EXCEPT !.publication = [m \in DOMAIN @ |-> IF m = d.ingressPub THEN "closed" ELSE @[m]],
                          !.ingressPub = "nil"]
           b == updateMemberEndpoints(c, e.endpoints, created)
           closed == [m \in DOMAIN publication |-> IF m = ingressPub THEN "closed" ELSE publication[m]]
           moved  == Moved(endpoint, e.endpoints)
           kept   == Closing(closed, moved)
           pub    == LeadersPub(kept[e.leader], created)
<1>1. /\ DOMAIN c = Fields /\ c.state = "Connected" /\ c.clusterSessionId = clusterSessionId
      /\ c.retryDue = retryDue /\ c.leaderMemberId = e.leader /\ c.leadershipTermId = e.term
      /\ c.hdr = <<e.term, hdr[2]>> /\ c.publication = closed /\ c.endpoint = endpoint
      /\ c.ingressPub = "nil"
  BY Zenon DEF Client, Fields
<1>2. Handled(b)
  BY Zenon DEF onFragment, onNewLeaderEvent, Client
<1> HIDE DEF c
<1>3. Updated(b, c, e.endpoints, created)
  BY Zenon, <1>1, UpdateFields
<1> HIDE DEF b, closed
<1>4. /\ DOMAIN b = Fields /\ b.endpoint = Learned(endpoint, e.endpoints)
      /\ \A f \in Fields \ {"publication", "ingressPub", "endpoint"} : b[f] = c[f]
  BY Zenon, <1>1, <1>3 DEF Updated
<1>5. /\ b.state = "Connected" /\ b.clusterSessionId = clusterSessionId /\ b.retryDue = retryDue
      /\ b.leaderMemberId = e.leader /\ b.leadershipTermId = e.term /\ b.hdr = <<e.term, hdr[2]>>
  BY <1>1, <1>4 DEF Fields
<1>6. e.leader \in Listed(e.endpoints) =>
        /\ b.publication = [kept EXCEPT ![e.leader] = pub]
        /\ b.ingressPub = IF pub = "nil" THEN "nil" ELSE e.leader
  BY Zenon, <1>1, <1>3 DEF Updated
<1>7. e.leader \notin Listed(e.endpoints) => b.publication = kept /\ b.ingressPub = "nil"
  <2>1. "nil" \notin moved
    BY Zenon DEF Moved, Listed
  <2> QED BY Zenon, <1>1, <1>3, <2>1 DEF Updated
<1> HIDE DEF kept, pub, moved
<1>8. /\ state' = b.state /\ endpoint' = b.endpoint /\ leaderMemberId' = b.leaderMemberId
      /\ leadershipTermId' = b.leadershipTermId /\ clusterSessionId' = b.clusterSessionId /\ hdr' = b.hdr
      /\ retryDue' = b.retryDue /\ publication' = b.publication /\ ingressPub' = b.ingressPub
  BY Zenon, <1>2 DEF Handled
<1>9. /\ UNCHANGED <<state, clusterSessionId, retryDue>>
      /\ endpoint' = Learned(endpoint, e.endpoints) /\ leaderMemberId' = e.leader
      /\ leadershipTermId' = e.term /\ hdr' = <<e.term, hdr[2]>>
  BY Zenon, <1>4, <1>5, <1>8
<1> QED BY Zenon, <1>6, <1>7, <1>8, <1>9 DEF kept, pub, moved, closed

\* Without endpoints the publication stays the one of the channel.
LEMMA NewLeaderWithoutEndpoints ==
  ASSUME NEW e, e.type = "leader", state = "Connected", e.session = clusterSessionId, ~hasEndpoints,
         NEW created, Handled(onFragment(Client, e, created))
  PROVE  /\ UNCHANGED <<state, endpoint, publication, ingressPub, clusterSessionId, retryDue>>
         /\ leaderMemberId' = e.leader /\ leadershipTermId' = e.term /\ hdr' = <<e.term, hdr[2]>>
  BY Zenon DEF onFragment, onNewLeaderEvent, Client, Handled

\* Any other fragment changes nothing, unless it says that the session is closed.
LEMMA OthersAreHandled ==
  ASSUME NEW e \in Events, NEW created, Handled(onFragment(Client, e, created)),
         e.type = "session" /\ AnswersRequest(e) => e.code = "CLOSED",
         e.type = "leader" => ~(state = "Connected" /\ e.session = clusterSessionId)
  PROVE  /\ \/ state' = state
            \/ state = "Connected" /\ state' = "Closed"
         /\ UNCHANGED <<endpoint, publication, ingressPub, leaderMemberId, leadershipTermId, clusterSessionId,
                        hdr, retryDue>>
  BY Zenon, EventTypes DEF onFragment, onSessionEvent, onNewLeaderEvent, Client, Handled

\* What a fragment does to the history.
LEMMA CutOffCases ==
  ASSUME NEW e, NEW created
  PROVE  LET answer == e.type = "session" /\ AnswersRequest(e) /\ e.code = "OK"
             follow == e.type = "leader" /\ state = "Connected" /\ e.session = clusterSessionId
         IN  /\ answer => CutOffBy(e, created) = "no"
             /\ follow /\ hasEndpoints =>
                  CutOffBy(e, created) = IF e.endpoints[e.leader] = "unknown" THEN "unlisted"
                                         ELSE IF created THEN "no" ELSE "refused"
             /\ ~answer /\ (~follow \/ ~hasEndpoints) => CutOffBy(e, created) = cutOff
             /\ CutOffBy(e, created) \in {cutOff, "no", "refused", "unlisted"}
  BY Zenon DEF CutOffBy

-----------------------------------------------------------------------------
(* The steps preserve the invariant.                                       *)

LEMMA InitInv == Init => ClusterInv
<1> SUFFICES ASSUME Init PROVE ClusterInv
  BY Zenon
<1>0. /\ hasEndpoints \in BOOLEAN /\ address \in [Members -> Addresses]
      /\ state = "Disconnected" /\ egress = [m \in Members |-> <<>>]
  BY Zenon, ClusterAssumption DEF Init
<1>1. endpoint \in [Members -> Addresses \cup {"unknown"}] /\ EndpointsKnown
  BY Zenon, <1>0, ClusterAssumption DEF Init, EndpointsKnown
<1>2. ClientTypes
  <2>1. publication \in [Members \cup {Channel} -> {"nil", "open", "closed"}]
    BY Zenon DEF Init
  <2>2. hdr \in (0..MaxTerm) \X (SessionIds \cup {0}) /\ polling \in 0..FragmentLimit /\ leadershipTermId \in 0..MaxTerm
    BY ClusterAssumption DEF Init
  <2> QED BY Zenon, <1>0, <1>1, <2>1, <2>2 DEF Init, ClientTypes
<1>3. ClusterTypes
  <2>1. egress \in [Members -> Seq(Events)] /\ \A m \in Members : Len(egress[m]) <= MaxEgress
    BY <1>0, ClusterAssumption
  <2>2. term \in 1..MaxTerm /\ moves \in 0..MaxMoves /\ failures \in 0..MaxFailures
    BY ClusterAssumption DEF Init
  <2>3. leader \in Members /\ home \in Members
    BY Zenon DEF Init
  <2> QED BY Zenon, <1>0, <2>1, <2>2, <2>3 DEF Init, ClusterTypes
<1>4. AnswersAreGranted
  BY <1>0 DEF AnswersAreGranted
<1> QED BY Zenon, <1>0, <1>1, <1>2, <1>3, <1>4
        DEF ClusterInv, TypeOK, AwaitsItsMember, SessionWasGranted, OneOpenPublication, NilIfCutOff

\* A step of the client between its calls of the cluster and the driver.
LEMMA ClientSteps ==
  ASSUME ClusterInv, ClientTypes', UNCHANGED cluster,
         UNCHANGED <<hasEndpoints, endpoint, publication, ingressPub, leaderMemberId, leadershipTermId,
                     clusterSessionId, hdr>>,
         \/ state' = state
         \/ state' \in {"Disconnected", "CreatePublications", "Closed"}
         \/ state = "Connected" /\ ingressPub = "nil" /\ state' = "panicked"
  PROVE  ClusterInv'
<1>1. ClusterTypes' /\ EndpointsKnown' /\ AnswersAreGranted'
  BY Zenon DEF ClusterInv, TypeOK, ClusterTypes, EndpointsKnown, AnswersAreGranted, cluster
<1>2. AwaitsItsMember'
  BY Zenon DEF ClusterInv, AwaitsItsMember, cluster
<1>3. SessionWasGranted' /\ OneOpenPublication'
  BY Zenon DEF ClusterInv, SessionWasGranted, OneOpenPublication, cluster
<1>4. NilIfCutOff'
  BY Zenon DEF ClusterInv, NilIfCutOff, cluster
<1> QED BY Zenon, <1>1, <1>2, <1>3, <1>4 DEF ClusterInv, TypeOK

LEMMA WaitingKeeps ==
  ASSUME ClusterInv,
         \/ PollDisconnected \/ PollAwaitConnectReply \/ PollConnected \/ PollReturns
         \/ Offer \/ AwaitTimesOut \/ RetryComesDue \/ EgressPortResolves
  PROVE  ClusterInv'
<1>0. ClientTypes
  BY Zenon DEF ClusterInv, TypeOK
<1>1. CASE PollDisconnected \/ RetryComesDue \/ EgressPortResolves \/ AwaitTimesOut
  <2>1. ClientTypes'
    BY Zenon, <1>0, <1>1 DEF ClientTypes, PollDisconnected, RetryComesDue, EgressPortResolves, AwaitTimesOut
  <2> QED BY Zenon, <1>1, <2>1, ClientSteps DEF PollDisconnected, RetryComesDue, EgressPortResolves, AwaitTimesOut
<1>2. CASE PollAwaitConnectReply
  <2>1. ClientTypes'
    <3>1. 1 \in 0..FragmentLimit
      BY ClusterAssumption
    <3> QED BY Zenon, <1>0, <1>2, <3>1 DEF ClientTypes, PollAwaitConnectReply
  <2> QED BY Zenon, <1>2, <2>1, ClientSteps DEF PollAwaitConnectReply
<1>3. CASE PollConnected \/ PollReturns \/ Offer
  <2>1. ClientTypes'
    BY <1>0, <1>3, ClusterAssumption DEF ClientTypes, PollConnected, PollReturns, Offer
  <2> QED BY Zenon, <1>3, <2>1, ClientSteps DEF PollConnected, PollReturns, Offer
<1> QED BY Zenon, <1>1, <1>2, <1>3

LEMMA CloseKeeps ==
  ASSUME ClusterInv, Close
  PROVE  ClusterInv'
<1>0. ClientTypes /\ ClusterTypes
  BY Zenon DEF ClusterInv, TypeOK
<1>1. UNCHANGED <<hasEndpoints, endpoint, leaderMemberId, leadershipTermId, clusterSessionId, hdr, awaitTimedOut,
                  retryDue, resolved, polling, leader, term, home, up, address, moves, failures,
                  cutOff, granted, requests, egress>>
  BY Zenon DEF Close
<1>2. ClusterTypes'
  <2>1. sessions' \subseteq sessions
    BY Zenon DEF Close
  <2> QED BY Zenon, <1>0, <1>1, <2>1 DEF ClusterTypes
<1>3. CASE state = "Connected" /\ ingressPub = "nil" /\ state' = "panicked" /\ UNCHANGED <<publication, ingressPub, sessions>>
  <2>1. ClientTypes'
    BY Zenon, <1>0, <1>1, <1>3 DEF ClientTypes
  <2> QED BY Zenon, <1>1, <1>3, <2>1, ClientSteps DEF cluster
<1>4. CASE /\ state' = "Closed" /\ ingressPub' = "nil"
           /\ publication' = [m \in DOMAIN publication |-> IF m = ingressPub THEN "closed" ELSE publication[m]]
  <2>1. publication' \in [Members \cup {Channel} -> {"nil", "open", "closed"}]
    BY Zenon, <1>0, <1>4 DEF ClientTypes
  <2>2. ClientTypes'
    BY Zenon, <1>0, <1>1, <1>4, <2>1 DEF ClientTypes
  <2>3. EndpointsKnown' /\ AnswersAreGranted'
    BY Zenon, <1>1 DEF ClusterInv, EndpointsKnown, AnswersAreGranted
  <2> QED BY Zenon, <1>2, <1>4, <2>2, <2>3
          DEF ClusterInv, TypeOK, AwaitsItsMember, SessionWasGranted, OneOpenPublication, NilIfCutOff
<1> QED BY Zenon, <1>3, <1>4 DEF Close

LEMMA createPublicationsKeeps ==
  ASSUME ClusterInv, createPublications
  PROVE  ClusterInv'
<1>0. ClientTypes /\ ClusterTypes
  BY Zenon DEF ClusterInv, TypeOK
<1>1. /\ state = "CreatePublications"
      /\ UNCHANGED <<hasEndpoints, endpoint, leaderMemberId, leadershipTermId, clusterSessionId, hdr, retryDue,
                     resolved, polling, leader, term, home, up, address, moves, cutOff, sessions, granted,
                     requests, egress>>
  BY Zenon DEF createPublications
<1>2. /\ \E made : publication' = [m \in DOMAIN publication |-> IF m \in made THEN "open" ELSE publication[m]]
      /\ ingressPub' \in {ingressPub, Channel}
      /\ \/ state' = "AwaitPublicationConnected" /\ awaitTimedOut' = FALSE /\ UNCHANGED failures
         \/ Fail /\ UNCHANGED <<state, awaitTimedOut>>
  BY Zenon DEF createPublications
<1>3. ClientTypes'
  <2>1. publication' \in [Members \cup {Channel} -> {"nil", "open", "closed"}]
    BY Zenon, <1>0, <1>2 DEF ClientTypes
  <2> QED BY Zenon, <1>0, <1>1, <1>2, <2>1 DEF ClientTypes
<1>4. ClusterTypes'
  <2>1. failures' \in 0..MaxFailures
    BY <1>0, <1>2, ClusterAssumption DEF ClusterTypes, Fail, CanFail
  <2> QED BY Zenon, <1>0, <1>1, <2>1 DEF ClusterTypes
<1>5. EndpointsKnown' /\ AnswersAreGranted'
  BY Zenon, <1>1 DEF ClusterInv, EndpointsKnown, AnswersAreGranted
<1>6. state' \in {"CreatePublications", "AwaitPublicationConnected"}
  BY Zenon, <1>1, <1>2
<1> QED BY Zenon, <1>3, <1>4, <1>5, <1>6
        DEF ClusterInv, TypeOK, AwaitsItsMember, SessionWasGranted, OneOpenPublication, NilIfCutOff

LEMMA awaitPublicationConnectedKeeps ==
  ASSUME ClusterInv, awaitPublicationConnected
  PROVE  ClusterInv'
<1>0. ClientTypes /\ ClusterTypes
  BY Zenon DEF ClusterInv, TypeOK
<1>1. /\ state = "AwaitPublicationConnected"
      /\ UNCHANGED <<hasEndpoints, endpoint, publication, leaderMemberId, leadershipTermId, clusterSessionId, hdr,
                     resolved, polling, leader, term, home, up, address, moves, cutOff, sessions>>
  BY Zenon DEF awaitPublicationConnected
<1>2. CASE /\ state' = "Disconnected" /\ retryDue' = FALSE /\ awaitTimedOut' = FALSE
           /\ UNCHANGED <<ingressPub, failures, granted, requests, egress>>
  <2>1. ClientTypes'
    BY Zenon, <1>0, <1>1, <1>2 DEF ClientTypes
  <2> QED BY Zenon, <1>1, <1>2, <2>1, ClientSteps DEF cluster
<1>3. ASSUME NEW m \in (IF Known # {} THEN Known ELSE {ingressPub}), NEW ok \in BOOLEAN,
             m \in DOMAIN publication, ingressPub' = m, sendConnectRequest(m, ok),
             IF ok THEN state' = "AwaitConnectReply" /\ awaitTimedOut' = FALSE
                   ELSE UNCHANGED <<state, awaitTimedOut>>,
             UNCHANGED retryDue
      PROVE  ClusterInv'
  <2>1. m \in Members \cup {Channel} /\ (hasEndpoints => m \in Members)
    <3>1. hasEndpoints => Known # {}
      BY Zenon, <1>0 DEF ClusterInv, EndpointsKnown, Known, ClusterTypes
    <3> QED BY Zenon, <1>0, <1>3, <3>1 DEF ClientTypes, Known
  <2>2. ClientTypes'
    BY Zenon, <1>0, <1>1, <1>3, <2>1 DEF ClientTypes
  <2>3. /\ requests' \subseteq [to : Members, latest : BOOLEAN]
        /\ \A r \in requests' : r.latest => r.to = Reaches(m)
    <3>1. Reaches(m) \in Members
      BY Zenon, <1>0, <2>1 DEF Reaches, ClusterTypes
    <3>2. \A r \in NoneIsLatest : r \in [to : Members, latest : BOOLEAN] /\ r.latest = FALSE
      BY Zenon, <1>0 DEF ClusterTypes, NoneIsLatest
    <3>3. \A r \in requests' : r \in NoneIsLatest \/ r = [to |-> Reaches(m), latest |-> TRUE]
      BY Zenon, <1>3 DEF sendConnectRequest
    <3>4. [to |-> Reaches(m), latest |-> TRUE] \in [to : Members, latest : BOOLEAN]
      BY Zenon, <3>1
    <3>5. [to |-> Reaches(m), latest |-> TRUE].to = Reaches(m)
      BY Zenon
    <3> HIDE DEF NoneIsLatest
    <3> QED BY Zenon, <3>2, <3>3, <3>4, <3>5
  <2>4. egress' \in [Members -> Seq(Events)] /\ \A n \in Members : egress'[n] = Outdated(egress[n])
    BY Zenon, <1>0, <1>3, OutdatedEvents DEF sendConnectRequest, ClusterTypes
  <2>5. /\ \A n \in Members : Len(egress'[n]) <= MaxEgress
        /\ \A n \in Members : \A i \in DOMAIN egress'[n] : ~IsAnswer(egress'[n][i])
    BY Zenon, <1>0, <2>4, OutdatedEvents DEF ClusterTypes
  <2>6. granted' = {} /\ failures' \in 0..MaxFailures
    BY <1>0, <1>3, ClusterAssumption DEF sendConnectRequest, Fail, CanFail, ClusterTypes
  <2>7. ClusterTypes'
    BY Zenon, <1>0, <1>1, <2>3, <2>4, <2>5, <2>6 DEF ClusterTypes
  <2>8. EndpointsKnown' /\ AnswersAreGranted'
    BY Zenon, <1>1, <2>5 DEF ClusterInv, EndpointsKnown, AnswersAreGranted
  <2>9. AwaitsItsMember'
    BY Zenon, <1>1, <1>3, <2>1, <2>3, <2>5 DEF AwaitsItsMember, Reaches
  <2>10. state' \in {"AwaitConnectReply", "AwaitPublicationConnected"}
    BY Zenon, <1>1, <1>3
  <2> QED BY Zenon, <2>2, <2>7, <2>8, <2>9, <2>10
          DEF ClusterInv, TypeOK, SessionWasGranted, OneOpenPublication, NilIfCutOff
<1> QED BY Zenon, <1>2, <1>3 DEF awaitPublicationConnected

\* A step of the cluster leaves the client alone; it may send events.
LEMMA ClusterSteps ==
  ASSUME ClusterInv, ClusterTypes', UNCHANGED client, UNCHANGED cutOff, granted \subseteq granted',
         \A r \in requests' : r \in requests,
         \A n \in Members : \A i \in DOMAIN egress'[n] :
           \/ i \in DOMAIN egress[n] /\ egress'[n][i] = egress[n][i]
           \/ IsAnswer(egress'[n][i]) =>
                /\ egress'[n][i].session \in granted'
                /\ state = "AwaitConnectReply" /\ hasEndpoints => egress'[n][i].leader = ingressPub
  PROVE  ClusterInv'
<1>1. ClientTypes' /\ EndpointsKnown'
  BY DEF ClusterInv, TypeOK, ClientTypes, EndpointsKnown, client
<1>2. AnswersAreGranted'
  <2> SUFFICES ASSUME NEW n \in Members, NEW i \in DOMAIN egress'[n], IsAnswer(egress'[n][i])
               PROVE  egress'[n][i].session \in granted'
    BY Zenon DEF AnswersAreGranted, IsAnswer
  <2>1. CASE i \in DOMAIN egress[n] /\ egress'[n][i] = egress[n][i]
    BY Zenon, <2>1 DEF ClusterInv, AnswersAreGranted
  <2> QED BY Zenon, <2>1
<1>3. AwaitsItsMember'
  <2> SUFFICES ASSUME state = "AwaitConnectReply", hasEndpoints
               PROVE  /\ \A r \in requests' : r.latest => r.to = ingressPub
                      /\ \A n \in Members : \A i \in DOMAIN egress'[n] :
                           IsAnswer(egress'[n][i]) => egress'[n][i].leader = ingressPub
    BY Zenon DEF ClusterInv, AwaitsItsMember, IsAnswer, client
  <2>1. \A r \in requests' : r.latest => r.to = ingressPub
    BY Zenon DEF ClusterInv, AwaitsItsMember
  <2>2. ASSUME NEW n \in Members, NEW i \in DOMAIN egress'[n], IsAnswer(egress'[n][i])
        PROVE  egress'[n][i].leader = ingressPub
    <3>1. CASE i \in DOMAIN egress[n] /\ egress'[n][i] = egress[n][i]
      BY Zenon, <2>2, <3>1 DEF ClusterInv, AwaitsItsMember
    <3> QED BY Zenon, <2>2, <3>1
  <2> QED BY Zenon, <2>1, <2>2
<1>4. SessionWasGranted' /\ OneOpenPublication' /\ NilIfCutOff'
  BY Zenon DEF ClusterInv, SessionWasGranted, OneOpenPublication, NilIfCutOff, client
<1> QED BY Zenon, <1>1, <1>2, <1>3, <1>4 DEF ClusterInv, TypeOK

LEMMA EventsAreTyped ==
  ASSUME ClusterTypes, NEW listed
  PROVE  /\ \A code \in {"OK", "REDIRECT", "ERROR", "AUTHENTICATION_REJECTED", "CLOSED"}, latest \in BOOLEAN,
              session \in SessionIds \cup {0} :
                /\ Event(code, latest, session, listed) \in Events
                /\ Event(code, latest, session, listed).session = session
                /\ Event(code, latest, session, listed).leader = leader
                /\ IsAnswer(Event(code, latest, session, listed)) <=> latest /\ code = "OK"
         /\ \A m \in Members, session \in SessionIds :
                term < MaxTerm =>
                  NewLeader(m, session, listed) \in Events /\ ~IsAnswer(NewLeader(m, session, listed))
         /\ Challenge \in Events /\ ~IsAnswer(Challenge)
<1>0. Listing(listed) \in Listings
  BY Zenon DEF ClusterTypes, Listing, Listings
<1>1. ASSUME NEW code \in {"OK", "REDIRECT", "ERROR", "AUTHENTICATION_REJECTED", "CLOSED"}, NEW latest \in BOOLEAN,
             NEW session \in SessionIds \cup {0}
      PROVE  /\ Event(code, latest, session, listed) \in Events
             /\ Event(code, latest, session, listed).session = session
             /\ Event(code, latest, session, listed).leader = leader
             /\ IsAnswer(Event(code, latest, session, listed)) <=> latest /\ code = "OK"
  <2>1. term \in 0..MaxTerm
    BY ClusterAssumption DEF ClusterTypes
  <2>2. Event(code, latest, session, listed) \in Events
    BY Zenon, <1>0, <2>1 DEF ClusterTypes, Event, Events
  <2> QED BY Zenon, <2>2 DEF Event, IsAnswer
<1>2. ASSUME NEW m \in Members, NEW session \in SessionIds, term < MaxTerm
      PROVE  NewLeader(m, session, listed) \in Events /\ ~IsAnswer(NewLeader(m, session, listed))
  <2>1. term + 1 \in 0..MaxTerm
    BY <1>2, ClusterAssumption DEF ClusterTypes
  <2> QED BY Zenon, <1>0, <2>1 DEF ClusterTypes, NewLeader, Events, IsAnswer
<1>3. Challenge \in Events /\ ~IsAnswer(Challenge)
  BY Zenon DEF Challenge, Events, IsAnswer
<1> QED BY Zenon, <1>1, <1>2, <1>3

LEMMA AnswerConnectKeeps ==
  ASSUME ClusterInv, NEW r \in requests, AnswerConnect(r)
  PROVE  ClusterInv'
<1>0. ClusterTypes /\ r.to \in Members /\ r.latest \in BOOLEAN
  BY Zenon DEF ClusterInv, TypeOK, ClusterTypes
<1>1. /\ UNCHANGED <<client, leader, term, home, up, address, moves, cutOff>>
      /\ requests' = requests \ {r}
  BY Zenon DEF AnswerConnect
<1>2. PICK e \in Events :
        /\ Send(r.to, <<e>>)
        /\ granted' \subseteq SessionIds /\ sessions' \subseteq SessionIds /\ failures' \in 0..MaxFailures
        /\ granted \subseteq granted'
        /\ IsAnswer(e) => e.session \in granted' /\ e.leader = leader /\ r.latest /\ r.to = leader
  <2>1. granted \subseteq SessionIds /\ sessions \subseteq SessionIds /\ failures \in 0..MaxFailures
    BY Zenon, <1>0 DEF ClusterTypes
  <2>2. ASSUME r.to = leader, UNCHANGED failures, NEW s \in SessionIds \ Mentioned, sessions' = sessions \cup {s},
               granted' = IF r.latest THEN granted \cup {s} ELSE granted, Send(r.to, <<Event("OK", r.latest, s, {})>>)
        PROVE  \E e \in Events :
                 /\ Send(r.to, <<e>>)
                 /\ granted' \subseteq SessionIds /\ sessions' \subseteq SessionIds /\ failures' \in 0..MaxFailures
                 /\ granted \subseteq granted'
                 /\ IsAnswer(e) => e.session \in granted' /\ e.leader = leader /\ r.latest /\ r.to = leader
    <3> DEFINE e == Event("OK", r.latest, s, {})
    <3>1. e \in Events /\ e.session = s /\ e.leader = leader /\ (IsAnswer(e) <=> r.latest)
      BY <1>0, EventsAreTyped
    <3> HIDE DEF e
    <3>2. granted' \subseteq SessionIds /\ sessions' \subseteq SessionIds /\ granted \subseteq granted'
      BY Zenon, <2>1, <2>2
    <3>3. IsAnswer(e) => e.session \in granted' /\ e.leader = leader /\ r.latest /\ r.to = leader
      BY Zenon, <2>2, <3>1
    <3>4. Send(r.to, <<e>>)
      BY Zenon, <2>2 DEF e
    <3> QED BY Zenon, <2>1, <2>2, <3>1, <3>2, <3>3, <3>4
  <2>3. ASSUME NEW e \in Events, ~IsAnswer(e), Send(r.to, <<e>>), UNCHANGED <<sessions, granted>>,
               failures' = failures \/ Fail
        PROVE  \E f \in Events :
                 /\ Send(r.to, <<f>>)
                 /\ granted' \subseteq SessionIds /\ sessions' \subseteq SessionIds /\ failures' \in 0..MaxFailures
                 /\ granted \subseteq granted'
                 /\ IsAnswer(f) => f.session \in granted' /\ f.leader = leader /\ r.latest /\ r.to = leader
    <3>1. failures' \in 0..MaxFailures
      BY <2>1, <2>3, ClusterAssumption DEF Fail, CanFail
    <3> QED BY Zenon, <2>1, <2>3, <3>1
  <2>4. /\ \A listed : /\ Event("REDIRECT", r.latest, 0, listed) \in Events
                        /\ ~IsAnswer(Event("REDIRECT", r.latest, 0, listed))
        /\ \A e \in {Event("ERROR", r.latest, 0, {}), Event("AUTHENTICATION_REJECTED", r.latest, 0, {}), Challenge} :
             e \in Events /\ ~IsAnswer(e)
    BY <1>0, EventsAreTyped
  <2>5. CASE /\ r.to = leader /\ UNCHANGED failures
             /\ \E s \in SessionIds \ Mentioned :
                  /\ sessions' = sessions \cup {s}
                  /\ granted' = IF r.latest THEN granted \cup {s} ELSE granted
                  /\ Send(r.to, <<Event("OK", r.latest, s, {})>>)
    BY Zenon, <2>2, <2>5
  <2>6. CASE /\ \E listed : Send(r.to, <<Event("REDIRECT", r.latest, 0, listed)>>) /\ LeavesOut(listed)
             /\ UNCHANGED <<sessions, granted>>
    BY Zenon, <2>3, <2>4, <2>6 DEF LeavesOut
  <2>7. CASE /\ Fail /\ UNCHANGED <<sessions, granted>>
             /\ \E e \in {Event("ERROR", r.latest, 0, {}), Event("AUTHENTICATION_REJECTED", r.latest, 0, {}), Challenge} :
                  Send(r.to, <<e>>)
    BY Zenon, <2>3, <2>4, <2>7
  <2> QED BY Zenon, <2>5, <2>6, <2>7 DEF AnswerConnect
<1>3. <<e>> \in Seq(Events) /\ DOMAIN <<e>> = {1} /\ <<e>>[1] = e
  OBVIOUS
<1>4. /\ egress' \in [Members -> Seq(Events)] /\ \A n \in Members : Len(egress'[n]) <= MaxEgress
      /\ \A n \in Members : \A i \in DOMAIN egress'[n] :
           \/ i \in DOMAIN egress[n] /\ egress'[n][i] = egress[n][i]
           \/ egress'[n][i] = e
  <2>1. Send(r.to, <<e>>)
    BY Zenon, <1>2
  <2>2. /\ egress' \in [Members -> Seq(Events)] /\ \A n \in Members : Len(egress'[n]) <= MaxEgress
        /\ \A n \in Members : \A i \in DOMAIN egress'[n] :
             \/ i \in DOMAIN egress[n] /\ egress'[n][i] = egress[n][i]
             \/ \E j \in DOMAIN <<e>> : egress'[n][i] = <<e>>[j]
    BY Zenon, <1>0, <1>3, <2>1, SentEvents
  <2>3. \A j \in DOMAIN <<e>> : <<e>>[j] = e
    BY Zenon, <1>3
  <2> QED BY Zenon, <2>2, <2>3
<1>5. ClusterTypes'
  BY Zenon, <1>0, <1>1, <1>2, <1>4 DEF ClusterTypes
<1>6. IsAnswer(e) => /\ e.session \in granted'
                     /\ state = "AwaitConnectReply" /\ hasEndpoints => e.leader = ingressPub
  BY Zenon, <1>2 DEF ClusterInv, AwaitsItsMember
<1>7. \A n \in Members : \A i \in DOMAIN egress'[n] :
           \/ i \in DOMAIN egress[n] /\ egress'[n][i] = egress[n][i]
           \/ IsAnswer(egress'[n][i]) =>
                /\ egress'[n][i].session \in granted'
                /\ state = "AwaitConnectReply" /\ hasEndpoints => egress'[n][i].leader = ingressPub
  BY Zenon, <1>4, <1>6
<1>8. \A q \in requests' : q \in requests
  BY Zenon, <1>1
<1> QED BY Zenon, <1>1, <1>2, <1>5, <1>7, <1>8, ClusterSteps

LEMMA ElectKeeps ==
  ASSUME ClusterInv, NEW m \in Members, Elect(m)
  PROVE  ClusterInv'
<1>0. ClusterTypes
  BY Zenon DEF ClusterInv, TypeOK
<1>1. /\ leader' = m /\ term' = term + 1 /\ term < MaxTerm
      /\ UNCHANGED <<client, home, up, address, moves, cutOff, sessions, granted, requests>>
  BY Zenon DEF Elect
<1>2. PICK k \in 0..MaxEgress, listed \in SUBSET Members : \E told \in [1..k -> sessions] :
         /\ \A s \in sessions : \E i \in 1..k : told[i] = s
         /\ \A i, j \in 1..k : told[i] = told[j] => i = j
         /\ Send(m, [i \in 1..k |-> NewLeader(m, told[i], listed)])
         /\ LeavesOut(listed)
  BY Zenon DEF Elect
<1>3. PICK told \in [1..k -> sessions] :
        Send(m, [i \in 1..k |-> NewLeader(m, told[i], listed)]) /\ LeavesOut(listed)
  BY Zenon, <1>2
<1> DEFINE events == [i \in 1..k |-> NewLeader(m, told[i], listed)]
<1>4. events \in Seq(Events) /\ \A j \in DOMAIN events : ~IsAnswer(events[j])
  <2>1. \A i \in 1..k : NewLeader(m, told[i], listed) \in Events /\ ~IsAnswer(NewLeader(m, told[i], listed))
    BY Zenon, <1>0, <1>1, EventsAreTyped DEF ClusterTypes
  <2>2. k \in Nat
    BY ClusterAssumption
  <2> QED BY <2>1, <2>2
<1> HIDE DEF events
<1>5. /\ egress' \in [Members -> Seq(Events)] /\ \A n \in Members : Len(egress'[n]) <= MaxEgress
      /\ \A n \in Members : \A i \in DOMAIN egress'[n] :
           \/ i \in DOMAIN egress[n] /\ egress'[n][i] = egress[n][i]
           \/ \E j \in DOMAIN events : egress'[n][i] = events[j]
  <2>1. Send(m, events)
    BY Zenon, <1>3 DEF events
  <2> QED BY Zenon, <1>0, <1>4, <2>1, SentEvents
<1>6. ClusterTypes'
  <2>1. term' \in 1..MaxTerm
    BY <1>0, <1>1, ClusterAssumption DEF ClusterTypes
  <2>2. failures' \in 0..MaxFailures
    BY <1>0, <1>3, ClusterAssumption DEF ClusterTypes, LeavesOut, Fail, CanFail
  <2> QED BY Zenon, <1>0, <1>1, <1>5, <2>1, <2>2 DEF ClusterTypes
<1>7. \A n \in Members : \A i \in DOMAIN egress'[n] :
           \/ i \in DOMAIN egress[n] /\ egress'[n][i] = egress[n][i]
           \/ IsAnswer(egress'[n][i]) =>
                /\ egress'[n][i].session \in granted'
                /\ state = "AwaitConnectReply" /\ hasEndpoints => egress'[n][i].leader = ingressPub
  BY Zenon, <1>4, <1>5
<1>8. granted \subseteq granted' /\ \A q \in requests' : q \in requests
  BY Zenon, <1>1
<1> QED BY Zenon, <1>1, <1>6, <1>7, <1>8, ClusterSteps

LEMMA CloseSessionKeeps ==
  ASSUME ClusterInv, NEW s \in sessions, CloseSession(s)
  PROVE  ClusterInv'
<1>0. ClusterTypes /\ s \in SessionIds /\ leader \in Members
  BY Zenon DEF ClusterInv, TypeOK, ClusterTypes
<1>1. /\ sessions' = sessions \ {s}
      /\ UNCHANGED <<client, leader, term, home, up, address, moves, failures, cutOff, granted, requests>>
  BY Zenon DEF CloseSession
<1> DEFINE events == <<Event("CLOSED", FALSE, s, {})>>
<1>2. events \in Seq(Events) /\ \A j \in DOMAIN events : ~IsAnswer(events[j])
  <2> DEFINE e == Event("CLOSED", FALSE, s, {})
  <2>1. e \in Events /\ ~IsAnswer(e)
    BY Zenon, <1>0, EventsAreTyped
  <2> HIDE DEF e
  <2>2. <<e>> \in Seq(Events) /\ DOMAIN <<e>> = {1} /\ <<e>>[1] = e
    BY <2>1
  <2>3. events = <<e>>
    BY Zenon DEF e
  <2> QED BY Zenon, <2>1, <2>2, <2>3
<1>3. Send(leader, events)
  BY Zenon DEF CloseSession
<1> HIDE DEF events
<1>4. /\ egress' \in [Members -> Seq(Events)] /\ \A n \in Members : Len(egress'[n]) <= MaxEgress
      /\ \A n \in Members : \A i \in DOMAIN egress'[n] :
           \/ i \in DOMAIN egress[n] /\ egress'[n][i] = egress[n][i]
           \/ \E j \in DOMAIN events : egress'[n][i] = events[j]
  BY Zenon, <1>0, <1>2, <1>3, SentEvents
<1>5. ClusterTypes'
  BY Zenon, <1>0, <1>1, <1>4 DEF ClusterTypes
<1>6. \A n \in Members : \A i \in DOMAIN egress'[n] :
           \/ i \in DOMAIN egress[n] /\ egress'[n][i] = egress[n][i]
           \/ IsAnswer(egress'[n][i]) =>
                /\ egress'[n][i].session \in granted'
                /\ state = "AwaitConnectReply" /\ hasEndpoints => egress'[n][i].leader = ingressPub
  BY Zenon, <1>2, <1>4
<1>7. granted \subseteq granted' /\ \A q \in requests' : q \in requests
  BY Zenon, <1>1
<1> QED BY Zenon, <1>1, <1>5, <1>6, <1>7, ClusterSteps

LEMMA OutagesKeep ==
  ASSUME ClusterInv, NEW m \in Members, Down(m) \/ Up(m) \/ Move(m)
  PROVE  ClusterInv'
<1>0. ClusterTypes
  BY Zenon DEF ClusterInv, TypeOK
<1>1. /\ UNCHANGED <<client, leader, term, home, cutOff, sessions, granted, egress>>
      /\ \A q \in requests' : q \in requests
      /\ up' \subseteq Members
      /\ address' = address \/ \E a \in Addresses : address' = [address EXCEPT ![m] = a]
      /\ failures' = failures \/ Fail
      /\ moves' = moves \/ (moves < MaxMoves /\ moves' = moves + 1)
  BY Zenon, <1>0 DEF Down, Up, Move, ClusterTypes
<1>2. failures' \in 0..MaxFailures /\ moves' \in 0..MaxMoves
  BY <1>0, <1>1, ClusterAssumption DEF ClusterTypes, Fail, CanFail
<1>3. address' \in [Members -> Addresses]
  BY Zenon, <1>0, <1>1 DEF ClusterTypes
<1>4. ClusterTypes'
  BY Zenon, <1>0, <1>1, <1>2, <1>3 DEF ClusterTypes
<1> QED BY Zenon, <1>1, <1>4, ClusterSteps

\* A fragment of the poll, and what it leaves of the events under way.
LEMMA pollEgressKeeps ==
  ASSUME ClusterInv, NEW m \in Members, pollEgress(m)
  PROVE  ClusterInv'
<1>0. ClientTypes /\ ClusterTypes
  BY Zenon DEF ClusterInv, TypeOK
<1> DEFINE e == Head(egress[m])
<1>1. /\ polling > 0 /\ state # "panicked" /\ egress[m] # <<>> /\ polling' = polling - 1
      /\ egress' = [egress EXCEPT ![m] = Tail(@)]
      /\ UNCHANGED <<hasEndpoints, awaitTimedOut, resolved, leader, term, home, up, address, moves,
                     sessions, granted, requests>>
  BY Zenon DEF pollEgress
<1>2. PICK created \in BOOLEAN :
        /\ Handled(onFragment(Client, e, created))
        /\ cutOff' = CutOffBy(e, created)
        /\ IF created THEN UNCHANGED failures ELSE Fail
  BY Zenon DEF pollEgress, Handled
<1>3. e \in Events /\ 1 \in DOMAIN egress[m] /\ e = egress[m][1]
  BY <1>0, <1>1 DEF ClusterTypes
<1>4. /\ egress' \in [Members -> Seq(Events)] /\ \A n \in Members : Len(egress'[n]) <= MaxEgress
      /\ \A n \in Members : \A i \in DOMAIN egress'[n] : \E j \in DOMAIN egress[n] : egress'[n][i] = egress[n][j]
  <2>1. egress \in [Members -> Seq(Events)] /\ \A n \in Members : Len(egress[n]) <= MaxEgress
    BY Zenon, <1>0 DEF ClusterTypes
  <2> DEFINE old == egress[m]
             t == Tail(old)
  <2>2. old \in Seq(Events) /\ old # <<>> /\ Len(old) <= MaxEgress
    BY Zenon, <1>1, <2>1
  <2> HIDE DEF old
  <2>3. /\ t \in Seq(Events) /\ Len(t) <= MaxEgress
        /\ \A i \in DOMAIN t : i + 1 \in DOMAIN old /\ t[i] = old[i + 1]
    BY <2>2, ClusterAssumption
  <2>4. egress' = [egress EXCEPT ![m] = t]
    BY Zenon, <1>1 DEF old
  <2> HIDE DEF t
  <2>5. egress' \in [Members -> Seq(Events)]
    BY Zenon, <2>1, <2>3, <2>4
  <2>6. egress'[m] = t /\ \A n \in Members \ {m} : egress'[n] = egress[n]
    BY Zenon, <2>1, <2>4
  <2> QED BY Zenon, <2>1, <2>3, <2>5, <2>6 DEF old
<1>5. ClusterTypes'
  <2>1. failures' = failures \/ Fail
    BY Zenon, <1>2
  <2>2. failures' \in 0..MaxFailures
    BY <1>0, <2>1, ClusterAssumption DEF ClusterTypes, Fail, CanFail
  <2>3. cutOff' \in {cutOff, "no", "refused", "unlisted"}
    BY Zenon, <1>2, CutOffCases
  <2>4. cutOff' \in {"no", "refused", "unlisted"}
    BY Zenon, <1>0, <2>3 DEF ClusterTypes
  <2> QED BY Zenon, <1>0, <1>1, <1>4, <2>2, <2>4 DEF ClusterTypes
<1>6. /\ AnswersAreGranted'
      /\ polling' \in 0..FragmentLimit
  <2>1. AnswersAreGranted'
    <3> SUFFICES ASSUME NEW n \in Members, NEW i \in DOMAIN egress'[n], IsAnswer(egress'[n][i])
                 PROVE  egress'[n][i].session \in granted'
      BY Zenon DEF AnswersAreGranted, IsAnswer
    <3>1. PICK j \in DOMAIN egress[n] : egress'[n][i] = egress[n][j]
      BY Zenon, <1>4
    <3> QED BY <1>1, <3>1 DEF ClusterInv, AnswersAreGranted
  <2>2. polling' \in 0..FragmentLimit
    BY <1>0, <1>1, ClusterAssumption DEF ClientTypes
  <2> QED BY Zenon, <2>1, <2>2
<1> HIDE DEF e
\* What remains is up to the handlers.
<1>7. ASSUME state' \in {"Disconnected", "AwaitPublicationConnected", "Closed"} \/ state' = state,
             endpoint' \in Listings, \A n \in Members : endpoint[n] # "unknown" => endpoint'[n] # "unknown",
             publication' \in [Members \cup {Channel} -> {"nil", "open", "closed"}],
             ingressPub' \in Members \cup {Channel, "nil", "orphan"}, leaderMemberId' \in Members \cup {NoOne},
             UNCHANGED <<leadershipTermId, clusterSessionId, hdr>>, retryDue' \in BOOLEAN,
             state' = state => UNCHANGED <<publication, ingressPub, leaderMemberId, cutOff>>
      PROVE  ClusterInv'
  <2>1. EndpointsKnown'
    BY Zenon, <1>1, <1>7 DEF ClusterInv, EndpointsKnown
  <2>2. endpoint' \in [Members -> Addresses \cup {"unknown"}]
    BY Zenon, <1>7 DEF Listings
  <2>3. ClientTypes'
    BY Zenon, <1>0, <1>1, <1>6, <1>7, <2>2 DEF ClientTypes
  <2>4. AwaitsItsMember'
    <3> SUFFICES ASSUME state' = "AwaitConnectReply" PROVE AwaitsItsMember'
      BY Zenon DEF AwaitsItsMember
    <3>1. state = "AwaitConnectReply" /\ UNCHANGED <<ingressPub, hasEndpoints, requests>> /\ AwaitsItsMember
      BY Zenon, <1>1, <1>7 DEF ClusterInv
    <3>2. ASSUME hasEndpoints, NEW n \in Members, NEW i \in DOMAIN egress'[n], IsAnswer(egress'[n][i])
          PROVE  egress'[n][i].leader = ingressPub
      <4>1. PICK j \in DOMAIN egress[n] : egress'[n][i] = egress[n][j]
        BY Zenon, <1>4
      <4> QED BY Zenon, <3>1, <3>2, <4>1 DEF AwaitsItsMember
    <3> QED BY Zenon, <3>1, <3>2 DEF AwaitsItsMember, IsAnswer
  <2>5. state' \in {"Connected", "panicked"} => UNCHANGED <<state, publication, ingressPub, leaderMemberId, cutOff>>
    BY Zenon, <1>7
  <2>6. SessionWasGranted' /\ OneOpenPublication'
    BY Zenon, <1>1, <1>7, <2>5 DEF ClusterInv, SessionWasGranted, OneOpenPublication
  <2>7. NilIfCutOff'
    BY Zenon, <1>1, <1>2, <1>7, <2>5 DEF ClusterInv, NilIfCutOff
  <2> QED BY Zenon, <1>5, <1>6, <2>1, <2>3, <2>4, <2>6, <2>7 DEF ClusterInv, TypeOK
<1>8. ASSUME NEW pubs \in [Members \cup {Channel} -> {"nil", "open", "closed"}], NEW ms
      PROVE  Closing(pubs, ms) \in [Members \cup {Channel} -> {"nil", "open", "closed"}]
  BY Zenon DEF Closing
<1>L. endpoint \in Listings
  BY Zenon, <1>0 DEF ClientTypes, Listings
\* The client is connected, or stays so: the types follow from the event's.
<1>9. ASSUME state' = "Connected",
             endpoint' \in Listings, \A n \in Members : endpoint[n] # "unknown" => endpoint'[n] # "unknown",
             publication' \in [Members \cup {Channel} -> {"nil", "open", "closed"}],
             ingressPub' \in Members \cup {Channel, "nil", "orphan"}, leaderMemberId' = e.leader,
             leadershipTermId' = e.term, e.leader \in Members, e.term \in 0..MaxTerm,
             clusterSessionId' \in granted, hdr' = <<e.term, clusterSessionId'>>, UNCHANGED retryDue,
             OneOpenPublication', ingressPub' = "nil" => cutOff' # "no"
      PROVE  ClusterInv'
  <2>1. EndpointsKnown'
    BY Zenon, <1>1, <1>9 DEF ClusterInv, EndpointsKnown
  <2>2. endpoint' \in [Members -> Addresses \cup {"unknown"}]
    BY Zenon, <1>9 DEF Listings
  <2>3. clusterSessionId' \in SessionIds \cup {0} /\ hdr' \in (0..MaxTerm) \X (SessionIds \cup {0})
    BY Zenon, <1>0, <1>9 DEF ClusterTypes
  <2>4. ClientTypes'
    BY Zenon, <1>0, <1>1, <1>6, <1>9, <2>2, <2>3 DEF ClientTypes
  <2>5. SessionWasGranted' /\ AwaitsItsMember' /\ NilIfCutOff'
    BY Zenon, <1>1, <1>9 DEF SessionWasGranted, AwaitsItsMember, NilIfCutOff
  <2> QED BY Zenon, <1>5, <1>6, <1>9, <2>1, <2>4, <2>5 DEF ClusterInv, TypeOK
<1>10. CASE e.type = "session" /\ AnswersRequest(e) /\ e.code = "OK"
  <2> DEFINE ms == {n \in Members : endpoint[n] # "unknown" /\ n # e.leader}
  <2>1. /\ state' = "Connected" /\ UNCHANGED <<endpoint, retryDue>>
        /\ publication' = Closing(publication, ms)
        /\ ingressPub' = IF ingressPub \in ms /\ publication[ingressPub] # "nil" THEN "orphan" ELSE ingressPub
        /\ leaderMemberId' = e.leader /\ leadershipTermId' = e.term
        /\ clusterSessionId' = e.session /\ hdr' = <<e.term, e.session>>
    BY Zenon, <1>2, <1>10, AnswerIsHandled
  <2>2. e.leader \in Members /\ e.term \in 0..MaxTerm /\ IsAnswer(e) /\ state = "AwaitConnectReply"
    BY Zenon, <1>3, <1>10, EventTypes DEF IsAnswer, AnswersRequest
  <2>3. e.session \in granted
    BY Zenon, <1>3, <2>2 DEF ClusterInv, AnswersAreGranted
  <2>4. /\ ingressPub \in Members \cup {Channel}
        /\ hasEndpoints => ingressPub = e.leader /\ \A n \in Members : endpoint[n] # "unknown"
    BY Zenon, <1>3, <2>2 DEF ClusterInv, AwaitsItsMember, EndpointsKnown
  <2>5. publication' \in [Members \cup {Channel} -> {"nil", "open", "closed"}]
    BY Zenon, <1>0, <1>8, <2>1 DEF ClientTypes
  <2>6. ingressPub' \in Members \cup {Channel, "orphan"} /\ ingressPub' # "nil"
    BY Zenon, <2>1, <2>4, ClusterAssumption DEF Channel
  <2>7. OneOpenPublication'
    <3> SUFFICES ASSUME hasEndpoints
                 PROVE  ingressPub' = e.leader /\ \A n \in Members : publication'[n] = "open" => n = e.leader
      BY Zenon, <1>1, <2>1 DEF OneOpenPublication
    <3>1. ingressPub' = e.leader
      BY Zenon, <2>1, <2>4
    <3>2. ASSUME NEW n \in Members, publication'[n] = "open" PROVE n = e.leader
      BY Zenon, <1>0, <2>1, <2>4, <3>2 DEF ClientTypes, Closing
    <3> QED BY Zenon, <3>1, <3>2
  <2> QED BY Zenon, <1>9, <1>L, <2>1, <2>2, <2>3, <2>5, <2>6, <2>7
<1>11. CASE e.type = "session" /\ AnswersRequest(e) /\ e.code = "REDIRECT"
  <2>1. /\ state' = "AwaitPublicationConnected" /\ leaderMemberId' = e.leader
        /\ endpoint' = Learned(endpoint, e.endpoints)
        /\ UNCHANGED <<leadershipTermId, clusterSessionId, hdr, retryDue>>
        /\ \E ms1, ms2 : \/ publication' = Closing(Kept(publication, ms1, e.leader, created), ms2)
                         \/ publication' = Closing(Closing(publication, ms1), ms2)
        /\ ingressPub' \in {"orphan", "nil", e.leader, ingressPub}
    BY Zenon, <1>2, <1>11, RedirectIsHandled
  <2>2. e.leader \in Members /\ e.endpoints \in Listings /\ state = "AwaitConnectReply"
    BY Zenon, <1>3, <1>11, EventTypes DEF AnswersRequest
  <2>3. publication' \in [Members \cup {Channel} -> {"nil", "open", "closed"}]
    <3>1. PICK ms1, ms2 : \/ publication' = Closing(Kept(publication, ms1, e.leader, created), ms2)
                          \/ publication' = Closing(Closing(publication, ms1), ms2)
      BY Zenon, <2>1
    <3> DEFINE pubs == Closing(publication, ms1)
    <3>2. pubs \in [Members \cup {Channel} -> {"nil", "open", "closed"}]
      BY Zenon, <1>0, <1>8 DEF ClientTypes
    <3>3. Kept(publication, ms1, e.leader, created) = [pubs EXCEPT ![e.leader] = LeadersPub(pubs[e.leader], created)]
      BY Zenon DEF Kept
    <3> HIDE DEF pubs
    <3>4. LeadersPub(pubs[e.leader], created) \in {"nil", "open", "closed"}
      BY Zenon, <2>2, <3>2 DEF LeadersPub
    <3>5. Kept(publication, ms1, e.leader, created) \in [Members \cup {Channel} -> {"nil", "open", "closed"}]
      BY Zenon, <3>2, <3>3, <3>4
    <3> QED BY Zenon, <1>8, <3>1, <3>2, <3>5 DEF pubs
  <2>4. endpoint' \in Listings /\ \A n \in Members : endpoint[n] # "unknown" => endpoint'[n] # "unknown"
    BY Zenon, <1>L, <2>1, <2>2, LearnedEndpoints
  <2> QED BY Zenon, <1>0, <1>7, <2>1, <2>2, <2>3, <2>4 DEF ClientTypes
<1>12. CASE e.type = "session" /\ AnswersRequest(e) /\ e.code \in {"ERROR", "AUTHENTICATION_REJECTED"}
  <2>1. /\ state' = "Disconnected" /\ retryDue' = FALSE
        /\ UNCHANGED <<endpoint, publication, ingressPub, leaderMemberId, leadershipTermId, clusterSessionId, hdr>>
    BY Zenon, <1>2, <1>12, ErrorIsHandled
  <2>2. state = "AwaitConnectReply"
    BY Zenon, <1>12 DEF AnswersRequest
  <2> QED BY Zenon, <1>0, <1>7, <1>L, <2>1, <2>2 DEF ClientTypes
<1>13. CASE e.type = "leader" /\ state = "Connected" /\ e.session = clusterSessionId
  <2>1. e.leader \in Members /\ e.term \in 0..MaxTerm /\ e.endpoints \in Listings
    BY Zenon, <1>3, <1>13, EventTypes
  <2>2. clusterSessionId \in granted /\ hdr[2] = clusterSessionId
    BY <1>13 DEF ClusterInv, SessionWasGranted
  <2>3. CASE ~hasEndpoints
    <3>1. /\ UNCHANGED <<state, endpoint, publication, ingressPub, clusterSessionId, retryDue>>
          /\ leaderMemberId' = e.leader /\ leadershipTermId' = e.term /\ hdr' = <<e.term, hdr[2]>>
      BY Zenon, <1>2, <1>13, <2>3, NewLeaderWithoutEndpoints
    <3>2. OneOpenPublication'
      BY Zenon, <1>1, <2>3 DEF OneOpenPublication
    <3>3. cutOff' = cutOff
      BY Zenon, <1>2, <1>13, <2>3, CutOffCases
    <3>4. ingressPub' = "nil" => cutOff' # "no"
      BY Zenon, <1>13, <3>1, <3>3 DEF ClusterInv, NilIfCutOff
    <3> QED BY Zenon, <1>0, <1>9, <1>13, <1>L, <2>1, <2>2, <3>1, <3>2, <3>4 DEF ClientTypes
  <2>4. CASE hasEndpoints
    <3> DEFINE closed == [n \in DOMAIN publication |-> IF n = ingressPub THEN "closed" ELSE publication[n]]
               kept   == Closing(closed, Moved(endpoint, e.endpoints))
               pub    == LeadersPub(kept[e.leader], created)
    <3>0. "nil" \notin Members
      BY Zenon, ClusterAssumption
    <3>1. /\ UNCHANGED <<state, clusterSessionId, retryDue>>
          /\ endpoint' = Learned(endpoint, e.endpoints) /\ leaderMemberId' = e.leader
          /\ leadershipTermId' = e.term /\ hdr' = <<e.term, hdr[2]>>
          /\ e.leader \in Listed(e.endpoints) =>
               publication' = [kept EXCEPT ![e.leader] = pub] /\ ingressPub' = IF pub = "nil" THEN "nil" ELSE e.leader
          /\ e.leader \notin Listed(e.endpoints) => publication' = kept /\ ingressPub' = "nil"
      BY Zenon, <1>2, <1>13, <2>4, <3>0, NewLeaderIsHandled
    <3>2. closed \in [Members \cup {Channel} -> {"nil", "open", "closed"}]
      BY Zenon, <1>0 DEF ClientTypes
    <3>3. \A n \in Members : closed[n] # "open"
      BY Zenon, <1>0, <1>13, <2>4 DEF ClusterInv, OneOpenPublication, ClientTypes
    <3> HIDE DEF closed
    <3>4. kept \in [Members \cup {Channel} -> {"nil", "open", "closed"}] /\ \A n \in Members : kept[n] # "open"
      BY Zenon, <3>2, <3>3 DEF Closing
    <3> HIDE DEF kept
    <3>5. pub \in {"nil", "open", "closed"} /\ (pub = "nil" => created = FALSE)
      BY Zenon, <1>2, <2>1, <3>4 DEF LeadersPub
    <3> HIDE DEF pub
    <3>6. endpoint' \in Listings /\ \A n \in Members : endpoint[n] # "unknown" => endpoint'[n] # "unknown"
      BY Zenon, <1>L, <2>1, <3>1, LearnedEndpoints
    <3>7. cutOff' = IF e.endpoints[e.leader] = "unknown" THEN "unlisted" ELSE IF created THEN "no" ELSE "refused"
      BY Zenon, <1>2, <1>13, <2>4, CutOffCases
    <3>8. CASE e.leader \in Listed(e.endpoints)
      <4>1. publication' \in [Members \cup {Channel} -> {"nil", "open", "closed"}]
        BY Zenon, <2>1, <3>1, <3>4, <3>5, <3>8
      <4>2. ASSUME NEW n \in Members, publication'[n] = "open" PROVE n = ingressPub'
        BY Zenon, <2>1, <3>1, <3>4, <3>5, <3>8, <4>2
      <4>3. ingressPub' \in {leaderMemberId', "nil"}
        BY Zenon, <3>1, <3>8
      <4>4. OneOpenPublication'
        BY Zenon, <4>2, <4>3 DEF OneOpenPublication
      <4>5. ingressPub' = "nil" => cutOff' # "no"
        BY Zenon, <2>1, <3>0, <3>1, <3>5, <3>7, <3>8
      <4>6. ingressPub' \in Members \cup {Channel, "nil", "orphan"}
        BY Zenon, <2>1, <3>1, <4>3
      <4> QED BY Zenon, <1>9, <1>13, <2>1, <2>2, <3>1, <3>6, <4>1, <4>4, <4>5, <4>6
    <3>9. CASE e.leader \notin Listed(e.endpoints)
      <4>1. publication' = kept /\ ingressPub' = "nil"
        BY Zenon, <3>1, <3>9
      <4>2. OneOpenPublication'
        BY Zenon, <3>4, <4>1 DEF OneOpenPublication
      <4>3. cutOff' # "no"
        BY Zenon, <2>1, <3>7, <3>9 DEF Listed
      <4> QED BY Zenon, <1>9, <1>13, <2>1, <2>2, <3>1, <3>4, <3>6, <4>1, <4>2, <4>3
    <3> QED BY Zenon, <3>8, <3>9
  <2> QED BY Zenon, <2>3, <2>4
<1>14. CASE /\ e.type = "session" /\ AnswersRequest(e) => e.code = "CLOSED"
            /\ e.type = "leader" => ~(state = "Connected" /\ e.session = clusterSessionId)
  <2>1. /\ \/ state' = state
           \/ state = "Connected" /\ state' = "Closed"
        /\ UNCHANGED <<endpoint, publication, ingressPub, leaderMemberId, leadershipTermId, clusterSessionId,
                       hdr, retryDue>>
    BY Zenon, <1>2, <1>3, <1>14, OthersAreHandled
  <2>2. cutOff' = cutOff
    BY Zenon, <1>2, <1>14, CutOffCases
  <2> QED BY Zenon, <1>0, <1>7, <1>L, <2>1, <2>2 DEF ClientTypes
<1> QED BY Zenon, <1>3, <1>10, <1>11, <1>12, <1>13, <1>14, EventTypes

-----------------------------------------------------------------------------
(* The theorems.                                                           *)

LEMMA NextInv == ClusterInv /\ [Next]_vars => ClusterInv'
<1> SUFFICES ASSUME ClusterInv, [Next]_vars PROVE ClusterInv'
  BY Zenon
<1>1. CASE Poll
  BY Zenon, <1>1, WaitingKeeps, createPublicationsKeeps, awaitPublicationConnectedKeeps, pollEgressKeeps DEF Poll
<1>2. CASE Offer \/ AwaitTimesOut \/ RetryComesDue \/ EgressPortResolves
  BY Zenon, <1>2, WaitingKeeps
<1>3. CASE Close
  BY Zenon, <1>3, CloseKeeps
<1>4. CASE \E r \in requests : AnswerConnect(r)
  BY Zenon, <1>4, AnswerConnectKeeps
<1>5. CASE \E s \in sessions : CloseSession(s)
  BY Zenon, <1>5, CloseSessionKeeps
<1>6. CASE \E m \in Members : Elect(m) \/ Down(m) \/ Up(m) \/ Move(m)
  BY Zenon, <1>6, ElectKeeps, OutagesKeep
<1>7. CASE UNCHANGED vars
  <2>1. UNCHANGED cluster /\ UNCHANGED client
    BY Zenon, <1>7 DEF vars
  <2>2. ClientTypes'
    BY <2>1 DEF client, ClusterInv, TypeOK, ClientTypes
  <2> QED BY Zenon, <2>1, <2>2, ClientSteps DEF client
<1> QED BY Zenon, <1>1, <1>2, <1>3, <1>4, <1>5, <1>6, <1>7 DEF Next

\* The inductive invariant holds in every behaviour of the client and its cluster.
THEOREM ClusterInvHolds == Spec => []ClusterInv
  BY InitInv, NextInv, PTL DEF Spec

(* A connected client's session is one the cluster opened for its latest     *)
(* connect request, and its headers carry that session and the last term it  *)
(* was told of, whatever answers to earlier requests are still under way     *)
(* (onSessionEvent compares the correlation id).                             *)
THEOREM ConnectedToItsSession == Spec => []SessionWasGranted
<1>1. ClusterInv => SessionWasGranted
  BY Zenon DEF ClusterInv
<1> QED BY <1>1, ClusterInvHolds, PTL

(* A connected client with endpoints has at most one open publication, to    *)
(* the member it takes for the leader, however redirects, elections, moves   *)
(* and refusals of the driver interleave (closeNonLeaderPublications,        *)
(* onNewLeaderEvent).                                                        *)
THEOREM PublishesToTheLeader == Spec => []IngressIsTheLeaders
<1>1. ClusterInv => IngressIsTheLeaders
  <2> SUFFICES ASSUME ClusterInv, state = "Connected", hasEndpoints, NEW m \in Members \ {leaderMemberId},
                      publication[m] = "open"
               PROVE  FALSE
    BY Zenon DEF IngressIsTheLeaders, ClusterInv, OneOpenPublication
  <2> QED BY Zenon, ClusterAssumption DEF ClusterInv, OneOpenPublication
<1> QED BY <1>1, ClusterInvHolds, PTL

(* Poll, Offer and Close dereference a nil ingressPub only when the last new *)
(* leader the client followed was not among the endpoints it was told of, or *)
(* had its publication refused by the driver (updateMemberEndpoints): no     *)
(* order of redirects, elections, moves and retries does it otherwise.       *)
THEOREM PanicNeedsACut == Spec => []PanicsOnlyIfCutOff
<1>1. ClusterInv => PanicsOnlyIfCutOff
  BY Zenon DEF ClusterInv, NilIfCutOff, PanicsOnlyIfCutOff
<1> QED BY <1>1, ClusterInvHolds, PTL
=============================================================================
