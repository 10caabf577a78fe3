-------------------------- MODULE DriverProxyProofs --------------------------
(*****************************************************************************)
(* Proofs about the driver proxy on top of the command ring: the ring keeps  *)
(* its promises when the proxy drives it, and what a command method reports  *)
(* to its caller is what happened to the command.  The ring under the proxy  *)
(* implements the command queue: every step of Write, of the proxy and of    *)
(* the driver claims, commits or takes one command of the queue, or leaves   *)
(* it as it is.                                                              *)
(*****************************************************************************)
EXTENDS DriverProxy, ManyToOneRingBufferProofs

-----------------------------------------------------------------------------
(* The ring under the proxy.                                               *)

\* Every step of the proxy but Init is a step of the ring.
LEMMA ProxyStepIsRingStep == [ProxyNext]_proxyVars => [Next]_vars \/ InitProxy
<1> SUFFICES ASSUME [ProxyNext]_proxyVars PROVE [Next]_vars \/ InitProxy
  BY Zenon
<1>1. ASSUME NEW p \in Producers, NEW n \in MsgLengths, Command(p, n) PROVE Next
  <2>1. NextCorrelationID(p, n)
    BY Zenon, <1>1 DEF Command, AddSubscription, RemoveSubscription, AddPublication, AddExclusivePublication,
                RemovePublication, ClientClose, AddDestination, RemoveDestination, AddRcvDestination,
                RemoveRcvDestination, AddCounter, AddCounterByLabel, RemoveCounter, Send
  <2> QED BY Zenon, <2>1 DEF Next
<1>2. ASSUME NEW p \in Producers, WriteCommandToDriver(p) \/ WriteStep(p) PROVE Next
  BY Zenon, <1>2 DEF WriteCommandToDriver, WriteStep, Next, ClaimStep, RecordStep
<1>3. DriverStep => Next
  BY Zenon DEF DriverStep, Next
<1>4. UNCHANGED proxyVars => UNCHANGED vars
  BY Zenon DEF proxyVars
<1> QED BY Zenon, <1>1, <1>2, <1>3, <1>4 DEF ProxyNext

\* Proxy.Init moves only the correlation id counter, of which the invariant of
\* the ring says no more than its type.
LEMMA InitProxyKeepsRing == IInv /\ InitProxy /\ correlationID <= MaxCommands => IInv'
<1> SUFFICES ASSUME IInv, InitProxy, correlationID <= MaxCommands PROVE IInv'
  BY Zenon
<1>0. UNCHANGED <<tail, headCache, head, lengthField, content, pc, myID, myLength, myHead, myTail,
                  readPosition, driverPc, consumed, claims>>
  BY Zenon DEF InitProxy, buffer, locals, driverState
<1>1. TypeOK'
  BY <1>0, BoundAssumption DEF IInv, TypeOK, InitProxy
<1>2. LengthsInv' /\ OrderInv' /\ CheckedInv'
  BY Zenon, <1>0 DEF IInv, LengthsInv, OrderInv, CheckedInv, Checked, Required
<1>3. RecordsInv'
  <2>1. Quiet
    BY Zenon, <1>0 DEF Quiet, HoldsClaim
  <2> QED BY Zenon, <2>1, QuietRecords
<1> QED BY Zenon, <1>1, <1>2, <1>3 DEF IInv

-----------------------------------------------------------------------------
(* What is known of the correlation ids.                                   *)

Busy(p) == pc[p] # "idle"

\* The calls there are: only AddRcvDestination keeps the error to itself.
Calls == {Call(OtherMethod, ReturnError), Call(RcvAdd, ReturnNil)}

\* The call of this id failed and its caller was told, or called AddRcvDestination.
Told(id) == \E f \in failures : f.id = id /\ (f.err \/ f.method = RcvAdd)

\* The ids in use: they come from the counter, no two calls that are running
\* have the same one, and the command of a call is in the ring exactly from its
\* claim on.  No running call has the id of one that failed.
IdsInv ==
    /\ clientID \in Nat /\ clientID < correlationID
    /\ clientID = Zeroed => correlationID = 1 /\ \A p \in Producers : ~Busy(p)
    /\ \A i \in DOMAIN claims : claims[i].id < correlationID
    /\ \A p \in Producers : Busy(p) =>
          /\ myID[p] < correlationID
          /\ HoldsClaim(p) <=> Sent(myID[p])
          /\ \A q \in Producers \ {p} : Busy(q) => myID[q] # myID[p]
    /\ myCall \in [Producers -> Calls]
    /\ \A f \in failures :
          /\ f.id \in Nat /\ f.id < correlationID
          /\ ~Sent(f.id)
          /\ \A p \in Producers : Busy(p) => myID[p] # f.id

\* The inductive invariant of the proxy.
ProxyInv == IInv /\ IdsInv /\ SilentFailureIsRcvAdd

\* Steps that start and end no call, claim nothing and touch no id.
Silent ==
    /\ UNCHANGED <<claims, myID, correlationID, clientID, myCall, failures>>
    /\ \A q \in Producers : (Busy(q)' <=> Busy(q)) /\ (HoldsClaim(q)' <=> HoldsClaim(q))

LEMMA SilentKeeps == ASSUME IdsInv, SilentFailureIsRcvAdd, Silent PROVE IdsInv' /\ SilentFailureIsRcvAdd'
<1>1. \A id : Sent(id)' <=> Sent(id)
  BY Zenon DEF Silent, Sent
<1>2. IdsInv'
  BY Zenon, <1>1 DEF Silent, IdsInv
<1>3. SilentFailureIsRcvAdd'
  BY Zenon, <1>1 DEF Silent, SilentFailureIsRcvAdd, Busy
<1> QED BY Zenon, <1>2, <1>3

LEMMA SilentSteps ==
    ASSUME TypeOK
    PROVE  /\ \A p \in Producers : WriteStep(p) /\ ~ClaimSucceeds(p) => Silent
           /\ DriverStep => Silent
           /\ UNCHANGED proxyVars => Silent
<1> USE DEF trailer, buffer, locals, driverState, HoldsClaim, Busy
<1>1. ASSUME NEW p \in Producers, WriteStep(p), ~ClaimSucceeds(p) PROVE Silent
  <2>0. UNCHANGED <<clientID, myCall, failures>>
    BY Zenon, <1>1 DEF WriteStep
  <2>1. ASSUME LoadHeadCache(p) PROVE Silent
    BY Zenon, <2>0, <2>1 DEF LoadHeadCache, Silent, TypeOK
  <2>2. ASSUME LoadTail(p) PROVE Silent
    BY Zenon, <2>0, <2>2 DEF LoadTail, AfterCapacityCheck, Silent, TypeOK
  <2>3. ASSUME ReloadHead(p) PROVE Silent
    BY Zenon, <2>0, <2>3 DEF ReloadHead, Silent, TypeOK
  <2>4. ASSUME StoreHeadCache(p) PROVE Silent
    BY Zenon, <2>0, <2>4 DEF StoreHeadCache, AfterCapacityCheck, Silent, TypeOK
  <2>5. ASSUME ReloadHeadToWrap(p) PROVE Silent
    BY Zenon, <2>0, <2>5 DEF ReloadHeadToWrap, Silent, TypeOK
  <2>6. ASSUME StoreHeadCacheToWrap(p) PROVE Silent
    BY Zenon, <2>0, <2>6 DEF StoreHeadCacheToWrap, Silent, TypeOK
  <2>7. ASSUME ClaimContended(p) PROVE Silent
    BY Zenon, <2>0, <2>7 DEF ClaimContended, Silent, TypeOK
  <2>8. ASSUME WritePadding(p) PROVE Silent
    BY Zenon, <2>0, <2>8 DEF WritePadding, Silent, TypeOK
  <2>9. ASSUME WriteHeader(p) PROVE Silent
    BY Zenon, <2>0, <2>9 DEF WriteHeader, Silent, TypeOK
  <2>10. ASSUME WritePayload(p) PROVE Silent
    BY Zenon, <2>0, <2>10 DEF WritePayload, Silent, TypeOK
  <2> QED BY Zenon, <1>1, <2>1, <2>2, <2>3, <2>4, <2>5, <2>6, <2>7, <2>8, <2>9, <2>10 DEF WriteStep
<1>2. ASSUME DriverStep PROVE Silent
  BY Zenon, <1>2 DEF DriverStep, Driver, DriverRead, DriverZero, DriverAdvance, Silent
<1>3. ASSUME UNCHANGED proxyVars PROVE Silent
  BY Zenon, <1>3 DEF proxyVars, vars, Silent
<1> QED BY Zenon, <1>1, <1>2, <1>3

-----------------------------------------------------------------------------
(* The steps that matter.                                                  *)

\* A successful compare-and-set puts the command of its producer in the ring,
\* and no other.
LEMMA ClaimSends ==
    ASSUME IInv, NEW p \in Producers, ClaimSucceeds(p)
    PROVE  /\ \A id \in Nat : Sent(id)' <=> Sent(id) \/ id = myID[p]
           /\ \A i \in DOMAIN claims' : claims'[i].id \in {myID[p], Padding} \/ \E j \in DOMAIN claims : claims'[i] = claims[j]
<1> DEFINE Record == [start : Positions, size : Positions, id : Int]
<1>1. claims \in Seq(Record) /\ Padding \notin Nat
  BY DEF IInv, TypeOK, Padding
<1>2. \/ claims' = Append(claims, RecordOf(p))
      \/ claims' = Append(Append(claims, PaddingOf(p)), RecordOf(p))
  BY Zenon, ClaimAppends
<1>3. RecordOf(p).id = myID[p] /\ PaddingOf(p).id = Padding
  BY Zenon DEF RecordOf, PaddingOf
<1>4. CASE claims' = Append(claims, RecordOf(p))
  <2>1. /\ DOMAIN claims' = DOMAIN claims \cup {Len(claims) + 1}
        /\ claims'[Len(claims) + 1] = RecordOf(p)
        /\ \A i \in DOMAIN claims : claims'[i] = claims[i] /\ i # Len(claims) + 1
    BY <1>1, <1>4
  <2> QED BY Zenon, <1>1, <1>3, <2>1 DEF Sent
<1>5. CASE claims' = Append(Append(claims, PaddingOf(p)), RecordOf(p))
  <2>1. /\ DOMAIN claims' = DOMAIN claims \cup {Len(claims) + 1, Len(claims) + 2}
        /\ claims'[Len(claims) + 1] = PaddingOf(p)
        /\ claims'[Len(claims) + 2] = RecordOf(p)
        /\ \A i \in DOMAIN claims : claims'[i] = claims[i]
    BY <1>1, <1>5
  <2> QED BY Zenon, <1>1, <1>3, <2>1 DEF Sent
<1> QED BY Zenon, <1>2, <1>4, <1>5

LEMMA ClaimKeeps ==
    ASSUME IInv, IdsInv, SilentFailureIsRcvAdd, NEW p \in Producers, ClaimSucceeds(p), WriteStep(p)
    PROVE  IdsInv' /\ SilentFailureIsRcvAdd'
<1>1. /\ UNCHANGED <<myID, correlationID, clientID, myCall, failures>>
      /\ pc[p] = "cas" /\ pc'[p] \in {"header", "padding"}
      /\ \A q \in Producers \ {p} : pc'[q] = pc[q]
  BY Zenon DEF ClaimSucceeds, WriteStep, locals, IInv, TypeOK
<1>2. /\ \A q \in Producers : Busy(q)' <=> Busy(q)
      /\ \A q \in Producers : HoldsClaim(q)' <=> HoldsClaim(q) \/ q = p
  BY Zenon, <1>1 DEF Busy, HoldsClaim
<1>3. Busy(p) /\ \A q \in Producers : myID[q] \in Nat
  BY Zenon, <1>1 DEF Busy, IInv, TypeOK
<1>4. \A id \in Nat : Sent(id)' <=> Sent(id) \/ id = myID[p]
  BY Zenon, ClaimSends
<1>5. \A i \in DOMAIN claims' : claims'[i].id < correlationID
  <2>1. Padding < correlationID
    BY DEF Padding, IInv, TypeOK
  <2> QED BY <1>3, <2>1, ClaimSends DEF IdsInv
<1>6. IdsInv'
  BY <1>1, <1>2, <1>3, <1>4, <1>5 DEF IdsInv
<1>7. SilentFailureIsRcvAdd'
  <2>1. SUFFICES ASSUME NEW id \in (clientID + 1 .. correlationID - 1),
                        \A q \in Producers : myID[q] = id => ~Busy(q), ~Told(id)
                 PROVE  Sent(id)'
    BY Zenon, <1>1, <1>2 DEF SilentFailureIsRcvAdd, Busy, Told
  <2>2. id \in Nat
    BY DEF IdsInv, IInv, TypeOK
  <2>3. Sent(id)
    BY Zenon, <2>1 DEF SilentFailureIsRcvAdd, Busy, Told
  <2> QED BY Zenon, <1>4, <2>2, <2>3
<1> QED BY Zenon, <1>6, <1>7

LEMMA ClaimIds == ASSUME TypeOK PROVE \A i \in DOMAIN claims : claims[i].id \in Int
<1> DEFINE Record == [start : Positions, size : Positions, id : Int]
<1>1. claims \in Seq(Record)
  BY Zenon DEF TypeOK
<1>2. \A r \in Record : r.id \in Int
  BY Zenon
<1> HIDE DEF Record
<1>3. \A i \in DOMAIN claims : claims[i] \in Record
  BY <1>1
<1> QED BY Zenon, <1>2, <1>3

\* A call starts with an id nobody has had.
LEMMA SendKeeps ==
    ASSUME IInv, IdsInv, SilentFailureIsRcvAdd, NEW p \in Producers, NEW n \in MsgLengths,
           NEW method, NEW report, Send(p, n, method, report), Call(method, report) \in Calls
    PROVE  IdsInv' /\ SilentFailureIsRcvAdd'
<1>1. /\ UNCHANGED <<claims, clientID, failures>>
      /\ clientID # Zeroed
      /\ pc[p] = "idle" /\ pc'[p] = "loadHeadCache" /\ \A q \in Producers \ {p} : pc'[q] = pc[q]
      /\ myID'[p] = correlationID /\ \A q \in Producers \ {p} : myID'[q] = myID[q]
      /\ correlationID' = correlationID + 1
      /\ myCall' = [myCall EXCEPT ![p] = Call(method, report)]
  BY Zenon DEF Send, NextCorrelationID, IInv, TypeOK
<1>2. /\ ~Busy(p) /\ Busy(p)' /\ ~HoldsClaim(p)'
      /\ \A q \in Producers \ {p} : (Busy(q)' <=> Busy(q)) /\ (HoldsClaim(q)' <=> HoldsClaim(q))
  BY Zenon, <1>1 DEF Busy, HoldsClaim
<1>3. /\ correlationID \in Nat /\ clientID \in Nat
      /\ \A q \in Producers : myID[q] \in Nat
      /\ \A i \in DOMAIN claims : claims[i].id \in Int
  BY ClaimIds DEF IInv, TypeOK, IdsInv
<1>4. \A id : Sent(id)' <=> Sent(id)
  BY Zenon, <1>1 DEF Sent
<1>5. ~Sent(correlationID)
  BY <1>3 DEF IdsInv, Sent
<1>6. IdsInv'
  <2>1. clientID' \in Nat /\ clientID' < correlationID' /\ clientID' # Zeroed
    BY <1>1, <1>3 DEF IdsInv
  <2>2. \A i \in DOMAIN claims' : claims'[i].id < correlationID'
    BY <1>1, <1>3 DEF IdsInv
  <2>3. ASSUME NEW q \in Producers, Busy(q)'
        PROVE  /\ myID'[q] < correlationID'
               /\ HoldsClaim(q)' <=> Sent(myID[q])'
               /\ \A r \in Producers \ {q} : Busy(r)' => myID'[r] # myID'[q]
    <3>1. CASE q = p
      BY <1>1, <1>2, <1>3, <1>4, <1>5, <3>1 DEF IdsInv
    <3>2. CASE q # p
      BY <1>1, <1>2, <1>3, <1>4, <2>3, <3>2 DEF IdsInv
    <3> QED BY Zenon, <3>1, <3>2
  <2>4. ASSUME NEW f \in failures'
        PROVE  /\ f.id \in Nat /\ f.id < correlationID' /\ ~Sent(f.id)'
               /\ \A q \in Producers : Busy(q)' => myID'[q] # f.id
    BY <1>1, <1>2, <1>3, <1>4, <2>4 DEF IdsInv
  <2>5. myCall' \in [Producers -> Calls]
    BY Zenon, <1>1 DEF IdsInv
  <2> QED BY Zenon, <2>1, <2>2, <2>3, <2>4, <2>5 DEF IdsInv
<1>7. SilentFailureIsRcvAdd'
  <2>0. clientID' + 1 .. correlationID' - 1 = clientID + 1 .. correlationID
    BY <1>1, <1>3
  <2>1. SUFFICES ASSUME NEW id \in (clientID + 1 .. correlationID),
                        \A q \in Producers : myID'[q] = id => ~Busy(q)', ~Told(id)
                 PROVE  Sent(id)
    BY Zenon, <1>1, <1>4, <2>0 DEF SilentFailureIsRcvAdd, Busy, Told
  <2>2. id # correlationID
    BY Zenon, <1>1, <1>2, <2>1
  <2>3. id \in (clientID + 1 .. correlationID - 1)
    BY <1>3, <2>2
  <2>4. \A q \in Producers : myID[q] = id => ~Busy(q)
    BY Zenon, <1>1, <1>2, <2>1
  <2> QED BY Zenon, <2>1, <2>3, <2>4 DEF SilentFailureIsRcvAdd, Busy, Told
<1> QED BY Zenon, <1>6, <1>7

\* A call returns: its command is in the ring, or it is among the failures.
LEMMA ReturnKeeps ==
    ASSUME IInv, IdsInv, SilentFailureIsRcvAdd, NEW p \in Producers, WriteCommandToDriver(p)
    PROVE  IdsInv' /\ SilentFailureIsRcvAdd'
<1>1. /\ UNCHANGED <<claims, clientID, myID, correlationID>>
      /\ Busy(p) /\ pc'[p] = "idle" /\ \A q \in Producers \ {p} : pc'[q] = pc[q]
      /\ \/ HoldsClaim(p) /\ failures' = failures
         \/ /\ ~HoldsClaim(p)
            /\ failures' = failures \cup {[id |-> myID[p], method |-> myCall[p].method,
                                           err |-> myCall[p].report = ReturnError]}
      /\ myCall' = [myCall EXCEPT ![p] = Call(OtherMethod, ReturnError)]
  BY Zenon DEF WriteCommandToDriver, Commit, InsufficientCapacity, Reply, HoldsClaim, Busy, locals, trailer,
         IInv, TypeOK
<1>2. /\ ~Busy(p)'
      /\ \A q \in Producers \ {p} : (Busy(q)' <=> Busy(q)) /\ (HoldsClaim(q)' <=> HoldsClaim(q))
  BY Zenon, <1>1 DEF Busy, HoldsClaim
<1>3. myID[p] \in Nat /\ myID[p] < correlationID /\ (HoldsClaim(p) <=> Sent(myID[p]))
  BY Zenon, <1>1 DEF IInv, TypeOK, IdsInv
<1>4. \A id : Sent(id)' <=> Sent(id)
  BY Zenon, <1>1 DEF Sent
<1>5. \A f \in failures' : f \in failures \/ (f.id = myID[p] /\ ~HoldsClaim(p))
  BY <1>1
<1>6. IdsInv'
  <2>1. /\ clientID' \in Nat /\ clientID' < correlationID'
        /\ clientID' = Zeroed => correlationID' = 1 /\ \A q \in Producers : ~Busy(q)'
        /\ \A i \in DOMAIN claims' : claims'[i].id < correlationID'
    BY Zenon, <1>1, <1>2 DEF IdsInv
  <2>2. ASSUME NEW q \in Producers, Busy(q)'
        PROVE  /\ myID'[q] < correlationID'
               /\ HoldsClaim(q)' <=> Sent(myID[q])'
               /\ \A r \in Producers \ {q} : Busy(r)' => myID'[r] # myID'[q]
    BY Zenon, <1>1, <1>2, <1>4, <2>2 DEF IdsInv
  <2>3. ASSUME NEW f \in failures'
        PROVE  /\ f.id \in Nat /\ f.id < correlationID' /\ ~Sent(f.id)'
               /\ \A q \in Producers : Busy(q)' => myID'[q] # f.id
    <3>1. CASE f \in failures
      BY Zenon, <1>1, <1>2, <1>4, <3>1 DEF IdsInv
    <3>2. CASE f.id = myID[p] /\ ~HoldsClaim(p)
      BY Zenon, <1>1, <1>2, <1>3, <1>4, <3>2 DEF IdsInv
    <3> QED BY Zenon, <1>5, <2>3, <3>1, <3>2
  <2>4. myCall' \in [Producers -> Calls]
    BY Zenon, <1>1 DEF IdsInv, Calls
  <2> QED BY Zenon, <2>1, <2>2, <2>3, <2>4 DEF IdsInv
<1>7. SilentFailureIsRcvAdd'
  <2>1. SUFFICES ASSUME NEW id \in (clientID + 1 .. correlationID - 1),
                        \A q \in Producers : myID[q] = id => ~Busy(q)', ~Told(id)'
                 PROVE  Sent(id)
    BY Zenon, <1>1, <1>4 DEF SilentFailureIsRcvAdd, Busy, Told
  <2>2. ~Told(id)
    BY Zenon, <1>1, <2>1 DEF Told
  <2>3. CASE id = myID[p]
    <3>1. HoldsClaim(p)
      <4> DEFINE f == [id |-> myID[p], method |-> myCall[p].method, err |-> myCall[p].report = ReturnError]
      <4>1. SUFFICES ASSUME failures' = failures \cup {f} PROVE FALSE
        BY Zenon, <1>1
      <4>2. f.id = id /\ f.method = myCall[p].method /\ (f.err <=> myCall[p].report = ReturnError)
        BY Zenon, <2>3
      <4>3. myCall[p] \in Calls
        BY Zenon DEF IdsInv
      <4>4. myCall[p].report = ReturnError \/ myCall[p].method = RcvAdd
        BY <4>3 DEF Calls, Call
      <4>5. f \in failures'
        BY Zenon, <4>1
      <4> HIDE DEF f
      <4> QED BY Zenon, <2>1, <4>2, <4>4, <4>5 DEF Told
    <3> QED BY Zenon, <1>3, <2>3, <3>1
  <2>4. CASE id # myID[p]
    <3>1. \A q \in Producers : myID[q] = id => ~Busy(q)
      BY Zenon, <1>2, <2>1, <2>4
    <3> QED BY Zenon, <2>1, <2>2, <3>1 DEF SilentFailureIsRcvAdd, Busy, Told
  <2> QED BY Zenon, <2>3, <2>4
<1> QED BY Zenon, <1>6, <1>7

\* Proxy.Init: no call has been made yet.
LEMMA InitProxyKeeps ==
    ASSUME IInv, IdsInv, SilentFailureIsRcvAdd, InitProxy
    PROVE  IInv' /\ IdsInv' /\ SilentFailureIsRcvAdd'
<1>1. /\ correlationID = 1 /\ correlationID' = 2 /\ clientID' = 1
      /\ \A p \in Producers : ~Busy(p) /\ ~Busy(p)'
      /\ UNCHANGED <<claims, myCall, failures, myID>>
  BY DEF InitProxy, IdsInv, Busy, locals
<1>2. IInv'
  BY <1>1, BoundAssumption, InitProxyKeepsRing
<1>3. \A id : Sent(id)' <=> Sent(id)
  BY Zenon, <1>1 DEF Sent
<1>4. \A i \in DOMAIN claims : claims[i].id \in Int
  BY Zenon, ClaimIds DEF IInv
<1>5. IdsInv'
  BY <1>1, <1>3, <1>4 DEF IdsInv, Zeroed
<1>6. SilentFailureIsRcvAdd'
  BY <1>1 DEF SilentFailureIsRcvAdd
<1> QED BY Zenon, <1>2, <1>5, <1>6

-----------------------------------------------------------------------------
(* The theorems.                                                           *)

LEMMA ProxyInvInit == ProxyInit => ProxyInv
<1> SUFFICES ASSUME ProxyInit PROVE ProxyInv
  BY Zenon
<1>1. IInv
  BY Zenon, InvariantInit DEF ProxyInit
<1>2. PICK s \in StartPositions : InitAt(s)
  BY Zenon DEF ProxyInit, Init
<1>3. /\ correlationID = 1 /\ clientID = 0 /\ failures = {} /\ claims = <<>>
      /\ \A p \in Producers : ~Busy(p)
      /\ myCall \in [Producers -> Calls]
  BY Zenon, <1>2 DEF ProxyInit, InitAt, Zeroed, Busy, Calls
<1>4. IdsInv
  BY <1>3 DEF IdsInv, Zeroed
<1>5. SilentFailureIsRcvAdd
  BY <1>3 DEF SilentFailureIsRcvAdd
<1> QED BY Zenon, <1>1, <1>4, <1>5 DEF ProxyInv

LEMMA ProxyInvNext == ProxyInv /\ [ProxyNext]_proxyVars => ProxyInv'
<1> SUFFICES ASSUME IInv, IdsInv, SilentFailureIsRcvAdd, [ProxyNext]_proxyVars
             PROVE  IInv' /\ IdsInv' /\ SilentFailureIsRcvAdd'
  BY Zenon DEF ProxyInv
<1>1. CASE InitProxy
  BY Zenon, <1>1, InitProxyKeeps
<1>2. CASE ~InitProxy
  <2>1. IInv'
    BY Zenon, <1>2, ProxyStepIsRingStep, InvariantNext
  <2>2. ASSUME NEW p \in Producers, NEW n \in MsgLengths, Command(p, n)
        PROVE  IdsInv' /\ SilentFailureIsRcvAdd'
    <3>1. Send(p, n, OtherMethod, ReturnError) \/ Send(p, n, RcvAdd, ReturnNil)
      BY Zenon, <2>2 DEF Command, AddSubscription, RemoveSubscription, AddPublication, AddExclusivePublication,
                  RemovePublication, ClientClose, AddDestination, RemoveDestination, AddRcvDestination,
                  RemoveRcvDestination, AddCounter, AddCounterByLabel, RemoveCounter
    <3> QED BY Zenon, <3>1, SendKeeps DEF Calls
  <2>3. ASSUME NEW p \in Producers, WriteCommandToDriver(p) PROVE IdsInv' /\ SilentFailureIsRcvAdd'
    BY Zenon, <2>3, ReturnKeeps
  <2>4. ASSUME NEW p \in Producers, WriteStep(p) PROVE IdsInv' /\ SilentFailureIsRcvAdd'
    <3>1. CASE ClaimSucceeds(p)
      BY Zenon, <2>4, <3>1, ClaimKeeps
    <3>2. CASE ~ClaimSucceeds(p)
      BY Zenon, <2>4, <3>2, SilentSteps, SilentKeeps DEF IInv
    <3> QED BY Zenon, <3>1, <3>2
  <2>5. CASE DriverStep
    BY Zenon, <2>1, <2>5, SilentSteps, SilentKeeps DEF IInv
  <2>6. CASE UNCHANGED proxyVars
    <3>1. Silent
      BY Zenon, <2>6, SilentSteps DEF IInv
    <3> QED BY Zenon, <2>1, <3>1, SilentKeeps
  <2> QED BY Zenon, <1>2, <2>1, <2>2, <2>3, <2>4, <2>5, <2>6 DEF ProxyNext
<1> QED BY Zenon, <1>1, <1>2

\* The invariant of the ring and of the ids holds in every behaviour of the
\* proxy's command methods, Write and the driver.
THEOREM ProxyInvariance == ProxySpec => []ProxyInv
<1> QED BY ProxyInvInit, ProxyInvNext, PTL DEF ProxySpec

\* A command method that has returned has put its command in the ring or has
\* returned the error, however many goroutines send commands and however full
\* the ring is; AddRcvDestination alone returns nil for a command it lost.
THEOREM OnlyRcvAddFailsSilently == ProxySpec => []SilentFailureIsRcvAdd
<1>1. ProxyInv => SilentFailureIsRcvAdd
  BY Zenon DEF ProxyInv
<1> QED BY <1>1, ProxyInvariance, PTL

\* A command method whose Write failed has left nothing in the ring, and nothing
\* of that call gets there later: it may be tried again.
THEOREM ErrorIsNotSent == ProxySpec => []ErrorMeansNotSent
<1>1. ProxyInv => ErrorMeansNotSent
  BY Zenon DEF ProxyInv, IdsInv, ErrorMeansNotSent
<1> QED BY <1>1, ProxyInvariance, PTL

\* Under the proxy, too, the driver gets every record whole, once and in claim
\* order, although Proxy.Init moves the correlation id counter beside Write.
THEOREM ProxyKeepsOrder == ProxySpec => [](NoOverrun /\ ConsumedInClaimOrder)
<1>1. ProxyInv => ConsumedInClaimOrder
  BY Zenon DEF ProxyInv, IInv, RecordsInv
<1>2. ProxyInv => NoOverrun
  BY CapacityAssumption DEF ProxyInv, IInv, TypeOK, OrderInv, RecordsInv, RoomInv, NoOverrun, Positions
<1> QED BY <1>1, <1>2, ProxyInvariance, PTL

-----------------------------------------------------------------------------
(* The queue the ring implements.                                          *)

LEMMA QueueTypes ==
    ASSUME IInv
    PROVE  /\ Len(consumed) \in Nat /\ Len(claims) \in Nat /\ Len(consumed) <= Len(claims)
           /\ DOMAIN claims = 1..Len(claims) /\ DOMAIN consumed = 1..Len(consumed)
           /\ \A i \in UnreadCommands : Unread(i)
           /\ TakenCommands = {i \in DOMAIN consumed : claims[i].id # Padding}
           /\ Taken = [i \in TakenCommands |-> claims[i].id]
<1> DEFINE Record == [start : Positions, size : Positions, id : Int]
<1>1. claims \in Seq(Record) /\ consumed \in Seq(SUBSET Int)
  BY Zenon DEF IInv, TypeOK
<1> HIDE DEF Record
<1>2. /\ Len(consumed) \in Nat /\ Len(claims) \in Nat
      /\ DOMAIN claims = 1..Len(claims) /\ DOMAIN consumed = 1..Len(consumed)
  BY <1>1
<1>3. Len(consumed) <= Len(claims) /\ \A i \in DOMAIN consumed : consumed[i] = {claims[i].id}
  BY Zenon DEF IInv, RecordsInv, ConsumedInClaimOrder
<1>4. TakenCommands = {i \in DOMAIN consumed : claims[i].id # Padding}
  BY Zenon, <1>3 DEF TakenCommands
<1>5. \A i \in TakenCommands : (CHOOSE id \in consumed[i] : TRUE) = claims[i].id
  BY Zenon, <1>3 DEF TakenCommands
<1>6. Taken = [i \in TakenCommands |-> claims[i].id]
  BY Zenon, <1>5 DEF Taken
<1> QED BY Zenon, <1>2, <1>3, <1>4, <1>6 DEF UnreadCommands, Unread

-----------------------------------------------------------------------------
(* Steps that leave the queue as it is.                                    *)

\* A step that claims and reads nothing, and commits no command.
LEMMA QueueKept ==
    ASSUME UNCHANGED <<claims, consumed>>,
           \A i \in UnreadCommands : (lengthField[Index(claims[i].start)] > 0)' = (lengthField[Index(claims[i].start)] > 0)
    PROVE  UNCHANGED Queue!vars
<1>1. UnreadCommands' = UnreadCommands /\ TakenCommands' = TakenCommands
  BY Zenon DEF UnreadCommands, TakenCommands
<1>3. Slots' = Slots
  BY Zenon, <1>1 DEF Slots
<1>4. Taken' = Taken
  BY <1>1 DEF Taken
<1> QED BY Zenon, <1>3, <1>4 DEF Queue!vars

\* A store to the words of one record does not commit another.
LEMMA OtherSlots ==
    ASSUME IInv, NEW i, Unread(i), NEW j, Unread(j), i # j,
           \A w \in Words \ WordsOf(claims[i]) : UNCHANGED lengthField[w]
    PROVE  lengthField'[Index(claims[j].start)] = lengthField[Index(claims[j].start)]
<1>1. i \in DOMAIN claims /\ j \in DOMAIN claims /\ claims[i].start >= head /\ claims[j].start >= head
  BY Zenon, UnreadStart
<1>2. WordsOf(claims[i]) \cap WordsOf(claims[j]) = {}
  BY Zenon, <1>1, ClaimsApart
<1>3. Index(claims[j].start) \in WordsOf(claims[j]) /\ WordsOf(claims[j]) \subseteq Words
  BY Zenon, <1>1, FirstWord DEF WordsOf, WordsFrom
<1> QED BY Zenon, <1>2, <1>3

\* A record is not committed as long as its producer holds the claim.
LEMMA HeldUncommitted ==
    ASSUME IInv, NEW p \in Producers, HoldsClaim(p), NEW i \in DOMAIN claims, claims[i] = RecordOf(p)
    PROVE  /\ Index(claims[i].start) = RecordIndex(p) /\ RecordIndex(p) \in Words
           /\ ~(lengthField[RecordIndex(p)] > 0)
<1>1. Index(claims[i].start) = RecordIndex(p) /\ RecordIndex(p) \in Words
  BY Zenon, HeldRecord
<1>2. lengthField[RecordIndex(p)] <= 0 /\ lengthField[RecordIndex(p)] \in Int
  BY Zenon, <1>1 DEF IInv, RecordsInv, FilledInv, Filled, TypeOK
<1> QED BY <1>1, <1>2

\* The padding in front of a record is no command.
LEMMA WritePaddingKeepsQueue ==
    ASSUME IInv, NEW p \in Producers, WritePadding(p)
    PROVE  UNCHANGED Queue!vars
<1>1. /\ pc[p] = "padding" /\ HoldsClaim(p) /\ UNCHANGED <<claims, consumed>>
      /\ lengthField' = [lengthField EXCEPT ![Index(myTail[p])] = ToBufferEnd(myTail[p])]
  BY Zenon DEF WritePadding, HoldsClaim, driverState
<1>2. PICK i \in DOMAIN claims : Unread(i) /\ claims[i] = PaddingOf(p)
  BY Zenon, <1>1 DEF IInv, RecordsInv, HeldInv
<1>3. Index(myTail[p]) \in WordsOf(claims[i])
  BY <1>2, FirstWord DEF PaddingOf
<1>4. \A w \in Words \ WordsOf(claims[i]) : UNCHANGED lengthField[w]
  BY Zenon, <1>1, <1>3 DEF IInv, TypeOK
<1>5. ASSUME NEW j \in UnreadCommands
      PROVE  lengthField'[Index(claims[j].start)] = lengthField[Index(claims[j].start)]
  <2>1. Unread(j) /\ j # i
    BY <1>2, <1>5 DEF UnreadCommands, Unread, PaddingOf
  <2> QED BY Zenon, <1>2, <1>4, <2>1, OtherSlots
<1> QED BY Zenon, <1>1, <1>5, QueueKept

\* A producer that stores the header, whose length is negative, or the payload
\* of its record does not show the record to the driver.
LEMMA FillKeepsQueue ==
    ASSUME IInv, NEW p \in Producers, WriteHeader(p) \/ WritePayload(p)
    PROVE  UNCHANGED Queue!vars
<1>1. HoldsClaim(p) /\ UNCHANGED <<claims, consumed>>
  BY Zenon DEF WriteHeader, WritePayload, HoldsClaim, driverState
<1>2. PICK i \in DOMAIN claims : Unread(i) /\ claims[i] = RecordOf(p)
  BY Zenon, <1>1 DEF IInv, RecordsInv, HeldInv
<1>3. /\ Index(claims[i].start) = RecordIndex(p) /\ RecordIndex(p) \in Words
      /\ ~(lengthField[RecordIndex(p)] > 0)
  BY Zenon, <1>1, <1>2, HeldUncommitted
<1>4. /\ RecordIndex(p) \in WordsOf(claims[i]) /\ WordsOf(claims[i]) = WordsFrom(RecordIndex(p), Required(p))
      /\ Required(p) \in Nat /\ RecordIndex(p) \in Nat
  BY <1>1, <1>2, HeldRecord, RecordPositionType DEF IInv, Positions, Words
<1>5. /\ \A w \in Words \ WordsOf(claims[i]) : UNCHANGED lengthField[w]
      /\ ~(lengthField'[RecordIndex(p)] > 0)
  <2>1. CASE WriteHeader(p)
    <3>1. lengthField' = [lengthField EXCEPT ![RecordIndex(p)] = -(myLength[p] + HeaderLength)]
      BY Zenon, <2>1 DEF WriteHeader
    <3>2. myLength[p] + HeaderLength \in Nat
      BY DEF IInv, TypeOK, HeaderLength
    <3>3. lengthField'[RecordIndex(p)] = -(myLength[p] + HeaderLength)
      BY Zenon, <1>3, <3>1 DEF IInv, TypeOK
    <3>4. \A w \in Words \ WordsOf(claims[i]) : UNCHANGED lengthField[w]
      BY Zenon, <1>4, <3>1 DEF IInv, TypeOK
    <3> QED BY <3>2, <3>3, <3>4
  <2>2. CASE WritePayload(p)
    <3>1. lengthField' = [w \in Words |-> IF w \in PayloadWords(p) THEN PayloadInt32 ELSE lengthField[w]]
      BY Zenon, <2>2 DEF WritePayload
    <3>2. PayloadWords(p) \subseteq WordsOf(claims[i]) /\ RecordIndex(p) \notin PayloadWords(p)
      BY <1>4 DEF PayloadWords, WordsFrom, Words, HeaderLength
    <3> QED BY Zenon, <1>3, <3>1, <3>2
  <2> QED BY Zenon, <2>1, <2>2
<1>6. ASSUME NEW j \in UnreadCommands
      PROVE  (lengthField'[Index(claims[j].start)] > 0) = (lengthField[Index(claims[j].start)] > 0)
  <2>1. CASE j = i
    BY <1>3, <1>5, <2>1
  <2>2. CASE j # i
    <3>1. Unread(j)
      BY Zenon, <1>6 DEF UnreadCommands, Unread
    <3> QED BY Zenon, <1>2, <1>5, <2>2, <3>1, OtherSlots
  <2> QED BY Zenon, <2>1, <2>2
<1> QED BY Zenon, <1>1, <1>6, QueueKept

\* What the driver zeroes lies before every record it has not read.
LEMMA ZeroKeepsQueue == ASSUME IInv, DriverZero PROVE UNCHANGED Queue!vars
<1> DEFINE size == readPosition - head
           read == WordsFrom(Index(head), size)
<1>1. /\ UNCHANGED <<claims, consumed>>
      /\ lengthField' = [w \in Words |-> IF w \in read THEN 0 ELSE lengthField[w]]
  BY Zenon DEF DriverZero
<1>2. /\ head \in Positions /\ head \in Nat /\ readPosition \in Nat /\ tail \in Nat /\ Capacity \in Nat
      /\ head <= readPosition /\ readPosition <= tail /\ tail <= head + Capacity
  BY Zenon, CapacityAssumption DEF IInv, TypeOK, OrderInv, RecordsInv, RoomInv, Positions
<1>3. size \in Nat /\ Index(head) + size <= Capacity /\ head + size = readPosition
  <2>1. Index(head) \in Nat
    BY Zenon, <1>2, IndexRange
  <2> QED BY <1>2, <2>1 DEF IInv, RecordsInv, DriverInv, ToBufferEnd
<1> HIDE DEF size
<1>4. ASSUME NEW j \in UnreadCommands
      PROVE  lengthField'[Index(claims[j].start)] = lengthField[Index(claims[j].start)]
  <2> DEFINE a == claims[j].start
             m == claims[j].size
  <2>1. j \in DOMAIN claims /\ Unread(j)
    BY Zenon, <1>4 DEF UnreadCommands, Unread
  <2>2. a \in Positions /\ a \in Nat /\ m \in Nat /\ Index(a) + m <= Capacity /\ a + m <= tail
    BY Zenon, <2>1, ClaimFacts DEF IInv, RecordsInv
  <2>3. a >= readPosition
    BY Zenon, <2>1, UnreadStart
  <2>4. Index(a) \in WordsFrom(Index(a), m) /\ Index(a) \in Words
    BY Zenon, <2>1, FirstWord DEF WordsOf, WordsFrom
  <2> HIDE DEF a, m
  <2>5. head <= a /\ head + size <= a /\ a + m <= head + Capacity /\ head + size <= head + Capacity
    BY <1>2, <1>3, <2>2, <2>3
  <2>6. read \cap WordsFrom(Index(a), m) = {}
    BY <1>2, <1>3, <2>2, <2>5, WordsDisjoint
  <2>7. lengthField'[Index(a)] = lengthField[Index(a)]
    BY Zenon, <1>1, <2>4, <2>6
  <2> QED BY Zenon, <2>7 DEF a
<1> QED BY Zenon, <1>1, <1>4, QueueKept

-----------------------------------------------------------------------------
(* Steps of the queue.                                                     *)

\* The positive length shows one command, the producer's, to the driver.
LEMMA CommitStep ==
    ASSUME IInv, NEW p \in Producers, Commit(p)
    PROVE  \E ticket \in DOMAIN Slots : Queue!Commit(ticket)
<1>1. /\ pc[p] = "commit" /\ HoldsClaim(p) /\ UNCHANGED <<claims, consumed>>
      /\ lengthField' = [lengthField EXCEPT ![RecordIndex(p)] = myLength[p] + HeaderLength]
  BY Zenon DEF Commit, HoldsClaim, driverState
<1>2. PICK i \in DOMAIN claims : Unread(i) /\ claims[i] = RecordOf(p)
  BY Zenon, <1>1 DEF IInv, RecordsInv, HeldInv
<1>3. /\ Index(claims[i].start) = RecordIndex(p) /\ RecordIndex(p) \in Words
      /\ ~(lengthField[RecordIndex(p)] > 0)
  BY Zenon, <1>1, <1>2, HeldUncommitted
<1>4. i \in UnreadCommands
  BY Zenon, <1>1, <1>2, HeldRecord DEF UnreadCommands, Unread
<1>5. lengthField'[RecordIndex(p)] > 0
  <2>1. myLength[p] + HeaderLength > 0
    BY Zenon, <1>1, RequiredOf DEF IInv
  <2> QED BY Zenon, <1>1, <1>3, <2>1 DEF IInv, TypeOK
<1>6. ASSUME NEW j \in UnreadCommands, j # i
      PROVE  lengthField'[Index(claims[j].start)] = lengthField[Index(claims[j].start)]
  <2>1. \A w \in Words \ WordsOf(claims[i]) : UNCHANGED lengthField[w]
    <3>1. RecordIndex(p) \in WordsOf(claims[i])
      BY Zenon, <1>1, <1>2, HeldRecord
    <3> QED BY Zenon, <1>1, <3>1 DEF IInv, TypeOK
  <2>2. Unread(j)
    BY Zenon, <1>6 DEF UnreadCommands, Unread
  <2> QED BY Zenon, <1>2, <1>6, <2>1, <2>2, OtherSlots
<1>7. UnreadCommands' = UnreadCommands /\ TakenCommands' = TakenCommands
  BY Zenon, <1>1 DEF UnreadCommands, TakenCommands
<1>8. Taken' = Taken
  BY <1>1, <1>7 DEF Taken
<1>9. ~Slots[i].committed
  BY Zenon, <1>3, <1>4 DEF Slots
<1>10. Slots' = [Slots EXCEPT ![i] = [id |-> Slots[i].id, committed |-> TRUE]]
  <2>1. Slots' = [j \in UnreadCommands |-> [id |-> claims[j].id, committed |-> lengthField'[Index(claims[j].start)] > 0]]
    BY Zenon, <1>1, <1>7 DEF Slots
  <2>2. [Slots EXCEPT ![i] = [id |-> Slots[i].id, committed |-> TRUE]] =
            [j \in UnreadCommands |-> IF j = i THEN [id |-> claims[i].id, committed |-> TRUE] ELSE Slots[j]]
    BY Zenon, <1>4 DEF Slots
  <2>3. (lengthField'[Index(claims[i].start)] > 0) = TRUE
    BY Zenon, <1>3, <1>5
  <2>4. \A j \in UnreadCommands :
            [id |-> claims[j].id, committed |-> lengthField'[Index(claims[j].start)] > 0] =
            IF j = i THEN [id |-> claims[i].id, committed |-> TRUE] ELSE Slots[j]
    BY Zenon, <1>6, <2>3 DEF Slots
  <2> QED BY Zenon, <2>1, <2>2, <2>4
<1>11. DOMAIN Slots = UnreadCommands
  BY Zenon DEF Slots
<1> QED BY Zenon, <1>4, <1>8, <1>9, <1>10, <1>11 DEF Queue!Commit

\* The driver takes the first record it has not read; if that is padding, the
\* queue stays as it is.
LEMMA ReadStep ==
    ASSUME IInv, DriverRead, IInv'
    PROVE  (\E ticket \in DOMAIN Slots : Queue!Take(ticket)) \/ UNCHANGED Queue!vars
<1> DEFINE k == Len(consumed)
           c == claims[k + 1]
<1>1. UNCHANGED <<claims, lengthField>>
  BY Zenon DEF DriverRead, buffer
<1>2. /\ k + 1 \in DOMAIN claims /\ readPosition = c.start /\ consumed' = Append(consumed, {c.id})
  BY Zenon, DriverReads
<1>3. /\ k \in Nat /\ Len(claims) \in Nat /\ DOMAIN claims = 1..Len(claims) /\ DOMAIN consumed = 1..k
      /\ Taken = [i \in TakenCommands |-> claims[i].id]
      /\ TakenCommands = {i \in DOMAIN consumed : claims[i].id # Padding}
  BY Zenon, QueueTypes
<1>4. /\ Len(consumed') = k + 1 /\ DOMAIN consumed' = 1..(k + 1) /\ consumed'[k + 1] = {c.id}
      /\ \A i \in 1..k : consumed'[i] = consumed[i]
  <2>1. consumed \in Seq(SUBSET Int) /\ {c.id} \in SUBSET Int
    BY Zenon, <1>2, ClaimIds DEF IInv, TypeOK
  <2> QED BY <1>2, <2>1
<1>5. UnreadCommands' = UnreadCommands \ {k + 1}
  BY <1>1, <1>3, <1>4 DEF UnreadCommands
<1>6. TakenCommands' = IF c.id = Padding THEN TakenCommands ELSE TakenCommands \cup {k + 1}
  <2>1. TakenCommands' = {i \in 1..(k + 1) : consumed'[i] # {Padding}}
    BY Zenon, <1>4 DEF TakenCommands
  <2>2. TakenCommands = {i \in 1..k : consumed[i] # {Padding}}
    BY Zenon, <1>3 DEF TakenCommands
  <2>3. \A i : i \in 1..(k + 1) <=> i \in 1..k \/ i = k + 1
    BY <1>3
  <2>4. (consumed'[k + 1] # {Padding}) <=> c.id # Padding
    BY Zenon, <1>4
  <2>5. k + 1 \notin 1..k
    BY <1>3
  <2> QED BY Zenon, <1>4, <2>1, <2>2, <2>3, <2>4, <2>5
<1>7. Slots' = [i \in UnreadCommands \ {k + 1} |-> Slots[i]]
  BY Zenon, <1>1, <1>5 DEF Slots
<1>8. Taken' = [i \in TakenCommands' |-> claims[i].id]
  <2>1. \A i \in TakenCommands' : consumed'[i] = {claims[i].id}
    BY Zenon, <1>1 DEF IInv, RecordsInv, ConsumedInClaimOrder, TakenCommands
  <2>2. \A i \in TakenCommands' : (CHOOSE id \in consumed'[i] : TRUE) = claims[i].id
    BY Zenon, <2>1
  <2> QED BY Zenon, <2>2 DEF Taken
<1>9. DOMAIN Slots = UnreadCommands /\ DOMAIN Taken = TakenCommands
  BY Zenon DEF Slots, Taken
<1>10. CASE c.id = Padding
  <2>1. k + 1 \notin UnreadCommands
    BY Zenon, <1>10 DEF UnreadCommands
  <2>2. Slots' = Slots
    <3>1. UnreadCommands \ {k + 1} = UnreadCommands
      BY Zenon, <2>1
    <3> QED BY Zenon, <1>7, <3>1 DEF Slots
  <2>3. Taken' = Taken
    BY Zenon, <1>3, <1>6, <1>8, <1>10
  <2> QED BY Zenon, <2>2, <2>3 DEF Queue!vars
<1>11. CASE c.id # Padding
  <2>1. k + 1 \in UnreadCommands
    BY <1>2, <1>3, <1>11 DEF UnreadCommands
  <2>2. Slots[k + 1] = [id |-> c.id, committed |-> lengthField[Index(readPosition)] > 0]
    BY Zenon, <1>2, <2>1 DEF Slots
  <2>3. Slots[k + 1].committed /\ Slots[k + 1].id = c.id
    <3>1. (lengthField[Index(readPosition)] > 0) = TRUE
      BY Zenon DEF DriverRead
    <3>2. Slots[k + 1] = [id |-> c.id, committed |-> TRUE]
      BY Zenon, <2>2, <3>1
    <3>3. Slots[k + 1].committed = TRUE /\ Slots[k + 1].id = c.id
      BY <3>2
    <3> QED BY Zenon, <3>3
  <2>4. \A s \in DOMAIN Slots : k + 1 <= s
    BY <1>3, <1>9 DEF UnreadCommands
  <2>5. Taken' = [s \in DOMAIN Taken \cup {k + 1} |-> IF s = k + 1 THEN Slots[k + 1].id ELSE Taken[s]]
    <3>1. \A s \in TakenCommands : Taken[s] = claims[s].id
      BY Zenon, <1>3
    <3> QED BY Zenon, <1>6, <1>8, <1>9, <1>11, <2>3, <3>1
  <2>6. Queue!Take(k + 1)
    BY Zenon, <1>7, <1>9, <2>3, <2>4, <2>5 DEF Queue!Take
  <2> QED BY Zenon, <1>9, <2>1, <2>6
<1> QED BY Zenon, <1>10, <1>11

\* The compare-and-set claims one command, behind all others.
LEMMA ClaimStepOfQueue ==
    ASSUME IInv, IdsInv, NEW p \in Producers, ClaimSucceeds(p), IInv'
    PROVE  \E ticket \in DOMAIN Slots' : Queue!Claim(ticket, Slots'[ticket].id)
<1> DEFINE Record == [start : Positions, size : Positions, id : Int]
           ticket == Len(claims')
<1>1. /\ UNCHANGED <<consumed, lengthField, myID, myLength, myTail>> /\ pc[p] = "cas"
      /\ pc'[p] \in {"header", "padding"}
  BY Zenon DEF ClaimSucceeds, locals, driverState, buffer, IInv, TypeOK
<1>2. claims \in Seq(Record) /\ RecordOf(p) \in Record /\ PaddingOf(p) \in Record
  <2>1. myTail[p] \in Positions /\ myID[p] \in Int /\ Padding \in Int
    BY DEF IInv, TypeOK, Padding
  <2>2. Required(p) \in Positions /\ RecordPosition(p) \in Positions /\ ToBufferEnd(myTail[p]) \in Positions
    BY Zenon, <2>1, RecordPositionType, ToBufferEndFacts DEF IInv
  <2> QED BY Zenon, <2>1, <2>2 DEF IInv, TypeOK, RecordOf, PaddingOf
<1>3. /\ Len(consumed) \in Nat /\ Len(claims) \in Nat /\ Len(consumed) <= Len(claims)
      /\ DOMAIN claims = 1..Len(claims) /\ DOMAIN consumed = 1..Len(consumed)
      /\ TakenCommands = {i \in DOMAIN consumed : claims[i].id # Padding}
      /\ Taken = [i \in TakenCommands |-> claims[i].id]
  BY Zenon, QueueTypes
<1> HIDE DEF Record
<1>4. RecordOf(p).id = myID[p] /\ PaddingOf(p).id = Padding /\ RecordOf(p).start = RecordPosition(p)
  BY Zenon DEF RecordOf, PaddingOf
<1>5. myID[p] # Padding
  BY DEF IInv, TypeOK, Padding
<1>6. /\ ticket \in Nat /\ ticket > Len(claims) /\ claims'[ticket] = RecordOf(p) /\ DOMAIN claims' = 1..ticket
      /\ \A i \in 1..Len(claims) : claims'[i] = claims[i]
      /\ \A i \in 1..ticket : i \in 1..Len(claims) \/ i = ticket \/ claims'[i].id = Padding
  <2>1. CASE claims' = Append(claims, RecordOf(p))
    BY <1>2, <1>3, <2>1
  <2>2. CASE claims' = Append(Append(claims, PaddingOf(p)), RecordOf(p))
    <3>1. /\ ticket = Len(claims) + 2 /\ claims'[Len(claims) + 2] = RecordOf(p)
          /\ claims'[Len(claims) + 1] = PaddingOf(p) /\ DOMAIN claims' = 1..(Len(claims) + 2)
          /\ \A i \in 1..Len(claims) : claims'[i] = claims[i]
      BY <1>2, <1>3, <2>2
    <3> HIDE DEF ticket
    <3> QED BY SMTT(30), <1>3, <1>4, <3>1
  <2> QED BY Zenon, <2>1, <2>2, ClaimAppends
<1> HIDE DEF ticket
<1>7. UnreadCommands' = UnreadCommands \cup {ticket} /\ ticket \notin UnreadCommands
  BY <1>1, <1>3, <1>4, <1>5, <1>6 DEF UnreadCommands
<1>8. Taken' = Taken
  BY <1>1 DEF Taken, TakenCommands
<1>9. (lengthField[Index(claims'[ticket].start)] > 0) = FALSE
  <2>1. HoldsClaim(p)' /\ RecordIndex(p)' = RecordIndex(p)
    BY Zenon, <1>1 DEF HoldsClaim, RecordIndex, RecordPosition, Required
  <2>2. RecordIndex(p) \in Words
    BY Zenon, RecordPositionType DEF IInv
  <2>3. lengthField'[RecordIndex(p)] <= 0
    BY Zenon, <2>1 DEF IInv, RecordsInv, FilledInv, Filled
  <2>4. lengthField[RecordIndex(p)] \in Int
    BY Zenon, <2>2 DEF IInv, TypeOK
  <2> QED BY <1>1, <1>4, <1>6, <2>3, <2>4 DEF RecordIndex
<1>10. Slots' = [s \in UnreadCommands \cup {ticket} |->
                   IF s = ticket THEN [id |-> myID[p], committed |-> FALSE] ELSE Slots[s]]
  <2>1. \A s \in UnreadCommands : claims'[s] = claims[s]
    BY Zenon, <1>3, <1>6 DEF UnreadCommands
  <2>2. [id |-> claims'[ticket].id, committed |-> lengthField[Index(claims'[ticket].start)] > 0]
            = [id |-> myID[p], committed |-> FALSE]
    BY Zenon, <1>4, <1>6, <1>9
  <2> QED BY Zenon, <1>1, <1>7, <2>1, <2>2 DEF Slots
<1>11. DOMAIN Slots = UnreadCommands /\ DOMAIN Taken = TakenCommands /\ ticket \in DOMAIN Slots'
  BY Zenon, <1>10 DEF Slots, Taken
<1>12. Slots'[ticket].id = myID[p]
  BY Zenon, <1>10
<1>13. \A s \in DOMAIN Slots \cup DOMAIN Taken : s < ticket
  BY <1>3, <1>6, <1>11 DEF UnreadCommands, TakenCommands
<1>14. (\A s \in DOMAIN Slots : Slots[s].id # myID[p]) /\ (\A s \in DOMAIN Taken : Taken[s] # myID[p])
  <2>1. \A i \in DOMAIN claims : claims[i].id # myID[p]
    BY Zenon, <1>1 DEF IdsInv, Busy, HoldsClaim, Sent
  <2>2. \A s \in UnreadCommands : s \in DOMAIN claims /\ Slots[s].id = claims[s].id
    BY Zenon DEF Slots, UnreadCommands
  <2>3. \A s \in TakenCommands : s \in DOMAIN claims /\ Taken[s] = claims[s].id
    BY <1>3
  <2> QED BY Zenon, <1>11, <2>1, <2>2, <2>3
<1>15. Queue!Claim(ticket, myID[p])
  BY Zenon, <1>8, <1>10, <1>11, <1>13, <1>14 DEF Queue!Claim, Queue!Fresh
<1> QED BY Zenon, <1>11, <1>12, <1>15

-----------------------------------------------------------------------------
(* The theorem.                                                            *)

LEMMA RefinementInit == ProxyInit => Queue!Init
<1> SUFFICES ASSUME ProxyInit PROVE Queue!Init
  BY Zenon
<1>1. claims = <<>> /\ consumed = <<>>
  BY Zenon DEF ProxyInit, Init, InitAt
<1> QED BY <1>1 DEF Queue!Init, Slots, Taken, UnreadCommands, TakenCommands

LEMMA RefinementNext == ProxyInv /\ ProxyInv' /\ [ProxyNext]_proxyVars => [Queue!Next]_(Queue!vars)
<1> SUFFICES ASSUME IInv, IdsInv, IInv', [ProxyNext]_proxyVars
             PROVE  Queue!Next \/ UNCHANGED Queue!vars
  BY Zenon DEF ProxyInv
<1>1. ASSUME UNCHANGED <<claims, consumed, lengthField>> PROVE UNCHANGED Queue!vars
  BY Zenon, <1>1, QueueKept
<1>2. CASE InitProxy
  BY Zenon, <1>1, <1>2 DEF InitProxy, driverState, buffer
<1>3. CASE [Next]_vars
  <2>1. ASSUME Quiet PROVE UNCHANGED Queue!vars
    BY Zenon, <1>1, <2>1 DEF Quiet
  <2>2. CASE UNCHANGED vars
    BY Zenon, <2>1, <2>2, QuietSteps DEF IInv
  <2>3. ASSUME NEW p \in Producers, NEW n \in MsgLengths, NextCorrelationID(p, n)
        PROVE  UNCHANGED Queue!vars
    BY Zenon, <2>1, <2>3, QuietSteps DEF IInv
  <2>4. ASSUME NEW p \in Producers, ClaimStep(p) PROVE Queue!Next \/ UNCHANGED Queue!vars
    <3>1. CASE ClaimSucceeds(p)
      BY Zenon, <3>1, ClaimStepOfQueue DEF Queue!Next
    <3>2. CASE ~ClaimSucceeds(p)
      BY Zenon, <2>1, <2>4, <3>2, QuietSteps DEF IInv
    <3> QED BY Zenon, <3>1, <3>2
  <2>5. ASSUME NEW p \in Producers, RecordStep(p) PROVE Queue!Next \/ UNCHANGED Queue!vars
    <3>1. CASE Commit(p)
      BY Zenon, <3>1, CommitStep DEF Queue!Next
    <3>2. CASE ~Commit(p)
      BY Zenon, <2>5, <3>2, WritePaddingKeepsQueue, FillKeepsQueue DEF RecordStep
    <3> QED BY Zenon, <3>1, <3>2
  <2>6. CASE DriverRead
    BY Zenon, <2>6, ReadStep DEF Queue!Next
  <2>7. CASE DriverZero
    BY Zenon, <2>7, ZeroKeepsQueue
  <2>8. CASE DriverAdvance
    BY Zenon, <1>1, <2>8 DEF DriverAdvance, buffer
  <2> QED BY Zenon, <1>3, <2>2, <2>3, <2>4, <2>5, <2>6, <2>7, <2>8 DEF Next, Driver
<1> QED BY Zenon, <1>2, <1>3, ProxyStepIsRingStep

\* The ring under the command methods of the proxy is a queue of commands: each
\* is claimed once, with a fresh correlation id and behind the ones claimed
\* before, shown to the driver by one store, and taken in order; nothing else a
\* producer or the driver does can be seen.
THEOREM ProxyImplementsQueue == ProxySpec => ImplementsCommandQueue
<1> QED BY RefinementInit, RefinementNext, ProxyInvariance, PTL
        DEF ProxySpec, ImplementsCommandQueue, Queue!Spec
=============================================================================
