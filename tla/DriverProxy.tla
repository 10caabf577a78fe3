----------------------------- MODULE DriverProxy -----------------------------
(***************************************************************************)
(* The driver proxy (aeron/driver/proxy.go): every command the client can  *)
(* send, on top of the ring buffer it is written to.  A call takes a       *)
(* correlation id, encodes the command and writes it; it returns when      *)
(* Write returns.  What commands differ in, for the caller, is what they   *)
(* report when Write fails because the ring is full.                       *)
(***************************************************************************)
EXTENDS ManyToOneRingBuffer

VARIABLES clientID,  \* the id of this client, Zeroed before Init
          myCall,    \* the producer's call: its method, and what that
                     \* method returns when Write fails
          failures   \* history: the calls whose Write failed, their methods
                     \* and whether they returned an error

proxyVars == <<vars, clientID, myCall, failures>>

\* The methods the properties tell apart.
RcvAdd      == "AddRcvDestination"
OtherMethod == "another method"

\* The two ways the code ends when writeCommandToDriver returns an error.
ReturnError == "return the error"
ReturnNil   == "return 0, nil"

Call(method, report) == [method |-> method, report |-> report]

ProxyInit ==
    /\ Init
    /\ clientID = Zeroed
    /\ myCall = [p \in Producers |-> Call(OtherMethod, ReturnError)]
    /\ failures = {}

-----------------------------------------------------------------------------

\* Proxy.Init takes the first correlation id as the client's id.
InitProxy ==
    /\ clientID = Zeroed
    /\ clientID' = correlationID
    /\ correlationID' = correlationID + 1
    /\ UNCHANGED <<tail, headCache, head, buffer, pc, locals, driverState, claims, myCall, failures>>

\* A command is encoded with a new correlation id and handed to Write.
Send(p, length, method, report) ==
    /\ clientID # Zeroed
    /\ NextCorrelationID(p, length)
    /\ myCall' = [myCall EXCEPT ![p] = Call(method, report)]
    /\ UNCHANGED <<clientID, failures>>

AddSubscription(p, n)         == Send(p, n, OtherMethod, ReturnError)
RemoveSubscription(p, n)      == Send(p, n, OtherMethod, ReturnError)
AddPublication(p, n)          == Send(p, n, OtherMethod, ReturnError)
AddExclusivePublication(p, n) == Send(p, n, OtherMethod, ReturnError)
RemovePublication(p, n)       == Send(p, n, OtherMethod, ReturnError)
ClientClose(p, n)             == Send(p, n, OtherMethod, ReturnError)
AddDestination(p, n)          == Send(p, n, OtherMethod, ReturnError)
RemoveDestination(p, n)       == Send(p, n, OtherMethod, ReturnError)
AddRcvDestination(p, n)       == Send(p, n, RcvAdd, ReturnNil)

\* Mutated form: the end of AddRcvDestination, `return 0, nil`, here too.
RemoveRcvDestinationNil(p, n) == Send(p, n, OtherMethod, ReturnNil)

RemoveRcvDestination(p, n)    == Send(p, n, OtherMethod, ReturnError)
AddCounter(p, n)              == Send(p, n, OtherMethod, ReturnError)
AddCounterByLabel(p, n)       == Send(p, n, OtherMethod, ReturnError)
RemoveCounter(p, n)           == Send(p, n, OtherMethod, ReturnError)

\* The call returns; a failed Write is reported the way the command does it.
Reply(p, sent) ==
    /\ failures' = IF sent THEN failures
                   ELSE failures \cup {[id |-> myID[p], method |-> myCall[p].method,
                                        err |-> myCall[p].report = ReturnError]}
    /\ myCall' = [myCall EXCEPT ![p] = Call(OtherMethod, ReturnError)]

\* Mutated form: losing the compare-and-set is reported as a full ring, while
\* the loop goes on.
ContendedIsFailed(p) ==
    /\ \/ Commit(p) /\ Reply(p, TRUE)
       \/ InsufficientCapacity(p) /\ Reply(p, FALSE)
       \/ ClaimContended(p) /\ Reply(p, FALSE)
    /\ UNCHANGED clientID

\* writeCommandToDriver returns when Write does.
WriteCommandToDriver(p) ==
    /\ \/ Commit(p) /\ Reply(p, TRUE)
       \/ InsufficientCapacity(p) /\ Reply(p, FALSE)
    /\ UNCHANGED clientID

\* The steps of Write before it returns.
WriteStep(p) ==
    /\ \/ LoadHeadCache(p) \/ LoadTail(p)
       \/ ReloadHead(p) \/ StoreHeadCache(p)
       \/ ReloadHeadToWrap(p) \/ StoreHeadCacheToWrap(p)
       \/ ClaimSucceeds(p) \/ ClaimContended(p)
       \/ WritePadding(p) \/ WriteHeader(p) \/ WritePayload(p)
    /\ UNCHANGED <<clientID, myCall, failures>>

DriverStep == Driver /\ UNCHANGED <<clientID, myCall, failures>>

Command(p, n) ==
    \/ AddSubscription(p, n) \/ RemoveSubscription(p, n)
    \/ AddPublication(p, n) \/ AddExclusivePublication(p, n) \/ RemovePublication(p, n)
    \/ AddDestination(p, n) \/ RemoveDestination(p, n)
    \/ AddRcvDestination(p, n) \/ RemoveRcvDestination(p, n)
    \/ AddCounter(p, n) \/ AddCounterByLabel(p, n) \/ RemoveCounter(p, n)
    \/ ClientClose(p, n)

ProxyNext ==
    \/ InitProxy
    \/ \E p \in Producers, n \in MsgLengths : Command(p, n)
    \/ \E p \in Producers : WriteCommandToDriver(p) \/ WriteStep(p)
    \/ DriverStep

ProxySpec == ProxyInit /\ [][ProxyNext]_proxyVars

\* As for the ring alone: a call that was made keeps running, and the driver
\* keeps polling; nothing makes a client send a command.
FairProxySpec ==
    /\ ProxySpec
    /\ \A p \in Producers : WF_proxyVars(WriteCommandToDriver(p) \/ WriteStep(p))
    /\ WF_proxyVars(DriverStep)

-----------------------------------------------------------------------------
(* Properties.                                                             *)

Sent(id) == \E i \in DOMAIN claims : claims[i].id = id

\* A call that has returned has put its command in the ring, or has told its
\* caller that it did not; the exception is AddRcvDestination, which ends with
\* `return 0, nil` when Write fails.  No other command method loses a command
\* silently, in whatever way the producers and the driver raced.
SilentFailureIsRcvAdd ==
    \A id \in clientID + 1 .. correlationID - 1 :
        (\A p \in Producers : myID[p] = id => pc[p] = "idle")
            => \/ Sent(id)
               \/ \E f \in failures : f.id = id /\ (f.err \/ f.method = RcvAdd)

\* A call that returns an error has sent nothing and will not: the caller may
\* try again without the driver seeing the command twice.
ErrorMeansNotSent ==
    \A f \in failures : f.err => ~Sent(f.id)
=============================================================================
