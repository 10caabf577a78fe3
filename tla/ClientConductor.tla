---------------------------- MODULE ClientConductor --------------------------
(***************************************************************************)
(* The client conductor (aeron/clientconductor.go): the registry of the    *)
(* publications, subscriptions and counters of a client, which goroutines  *)
(* of the application and the conductor's own goroutine share.             *)
(*                                                                         *)
(* A step is what happens between two points where another goroutine can   *)
(* interfere: adminLock guards the registry, but a resource is marked      *)
(* closed, the images of a subscription are swapped, and closeAllResources *)
(* walks over the registry without it.  The slices of the registry are     *)
(* modelled with their backing arrays, as the walk and the removal of an   *)
(* entry share them.                                                       *)
(***************************************************************************)
EXTENDS Integers, Sequences, FiniteSets

CONSTANTS Users,         \* goroutines of the application
          Conductor,     \* the goroutine of the conductor
          Kinds,         \* the kinds of resources they add
          MaxRegs,       \* bound: resources added in a behaviour
          MaxImages,     \* bound: images that become available
          LingeringCap,  \* capacity of the lingeringResources channel
          Closers,       \* users that close the client
          Faults         \* what may go wrong

Actors  == Users \cup {Conductor}
RegIDs  == 1..MaxRegs
Nil     == 0

ASSUME ConductorAssumption ==
    /\ Conductor \notin Users /\ Closers \subseteq Users /\ Nil \notin Actors
    /\ MaxRegs \in Nat /\ MaxImages \in Nat /\ LingeringCap \in Nat \ {0}
    /\ Kinds \subseteq {"pub", "sub", "counter"}

\* What lingers and is closed: the log of a publication, or an image.
Log(r)    == <<"log", r>>
Image(i)  == <<"image", i>>
NoImage   == <<"nil", 0>>
Resources == {Log(r) : r \in RegIDs} \cup {Image(i) : i \in 1..MaxImages}

\* The registrationID under which the ClientClose command is counted.
ClientClose == 0

VARIABLES
    running, conductorRunning, driverActive,
    adminLock,    \* who holds it, or Nil
    heap,         \* the backing arrays; the first one is that of a nil slice
    pubs, subs,   \* the slices: an array and a length
    counters,     \* the keys of the map
    nilMap,       \* the map is nil
    regs,         \* the state of every registration
    asked,        \* registrations the driver has not answered
    sent,         \* history: how often a command to remove it was sent
    imageList,    \* the slice of images of every subscription
    owner,        \* the subscription an image was announced for, or Nil
    available,    \* images the driver has announced and not withdrawn
    lingering,    \* the channel lingeringResources
    closes,       \* history: how often a resource was closed
    pc, my

registry  == <<heap, pubs, subs, counters, nilMap>>
flags     == <<running, conductorRunning, driverActive>>
imageVars == <<imageList, owner, available>>
vars == <<flags, adminLock, registry, regs, asked, sent, imageVars, lingering, closes, pc, my>>

NilSlice == [arr |-> 1, len |-> 0]
Fresh(x) == [resource |-> x, expired |-> FALSE]
NoReg    == [kind |-> "none", status |-> "none", object |-> FALSE, closed |-> FALSE]
NoLocals == [reg |-> Nil, image |-> Nil, images |-> NilSlice, next |-> 1, kept |-> 0, item |-> Fresh(NoImage),
             back |-> "idle", phase |-> "none", slice |-> NilSlice, index |-> 0, wasRunning |-> FALSE]

Init ==
    /\ running = TRUE /\ conductorRunning = FALSE /\ driverActive = TRUE
    /\ adminLock = Nil
    /\ heap = << <<>> >> /\ pubs = NilSlice /\ subs = NilSlice
    /\ counters = {} /\ nilMap = FALSE
    /\ regs = [r \in RegIDs |-> NoReg]
    /\ asked = {}
    /\ sent = [r \in RegIDs \cup {ClientClose} |-> 0]
    /\ imageList = [r \in RegIDs |-> NilSlice]
    /\ owner = [i \in 1..MaxImages |-> Nil] /\ available = {}
    /\ lingering = <<>>
    /\ closes = [x \in Resources |-> 0]
    /\ pc = [a \in Actors |-> IF a = Conductor THEN "start" ELSE "idle"]
    /\ my = [a \in Actors |-> NoLocals]

-----------------------------------------------------------------------------
(* Slices.                                                                 *)

SliceOf(kind)   == IF kind = "pub" THEN pubs ELSE subs
Entries(slice)  == {heap[slice.arr][i] : i \in 1..slice.len}

\* append: in place while there is room, into an array of twice the size else.
Appended(slice, r) ==
    IF slice.len < Len(heap[slice.arr])
    THEN [heap  |-> [heap EXCEPT ![slice.arr][slice.len + 1] = r],
          slice |-> [slice EXCEPT !.len = @ + 1]]
    ELSE LET size == IF slice.len = 0 THEN 1 ELSE 2 * slice.len
         IN [heap  |-> Append(heap, [i \in 1..size |->
                          IF i <= slice.len THEN heap[slice.arr][i]
                          ELSE IF i = slice.len + 1 THEN r ELSE Nil]),
             slice |-> [arr |-> Len(heap) + 1, len |-> slice.len + 1]]

IndexOf(slice, x) == CHOOSE j \in 1..slice.len : heap[slice.arr][j] = x

\* Mutated form: the entry removed is cleared, and the last one dropped.
EntryDropped(slice, r, last) ==
    [heap EXCEPT ![slice.arr][IndexOf(slice, r)] = last]

\* Removal: the last entry takes the place of r, and last is left behind it.
Moved(slice, r, last) ==
    [heap EXCEPT ![slice.arr][IndexOf(slice, r)] = heap[slice.arr][slice.len],
                 ![slice.arr][slice.len] = last]

SetSlice(kind, slice) ==
    /\ pubs' = IF kind = "pub" THEN slice ELSE pubs
    /\ subs' = IF kind = "sub" THEN slice ELSE subs
    /\ UNCHANGED <<counters, nilMap>>

Listed(r) == IF regs[r].kind = "counter" THEN r \in counters
             ELSE r \in Entries(SliceOf(regs[r].kind))

-----------------------------------------------------------------------------
(* The application: adding and finding resources.                          *)

Goto(a, label) == pc' = [pc EXCEPT ![a] = label]

\* The call returns; closeAllResources goes on with its own locals.
Return(a) ==
    /\ Goto(a, my[a].back)
    /\ my' = IF my[a].back = "idle" THEN [my EXCEPT ![a] = NoLocals] ELSE my

BackToLoop ==
    /\ Goto(Conductor, "loop")
    /\ my' = [my EXCEPT ![Conductor] = NoLocals]

\* The add command is sent and the registration awaits the driver.
Register(u, kind, r) ==
    /\ pc[u] = "idle"
    /\ kind \in Kinds
    /\ driverActive
    /\ adminLock = Nil
    /\ regs[r].kind = "none" /\ \A q \in 1..(r - 1) : regs[q].kind # "none"
    /\ regs' = [regs EXCEPT ![r] = [NoReg EXCEPT !.kind = kind, !.status = "awaiting"]]
    /\ asked' = asked \cup {r}
    /\ UNCHANGED <<flags, adminLock, sent, imageVars, lingering, closes, my>>

\* AddPublication and AddExclusivePublication.
AddPublication(u, r) ==
    /\ Register(u, "pub", r)
    /\ heap' = Appended(pubs, r).heap /\ SetSlice("pub", Appended(pubs, r).slice)
    /\ UNCHANGED pc

AddSubscription(u, r) ==
    /\ Register(u, "sub", r)
    /\ heap' = Appended(subs, r).heap /\ SetSlice("sub", Appended(subs, r).slice)
    /\ UNCHANGED pc

\* AddCounter and AddCounterByLabel: the map is nil once the client is closed,
\* and storing into it panics.
AddCounter(u, r) ==
    /\ Register(u, "counter", r)
    /\ counters' = IF nilMap THEN counters ELSE counters \cup {r}
    /\ IF nilMap THEN Goto(u, "panicked") ELSE UNCHANGED pc
    /\ UNCHANGED <<heap, pubs, subs, nilMap>>

\* FindPublication and FindCounter make the object of a registered resource;
\* in every other case, and for a subscription, they only report.
Find(u, r) ==
    /\ pc[u] = "idle"
    /\ adminLock = Nil
    /\ regs[r].kind # "none" /\ Listed(r)
    /\ regs[r].status = "registered" /\ ~regs[r].object
    /\ regs' = [regs EXCEPT ![r].object = TRUE]
    /\ UNCHANGED <<flags, adminLock, registry, asked, sent, imageVars, lingering, closes, pc, my>>

-----------------------------------------------------------------------------
(* Closing a resource: Publication.Close, Subscription.Close, Counter.Close *)
(* and the release functions of the conductor.                             *)

\* Where Close goes on once the resource is marked closed.
StartClose(a, r, locals) ==
    /\ regs' = [regs EXCEPT ![r].closed = TRUE]
    /\ Goto(a, IF regs[r].kind = "sub" THEN "empty" ELSE "release")
    /\ my' = [my EXCEPT ![a] = [locals EXCEPT !.reg = r, !.images = NilSlice, !.next = 1]]

Close(u, r) ==
    /\ pc[u] = "idle"
    /\ regs[r].object /\ ~regs[r].closed
    /\ StartClose(u, r, [NoLocals EXCEPT !.back = "idle"])
    /\ UNCHANGED <<flags, adminLock, registry, asked, sent, imageVars, lingering, closes>>

\* ImageList.Empty: the list is read, and then replaced.
EmptyGet(a) ==
    /\ pc[a] = "empty"
    /\ my' = [my EXCEPT ![a].images = imageList[my[a].reg]]
    /\ Goto(a, "emptySet")
    /\ UNCHANGED <<flags, adminLock, registry, regs, asked, sent, imageVars, lingering, closes>>

EmptySet(a) ==
    /\ pc[a] = "emptySet"
    /\ imageList' = [imageList EXCEPT ![my[a].reg] = NilSlice]
    /\ Goto(a, "release")
    /\ UNCHANGED <<flags, adminLock, registry, regs, asked, sent, owner, available, lingering, closes, my>>

\* The release functions give up when the driver is inactive.
CheckDriver(a) ==
    /\ pc[a] = "release"
    /\ IF driverActive THEN Goto(a, "lock") /\ UNCHANGED my ELSE Return(a)
    /\ UNCHANGED <<flags, adminLock, registry, regs, asked, sent, imageVars, lingering, closes>>

\* Nothing to release: the resource is not registered any more.
ReleaseUnlisted(a) ==
    /\ pc[a] = "lock"
    /\ adminLock = Nil
    /\ ~Listed(my[a].reg)
    /\ Return(a)
    /\ UNCHANGED <<flags, adminLock, registry, regs, asked, sent, imageVars, lingering, closes>>

\* The command does not fit in the ring.  The entry of a counter is gone by then.
ReleaseFails(a) ==
    /\ pc[a] = "lock"
    /\ adminLock = Nil
    /\ Listed(my[a].reg)
    /\ "ringFull" \in Faults
    /\ counters' = counters \ {my[a].reg}
    /\ Return(a)
    /\ UNCHANGED <<flags, adminLock, heap, pubs, subs, nilMap, regs, asked, sent, imageVars,
                   lingering, closes>>

\* releaseCounter: the entry is deleted and the command sent.
ReleaseCounter(a) ==
    /\ pc[a] = "lock"
    /\ adminLock = Nil
    /\ Listed(my[a].reg) /\ regs[my[a].reg].kind = "counter"
    /\ counters' = counters \ {my[a].reg}
    /\ sent' = [sent EXCEPT ![my[a].reg] = @ + 1]
    /\ Return(a)
    /\ UNCHANGED <<flags, adminLock, heap, pubs, subs, nilMap, regs, asked, imageVars, lingering, closes>>

\* releasePublication and releaseSubscription: the command is sent and the entry
\* taken out of the array.  adminLock is held until everything lingers.
Release(a) ==
    LET r == my[a].reg
        slice == SliceOf(regs[r].kind)
    IN
    /\ pc[a] = "lock"
    /\ adminLock = Nil
    /\ Listed(r) /\ regs[r].kind # "counter"
    /\ adminLock' = a
    /\ sent' = [sent EXCEPT ![r] = @ + 1]
    /\ heap' = Moved(slice, r, Nil)
    /\ my' = [my EXCEPT ![a].kept = slice.len - 1]
    /\ Goto(a, "push")
    /\ UNCHANGED <<flags, pubs, subs, counters, nilMap, regs, asked, imageVars, lingering, closes>>

\* What a release makes linger.  The images are read from their array one by one.
ToLinger(a) ==
    IF regs[my[a].reg].kind = "pub" THEN <<Log(my[a].reg)>>
    ELSE [i \in 1..my[a].images.len |-> Image(heap[my[a].images.arr][i])]

\* A send on the channel; it blocks while the channel is full.
Lingering(entry) ==
    /\ Len(lingering) < LingeringCap
    /\ lingering' = Append(lingering, entry)

Push(a) ==
    /\ pc[a] = "push"
    /\ my[a].next <= Len(ToLinger(a))
    /\ Lingering(Fresh(ToLinger(a)[my[a].next]))
    /\ my' = [my EXCEPT ![a].next = @ + 1]
    /\ UNCHANGED <<flags, adminLock, registry, regs, asked, sent, imageVars, closes, pc>>

\* The slice is cut at the end, and the lock released.  If closeAllResources has
\* set the slice to nil in between, cutting it panics.
Unlock(a) ==
    LET kind  == regs[my[a].reg].kind
        slice == SliceOf(kind)
        fits  == my[a].kept <= Len(heap[slice.arr])
    IN
    /\ pc[a] = "push"
    /\ my[a].next > Len(ToLinger(a))
    /\ adminLock' = Nil
    /\ SetSlice(kind, IF fits THEN [slice EXCEPT !.len = my[a].kept] ELSE slice)
    /\ IF fits THEN Return(a) ELSE Goto(a, "panicked") /\ UNCHANGED my
    /\ UNCHANGED <<flags, heap, regs, asked, sent, imageVars, lingering, closes>>

-----------------------------------------------------------------------------
(* ClientConductor.Close and closeAllResources.                            *)

\* Close reads running before closeAllResources resets it.
CloseClient(u) ==
    /\ pc[u] = "idle"
    /\ u \in Closers
    /\ my' = [my EXCEPT ![u] = [NoLocals EXCEPT !.wasRunning = running]]
    /\ Goto(u, "closeAll")
    /\ UNCHANGED <<flags, adminLock, registry, regs, asked, sent, imageVars, lingering, closes>>

\* Where an actor goes on after closeAllResources.
AfterCloseAll(a) == IF a = Conductor THEN "exit" ELSE "clientClose"

\* Mutated form: the registry is walked over with adminLock held.
CloseAllLocked(a) ==
    /\ pc[a] = "closeAll"
    /\ adminLock = Nil
    /\ adminLock' = a
    /\ running' = FALSE
    /\ my' = [my EXCEPT ![a].phase = "pub", ![a].slice = pubs, ![a].index = 1, ![a].back = "walk"]
    /\ Goto(a, IF running THEN "walk" ELSE AfterCloseAll(a))
    /\ UNCHANGED <<conductorRunning, driverActive, registry, regs, asked, sent, imageVars, lingering, closes>>

\* Only the one who resets running walks over the registry.
CloseAllResources(a) ==
    /\ pc[a] = "closeAll"
    /\ running' = FALSE
    /\ my' = [my EXCEPT ![a].phase = "pub", ![a].slice = pubs, ![a].index = 1, ![a].back = "walk"]
    /\ Goto(a, IF running THEN "walk" ELSE AfterCloseAll(a))
    /\ UNCHANGED <<conductorRunning, driverActive, adminLock, registry, regs, asked, sent, imageVars,
                   lingering, closes>>

\* The entry of the array that the walk is at.
AtEntry(a) == heap[my[a].slice.arr][my[a].index]

MustClose(r) == r # Nil /\ regs[r].object /\ ~regs[r].closed

WalkCloses(a) ==
    /\ pc[a] = "walk"
    /\ my[a].phase \in {"pub", "sub"}
    /\ my[a].index <= my[a].slice.len
    /\ MustClose(AtEntry(a))
    /\ StartClose(a, AtEntry(a), [my[a] EXCEPT !.index = @ + 1])
    /\ UNCHANGED <<flags, adminLock, registry, asked, sent, imageVars, lingering, closes>>

WalkSkips(a) ==
    /\ pc[a] = "walk"
    /\ my[a].phase \in {"pub", "sub"}
    /\ my[a].index <= my[a].slice.len
    /\ ~MustClose(AtEntry(a))
    /\ my' = [my EXCEPT ![a].index = @ + 1]
    /\ UNCHANGED <<flags, adminLock, registry, regs, asked, sent, imageVars, lingering, closes, pc>>

\* The end of a walk: the slice is set to nil and the next one begins.
WalkEnds(a) ==
    /\ pc[a] = "walk"
    /\ my[a].phase \in {"pub", "sub"}
    /\ my[a].index > my[a].slice.len
    /\ IF my[a].phase = "pub"
       THEN /\ pubs' = NilSlice
            /\ my' = [my EXCEPT ![a].phase = "sub", ![a].slice = subs, ![a].index = 1]
            /\ UNCHANGED subs
       ELSE /\ subs' = NilSlice
            /\ my' = [my EXCEPT ![a].phase = "counter"]
            /\ UNCHANGED pubs
    /\ UNCHANGED <<flags, adminLock, heap, counters, nilMap, regs, asked, sent, imageVars, lingering, closes, pc>>

WalkCounters(a) ==
    /\ pc[a] = "walk"
    /\ my[a].phase = "counter"
    /\ \E r \in counters : MustClose(r) /\ StartClose(a, r, my[a])
    /\ UNCHANGED <<flags, adminLock, registry, asked, sent, imageVars, lingering, closes>>

WalkCountersEnds(a) ==
    /\ pc[a] = "walk"
    /\ my[a].phase = "counter"
    /\ \A r \in counters : ~MustClose(r)
    /\ counters' = {} /\ nilMap' = TRUE
    /\ Goto(a, AfterCloseAll(a))
    /\ UNCHANGED <<flags, adminLock, heap, pubs, subs, regs, asked, sent, imageVars, lingering, closes, my>>

\* The ClientClose command, if the client was running.
SendClientClose(u) ==
    /\ pc[u] = "clientClose"
    /\ sent' = IF my[u].wasRunning THEN [sent EXCEPT ![ClientClose] = @ + 1] ELSE sent
    /\ Goto(u, "awaitStop")
    /\ UNCHANGED <<flags, adminLock, registry, regs, asked, imageVars, lingering, closes, my>>

\* Close waits for the conductor to stop, for five seconds at most.
CloseReturns(u) ==
    /\ pc[u] = "awaitStop"
    /\ ~conductorRunning \/ "stopTimeout" \in Faults
    /\ Goto(u, "closed")
    /\ UNCHANGED <<flags, adminLock, registry, regs, asked, sent, imageVars, lingering, closes, my>>

-----------------------------------------------------------------------------
(* The goroutine of the conductor: answers of the driver.                  *)

RunStarts ==
    /\ pc[Conductor] = "start"
    /\ conductorRunning' = TRUE
    /\ Goto(Conductor, "loop")
    /\ UNCHANGED <<running, driverActive, adminLock, registry, regs, asked, sent, imageVars, lingering, closes, my>>

\* ReceiveMessages: the next message is taken before its handler locks.
Receive(handler, r, i) ==
    /\ pc[Conductor] = "loop"
    /\ running
    /\ Goto(Conductor, handler)
    /\ my' = [my EXCEPT ![Conductor] = [NoLocals EXCEPT !.reg = r, !.image = i]]
    /\ UNCHANGED <<flags, adminLock, registry, regs, sent, imageList, lingering, closes>>

ReceiveAnswer ==
    \E r \in asked, handler \in {"onReady", "onErrorResponse"} :
        /\ Receive(handler, r, Nil)
        /\ asked' = asked \ {r}
        /\ UNCHANGED <<owner, available>>

ReceiveAvailableImage ==
    \E i \in 1..MaxImages, r \in RegIDs :
        /\ owner[i] = Nil /\ \A j \in 1..(i - 1) : owner[j] # Nil
        /\ regs[r].kind = "sub" /\ regs[r].object
        /\ Receive("onAvailableImage", r, i)
        /\ owner' = [owner EXCEPT ![i] = r] /\ available' = available \cup {i}
        /\ UNCHANGED asked

ReceiveUnavailableImage ==
    \E i \in available :
        /\ Receive("onUnavailableImage", owner[i], i)
        /\ available' = available \ {i}
        /\ UNCHANGED <<owner, asked>>

ReceiveClientTimeout ==
    /\ "clientTimeout" \in Faults
    /\ Receive("onClientTimeout", Nil, Nil)
    /\ UNCHANGED <<owner, available, asked>>

Handling(handler) == pc[Conductor] = handler /\ adminLock = Nil

\* OnNewPublication, OnNewExclusivePublication, OnSubscriptionReady and
\* OnAvailableCounter; the object of a subscription is made at once.
OnReady ==
    LET r == my[Conductor].reg IN
    /\ Handling("onReady")
    /\ regs' = IF Listed(r)
               THEN [regs EXCEPT ![r].status = "registered",
                                 ![r].object = (regs[r].kind = "sub")]
               ELSE regs
    /\ BackToLoop
    /\ UNCHANGED <<flags, adminLock, registry, asked, sent, imageVars, lingering, closes>>

OnErrorResponse ==
    LET r == my[Conductor].reg IN
    /\ Handling("onErrorResponse")
    /\ regs' = IF Listed(r) THEN [regs EXCEPT ![r].status = "errored"] ELSE regs
    /\ BackToLoop
    /\ UNCHANGED <<flags, adminLock, registry, asked, sent, imageVars, lingering, closes>>

OnClientTimeout ==
    /\ Handling("onClientTimeout")
    /\ running' = FALSE
    /\ BackToLoop
    /\ UNCHANGED <<conductorRunning, driverActive, adminLock, registry, regs, asked, sent, imageVars,
                   lingering, closes>>

\* OnAvailableImage, up to the list that addImage reads.
OnAvailableImage ==
    LET r == my[Conductor].reg IN
    /\ Handling("onAvailableImage")
    /\ IF Listed(r)
       THEN /\ adminLock' = Conductor
            /\ my' = [my EXCEPT ![Conductor].images = imageList[r]]
            /\ Goto(Conductor, "addImage")
       ELSE /\ BackToLoop
            /\ UNCHANGED adminLock
    /\ UNCHANGED <<flags, registry, regs, asked, sent, imageVars, lingering, closes>>

\* The list addImage stores.
AddImage ==
    LET new == Appended(my[Conductor].images, my[Conductor].image) IN
    /\ pc[Conductor] = "addImage"
    /\ heap' = new.heap
    /\ imageList' = [imageList EXCEPT ![my[Conductor].reg] = new.slice]
    /\ adminLock' = Nil
    /\ BackToLoop
    /\ UNCHANGED <<flags, pubs, subs, counters, nilMap, regs, asked, sent, owner, available, lingering, closes>>

\* Mutated form: the image is read from the array after the last one was moved.
ImageAfterMove(slice, i) == Image(heap[slice.arr][slice.len])

\* The image that removeImage returns.
RemovedImage(slice, i) == Image(i)

\* OnUnavailableImage, up to the array that removeImage changes in place; if the
\* image is not in the list, nil is made to linger.
OnUnavailableImage ==
    LET r == my[Conductor].reg
        i == my[Conductor].image
        slice == imageList[r]
    IN
    /\ Handling("onUnavailableImage")
    /\ IF ~Listed(r)
       THEN /\ BackToLoop
            /\ UNCHANGED <<heap, adminLock>>
       ELSE /\ adminLock' = Conductor
            /\ IF i \in Entries(slice)
               THEN /\ heap' = Moved(slice, i, heap[slice.arr][slice.len])
                    /\ my' = [my EXCEPT ![Conductor].images = [slice EXCEPT !.len = @ - 1],
                                        ![Conductor].item = Fresh(RemovedImage(slice, i))]
                    /\ Goto(Conductor, "removeImage")
               ELSE /\ my' = [my EXCEPT ![Conductor].item = Fresh(NoImage)]
                    /\ Goto(Conductor, "linger")
                    /\ UNCHANGED heap
    /\ UNCHANGED <<flags, pubs, subs, counters, nilMap, regs, asked, sent, imageVars, lingering, closes>>

\* The list removeImage stores.
RemoveImage ==
    /\ pc[Conductor] = "removeImage"
    /\ imageList' = [imageList EXCEPT ![my[Conductor].reg] = my[Conductor].images]
    /\ Goto(Conductor, "linger")
    /\ UNCHANGED <<flags, adminLock, registry, regs, asked, sent, owner, available, lingering, closes, my>>

LingerImage ==
    /\ pc[Conductor] = "linger"
    /\ Lingering(my[Conductor].item)
    /\ adminLock' = Nil
    /\ BackToLoop
    /\ UNCHANGED <<flags, registry, regs, asked, sent, imageVars, closes>>

-----------------------------------------------------------------------------
(* The goroutine of the conductor: heartbeats, lingering and the end.      *)

\* Too long between two calls, or the heartbeat counter is gone.
ServiceTimeout ==
    /\ pc[Conductor] = "loop" /\ running
    /\ "serviceTimeout" \in Faults
    /\ Goto(Conductor, "closeAll")
    /\ UNCHANGED <<flags, adminLock, registry, regs, asked, sent, imageVars, lingering, closes, my>>

\* No keepalive from the driver: the loop ends with running still set.
DriverTimeout ==
    /\ pc[Conductor] = "loop" /\ running
    /\ "driverTimeout" \in Faults
    /\ driverActive' = FALSE
    /\ Goto(Conductor, "exit")
    /\ UNCHANGED <<running, conductorRunning, adminLock, registry, regs, asked, sent, imageVars, lingering, closes, my>>

CheckManagedResources ==
    /\ pc[Conductor] = "loop" /\ running
    /\ lingering # <<>>
    /\ Goto(Conductor, "managed")
    /\ UNCHANGED <<flags, adminLock, registry, regs, asked, sent, imageVars, lingering, closes, my>>

Closed(x) == IF x = NoImage THEN closes ELSE [closes EXCEPT ![x] = @ + 1]

\* Mutated form: a resource that is not due is not put back.
YoungDropped ==
    /\ pc[Conductor] = "managed"
    /\ lingering # <<>>
    /\ ~Head(lingering).expired
    /\ lingering' = Tail(lingering)
    /\ my' = [my EXCEPT ![Conductor].item = Fresh(NoImage)]
    /\ Goto(Conductor, "requeue")
    /\ UNCHANGED <<flags, adminLock, registry, regs, asked, sent, imageVars, closes>>

\* The first resource is not due: it is taken out, and the check stops.
ManagedIsYoung ==
    /\ pc[Conductor] = "managed"
    /\ lingering # <<>>
    /\ ~Head(lingering).expired
    /\ lingering' = Tail(lingering)
    /\ my' = [my EXCEPT ![Conductor].item = Head(lingering)]
    /\ Goto(Conductor, "requeue")
    /\ UNCHANGED <<flags, adminLock, registry, regs, asked, sent, imageVars, closes>>

ManagedIsDue ==
    /\ pc[Conductor] = "managed"
    /\ lingering # <<>>
    /\ Head(lingering).expired
    /\ lingering' = Tail(lingering)
    /\ closes' = Closed(Head(lingering).resource)
    /\ UNCHANGED <<flags, adminLock, registry, regs, asked, sent, imageVars, pc, my>>

ManagedEnds ==
    /\ pc[Conductor] = "managed"
    /\ lingering = <<>>
    /\ Goto(Conductor, "loop")
    /\ UNCHANGED <<flags, adminLock, registry, regs, asked, sent, imageVars, lingering, closes, my>>

\* It is put back at the end of the channel.
Requeue ==
    /\ pc[Conductor] = "requeue"
    /\ Lingering(my[Conductor].item)
    /\ BackToLoop
    /\ UNCHANGED <<flags, adminLock, registry, regs, asked, sent, imageVars, closes>>

LoopEnds ==
    /\ pc[Conductor] = "loop" /\ ~running
    /\ Goto(Conductor, "exit")
    /\ UNCHANGED <<flags, adminLock, registry, regs, asked, sent, imageVars, lingering, closes, my>>

\* forceCloseResources, and the end of the goroutine.
ForceClose ==
    /\ pc[Conductor] = "exit"
    /\ lingering # <<>>
    /\ lingering' = Tail(lingering)
    /\ closes' = Closed(Head(lingering).resource)
    /\ UNCHANGED <<flags, adminLock, registry, regs, asked, sent, imageVars, pc, my>>

RunEnds ==
    /\ pc[Conductor] = "exit"
    /\ lingering = <<>>
    /\ conductorRunning' = FALSE
    /\ Goto(Conductor, "done")
    /\ UNCHANGED <<running, driverActive, adminLock, registry, regs, asked, sent, imageVars, lingering, closes, my>>

\* The linger timeout of a resource passes.
Expire ==
    /\ \/ \E k \in DOMAIN lingering :
             /\ ~lingering[k].expired
             /\ lingering' = [lingering EXCEPT ![k].expired = TRUE]
             /\ UNCHANGED my
       \/ /\ pc[Conductor] = "requeue" /\ ~my[Conductor].item.expired
          /\ my' = [my EXCEPT ![Conductor].item.expired = TRUE]
          /\ UNCHANGED lingering
    /\ UNCHANGED <<flags, adminLock, registry, regs, asked, sent, imageVars, closes, pc>>

-----------------------------------------------------------------------------

\* The steps of a call that is under way, in any goroutine.
CallStep(a) ==
    \/ EmptyGet(a) \/ EmptySet(a)
    \/ CheckDriver(a) \/ ReleaseUnlisted(a) \/ ReleaseFails(a) \/ ReleaseCounter(a) \/ Release(a)
    \/ Push(a) \/ Unlock(a)
    \/ CloseAllResources(a)
    \/ WalkCloses(a) \/ WalkSkips(a) \/ WalkEnds(a) \/ WalkCounters(a) \/ WalkCountersEnds(a)

UserStep(u) == CallStep(u) \/ SendClientClose(u) \/ CloseReturns(u)

UserCall(u) ==
    \/ \E r \in RegIDs :
          AddPublication(u, r) \/ AddSubscription(u, r) \/ AddCounter(u, r) \/ Find(u, r) \/ Close(u, r)
    \/ CloseClient(u)

Message == ReceiveAnswer \/ ReceiveAvailableImage \/ ReceiveUnavailableImage \/ ReceiveClientTimeout

ConductorStep ==
    \/ CallStep(Conductor)
    \/ RunStarts
    \/ OnReady \/ OnErrorResponse \/ OnClientTimeout
    \/ OnAvailableImage \/ AddImage \/ OnUnavailableImage \/ RemoveImage \/ LingerImage
    \/ CheckManagedResources \/ ManagedIsYoung \/ ManagedIsDue \/ ManagedEnds \/ Requeue
    \/ LoopEnds \/ ForceClose \/ RunEnds

\* A panic of a goroutine of the application ends the program.
Alive == \A u \in Users : pc[u] # "panicked"

Next ==
    /\ Alive
    /\ \/ \E u \in Users : UserCall(u) \/ UserStep(u)
       \/ Message \/ ConductorStep \/ ServiceTimeout \/ DriverTimeout
       \/ Expire

Spec == Init /\ [][Next]_vars

\* Goroutines with something to do are scheduled, and time passes.  Nothing is
\* asked of the application, the driver or the faults.
FairSpec == Spec /\ WF_vars(Alive /\ ConductorStep) /\ WF_vars(Alive /\ Expire)
                 /\ \A u \in Users : WF_vars(Alive /\ UserStep(u))

-----------------------------------------------------------------------------

\* No entry of the slice occurs twice.
Distinct(slice) ==
    \A i, j \in 1..slice.len : heap[slice.arr][i] = heap[slice.arr][j] => i = j

Registered(kind) == {r \in RegIDs : regs[r].kind = kind /\ sent[r] = 0}

\* While the client runs and nobody holds adminLock, the registry is exactly the
\* publications and subscriptions whose removal was not sent to the driver, each
\* once and without a nil entry: swapping the last entry into the place of the
\* removed one loses and duplicates none, whatever the order of Close calls.
RegistryIsExact ==
    running /\ adminLock = Nil =>
        \A kind \in {"pub", "sub"} :
            /\ Entries(SliceOf(kind)) = Registered(kind)
            /\ Distinct(SliceOf(kind))

\* A log is closed only after its publication, and an image only once it is out
\* of the list of a subscription that is open: nobody polls or offers into memory
\* that the conductor has unmapped while the resource was in use.
InUseIsMapped ==
    \A r \in RegIDs : ~regs[r].closed =>
        /\ closes[Log(r)] = 0
        /\ \A i \in Entries(imageList[r]) : closes[Image(i)] = 0

\* a has yet to send x, the k-th of what it makes linger.
ToSend(a, k, x) == pc[a] = "push" /\ my[a].next <= k /\ k <= Len(ToLinger(a)) /\ ToLinger(a)[k] = x

\* How often x is in somebody's hand on its way into lingeringResources.
InHand(x) ==
    Cardinality({hand \in Actors \X (1..(1 + MaxImages)) : ToSend(hand[1], hand[2], x)})
    + (IF pc[Conductor] \in {"removeImage", "linger", "requeue"} /\ my[Conductor].item.resource = x THEN 1 ELSE 0)

Copies(x) ==
    InHand(x) + Cardinality({k \in DOMAIN lingering : lingering[k].resource = x}) + closes[x]

BeingAdded(i) ==
    pc[Conductor] \in {"onAvailableImage", "addImage"} /\ my[Conductor].image = i

\* What was released lingers or was closed, and once only: the log of a
\* publication from the moment its removal was sent, the image of an open
\* subscription from the moment it left the list.  Neither the put-back of
\* onCheckManagedResources nor the drain at the end of the conductor loses one.
NothingIsLost ==
    /\ \A r \in RegIDs : regs[r].kind = "pub" => Copies(Log(r)) = sent[r]
    /\ running => \A i \in 1..MaxImages :
          owner[i] # Nil /\ ~regs[owner[i]].closed /\ ~BeingAdded(i) =>
              /\ Copies(Image(i)) <= 1
              /\ Copies(Image(i)) = 1 \/ i \in Entries(imageList[owner[i]])

Lingers(x) == \E k \in DOMAIN lingering : lingering[k].resource = x

\* As long as the conductor runs, what lingers is closed in the end, although
\* onCheckManagedResources puts what is not due back behind the others.
LingeringIsClosed ==
    \A x \in Resources : Lingers(x) ~> (closes[x] > 0 \/ pc[Conductor] = "done" \/ ~Alive)

\* Every Close returns: no goroutine waits for ever for adminLock, for room in
\* lingeringResources or for the conductor to stop, if the channel has room for
\* all that is released.
CallsReturn ==
    \A u \in Users : (pc[u] \notin {"idle", "closed"}) ~> (pc[u] \in {"idle", "closed"} \/ ~Alive)

\* "Close will terminate the Run() goroutine body and close all active
\* publications and subscription": once Close has returned, every publication and
\* subscription that the application had got is closed.
CloseClosesAll ==
    \A u \in Users : pc[u] = "closed" =>
        \A r \in RegIDs : regs[r].kind \in {"pub", "sub"} /\ regs[r].object => regs[r].closed
=============================================================================
