-------------------------- MODULE FragmentAssembler --------------------------
(***************************************************************************)
(* The handlers that put the fragments of a message together again         *)
(* (aeron/fragmentassembler.go, aeron/controlledfragmentassembler.go) and  *)
(* the image that calls them.  The image is of one session, so there is    *)
(* one builder.                                                            *)
(***************************************************************************)
EXTENDS Image

\* "raw": the application's own handler; "fragments": a FragmentAssembler, for
\* Poll and BoundedPoll; "controlled": a ControlledFragmentAssembler.
CONSTANT Handlers

VARIABLES handler,   \* the one the subscriber uses
          builder,   \* the fragments the assembler holds
          whole      \* history: its delegate got whole messages, and all of them

assemblerVars == <<handler, builder, whole>>

AssemblerInit ==
    /\ handler \in Handlers
    /\ builder = <<>>
    /\ whole = TRUE

Flags        == Unit(poll.offset).flags
Unfragmented == {BeginFrag, EndFrag} \subseteq Flags

\* A delegate gets a message with its last fragment, if the others are there.
Delegates == \/ handler = "raw"
             \/ Unfragmented
             \/ BeginFrag \notin Flags /\ EndFrag \in Flags /\ builder # <<>>

\* What the delegate is given
Given == IF Unfragmented THEN <<Fragment>> ELSE Append(builder, Fragment)

\* The first fragment and no other has the begin flag, the last and no other the
\* end flag, and all are of one message.
IsMessage(fragments) ==
    \A i \in DOMAIN fragments :
        /\ BeginFrag \in fragments[i].flags <=> i = 1
        /\ EndFrag \in fragments[i].flags <=> i = Len(fragments)
        /\ fragments[i].content = fragments[1].content

\* Mutated form: what an aborted delegate was given stays in the builder
OnFragmentKeeps(aborted) ==
    /\ whole' = (whole /\ (handler = "raw" \/ (IF Delegates THEN IsMessage(Given) ELSE EndFrag \notin Flags)))
    /\ builder' = CASE handler = "raw" \/ Unfragmented -> builder
                    [] ~Unfragmented /\ BeginFrag \in Flags -> <<Fragment>>
                    [] BeginFrag \notin Flags /\ builder = <<>> -> builder
                    [] OTHER -> IF Delegates /\ ~aborted THEN <<>> ELSE Append(builder, Fragment)
    /\ UNCHANGED handler

\* A message begins with an empty builder; the last fragment is cut off again
\* when the delegate aborts, and the builder is reset when it does not.
OnFragment(aborted) ==
    /\ whole' = (whole /\ (handler = "raw" \/ (IF Delegates THEN IsMessage(Given) ELSE EndFrag \notin Flags)))
    /\ builder' = CASE handler = "raw" \/ Unfragmented -> builder
                    [] ~Unfragmented /\ BeginFrag \in Flags -> <<Fragment>>
                    [] BeginFrag \notin Flags /\ builder = <<>> -> builder
                    [] OTHER -> IF ~Delegates THEN Append(builder, Fragment)
                                ELSE IF aborted THEN builder ELSE <<>>
    /\ UNCHANGED handler

-----------------------------------------------------------------------------

\* Only a delegate aborts, breaks or commits.
SubscriberStep ==
    \/ HandleFragment /\ OnFragment(FALSE)
    \/ HandlerAborts /\ Delegates /\ OnFragment(TRUE)
    \/ (HandlerBreaks \/ HandlerCommits) /\ Delegates /\ OnFragment(FALSE)
    \/ (SkipPadding \/ EndPoll) /\ UNCHANGED assemblerVars

SubscriberPolls ==
    /\ PollCall
    /\ handler # "raw" => (handler = "controlled" <=> poll'.kind = "controlled")
    /\ UNCHANGED assemblerVars

SubscriberNext ==
    SubscriberPolls \/ SubscriberStep \/ ((CloseImage \/ SetFinalPosition) /\ UNCHANGED assemblerVars)
=============================================================================
