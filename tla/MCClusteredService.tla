------------------------- MODULE MCClusteredService -------------------------
(* Instances of the service container for TLC.                             *)
EXTENDS ClusteredService

\* A session with a snapshot and a message of two fragments, a message whose
\* leader did not finish it, a session that is closed, and the removal of a member.
FourScripts ==
    {<<"open", "snapshot", "begin", "end">>,
     <<"open", "begin", "begin", "end">>,
     <<"open", "message", "close", "timer">>,
     <<"standby", "other", "quit">>}
=============================================================================
