------------------------- MODULE MCBroadcastReceiver -------------------------
(* Instances of the broadcast receiver for TLC.                            *)
EXTENDS BroadcastReceiver

\* A payload read as a length: negative, too short, that of another record,
\* longer than the buffer and, at its end, than the trailer, and longer than the
\* scratch buffer.
AnyLength == {-3, 0, 2, Capacity + TrailerLength, Capacity + TrailerLength + 2}

\* A payload read as a type: that of a message, or of padding.
AnyType == {DataType, PaddingMsgTypeID}
=============================================================================
