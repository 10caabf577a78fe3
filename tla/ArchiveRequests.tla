--------------------------- MODULE ArchiveRequests ---------------------------
(*
  The requests of the archive client.  A call passes through three functions
  that take their arguments by position: the method of Archive (archive.go),
  the method of Proxy (proxy.go, here Proxy<Method>) and the encoder that
  fills the message (codecs/encoders.go, <Message>Packet).  Each operator has
  the parameters of its function in the same order, less the marshaller and
  the range check, and yields the message that is encoded.
*)
EXTENDS ArchiveCodecs, TLC

CONSTANTS SessionID,        \* Archive.SessionID
          CorrelationID,    \* the call's nextCorrelationID()
          SemanticVersion   \* codecs.SemanticVersion()

Boolean(b) == IF b THEN "TRUE" ELSE "FALSE"

\* What the encoder does not set keeps Go's zero.
Request(msg, values) == [msg |-> msg, m |-> values @@ Fresh(msg.fields)]

\* Nearly every request names the control session and its correlation id.
InSession(msg, controlSessionId, correlationId, values) ==
  Request(msg, [ControlSessionId |-> controlSessionId, CorrelationId |-> correlationId] @@ values)

---------------------------------------------------------------------------
(* codecs/encoders.go *)

ConnectRequestPacket(correlationID, responseStream, responseChannel) ==
  Request(ConnectRequest, [CorrelationId |-> correlationID, Version |-> SemanticVersion,
    ResponseStreamId |-> responseStream, ResponseChannel |-> responseChannel])
CloseSessionRequestPacket(controlSessionId) ==
  Request(CloseSessionRequest, [ControlSessionId |-> controlSessionId])
StartRecordingRequest2Packet(controlSessionId, correlationId, stream, isLocal, autoStop, channel) ==
  InSession(StartRecordingRequest2, controlSessionId, correlationId, [Channel |-> channel,
    StreamId |-> stream, SourceLocation |-> IF isLocal THEN "LOCAL" ELSE "REMOTE",
    AutoStop |-> Boolean(autoStop)])
StopRecordingRequestPacket(controlSessionId, correlationId, stream, channel) ==
  InSession(StopRecordingRequest, controlSessionId, correlationId, [StreamId |-> stream,
    Channel |-> channel])
ReplayRequestPacket(controlSessionId, correlationId, recordingId, position, length, replayStream, replayChannel) ==
  InSession(ReplayRequest, controlSessionId, correlationId, [RecordingId |-> recordingId,
    Position |-> position, Length |-> length, ReplayStreamId |-> replayStream,
    ReplayChannel |-> replayChannel])
StopReplayRequestPacket(controlSessionId, correlationId, replaySessionId) ==
  InSession(StopReplayRequest, controlSessionId, correlationId, [
    ReplaySessionId |-> replaySessionId])
ListRecordingsRequestPacket(controlSessionId, correlationId, fromRecordingId, recordCount) ==
  InSession(ListRecordingsRequest, controlSessionId, correlationId, [
    FromRecordingId |-> fromRecordingId, RecordCount |-> recordCount])
ListRecordingsForUriRequestPacket(controlSessionId, correlationId, fromRecordingId, recordCount, stream, channel) ==
  InSession(ListRecordingsForUriRequest, controlSessionId, correlationId, [
    FromRecordingId |-> fromRecordingId, RecordCount |-> recordCount, StreamId |-> stream,
    Channel |-> channel])
ListRecordingRequestPacket(controlSessionId, correlationId, recordingId) ==
  InSession(ListRecordingRequest, controlSessionId, correlationId, [
    RecordingId |-> recordingId])
ExtendRecordingRequest2Packet(controlSessionId, correlationId, recordingId, stream, sourceLocation, autoStop, channel) ==
  InSession(ExtendRecordingRequest2, controlSessionId, correlationId, [
    RecordingId |-> recordingId, StreamId |-> stream, SourceLocation |-> sourceLocation,
    Channel |-> channel, AutoStop |-> Boolean(autoStop)])
RecordingPositionRequestPacket(controlSessionId, correlationId, recordingId) ==
  InSession(RecordingPositionRequest, controlSessionId, correlationId, [
    RecordingId |-> recordingId])
TruncateRecordingRequestPacket(controlSessionId, correlationId, recordingId, position) ==
  InSession(TruncateRecordingRequest, controlSessionId, correlationId, [
    RecordingId |-> recordingId, Position |-> position])
StopRecordingSubscriptionPacket(controlSessionId, correlationId, subscriptionId) ==
  InSession(StopRecordingSubscriptionRequest, controlSessionId, correlationId, [
    SubscriptionId |-> subscriptionId])
StopRecordingByIdentityPacket(controlSessionId, correlationId, recordingId) ==
  InSession(StopRecordingByIdentityRequest, controlSessionId, correlationId, [
    RecordingId |-> recordingId])
StopPositionPacket(controlSessionId, correlationId, recordingId) ==
  InSession(StopPositionRequest, controlSessionId, correlationId, [
    RecordingId |-> recordingId])
FindLastMatchingRecordingPacket(controlSessionId, correlationId, minRecordingId, sessionId, stream, channel) ==
  InSession(FindLastMatchingRecordingRequest, controlSessionId, correlationId, [
    MinRecordingId |-> minRecordingId, SessionId |-> sessionId, StreamId |-> stream,
    Channel |-> channel])
ListRecordingSubscriptionsPacket(controlSessionId, correlationId, pseudoIndex, subscriptionCount, applyStreamId, stream, channel) ==
  InSession(ListRecordingSubscriptionsRequest, controlSessionId, correlationId, [
    PseudoIndex |-> pseudoIndex, SubscriptionCount |-> subscriptionCount,
    StreamId |-> stream, Channel |-> channel, ApplyStreamId |-> Boolean(applyStreamId)])
BoundedReplayPacket(controlSessionId, correlationId, recordingId, position, length, limitCounterId, replayStream, replayChannel) ==
  InSession(BoundedReplayRequest, controlSessionId, correlationId, [
    RecordingId |-> recordingId, Position |-> position, Length |-> length,
    LimitCounterId |-> limitCounterId, ReplayStreamId |-> replayStream,
    ReplayChannel |-> replayChannel])
StopAllReplaysPacket(controlSessionId, correlationId, recordingId) ==
  InSession(StopAllReplaysRequest, controlSessionId, correlationId, [
    RecordingId |-> recordingId])
CatalogHeaderPacket(version, length, nextRecordingId, alignment) ==
  Request(CatalogHeader, [Version |-> version, Length |-> length,
    NextRecordingId |-> nextRecordingId, Alignment |-> alignment])
ReplicateRequestPacket(controlSessionId, correlationId, srcRecordingId, dstRecordingId, srcControlStreamId, srcControlChannel, liveDestination) ==
  InSession(ReplicateRequest, controlSessionId, correlationId, [
    SrcRecordingId |-> srcRecordingId, DstRecordingId |-> dstRecordingId,
    SrcControlStreamId |-> srcControlStreamId, SrcControlChannel |-> srcControlChannel,
    LiveDestination |-> liveDestination])
StopReplicationRequestPacket(controlSessionId, correlationId, replicationId) ==
  InSession(StopReplicationRequest, controlSessionId, correlationId, [
    ReplicationId |-> replicationId])
StartPositionRequestPacket(controlSessionId, correlationId, recordingId) ==
  InSession(StartPositionRequest, controlSessionId, correlationId, [
    RecordingId |-> recordingId])
DetachSegmentsRequestPacket(controlSessionId, correlationId, recordingId, newStartPosition) ==
  InSession(DetachSegmentsRequest, controlSessionId, correlationId, [
    RecordingId |-> recordingId, NewStartPosition |-> newStartPosition])
DeleteDetachedSegmentsRequestPacket(controlSessionId, correlationId, recordingId) ==
  InSession(DeleteDetachedSegmentsRequest, controlSessionId, correlationId, [
    RecordingId |-> recordingId])
PurgeSegmentsRequestPacket(controlSessionId, correlationId, recordingId, newStartPosition) ==
  InSession(PurgeSegmentsRequest, controlSessionId, correlationId, [
    RecordingId |-> recordingId, NewStartPosition |-> newStartPosition])
AttachSegmentsRequestPacket(controlSessionId, correlationId, recordingId) ==
  InSession(AttachSegmentsRequest, controlSessionId, correlationId, [
    RecordingId |-> recordingId])
AuthConnectRequestPacket(correlationID, responseStream, responseChannel, encodedCredentials) ==
  Request(AuthConnectRequest, [CorrelationId |-> correlationID, Version |-> SemanticVersion,
    ResponseStreamId |-> responseStream, ResponseChannel |-> responseChannel,
    EncodedCredentials |-> encodedCredentials])
ChallengeResponsePacket(controlSessionId, correlationId, encodedCredentials) ==
  InSession(ChallengeResponse, controlSessionId, correlationId, [
    EncodedCredentials |-> encodedCredentials])
MigrateSegmentsRequestPacket(controlSessionId, correlationId, srcRecordingId, destRecordingId) ==
  InSession(MigrateSegmentsRequest, controlSessionId, correlationId, [
    SrcRecordingId |-> srcRecordingId, DstRecordingId |-> destRecordingId])
KeepAliveRequestPacket(controlSessionId, correlationId) ==
  InSession(KeepAliveRequest, controlSessionId, correlationId, <<>>)
TaggedReplicateRequestPacket(controlSessionId, correlationId, srcRecordingId, dstRecordingId, channelTagId, subscriptionTagId, srcControlStreamId, srcControlChannel, liveDestination) ==
  InSession(TaggedReplicateRequest, controlSessionId, correlationId, [
    SrcRecordingId |-> srcRecordingId, DstRecordingId |-> dstRecordingId,
    ChannelTagId |-> channelTagId, SubscriptionTagId |-> subscriptionTagId,
    SrcControlStreamId |-> srcControlStreamId, SrcControlChannel |-> srcControlChannel,
    LiveDestination |-> liveDestination])
ReplicateRequest2Packet(controlSessionId, correlationId, srcRecordingId, dstRecordingId, stopPosition, channelTagId, srcControlStreamId, srcControlChannel, liveDestination, replicationChannel) ==
  InSession(ReplicateRequest2, controlSessionId, correlationId, [
    SrcRecordingId |-> srcRecordingId, DstRecordingId |-> dstRecordingId,
    StopPosition |-> stopPosition, ChannelTagId |-> channelTagId,
    SrcControlStreamId |-> srcControlStreamId, SrcControlChannel |-> srcControlChannel,
    LiveDestination |-> liveDestination, ReplicationChannel |-> replicationChannel])
PurgeRecordingRequestPacket(controlSessionId, correlationId, recordingId) ==
  InSession(PurgeRecordingRequest, controlSessionId, correlationId, [
    RecordingId |-> recordingId])
StartRecordingRequestPacket(controlSessionId, correlationId, stream, isLocal, channel) ==
  StartRecordingRequest2Packet(controlSessionId, correlationId, stream, isLocal, FALSE, channel)
ExtendRecordingRequestPacket(controlSessionId, correlationId, recordingId, stream, sourceLocation, channel) ==
  ExtendRecordingRequest2Packet(controlSessionId, correlationId, recordingId, stream, sourceLocation, FALSE, channel)

---------------------------------------------------------------------------
(* proxy.go *)

ProxyConnectRequest(correlationID, responseStream, responseChannel) ==
  ConnectRequestPacket(correlationID, responseStream, responseChannel)
ProxyCloseSessionRequest ==
  CloseSessionRequestPacket(SessionID)
ProxyStartRecordingRequest(correlationID, stream, isLocal, autoStop, channel) ==
  StartRecordingRequest2Packet(SessionID, correlationID, stream, isLocal, autoStop, channel)
ProxyStopRecordingRequest(correlationID, stream, channel) ==
  StopRecordingRequestPacket(SessionID, correlationID, stream, channel)
\* Mutated form: position and length change places
ProxyReplayRequestSwapped(correlationID, recordingID, position, length, replayChannel, replayStream) ==
  ReplayRequestPacket(SessionID, correlationID, recordingID, length, position, replayStream,
    replayChannel)

ProxyReplayRequest(correlationID, recordingID, position, length, replayChannel, replayStream) ==
  ReplayRequestPacket(SessionID, correlationID, recordingID, position, length, replayStream,
    replayChannel)
ProxyStopReplayRequest(correlationID, replaySessionID) ==
  StopReplayRequestPacket(SessionID, correlationID, replaySessionID)
ProxyListRecordingsRequest(correlationID, fromRecordingID, recordCount) ==
  ListRecordingsRequestPacket(SessionID, correlationID, fromRecordingID, recordCount)
ProxyListRecordingsForUriRequest(correlationID, fromRecordingID, recordCount, stream, channel) ==
  ListRecordingsForUriRequestPacket(SessionID, correlationID, fromRecordingID, recordCount,
    stream, channel)
ProxyListRecordingRequest(correlationID, fromRecordingID) ==
  ListRecordingRequestPacket(SessionID, correlationID, fromRecordingID)
ProxyExtendRecordingRequest(correlationID, recordingID, stream, sourceLocation, autoStop, channel) ==
  ExtendRecordingRequest2Packet(SessionID, correlationID, recordingID, stream,
    sourceLocation, autoStop, channel)
ProxyRecordingPositionRequest(correlationID, recordingID) ==
  RecordingPositionRequestPacket(SessionID, correlationID, recordingID)
ProxyTruncateRecordingRequest(correlationID, recordingID, position) ==
  TruncateRecordingRequestPacket(SessionID, correlationID, recordingID, position)
ProxyStopRecordingSubscriptionRequest(correlationID, subscriptionID) ==
  StopRecordingSubscriptionPacket(SessionID, correlationID, subscriptionID)
ProxyStopRecordingByIdentityRequest(correlationID, recordingID) ==
  StopRecordingByIdentityPacket(SessionID, correlationID, recordingID)
ProxyStopPositionRequest(correlationID, recordingID) ==
  StopPositionPacket(SessionID, correlationID, recordingID)
ProxyFindLastMatchingRecordingRequest(correlationID, minRecordingID, sessionID, stream, channel) ==
  FindLastMatchingRecordingPacket(SessionID, correlationID, minRecordingID, sessionID,
    stream, channel)
ProxyListRecordingSubscriptionsRequest(correlationID, pseudoIndex, subscriptionCount, applyStreamID, stream, channel) ==
  ListRecordingSubscriptionsPacket(SessionID, correlationID, pseudoIndex, subscriptionCount,
    applyStreamID, stream, channel)
ProxyBoundedReplayRequest(correlationID, recordingID, position, length, limitCounterID, replayStream, replayChannel) ==
  BoundedReplayPacket(SessionID, correlationID, recordingID, position, length,
    limitCounterID, replayStream, replayChannel)
ProxyStopAllReplaysRequest(correlationID, recordingID) ==
  StopAllReplaysPacket(SessionID, correlationID, recordingID)
ProxyCatalogHeaderRequest(version, length, nextRecordingID, alignment) ==
  CatalogHeaderPacket(version, length, nextRecordingID, alignment)
ProxyReplicateRequest(correlationID, srcRecordingID, dstRecordingID, srcControlStreamID, srcControlChannel, liveDestination) ==
  ReplicateRequestPacket(SessionID, correlationID, srcRecordingID, dstRecordingID,
    srcControlStreamID, srcControlChannel, liveDestination)
ProxyReplicateRequest2(correlationID, srcRecordingID, dstRecordingID, stopPosition, channelTagID, srcControlStreamID, srcControlChannel, liveDestination, replicationChannel) ==
  ReplicateRequest2Packet(SessionID, correlationID, srcRecordingID, dstRecordingID,
    stopPosition, channelTagID, srcControlStreamID, srcControlChannel, liveDestination,
    replicationChannel)
ProxyStopReplicationRequest(correlationID, replicationID) ==
  StopReplicationRequestPacket(SessionID, correlationID, replicationID)
ProxyStartPositionRequest(correlationID, recordingID) ==
  StartPositionRequestPacket(SessionID, correlationID, recordingID)
ProxyDetachSegmentsRequest(correlationID, recordingID, newStartPosition) ==
  DetachSegmentsRequestPacket(SessionID, correlationID, recordingID, newStartPosition)
ProxyDeleteDetachedSegmentsRequest(correlationID, recordingID) ==
  DeleteDetachedSegmentsRequestPacket(SessionID, correlationID, recordingID)
ProxyPurgeSegmentsRequest(correlationID, recordingID, newStartPosition) ==
  PurgeSegmentsRequestPacket(SessionID, correlationID, recordingID, newStartPosition)
ProxyAttachSegmentsRequest(correlationID, recordingID) ==
  AttachSegmentsRequestPacket(SessionID, correlationID, recordingID)
ProxyMigrateSegmentsRequest(correlationID, srcRecordingID, destRecordingID) ==
  MigrateSegmentsRequestPacket(SessionID, correlationID, srcRecordingID, destRecordingID)
ProxyAuthConnectRequest(correlationID, responseStream, responseChannel, encodedCredentials) ==
  AuthConnectRequestPacket(correlationID, responseStream, responseChannel,
    encodedCredentials)
ProxyChallengeResponse(correlationID, encodedCredentials) ==
  ChallengeResponsePacket(SessionID, correlationID, encodedCredentials)
ProxyKeepAliveRequest(correlationID) ==
  KeepAliveRequestPacket(SessionID, correlationID)
ProxyTaggedReplicateRequest(correlationID, srcRecordingID, dstRecordingID, channelTagID, subscriptionTagID, srcControlStreamID, srcControlChannel, liveDestination) ==
  TaggedReplicateRequestPacket(SessionID, correlationID, srcRecordingID, dstRecordingID,
    channelTagID, subscriptionTagID, srcControlStreamID, srcControlChannel, liveDestination)
ProxyPurgeRecordingRequest(correlationID, replaySessionID) ==
  PurgeRecordingRequestPacket(SessionID, correlationID, replaySessionID)

---------------------------------------------------------------------------
(* archive.go *)

\* A channel is its parameters; setting session-id adds one.
AddSessionIdToChannel(channel, sessionID) == Append(channel, sessionID)

StartRecording(channel, stream, isLocal, autoStop) ==
  ProxyStartRecordingRequest(CorrelationID, stream, isLocal, autoStop, channel)
StopRecording(channel, stream) ==
  ProxyStopRecordingRequest(CorrelationID, stream, channel)
StopRecordingByIdentity(recordingID) ==
  ProxyStopRecordingByIdentityRequest(CorrelationID, recordingID)
StopRecordingBySubscriptionId(subscriptionID) ==
  ProxyStopRecordingSubscriptionRequest(CorrelationID, subscriptionID)
AddRecordedPublication(channel, sessionID, stream) ==
  ProxyStartRecordingRequest(CorrelationID, stream, TRUE, FALSE,
    AddSessionIdToChannel(channel, sessionID))
ListRecordings(fromRecordingID, recordCount) ==
  ProxyListRecordingsRequest(CorrelationID, fromRecordingID, recordCount)
ListRecordingsForUri(fromRecordingID, recordCount, channelFragment, stream) ==
  ProxyListRecordingsForUriRequest(CorrelationID, fromRecordingID, recordCount, stream,
    channelFragment)
ListRecording(recordingID) ==
  ProxyListRecordingRequest(CorrelationID, recordingID)
StartReplay(recordingID, position, length, replayChannel, replayStream) ==
  ProxyReplayRequest(CorrelationID, recordingID, position, length, replayChannel,
    replayStream)
BoundedReplay(recordingID, position, length, limitCounterID, replayStream, replayChannel) ==
  ProxyBoundedReplayRequest(CorrelationID, recordingID, position, length, limitCounterID,
    replayStream, replayChannel)
StopReplay(replaySessionID) ==
  ProxyStopReplayRequest(CorrelationID, replaySessionID)
StopAllReplays(recordingID) ==
  ProxyStopAllReplaysRequest(CorrelationID, recordingID)
ExtendRecording(recordingID, stream, sourceLocation, autoStop, channel) ==
  ProxyExtendRecordingRequest(CorrelationID, recordingID, stream, sourceLocation, autoStop,
    channel)
GetRecordingPosition(recordingID) ==
  ProxyRecordingPositionRequest(CorrelationID, recordingID)
TruncateRecording(recordingID, position) ==
  ProxyTruncateRecordingRequest(CorrelationID, recordingID, position)
GetStartPosition(recordingID) ==
  ProxyStartPositionRequest(CorrelationID, recordingID)
GetStopPosition(recordingID) ==
  ProxyStopPositionRequest(CorrelationID, recordingID)
FindLastMatchingRecording(minRecordingID, sessionID, stream, channel) ==
  ProxyFindLastMatchingRecordingRequest(CorrelationID, minRecordingID, sessionID, stream,
    channel)
ListRecordingSubscriptions(pseudoIndex, subscriptionCount, applyStreamID, stream, channelFragment) ==
  ProxyListRecordingSubscriptionsRequest(CorrelationID, pseudoIndex, subscriptionCount,
    applyStreamID, stream, channelFragment)
DetachSegments(recordingID, newStartPosition) ==
  ProxyDetachSegmentsRequest(CorrelationID, recordingID, newStartPosition)
DeleteDetachedSegments(recordingID) ==
  ProxyDeleteDetachedSegmentsRequest(CorrelationID, recordingID)
PurgeSegments(recordingID, newStartPosition) ==
  ProxyPurgeSegmentsRequest(CorrelationID, recordingID, newStartPosition)
AttachSegments(recordingID) ==
  ProxyAttachSegmentsRequest(CorrelationID, recordingID)
MigrateSegments(recordingID, position) ==
  ProxyMigrateSegmentsRequest(CorrelationID, recordingID, position)
KeepAlive ==
  ProxyKeepAliveRequest(CorrelationID)
Replicate(srcRecordingID, dstRecordingID, srcControlStreamID, srcControlChannel, liveDestination) ==
  ProxyReplicateRequest(CorrelationID, srcRecordingID, dstRecordingID, srcControlStreamID,
    srcControlChannel, liveDestination)
Replicate2(srcRecordingID, dstRecordingID, stopPosition, channelTagID, srcControlStreamID, srcControlChannel, liveDestination, replicationChannel) ==
  ProxyReplicateRequest2(CorrelationID, srcRecordingID, dstRecordingID, stopPosition,
    channelTagID, srcControlStreamID, srcControlChannel, liveDestination, replicationChannel)
TaggedReplicate(srcRecordingID, dstRecordingID, channelTagID, subscriptionTagID, srcControlStreamID, srcControlChannel, liveDestination) ==
  ProxyTaggedReplicateRequest(CorrelationID, srcRecordingID, dstRecordingID, channelTagID,
    subscriptionTagID, srcControlStreamID, srcControlChannel, liveDestination)
StopReplication(replicationID) ==
  ProxyStopReplicationRequest(CorrelationID, replicationID)
PurgeRecording(recordingID) ==
  ProxyPurgeRecordingRequest(CorrelationID, recordingID)
StopRecordingByPublication(channel, sessionID, stream) ==
  StopRecording(AddSessionIdToChannel(channel, sessionID), stream)
===========================================================================
