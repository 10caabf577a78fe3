----------------------------- MODULE ArchiveCodecs -----------------------------
(*
  The messages of the archive control protocol (archive/codecs): schema 101, version 6.
  For each generated file <Message>.go, <Message>Fields has the fields in
  wire order with what the field functions say of them (since which version,
  optional or not, what is in range), and <Message> the template id, the
  length of the fixed block and the order in which Encode, Decode and
  RangeCheck take the fields.
*)
EXTENDS Sbe

---------------------------------------------------------------------------
(* Enumerations, by number *)

BooleanType == <<"FALSE", "TRUE">>
ControlResponseCode == <<"OK", "ERROR", "RECORDING_UNKNOWN", "SUBSCRIPTION_UNKNOWN">>
RecordingSignal ==
  <<"START", "STOP", "EXTEND", "REPLICATE", "MERGE", "SYNC", "DELETE",
    "REPLICATE_END">>
RecordingState == <<"INVALID", "VALID">>
SourceLocation == <<"LOCAL", "REMOTE">>

---------------------------------------------------------------------------
(* Messages *)

AttachSegmentsRequestFields ==
  <<Int64("ControlSessionId"), Int64("CorrelationId"), Int64("RecordingId")>>
AttachSegmentsRequest == Message("AttachSegmentsRequest", 56, 24, AttachSegmentsRequestFields)

AuthConnectRequestFields ==
  <<Int64("CorrelationId"), Int32("ResponseStreamId"),
    Ranged(Int32("Version")), Data("ResponseChannel"),
    Data("EncodedCredentials")>>
AuthConnectRequest == Message("AuthConnectRequest", 58, 16, AuthConnectRequestFields)

BoundedReplayRequestFields ==
  <<Int64("ControlSessionId"), Int64("CorrelationId"), Int64("RecordingId"),
    Int64("Position"), Int64("Length"), Int32("LimitCounterId"),
    Int32("ReplayStreamId"), Data("ReplayChannel")>>
BoundedReplayRequest == Message("BoundedReplayRequest", 18, 48, BoundedReplayRequestFields)

CatalogHeaderFields ==
  <<Int32("Version"), Int32("Length"), Int64("NextRecordingId"),
    Int32("Alignment"), Pad(11), Int8("Reserved")>>
CatalogHeader == Message("CatalogHeader", 20, 32, CatalogHeaderFields)

ChallengeFields ==
  <<Int64("ControlSessionId"), Int64("CorrelationId"),
    Ranged(Int32("Version")), Data("EncodedChallenge")>>
Challenge == Message("Challenge", 59, 20, ChallengeFields)

ChallengeResponseFields ==
  <<Int64("ControlSessionId"), Int64("CorrelationId"),
    Data("EncodedCredentials")>>
ChallengeResponse == Message("ChallengeResponse", 60, 16, ChallengeResponseFields)

CloseSessionRequestFields ==
  <<Int64("ControlSessionId")>>
CloseSessionRequest == Message("CloseSessionRequest", 3, 8, CloseSessionRequestFields)

ConnectRequestFields ==
  <<Int64("CorrelationId"), Int32("ResponseStreamId"),
    Since(2, Ranged(Int32("Version"))), Data("ResponseChannel")>>
ConnectRequest == Message("ConnectRequest", 2, 16, ConnectRequestFields)

ControlResponseFields ==
  <<Int64("ControlSessionId"), Int64("CorrelationId"), Int64("RelevantId"),
    Enum("Code", ControlResponseCode), Since(4, Ranged(Int32("Version"))),
    Data("ErrorMessage")>>
ControlResponse == Message("ControlResponse", 1, 32, ControlResponseFields)

DeleteDetachedSegmentsRequestFields ==
  <<Int64("ControlSessionId"), Int64("CorrelationId"), Int64("RecordingId")>>
DeleteDetachedSegmentsRequest == Message("DeleteDetachedSegmentsRequest", 54, 24, DeleteDetachedSegmentsRequestFields)

DetachSegmentsRequestFields ==
  <<Int64("ControlSessionId"), Int64("CorrelationId"), Int64("RecordingId"),
    Int64("NewStartPosition")>>
DetachSegmentsRequest == Message("DetachSegmentsRequest", 53, 32, DetachSegmentsRequestFields)

ExtendRecordingRequestFields ==
  <<Int64("ControlSessionId"), Int64("CorrelationId"), Int64("RecordingId"),
    Int32("StreamId"), Enum("SourceLocation", SourceLocation), Data("Channel")>>
ExtendRecordingRequest == Message("ExtendRecordingRequest", 11, 32, ExtendRecordingRequestFields)

ExtendRecordingRequest2Fields ==
  <<Int64("ControlSessionId"), Int64("CorrelationId"), Int64("RecordingId"),
    Int32("StreamId"), Enum("SourceLocation", SourceLocation),
    Enum("AutoStop", BooleanType), Data("Channel")>>
ExtendRecordingRequest2 == Message("ExtendRecordingRequest2", 64, 36, ExtendRecordingRequest2Fields)

FindLastMatchingRecordingRequestFields ==
  <<Int64("ControlSessionId"), Int64("CorrelationId"),
    Int64("MinRecordingId"), Int32("SessionId"), Int32("StreamId"),
    Data("Channel")>>
FindLastMatchingRecordingRequest == Message("FindLastMatchingRecordingRequest", 16, 32, FindLastMatchingRecordingRequestFields)

KeepAliveRequestFields ==
  <<Int64("ControlSessionId"), Int64("CorrelationId")>>
KeepAliveRequest == Message("KeepAliveRequest", 61, 16, KeepAliveRequestFields)

ListRecordingRequestFields ==
  <<Int64("ControlSessionId"), Int64("CorrelationId"), Int64("RecordingId")>>
ListRecordingRequest == Message("ListRecordingRequest", 10, 24, ListRecordingRequestFields)

ListRecordingSubscriptionsRequestFields ==
  <<Int64("ControlSessionId"), Int64("CorrelationId"), Int32("PseudoIndex"),
    Int32("SubscriptionCount"), Enum("ApplyStreamId", BooleanType),
    Int32("StreamId"), Data("Channel")>>
ListRecordingSubscriptionsRequest == Message("ListRecordingSubscriptionsRequest", 17, 32, ListRecordingSubscriptionsRequestFields)

ListRecordingsForUriRequestFields ==
  <<Int64("ControlSessionId"), Int64("CorrelationId"),
    Int64("FromRecordingId"), Int32("RecordCount"), Int32("StreamId"),
    Data("Channel")>>
ListRecordingsForUriRequest == Message("ListRecordingsForUriRequest", 9, 32, ListRecordingsForUriRequestFields)

ListRecordingsRequestFields ==
  <<Int64("ControlSessionId"), Int64("CorrelationId"),
    Int64("FromRecordingId"), Int32("RecordCount")>>
ListRecordingsRequest == Message("ListRecordingsRequest", 8, 28, ListRecordingsRequestFields)

MigrateSegmentsRequestFields ==
  <<Int64("ControlSessionId"), Int64("CorrelationId"),
    Int64("SrcRecordingId"), Int64("DstRecordingId")>>
MigrateSegmentsRequest == Message("MigrateSegmentsRequest", 57, 32, MigrateSegmentsRequestFields)

PurgeRecordingRequestFields ==
  <<Int64("ControlSessionId"), Int64("CorrelationId"), Int64("RecordingId")>>
PurgeRecordingRequest == Message("PurgeRecordingRequest", 104, 24, PurgeRecordingRequestFields)

PurgeSegmentsRequestFields ==
  <<Int64("ControlSessionId"), Int64("CorrelationId"), Int64("RecordingId"),
    Int64("NewStartPosition")>>
PurgeSegmentsRequest == Message("PurgeSegmentsRequest", 55, 32, PurgeSegmentsRequestFields)

RecordingDescriptorFields ==
  <<Int64("ControlSessionId"), Int64("CorrelationId"), Int64("RecordingId"),
    Int64("StartTimestamp"), Int64("StopTimestamp"), Int64("StartPosition"),
    Int64("StopPosition"), Int32("InitialTermId"), Int32("SegmentFileLength"),
    Int32("TermBufferLength"), Int32("MtuLength"), Int32("SessionId"),
    Int32("StreamId"), Data("StrippedChannel"), Data("OriginalChannel"),
    Data("SourceIdentity")>>
RecordingDescriptor == Message("RecordingDescriptor", 22, 80, RecordingDescriptorFields)

RecordingDescriptorHeaderFields ==
  <<Int32("Length"), Enum("State", RecordingState), Int32("Checksum"),
    Pad(19), Int8("Reserved")>>
RecordingDescriptorHeader == Message("RecordingDescriptorHeader", 21, 32, RecordingDescriptorHeaderFields)

RecordingPositionRequestFields ==
  <<Int64("ControlSessionId"), Int64("CorrelationId"), Int64("RecordingId")>>
RecordingPositionRequest == Message("RecordingPositionRequest", 12, 24, RecordingPositionRequestFields)

RecordingProgressFields ==
  <<Int64("RecordingId"), Int64("StartPosition"), Int64("Position")>>
RecordingProgress == Message("RecordingProgress", 102, 24, RecordingProgressFields)

RecordingSignalEventFields ==
  <<Int64("ControlSessionId"), Int64("CorrelationId"), Int64("RecordingId"),
    Int64("SubscriptionId"), Int64("Position"),
    Enum("Signal", RecordingSignal)>>
RecordingSignalEvent == Message("RecordingSignalEvent", 24, 44, RecordingSignalEventFields)

RecordingStartedFields ==
  <<Int64("RecordingId"), Int64("StartPosition"), Int32("SessionId"),
    Int32("StreamId"), Data("Channel"), Data("SourceIdentity")>>
RecordingStarted == Message("RecordingStarted", 101, 24, RecordingStartedFields)

RecordingStoppedFields ==
  <<Int64("RecordingId"), Int64("StartPosition"), Int64("StopPosition")>>
RecordingStopped == Message("RecordingStopped", 103, 24, RecordingStoppedFields)

RecordingSubscriptionDescriptorFields ==
  <<Int64("ControlSessionId"), Int64("CorrelationId"),
    Int64("SubscriptionId"), Int32("StreamId"), Data("StrippedChannel")>>
RecordingSubscriptionDescriptor == Message("RecordingSubscriptionDescriptor", 23, 28, RecordingSubscriptionDescriptorFields)

ReplayRequestFields ==
  <<Int64("ControlSessionId"), Int64("CorrelationId"), Int64("RecordingId"),
    Int64("Position"), Int64("Length"), Int32("ReplayStreamId"),
    Data("ReplayChannel")>>
ReplayRequest == Message("ReplayRequest", 6, 44, ReplayRequestFields)

ReplicateRequestFields ==
  <<Int64("ControlSessionId"), Int64("CorrelationId"),
    Int64("SrcRecordingId"), Int64("DstRecordingId"),
    Int32("SrcControlStreamId"), Data("SrcControlChannel"),
    Data("LiveDestination")>>
ReplicateRequest == Message("ReplicateRequest", 50, 36, ReplicateRequestFields)

ReplicateRequest2Fields ==
  <<Int64("ControlSessionId"), Int64("CorrelationId"),
    Int64("SrcRecordingId"), Int64("DstRecordingId"), Int64("StopPosition"),
    Int64("ChannelTagId"), Int64("SubscriptionTagId"),
    Int32("SrcControlStreamId"), Data("SrcControlChannel"),
    Data("LiveDestination"), Data("ReplicationChannel")>>
ReplicateRequest2 == Message("ReplicateRequest2", 66, 60, ReplicateRequest2Fields)

StartPositionRequestFields ==
  <<Int64("ControlSessionId"), Int64("CorrelationId"), Int64("RecordingId")>>
StartPositionRequest == Message("StartPositionRequest", 52, 24, StartPositionRequestFields)

StartRecordingRequestFields ==
  <<Int64("ControlSessionId"), Int64("CorrelationId"), Int32("StreamId"),
    Enum("SourceLocation", SourceLocation), Data("Channel")>>
StartRecordingRequest == Message("StartRecordingRequest", 4, 24, StartRecordingRequestFields)

StartRecordingRequest2Fields ==
  <<Int64("ControlSessionId"), Int64("CorrelationId"), Int32("StreamId"),
    Enum("SourceLocation", SourceLocation), Enum("AutoStop", BooleanType),
    Data("Channel")>>
StartRecordingRequest2 == Message("StartRecordingRequest2", 63, 28, StartRecordingRequest2Fields)

StopAllReplaysRequestFields ==
  <<Int64("ControlSessionId"), Int64("CorrelationId"), Int64("RecordingId")>>
StopAllReplaysRequest == Message("StopAllReplaysRequest", 19, 24, StopAllReplaysRequestFields)

StopPositionRequestFields ==
  <<Int64("ControlSessionId"), Int64("CorrelationId"), Int64("RecordingId")>>
StopPositionRequest == Message("StopPositionRequest", 15, 24, StopPositionRequestFields)

StopRecordingByIdentityRequestFields ==
  <<Int64("ControlSessionId"), Int64("CorrelationId"), Int64("RecordingId")>>
StopRecordingByIdentityRequest == Message("StopRecordingByIdentityRequest", 65, 24, StopRecordingByIdentityRequestFields)

StopRecordingRequestFields ==
  <<Int64("ControlSessionId"), Int64("CorrelationId"), Int32("StreamId"),
    Data("Channel")>>
StopRecordingRequest == Message("StopRecordingRequest", 5, 20, StopRecordingRequestFields)

StopRecordingSubscriptionRequestFields ==
  <<Int64("ControlSessionId"), Int64("CorrelationId"), Int64("SubscriptionId")>>
StopRecordingSubscriptionRequest == Message("StopRecordingSubscriptionRequest", 14, 24, StopRecordingSubscriptionRequestFields)

StopReplayRequestFields ==
  <<Int64("ControlSessionId"), Int64("CorrelationId"),
    Int64("ReplaySessionId")>>
StopReplayRequest == Message("StopReplayRequest", 7, 24, StopReplayRequestFields)

StopReplicationRequestFields ==
  <<Int64("ControlSessionId"), Int64("CorrelationId"), Int64("ReplicationId")>>
StopReplicationRequest == Message("StopReplicationRequest", 51, 24, StopReplicationRequestFields)

TaggedReplicateRequestFields ==
  <<Int64("ControlSessionId"), Int64("CorrelationId"),
    Int64("SrcRecordingId"), Int64("DstRecordingId"), Int64("ChannelTagId"),
    Int64("SubscriptionTagId"), Int32("SrcControlStreamId"),
    Data("SrcControlChannel"), Data("LiveDestination")>>
TaggedReplicateRequest == Message("TaggedReplicateRequest", 62, 52, TaggedReplicateRequestFields)

TruncateRecordingRequestFields ==
  <<Int64("ControlSessionId"), Int64("CorrelationId"), Int64("RecordingId"),
    Int64("Position")>>
TruncateRecordingRequest == Message("TruncateRecordingRequest", 13, 32, TruncateRecordingRequestFields)

---------------------------------------------------------------------------
Messages ==
  {AttachSegmentsRequest, AuthConnectRequest, BoundedReplayRequest,
    CatalogHeader, Challenge, ChallengeResponse, CloseSessionRequest,
    ConnectRequest, ControlResponse, DeleteDetachedSegmentsRequest,
    DetachSegmentsRequest, ExtendRecordingRequest, ExtendRecordingRequest2,
    FindLastMatchingRecordingRequest, KeepAliveRequest, ListRecordingRequest,
    ListRecordingSubscriptionsRequest, ListRecordingsForUriRequest,
    ListRecordingsRequest, MigrateSegmentsRequest, PurgeRecordingRequest,
    PurgeSegmentsRequest, RecordingDescriptor, RecordingDescriptorHeader,
    RecordingPositionRequest, RecordingProgress, RecordingSignalEvent,
    RecordingStarted, RecordingStopped, RecordingSubscriptionDescriptor,
    ReplayRequest, ReplicateRequest, ReplicateRequest2, StartPositionRequest,
    StartRecordingRequest, StartRecordingRequest2, StopAllReplaysRequest,
    StopPositionRequest, StopRecordingByIdentityRequest, StopRecordingRequest,
    StopRecordingSubscriptionRequest, StopReplayRequest,
    StopReplicationRequest, TaggedReplicateRequest, TruncateRecordingRequest}
Schema == [name |-> "archive", id |-> 101, version |-> 6]
===========================================================================
