----------------------------- MODULE ClusterCodecs -----------------------------
(*
  The messages of the cluster protocol (cluster/codecs): schema 111, version 16.
  For each generated file <Message>.go, <Message>Fields has the fields in
  wire order with what the field functions say of them (since which version,
  optional or not, what is in range), and <Message> the template id, the
  length of the fixed block and the order in which Encode, Decode and
  RangeCheck take the fields.
*)
EXTENDS Sbe

---------------------------------------------------------------------------
(* Enumerations, by number *)

AdminRequestType == <<"SNAPSHOT">>
AdminResponseCode == <<"OK", "ERROR", "UNAUTHORISED_ACCESS">>
BooleanType == <<"FALSE", "TRUE">>
ChangeType == <<"JOIN", "QUIT">>
CloseReason == <<"CLIENT_ACTION", "SERVICE_ACTION", "TIMEOUT">>
ClusterAction == <<"SUSPEND", "RESUME", "SNAPSHOT">>
ClusterTimeUnit == <<"MILLIS", "MICROS", "NANOS">>
EventCode == <<"OK", "ERROR", "REDIRECT", "AUTHENTICATION_REJECTED", "CLOSED">>
SnapshotMark == <<"BEGIN", "SECTION", "END">>

---------------------------------------------------------------------------
(* Messages *)

AddPassiveMemberFields ==
  <<Int64("CorrelationId"), Ascii("MemberEndpoints")>>
AddPassiveMember == Message("AddPassiveMember", 70, 8, AddPassiveMemberFields)

AdminRequestFields ==
  <<Int64("LeadershipTermId"), Int64("ClusterSessionId"),
    Int64("CorrelationId"), Enum("RequestType", AdminRequestType),
    Data("Payload")>>
AdminRequest == Message("AdminRequest", 26, 28, AdminRequestFields)

AdminResponseFields ==
  <<Int64("ClusterSessionId"), Int64("CorrelationId"),
    Enum("RequestType", AdminRequestType),
    Enum("ResponseCode", AdminResponseCode), Ascii("Message"), Data("Payload")>>
AdminResponse == Message("AdminResponse", 27, 24, AdminResponseFields)

AppendPositionFields ==
  <<Int64("LeadershipTermId"), Int64("LogPosition"),
    Int32("FollowerMemberId"), Since(8, Int8("Flags"))>>
AppendPosition == Message("AppendPosition", 54, 21, AppendPositionFields)

BackupQueryFields ==
  <<Int64("CorrelationId"), Int32("ResponseStreamId"),
    Since(2, Ranged(Int32("Version"))),
    Since(16, Optional(Int64("LogPosition"))), Ascii("ResponseChannel"),
    Data("EncodedCredentials")>>
BackupQuery == Message("BackupQuery", 77, 24, BackupQueryFields)

BackupResponseSnapshotsFields ==
  <<Int64("RecordingId"), Int64("LeadershipTermId"),
    Int64("TermBaseLogPosition"), Int64("LogPosition"), Int64("Timestamp"),
    Int32("ServiceId")>>
BackupResponseSnapshots == Group("Snapshots", 44, BackupResponseSnapshotsFields)
BackupResponseFields ==
  <<Int64("CorrelationId"), Int64("LogRecordingId"),
    Int64("LogLeadershipTermId"), Int64("LogTermBaseLogPosition"),
    Int64("LastLeadershipTermId"), Int64("LastTermBaseLogPosition"),
    Int32("CommitPositionCounterId"), Int32("LeaderMemberId"),
    Since(10, Int32("MemberId")), BackupResponseSnapshots,
    Ascii("ClusterMembers")>>
BackupResponse == Message("BackupResponse", 78, 60, BackupResponseFields)

CancelTimerFields ==
  <<Int64("CorrelationId")>>
CancelTimer == Message("CancelTimer", 32, 8, CancelTimerFields)

CanvassPositionFields ==
  <<Int64("LogLeadershipTermId"), Int64("LogPosition"),
    Int64("LeadershipTermId"), Int32("FollowerMemberId"),
    Since(9, Ranged(Int32("ProtocolVersion")))>>
CanvassPosition == Message("CanvassPosition", 50, 32, CanvassPositionFields)

CatchupPositionFields ==
  <<Int64("LeadershipTermId"), Int64("LogPosition"),
    Int32("FollowerMemberId"), Ascii("CatchupEndpoint")>>
CatchupPosition == Message("CatchupPosition", 56, 20, CatchupPositionFields)

ChallengeFields ==
  <<Int64("CorrelationId"), Int64("ClusterSessionId"),
    Data("EncodedChallenge")>>
Challenge == Message("Challenge", 7, 16, ChallengeFields)

ChallengeResponseFields ==
  <<Int64("CorrelationId"), Int64("ClusterSessionId"),
    Data("EncodedCredentials")>>
ChallengeResponse == Message("ChallengeResponse", 8, 16, ChallengeResponseFields)

ClientSessionFields ==
  <<Int64("ClusterSessionId"), Int32("ResponseStreamId"),
    Ascii("ResponseChannel"), Data("EncodedPrincipal")>>
ClientSession == Message("ClientSession", 102, 12, ClientSessionFields)

CloseSessionFields ==
  <<Int64("ClusterSessionId")>>
CloseSession == Message("CloseSession", 30, 8, CloseSessionFields)

ClusterActionRequestFields ==
  <<Int64("LeadershipTermId"), Int64("LogPosition"), Int64("Timestamp"),
    Enum("Action", ClusterAction), Since(11, Optional(Int32("Flags")))>>
ClusterActionRequest == Message("ClusterActionRequest", 23, 32, ClusterActionRequestFields)

ClusterMembersFields ==
  <<Int32("MemberId"), Int32("HighMemberId"), Ascii("ClusterMembers")>>
ClusterMembers == Message("ClusterMembers", 106, 8, ClusterMembersFields)

ClusterMembersChangeFields ==
  <<Int64("CorrelationId"), Int32("LeaderMemberId"), Ascii("ActiveMembers"),
    Ascii("PassiveMembers")>>
ClusterMembersChange == Message("ClusterMembersChange", 71, 12, ClusterMembersChangeFields)

ClusterMembersExtendedResponseActiveMembersFields ==
  <<Int64("LeadershipTermId"), Int64("LogPosition"),
    Int64("TimeOfLastAppendNs"), Int32("MemberId"), Ascii("IngressEndpoint"),
    Ascii("ConsensusEndpoint"), Ascii("LogEndpoint"),
    Ascii("CatchupEndpoint"), Ascii("ArchiveEndpoint")>>
ClusterMembersExtendedResponseActiveMembers == Group("ActiveMembers", 28, ClusterMembersExtendedResponseActiveMembersFields)
ClusterMembersExtendedResponsePassiveMembersFields ==
  <<Int64("LeadershipTermId"), Int64("LogPosition"),
    Int64("TimeOfLastAppendNs"), Int32("MemberId"), Ascii("IngressEndpoint"),
    Ascii("ConsensusEndpoint"), Ascii("LogEndpoint"),
    Ascii("CatchupEndpoint"), Ascii("ArchiveEndpoint")>>
ClusterMembersExtendedResponsePassiveMembers == Group("PassiveMembers", 28, ClusterMembersExtendedResponsePassiveMembersFields)
ClusterMembersExtendedResponseFields ==
  <<Int64("CorrelationId"), Int64("CurrentTimeNs"), Int32("LeaderMemberId"),
    Int32("MemberId"), ClusterMembersExtendedResponseActiveMembers,
    ClusterMembersExtendedResponsePassiveMembers>>
ClusterMembersExtendedResponse == Message("ClusterMembersExtendedResponse", 43, 24, ClusterMembersExtendedResponseFields)

ClusterMembersQueryFields ==
  <<Int64("CorrelationId"), Since(5, Enum("Extended", BooleanType))>>
ClusterMembersQuery == Message("ClusterMembersQuery", 34, 12, ClusterMembersQueryFields)

ClusterMembersResponseFields ==
  <<Int64("CorrelationId"), Int32("LeaderMemberId"), Ascii("ActiveMembers"),
    Ascii("PassiveFollowers")>>
ClusterMembersResponse == Message("ClusterMembersResponse", 41, 12, ClusterMembersResponseFields)

ClusterSessionFields ==
  <<Int64("ClusterSessionId"), Int64("CorrelationId"),
    Int64("OpenedLogPosition"), Int64("TimeOfLastActivity"),
    Enum("CloseReason", CloseReason), Int32("ResponseStreamId"),
    Ascii("ResponseChannel")>>
ClusterSession == Message("ClusterSession", 103, 40, ClusterSessionFields)

CommitPositionFields ==
  <<Int64("LeadershipTermId"), Int64("LogPosition"), Int32("LeaderMemberId")>>
CommitPosition == Message("CommitPosition", 55, 20, CommitPositionFields)

ConsensusModuleFields ==
  <<Int64("NextSessionId"), Since(3, Optional(Int64("NextServiceSessionId"))),
    Since(3, Optional(Int64("LogServiceSessionId"))),
    Since(3, Ranged(Int32("PendingMessageCapacity")))>>
ConsensusModule == Message("ConsensusModule", 105, 28, ConsensusModuleFields)

HeartbeatRequestFields ==
  <<Int64("CorrelationId"), Int32("ResponseStreamId"),
    Ascii("ResponseChannel"), Data("EncodedCredentials")>>
HeartbeatRequest == Message("HeartbeatRequest", 79, 12, HeartbeatRequestFields)

HeartbeatResponseFields ==
  <<Int64("CorrelationId")>>
HeartbeatResponse == Message("HeartbeatResponse", 80, 8, HeartbeatResponseFields)

JoinClusterFields ==
  <<Int64("LeadershipTermId"), Int32("MemberId")>>
JoinCluster == Message("JoinCluster", 74, 12, JoinClusterFields)

JoinLogFields ==
  <<Int64("LogPosition"), Int64("MaxLogPosition"), Int32("MemberId"),
    Int32("LogSessionId"), Int32("LogStreamId"),
    Enum("IsStartup", BooleanType), Int32("Role"),
    Since(16, Enum("IsStandby", BooleanType)), Ascii("LogChannel")>>
JoinLog == Message("JoinLog", 40, 40, JoinLogFields)

MembershipChangeEventFields ==
  <<Int64("LeadershipTermId"), Int64("LogPosition"), Int64("Timestamp"),
    Int32("LeaderMemberId"), Int32("ClusterSize"),
    Enum("ChangeType", ChangeType), Int32("MemberId"), Ascii("ClusterMembers")>>
MembershipChangeEvent == Message("MembershipChangeEvent", 25, 40, MembershipChangeEventFields)

NewLeaderEventFields ==
  <<Int64("LeadershipTermId"), Int64("ClusterSessionId"),
    Int32("LeaderMemberId"), Ascii("IngressEndpoints")>>
NewLeaderEvent == Message("NewLeaderEvent", 6, 20, NewLeaderEventFields)

NewLeadershipTermFields ==
  <<Int64("LogLeadershipTermId"), Int64("NextLeadershipTermId"),
    Int64("NextTermBaseLogPosition"), Int64("NextLogPosition"),
    Int64("LeadershipTermId"), Int64("TermBaseLogPosition"),
    Int64("LogPosition"), Int64("LeaderRecordingId"), Int64("Timestamp"),
    Int32("LeaderMemberId"), Int32("LogSessionId"),
    Ranged(Int32("AppVersion")), Enum("IsStartup", BooleanType),
    Since(15, Int64("CommitPosition"))>>
NewLeadershipTerm == Message("NewLeadershipTerm", 53, 96, NewLeadershipTermFields)

NewLeadershipTermEventFields ==
  <<Int64("LeadershipTermId"), Int64("LogPosition"), Int64("Timestamp"),
    Int64("TermBaseLogPosition"), Int32("LeaderMemberId"),
    Int32("LogSessionId"), Since(4, Enum("TimeUnit", ClusterTimeUnit)),
    Since(4, Ranged(Int32("AppVersion")))>>
NewLeadershipTermEvent == Message("NewLeadershipTermEvent", 24, 48, NewLeadershipTermEventFields)

PendingMessageTrackerFields ==
  <<Int64("NextServiceSessionId"), Int64("LogServiceSessionId"),
    Ranged(Int32("PendingMessageCapacity")), Int32("ServiceId")>>
PendingMessageTracker == Message("PendingMessageTracker", 107, 24, PendingMessageTrackerFields)

RemoveMemberFields ==
  <<Int32("MemberId"), Enum("IsPassive", BooleanType)>>
RemoveMember == Message("RemoveMember", 35, 8, RemoveMemberFields)

RequestServiceAckFields ==
  <<Int64("LogPosition")>>
RequestServiceAck == Message("RequestServiceAck", 108, 8, RequestServiceAckFields)

RequestVoteFields ==
  <<Int64("LogLeadershipTermId"), Int64("LogPosition"),
    Int64("CandidateTermId"), Int32("CandidateMemberId"),
    Since(9, Ranged(Int32("ProtocolVersion")))>>
RequestVote == Message("RequestVote", 51, 32, RequestVoteFields)

ScheduleTimerFields ==
  <<Int64("CorrelationId"), Int64("Deadline")>>
ScheduleTimer == Message("ScheduleTimer", 31, 16, ScheduleTimerFields)

ServiceAckFields ==
  <<Int64("LogPosition"), Int64("Timestamp"), Int64("AckId"),
    Int64("RelevantId"), Int32("ServiceId")>>
ServiceAck == Message("ServiceAck", 33, 36, ServiceAckFields)

ServiceTerminationPositionFields ==
  <<Int64("LogPosition")>>
ServiceTerminationPosition == Message("ServiceTerminationPosition", 42, 8, ServiceTerminationPositionFields)

SessionCloseEventFields ==
  <<Int64("LeadershipTermId"), Int64("ClusterSessionId"), Int64("Timestamp"),
    Enum("CloseReason", CloseReason)>>
SessionCloseEvent == Message("SessionCloseEvent", 22, 28, SessionCloseEventFields)

SessionCloseRequestFields ==
  <<Int64("LeadershipTermId"), Int64("ClusterSessionId")>>
SessionCloseRequest == Message("SessionCloseRequest", 4, 16, SessionCloseRequestFields)

SessionConnectRequestFields ==
  <<Int64("CorrelationId"), Int32("ResponseStreamId"),
    Since(2, Ranged(Int32("Version"))), Ascii("ResponseChannel"),
    Data("EncodedCredentials"), Since(14, Ascii("ClientInfo"))>>
SessionConnectRequest == Message("SessionConnectRequest", 3, 16, SessionConnectRequestFields)

SessionEventFields ==
  <<Int64("ClusterSessionId"), Int64("CorrelationId"),
    Int64("LeadershipTermId"), Int32("LeaderMemberId"),
    Enum("Code", EventCode), Since(6, Ranged(Int32("Version"))),
    Since(13, Optional(Int64("LeaderHeartbeatTimeoutNs"))), Ascii("Detail")>>
SessionEvent == Message("SessionEvent", 2, 44, SessionEventFields)

SessionKeepAliveFields ==
  <<Int64("LeadershipTermId"), Int64("ClusterSessionId")>>
SessionKeepAlive == Message("SessionKeepAlive", 5, 16, SessionKeepAliveFields)

SessionMessageHeaderFields ==
  <<Int64("LeadershipTermId"), Int64("ClusterSessionId"), Int64("Timestamp")>>
SessionMessageHeader == Message("SessionMessageHeader", 1, 24, SessionMessageHeaderFields)

SessionOpenEventFields ==
  <<Int64("LeadershipTermId"), Int64("CorrelationId"),
    Int64("ClusterSessionId"), Int64("Timestamp"), Int32("ResponseStreamId"),
    Ascii("ResponseChannel"), Data("EncodedPrincipal")>>
SessionOpenEvent == Message("SessionOpenEvent", 21, 36, SessionOpenEventFields)

SnapshotMarkerFields ==
  <<Int64("TypeId"), Int64("LogPosition"), Int64("LeadershipTermId"),
    Int32("Index"), Enum("Mark", SnapshotMark),
    Since(4, Enum("TimeUnit", ClusterTimeUnit)),
    Since(4, Ranged(Int32("AppVersion")))>>
SnapshotMarker == Message("SnapshotMarker", 100, 40, SnapshotMarkerFields)

SnapshotRecordingQueryFields ==
  <<Int64("CorrelationId"), Int32("RequestMemberId")>>
SnapshotRecordingQuery == Message("SnapshotRecordingQuery", 72, 12, SnapshotRecordingQueryFields)

SnapshotRecordingsSnapshotsFields ==
  <<Int64("RecordingId"), Int64("LeadershipTermId"),
    Int64("TermBaseLogPosition"), Int64("LogPosition"), Int64("Timestamp"),
    Int32("ServiceId")>>
SnapshotRecordingsSnapshots == Group("Snapshots", 44, SnapshotRecordingsSnapshotsFields)
SnapshotRecordingsFields ==
  <<Int64("CorrelationId"), SnapshotRecordingsSnapshots,
    Ascii("MemberEndpoints")>>
SnapshotRecordings == Message("SnapshotRecordings", 73, 8, SnapshotRecordingsFields)

StandbySnapshotSnapshotsFields ==
  <<Int64("RecordingId"), Int64("LeadershipTermId"),
    Int64("TermBaseLogPosition"), Int64("LogPosition"), Int64("Timestamp"),
    Int32("ServiceId"), Ascii("ArchiveEndpoint")>>
StandbySnapshotSnapshots == Group("Snapshots", 44, StandbySnapshotSnapshotsFields)
StandbySnapshotFields ==
  <<Int64("CorrelationId"), Int32("Version"), Int32("ResponseStreamId"),
    StandbySnapshotSnapshots, Ascii("ResponseChannel"),
    Data("EncodedCredentials")>>
StandbySnapshot == Message("StandbySnapshot", 81, 16, StandbySnapshotFields)

StopCatchupFields ==
  <<Int64("LeadershipTermId"), Int32("FollowerMemberId")>>
StopCatchup == Message("StopCatchup", 57, 12, StopCatchupFields)

TerminationAckFields ==
  <<Int64("LeadershipTermId"), Int64("LogPosition"), Int32("MemberId")>>
TerminationAck == Message("TerminationAck", 76, 20, TerminationAckFields)

TerminationPositionFields ==
  <<Int64("LeadershipTermId"), Int64("LogPosition")>>
TerminationPosition == Message("TerminationPosition", 75, 16, TerminationPositionFields)

TimerFields ==
  <<Int64("CorrelationId"), Int64("Deadline")>>
Timer == Message("Timer", 104, 16, TimerFields)

TimerEventFields ==
  <<Int64("LeadershipTermId"), Int64("CorrelationId"), Int64("Timestamp")>>
TimerEvent == Message("TimerEvent", 20, 24, TimerEventFields)

VoteFields ==
  <<Int64("CandidateTermId"), Int64("LogLeadershipTermId"),
    Int64("LogPosition"), Int32("CandidateMemberId"),
    Int32("FollowerMemberId"), Enum("Vote", BooleanType)>>
Vote == Message("Vote", 52, 36, VoteFields)

---------------------------------------------------------------------------
Messages ==
  {AddPassiveMember, AdminRequest, AdminResponse, AppendPosition,
    BackupQuery, BackupResponse, CancelTimer, CanvassPosition,
    CatchupPosition, Challenge, ChallengeResponse, ClientSession,
    CloseSession, ClusterActionRequest, ClusterMembers, ClusterMembersChange,
    ClusterMembersExtendedResponse, ClusterMembersQuery,
    ClusterMembersResponse, ClusterSession, CommitPosition, ConsensusModule,
    HeartbeatRequest, HeartbeatResponse, JoinCluster, JoinLog,
    MembershipChangeEvent, NewLeaderEvent, NewLeadershipTerm,
    NewLeadershipTermEvent, PendingMessageTracker, RemoveMember,
    RequestServiceAck, RequestVote, ScheduleTimer, ServiceAck,
    ServiceTerminationPosition, SessionCloseEvent, SessionCloseRequest,
    SessionConnectRequest, SessionEvent, SessionKeepAlive,
    SessionMessageHeader, SessionOpenEvent, SnapshotMarker,
    SnapshotRecordingQuery, SnapshotRecordings, StandbySnapshot, StopCatchup,
    TerminationAck, TerminationPosition, Timer, TimerEvent, Vote}
Schema == [name |-> "cluster", id |-> 111, version |-> 16]
===========================================================================
