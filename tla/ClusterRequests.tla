--------------------------- MODULE ClusterRequests ---------------------------
(*
  What the cluster client and the service container write and read without a
  generated codec, and the encoders they call by position.  The hot messages
  are written into a buffer at byte offsets, and the adapters dispatch on
  template ids of their own and take fields out of the buffer by offset.
*)
EXTENDS ClusterCodecs, TLC

---------------------------------------------------------------------------
(* constants.go *)

SBEHeaderLength == 8
ClusterSchemaId == 111
ClusterSchemaVersion == 16
SessionMessageHdrBlockLength == 24

SessionMessageHeaderTemplateId == 1
SessionEventTemplateId == 2
SessionCloseRequestTemplateId == 4
SessionKeepAliveTemplateId == 5
NewLeaderEventTemplateId == 6
ChallengeTemplateId == 7
timerEventTemplateId == 20
sessionOpenTemplateId == 21
sessionCloseTemplateId == 22
clusterActionReqTemplateId == 23
newLeadershipTermTemplateId == 24
membershipChangeTemplateId == 25
scheduleTimerTemplateId == 31
cancelTimerTemplateId == 32
joinLogTemplateId == 40
serviceTerminationPosTemplateId == 42
snapshotMarkerTemplateId == 100
clientSessionTemplateId == 102
requestServiceAckTemplateId == 108

---------------------------------------------------------------------------
(* Buffers *)

Put(buf, offset, b) ==
  [i \in DOMAIN buf |-> IF offset < i /\ i <= offset + Len(b) THEN b[i - offset] ELSE buf[i]]

PutUInt16(buf, offset, v) == Put(buf, offset, Bytes("num", v, 2))
PutInt64(buf, offset, v)  == Put(buf, offset, Bytes("val", v, 8))

GetValue(w, offset, n) ==
  LET b == SubSeq(w, offset + 1, offset + n)
  IN  IF offset + n <= Len(w) /\ Aligned(b, "val") THEN b[1].v ELSE "garbage"

GetInt64(w, offset) == GetValue(w, offset, 8)
GetInt32(w, offset) == GetValue(w, offset, 4)

MakeClusterMessageBuffer(templateId, blockLength) ==
  WriteHeader(blockLength, templateId, 111, 16)
    \o FlattenSeq([i \in 1..(blockLength \div 8) |-> Bytes("val", "zero", 8)])

\* consensusModuleProxy.initBuffer: one buffer is reused, with what was in it
initBuffer(stale, templateId, blockLength) ==
  PutUInt16(PutUInt16(PutUInt16(PutUInt16(stale, 0, blockLength), 2, templateId),
                      4, ClusterSchemaId), 6, ClusterSchemaVersion)

---------------------------------------------------------------------------
(* Written by offset *)

scheduleTimer(stale, correlationId, deadline) ==
  LET buf == initBuffer(stale, scheduleTimerTemplateId, 16)
  IN  SubSeq(PutInt64(PutInt64(buf, SBEHeaderLength, correlationId), SBEHeaderLength + 8, deadline),
             1, SBEHeaderLength + 16)

cancelTimer(stale, correlationId) ==
  SubSeq(PutInt64(initBuffer(stale, cancelTimerTemplateId, 8), SBEHeaderLength, correlationId),
         1, SBEHeaderLength + 8)

\* ClusteredServiceAgent.offerToSession, into the header recoverState began
offerToSession(leadershipTermId, clusterSessionId, clusterTime) ==
  LET hdr == PutInt64(MakeClusterMessageBuffer(SessionMessageHeaderTemplateId, SessionMessageHdrBlockLength),
                      SBEHeaderLength, leadershipTermId)
  IN  PutInt64(PutInt64(hdr, SBEHeaderLength + 8, clusterSessionId), SBEHeaderLength + 16, clusterTime)

\* AeronCluster.Offer, with the header as the connect reply left it; no timestamp
sessionMessage(leadershipTermId, clusterSessionId) ==
  PutInt64(PutInt64(MakeClusterMessageBuffer(SessionMessageHeaderTemplateId, SessionMessageHdrBlockLength),
                    SBEHeaderLength, leadershipTermId), SBEHeaderLength + 8, clusterSessionId)

SendKeepAlive(leadershipTermId, clusterSessionId) ==
  PutInt64(PutInt64(MakeClusterMessageBuffer(SessionKeepAliveTemplateId, 16),
                    SBEHeaderLength, leadershipTermId), SBEHeaderLength + 8, clusterSessionId)

sendCloseSession(leadershipTermId, clusterSessionId) ==
  PutInt64(PutInt64(MakeClusterMessageBuffer(SessionCloseRequestTemplateId, 16),
                    SBEHeaderLength, leadershipTermId), SBEHeaderLength + 8, clusterSessionId)

---------------------------------------------------------------------------
(* Written by a generated codec (codecs/encoders.go, client/aeron_cluster.go) *)

Packet(msg, values) ==
  WriteHeader(msg.blockLength, msg.templateId, Schema.id, Schema.version)
    \o Encode(values @@ Fresh(msg.fields), msg.fields)

ServiceAckRequestPacket(logPosition, timestamp, ackID, relevantID, serviceID) ==
  Packet(ServiceAck, [LogPosition |-> logPosition, Timestamp |-> timestamp, AckId |-> ackID,
                      RelevantId |-> relevantID, ServiceId |-> serviceID])

SnapshotMarkerPacket(typeId, logPosition, leadershipTermId, index, mark, timeUnit, appVersion) ==
  Packet(SnapshotMarker, [TypeId |-> typeId, LogPosition |-> logPosition,
                          LeadershipTermId |-> leadershipTermId, Index |-> index, Mark |-> mark,
                          TimeUnit |-> timeUnit, AppVersion |-> appVersion])

ClientSessionPacket(clusterSessionId, responseStreamId, responseChannel, encodedPrincipal) ==
  Packet(ClientSession, [ClusterSessionId |-> clusterSessionId, ResponseStreamId |-> responseStreamId,
                         ResponseChannel |-> responseChannel, EncodedPrincipal |-> encodedPrincipal])

CloseSessionRequestPacket(clusterSessionId) ==
  Packet(CloseSession, [ClusterSessionId |-> clusterSessionId])

sendConnectRequest(correlationId, egressStreamId, version, responseChannel) ==
  Packet(SessionConnectRequest, [CorrelationId |-> correlationId, ResponseStreamId |-> egressStreamId,
                                 Version |-> version, ResponseChannel |-> responseChannel])

---------------------------------------------------------------------------
(* Read by offset: what each adapter takes from a message, by the name of   *)
(* the field its handler's parameter stands for.  o: past the header        *)

\* boundedLogAdapter.onMessage
logAdapterReads(w, templateId) ==
  LET o == SBEHeaderLength IN
  CASE templateId = timerEventTemplateId ->
         [CorrelationId |-> GetInt64(w, o + 8), Timestamp |-> GetInt64(w, o + 16)]
    [] templateId = sessionCloseTemplateId ->
         [LeadershipTermId |-> GetInt64(w, o), ClusterSessionId |-> GetInt64(w, o + 8),
          Timestamp |-> GetInt64(w, o + 16), CloseReason |-> GetInt32(w, o + 24)]
    [] templateId = SessionMessageHeaderTemplateId ->
         [ClusterSessionId |-> GetInt64(w, o + 8), Timestamp |-> GetInt64(w, o + 16)]
    [] OTHER -> <<>>

\* serviceAdapter.onFragment
serviceAdapterReads(w, templateId) ==
  IF templateId \in {serviceTerminationPosTemplateId, requestServiceAckTemplateId}
  THEN [LogPosition |-> GetInt64(w, SBEHeaderLength)] ELSE <<>>

\* AeronCluster.onSessionMessage
egressReads(w, templateId) ==
  IF templateId = SessionMessageHeaderTemplateId
  THEN [LeadershipTermId |-> GetInt64(w, SBEHeaderLength), ClusterSessionId |-> GetInt64(w, SBEHeaderLength + 8),
        Timestamp |-> GetInt64(w, SBEHeaderLength + 16)] ELSE <<>>

\* Which codec each adapter decodes a template id with
logAdapterCodec ==
  sessionOpenTemplateId :> SessionOpenEvent @@ clusterActionReqTemplateId :> ClusterActionRequest
    @@ newLeadershipTermTemplateId :> NewLeadershipTermEvent
    @@ membershipChangeTemplateId :> MembershipChangeEvent
serviceAdapterCodec == joinLogTemplateId :> JoinLog
egressCodec ==
  SessionEventTemplateId :> SessionEvent @@ NewLeaderEventTemplateId :> NewLeaderEvent
    @@ ChallengeTemplateId :> Challenge
snapshotLoaderCodec ==
  snapshotMarkerTemplateId :> SnapshotMarker @@ clientSessionTemplateId :> ClientSession
===========================================================================
