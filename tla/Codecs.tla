------------------------------- MODULE Codecs -------------------------------
(*
  A channel between this client and the peers it shares the archive and the
  cluster protocol with.  Somebody writes a message: the client's own codec,
  a call of the archive API, one of the cluster's hand-filled buffers, or a
  peer whose schema is older or newer.  The message may arrive as its first
  fragment only, where the handler has no fragment assembler.  Then it is
  read: with a generated codec, or by offset.
*)
EXTENDS ArchiveRequests

C == INSTANCE ClusterRequests

VARIABLES sent,      \* the message under way, and what its writer meant
          received   \* what its reader made of it

vars == <<sent, received>>

Nothing == [by |-> "nobody"]

Protocol == [archive |-> [schema |-> Schema, messages |-> Messages],
             cluster |-> [schema |-> C!Schema, messages |-> C!Messages]]

Version(p) == Protocol[p].schema.version

SentMessage == CHOOSE msg \in Protocol[sent.protocol].messages : msg.name = sent.name

Init == sent = Nothing /\ received = Nothing

---------------------------------------------------------------------------
(* What is written *)

\* A value told apart from every other field's, and from Go's zero if it can be
RECURSIVE Ordinary(_)
Ordinary(fields) ==
  [n \in {fields[i].name : i \in DOMAIN fields} |->
     LET f == fields[CHOOSE i \in DOMAIN fields : fields[i].name = n]
     IN  CASE f.kind = "int"   -> f.name
           [] f.kind = "enum"  -> Last(f.of)
           [] f.kind = "var"   -> <<f.name, f.name>>
           [] f.kind = "group" -> <<Ordinary(f.of), Ordinary(f.of)>>
           [] OTHER            -> "zero"]

OddValues(f) ==
  CASE f.kind = "int"  -> {"null"} \cup (f.bad \cap {"outside"})
    [] f.kind = "enum" -> {"null", "unlisted"}
    [] f.kind = "var"  -> {<<>>, <<f.name, "nonascii">>}
    [] OTHER           -> {}

Illegal(f, v) == IF f.kind = "var" THEN \E i \in DOMAIN v : v[i] \in f.bad ELSE v \in f.bad

\* Ordinary messages with at most one odd value: the message, and whether the
\* schema allows it to a writer of its version.
OddMessages(fields, sinceUpTo) ==
  {[m |-> Ordinary(fields), legal |-> TRUE, odd |-> "none"]} \cup
  UNION {LET f == fields[i] IN
           IF f.kind = "group"
           THEN {[m |-> [Ordinary(fields) EXCEPT ![f.name] = <<>>], legal |-> TRUE, odd |-> "group"]} \cup
                UNION {{[m |-> [Ordinary(fields) EXCEPT ![f.name] =
                                  <<Ordinary(f.of), [Ordinary(f.of) EXCEPT ![f.of[j].name] = v]>>],
                         legal |-> ~Illegal(f.of[j], v), odd |-> f.of[j].kind] : v \in OddValues(f.of[j])}
                       : j \in DOMAIN f.of}
           ELSE {[m |-> [Ordinary(fields) EXCEPT ![f.name] = v],
                  legal |-> ~Illegal(f, v), odd |-> f.kind] : v \in OddValues(f)}
         : i \in {j \in DOMAIN fields : fields[j].since <= sinceUpTo}}

Width(fields) == FoldLeft(LAMBDA n, f : n + f.width, 0, Fixed(fields))

Write(p, msg, block, fields, m, version) ==
  WriteHeader(block, msg.templateId, Protocol[p].schema.id, version) \o Encode(m, fields)

\* Encode of a generated codec, which refuses what is out of range if asked to
SendOwn(p, msg, x, doRangeCheck) ==
  /\ sent = Nothing
  /\ sent' = [by |-> "codec", protocol |-> p, name |-> msg.name, version |-> Version(p),
              meant |-> x.m, legal |-> x.legal, cut |-> FALSE,
              refused |-> doRangeCheck /\ ~RangeCheck(x.m, msg.fields, Version(p), Version(p)),
              wire |-> Write(p, msg, msg.blockLength, msg.fields, x.m, Version(p))]
  /\ UNCHANGED received

\* A peer's version of the fields: an older one lacks the later fields, a newer
\* one has more in the block, in every group element, and at the end.
NewerElement(f) ==
  IF f.kind = "group"
  THEN [f EXCEPT !.of = Fixed(f.of) \o <<Int32("New")>> \o Variable(f.of), !.width = @ + 4] ELSE f

PeerFields(msg, version, ours) ==
  IF version > ours
  THEN Fixed(msg.fields) \o <<Int64("New")>>
         \o [i \in DOMAIN Variable(msg.fields) |-> NewerElement(Variable(msg.fields)[i])] \o <<Data("NewData")>>
  ELSE SelectSeq(msg.fields, LAMBDA f : f.since <= version)

PeerVersions(msg, ours) ==
  {ours + 1} \cup ({msg.fields[i].since : i \in DOMAIN msg.fields} \ {0})
    \cup {msg.fields[i].since - 1 : i \in {j \in DOMAIN msg.fields : msg.fields[j].since > 0}}

\* A newer peer's enums are not checked: it may have more of them.
PeerMessage(msg, x, version, ours) ==
  LET newerElements(n) == [j \in DOMAIN x.m[n] |-> x.m[n][j] @@ [New |-> "New"]]
      groups == {f.name : f \in {msg.fields[i] : i \in {j \in DOMAIN msg.fields : msg.fields[j].kind = "group"}}}
  IN  IF version > ours
      THEN [n \in groups |-> newerElements(n)] @@ x.m @@ [New |-> "New", NewData |-> <<"NewData">>]
      ELSE x.m

Absent(f) == CASE f.kind = "int" -> "null" [] f.kind = "enum" -> Head(f.of)
               [] f.kind \in {"var", "group"} -> <<>> [] OTHER -> "zero"

SendPeer(p, msg, x, version) ==
  /\ sent = Nothing
  /\ sent' = [by |-> "peer", protocol |-> p, name |-> msg.name, version |-> version,
              meant |-> [n \in {msg.fields[i].name : i \in DOMAIN msg.fields} |->
                           LET f == msg.fields[CHOOSE i \in DOMAIN msg.fields : msg.fields[i].name = n]
                           IN  IF f.since <= version THEN x.m[n] ELSE Absent(f)],
              legal |-> x.legal \/ (x.odd = "enum" /\ version > Version(p)),
              cut |-> FALSE, refused |-> FALSE,
              wire |-> LET fields == PeerFields(msg, version, Version(p))
                       IN  Write(p, msg, Width(fields), fields,
                                 PeerMessage(msg, x, version, Version(p)), version)]
  /\ UNCHANGED received

---------------------------------------------------------------------------
(* Calls.  Every argument is the token named after the field of the request *)
(* that the call's documentation says it is; with the request comes what    *)
(* else the request must hold.  b and c are the call's booleans.            *)

ArchiveCalls(b, c) ==
  {<<ProxyConnectRequest(CorrelationID, "ResponseStreamId", <<"ResponseChannel">>), <<>>>>,
   <<ProxyAuthConnectRequest(CorrelationID, "ResponseStreamId", <<"ResponseChannel">>, <<"EncodedCredentials">>), <<>>>>,
   <<ProxyChallengeResponse(CorrelationID, <<"EncodedCredentials">>), <<>>>>,
   <<ProxyCloseSessionRequest, <<>>>>,
   <<ProxyCatalogHeaderRequest("Version", "Length", "NextRecordingId", "Alignment"), [Reserved |-> "zero"]>>,
   <<StartRecording(<<"Channel">>, "StreamId", b, c),
     [SourceLocation |-> IF b THEN "LOCAL" ELSE "REMOTE", AutoStop |-> Boolean(c)]>>,
   <<StopRecording(<<"Channel">>, "StreamId"), <<>>>>,
   <<StopRecordingByIdentity("RecordingId"), <<>>>>,
   <<StopRecordingBySubscriptionId("SubscriptionId"), <<>>>>,
   <<AddRecordedPublication(<<"Channel">>, "SessionId", "StreamId"),
     [Channel |-> <<"Channel", "SessionId">>, SourceLocation |-> "LOCAL", AutoStop |-> "FALSE"]>>,
   <<ListRecordings("FromRecordingId", "RecordCount"), <<>>>>,
   <<ListRecordingsForUri("FromRecordingId", "RecordCount", <<"Channel">>, "StreamId"), <<>>>>,
   <<ListRecording("RecordingId"), <<>>>>,
   <<StartReplay("RecordingId", "Position", "Length", <<"ReplayChannel">>, "ReplayStreamId"), <<>>>>,
   <<BoundedReplay("RecordingId", "Position", "Length", "LimitCounterId", "ReplayStreamId", <<"ReplayChannel">>),
     <<>>>>,
   <<StopReplay("ReplaySessionId"), <<>>>>,
   <<StopAllReplays("RecordingId"), <<>>>>,
   <<ExtendRecording("RecordingId", "StreamId", (IF b THEN "LOCAL" ELSE "REMOTE"), c, <<"Channel">>),
     [SourceLocation |-> IF b THEN "LOCAL" ELSE "REMOTE", AutoStop |-> Boolean(c)]>>,
   <<GetRecordingPosition("RecordingId"), <<>>>>,
   <<TruncateRecording("RecordingId", "Position"), <<>>>>,
   <<GetStartPosition("RecordingId"), <<>>>>,
   <<GetStopPosition("RecordingId"), <<>>>>,
   <<FindLastMatchingRecording("MinRecordingId", "SessionId", "StreamId", <<"Channel">>), <<>>>>,
   <<ListRecordingSubscriptions("PseudoIndex", "SubscriptionCount", b, "StreamId", <<"Channel">>),
     [ApplyStreamId |-> Boolean(b)]>>,
   <<DetachSegments("RecordingId", "NewStartPosition"), <<>>>>,
   <<DeleteDetachedSegments("RecordingId"), <<>>>>,
   <<PurgeSegments("RecordingId", "NewStartPosition"), <<>>>>,
   <<AttachSegments("RecordingId"), <<>>>>,
   <<MigrateSegments("SrcRecordingId", "DstRecordingId"), <<>>>>,
   <<KeepAlive, <<>>>>,
   <<Replicate("SrcRecordingId", "DstRecordingId", "SrcControlStreamId", <<"SrcControlChannel">>, <<"LiveDestination">>),
     <<>>>>,
   <<Replicate2("SrcRecordingId", "DstRecordingId", "StopPosition", "ChannelTagId", "SrcControlStreamId", <<"SrcControlChannel">>, <<"LiveDestination">>, <<"ReplicationChannel">>),
     [SubscriptionTagId |-> "zero"]>>,
   <<TaggedReplicate("SrcRecordingId", "DstRecordingId", "ChannelTagId", "SubscriptionTagId", "SrcControlStreamId", <<"SrcControlChannel">>, <<"LiveDestination">>),
     <<>>>>,
   <<StopReplication("ReplicationId"), <<>>>>,
   <<PurgeRecording("RecordingId"), <<>>>>,
   <<StopRecordingByPublication(<<"Channel">>, "SessionId", "StreamId"),
     [Channel |-> <<"Channel", "SessionId">>]>>}

\* The field holds the argument named after it.
Named(f) == CASE f.kind = "var" -> <<f.name>> [] f.kind = "pad" -> "zero" [] OTHER -> f.name

Holding(msg, values) ==
  values @@ [n \in {msg.fields[i].name : i \in DOMAIN msg.fields} |->
               Named(msg.fields[CHOOSE i \in DOMAIN msg.fields : msg.fields[i].name = n])]

Call(r, values) ==
  /\ sent = Nothing
  /\ sent' = [by |-> "call", protocol |-> "archive", name |-> r.msg.name, version |-> Schema.version,
              meant |-> Holding(r.msg, values), legal |-> TRUE, cut |-> FALSE, refused |-> FALSE,
              wire |-> Write("archive", r.msg, r.msg.blockLength, r.msg.fields, r.m, Schema.version)]
  /\ UNCHANGED received

\* What an earlier message left in the reused buffer
Stale == Bytes("val", "stale", 40)

ClusterCalls ==
  {<<C!ScheduleTimer, C!scheduleTimer(Stale, "CorrelationId", "Deadline"), <<>>>>,
   <<C!CancelTimer, C!cancelTimer(Stale, "CorrelationId"), <<>>>>,
   <<C!SessionMessageHeader, C!offerToSession("LeadershipTermId", "ClusterSessionId", "Timestamp"), <<>>>>,
   <<C!SessionMessageHeader, C!sessionMessage("LeadershipTermId", "ClusterSessionId"), [Timestamp |-> "zero"]>>,
   <<C!SessionKeepAlive, C!SendKeepAlive("LeadershipTermId", "ClusterSessionId"), <<>>>>,
   <<C!SessionCloseRequest, C!sendCloseSession("LeadershipTermId", "ClusterSessionId"), <<>>>>,
   <<C!ServiceAck, C!ServiceAckRequestPacket("LogPosition", "Timestamp", "AckId", "RelevantId", "ServiceId"), <<>>>>,
   <<C!SnapshotMarker, C!SnapshotMarkerPacket("TypeId", "LogPosition", "LeadershipTermId", "Index", "END", "NANOS",
                                              "AppVersion"), [Mark |-> "END", TimeUnit |-> "NANOS"]>>,
   <<C!ClientSession, C!ClientSessionPacket("ClusterSessionId", "ResponseStreamId", <<"ResponseChannel">>,
                                            <<"EncodedPrincipal">>), <<>>>>,
   <<C!CloseSession, C!CloseSessionRequestPacket("ClusterSessionId"), <<>>>>,
   <<C!SessionConnectRequest, C!sendConnectRequest("CorrelationId", "ResponseStreamId", "Version",
        <<"ResponseChannel">>), [EncodedCredentials |-> <<>>, ClientInfo |-> <<>>]>>}

ClusterCall(msg, wire, values) ==
  /\ sent = Nothing
  /\ sent' = [by |-> "call", protocol |-> "cluster", name |-> msg.name, version |-> C!Schema.version,
              meant |-> Holding(msg, values), legal |-> TRUE, cut |-> FALSE, refused |-> FALSE, wire |-> wire]
  /\ UNCHANGED received

---------------------------------------------------------------------------
(* What arrives, and how it is read *)

\* The first fragment of a longer message, or of a recording cut short
Cut(n) ==
  /\ sent # Nothing /\ received = Nothing
  /\ sent.by = "codec" /\ ~sent.cut /\ ~sent.refused
  /\ sent.meant = Ordinary(SentMessage.fields)
  /\ sent' = [sent EXCEPT !.wire = SubSeq(@, 1, n), !.cut = TRUE]
  /\ UNCHANGED received

\* Decode of the header, then of the message its template id names
Receive(doRangeCheck) ==
  /\ sent # Nothing /\ received = Nothing /\ ~sent.refused
  /\ LET w       == sent.wire
         p       == sent.protocol
         msg     == CHOOSE x \in Protocol[p].messages : x.templateId = ReadNumber(w, 2, 2).v
         version == ReadNumber(w, 6, 2).v
         rd      == Decode(w, 8, msg, version, ReadNumber(w, 0, 2).v, Version(p))
     IN  received' = [by |-> "codec", name |-> msg.name, m |-> rd.m, checked |-> doRangeCheck,
                      ok |-> rd.ok /\ (doRangeCheck => RangeCheck(rd.m, msg.fields, version, Version(p)))]
  /\ UNCHANGED sent

\* The cluster's adapters, which dispatch on template ids of their own
Adapters ==
  {[codec |-> C!logAdapterCodec, reads |-> C!logAdapterReads(sent.wire, ReadNumber(sent.wire, 2, 2).v)],
   [codec |-> C!serviceAdapterCodec, reads |-> C!serviceAdapterReads(sent.wire, ReadNumber(sent.wire, 2, 2).v)],
   [codec |-> C!egressCodec, reads |-> C!egressReads(sent.wire, ReadNumber(sent.wire, 2, 2).v)],
   [codec |-> C!snapshotLoaderCodec, reads |-> <<>>]}

ReadByAdapter(a) ==
  /\ sent # Nothing /\ received = Nothing
  /\ ~sent.refused /\ ~sent.cut /\ sent.protocol = "cluster"
  /\ LET templateId == ReadNumber(sent.wire, 2, 2).v IN
     \/ /\ templateId \in DOMAIN a.codec
        /\ received' = [by |-> "dispatch", name |-> a.codec[templateId].name]
     \/ /\ DOMAIN a.reads # {}
        /\ received' = [by |-> "offset", m |-> a.reads]
  /\ UNCHANGED sent

\* The next message
Done ==
  /\ sent # Nothing /\ (received # Nothing \/ sent.refused)
  /\ sent' = Nothing /\ received' = Nothing

Next ==
  \/ \E p \in DOMAIN Protocol : \E msg \in Protocol[p].messages :
       \/ \E x \in OddMessages(msg.fields, Version(p)), check \in BOOLEAN : SendOwn(p, msg, x, check)
       \/ \E version \in PeerVersions(msg, Version(p)) :
            \E x \in OddMessages(msg.fields, version) : SendPeer(p, msg, x, version)
  \/ \E b, c \in BOOLEAN : \E r \in ArchiveCalls(b, c) : Call(r[1], r[2])
  \/ \E r \in ClusterCalls : ClusterCall(r[1], r[2], r[3])
  \/ sent # Nothing /\ \E n \in 8..(Len(sent.wire) - 1) : Cut(n)
  \/ \E check \in BOOLEAN : Receive(check)
  \/ sent # Nothing /\ \E a \in Adapters : ReadByAdapter(a)
  \/ Done

Spec == Init /\ [][Next]_vars

---------------------------------------------------------------------------
(* Properties *)

Decoded == received # Nothing /\ received.by = "codec"

(* What is read is what was meant.  A generated Decode that reports success  *)
(* yields the fields the peer wrote, whatever version the peer has and       *)
(* however much of the message arrived; what the peer's version lacks is     *)
(* null (integers), the first value (enums) or empty.  Through the three     *)
(* layers of positional parameters (archive.go, proxy.go, encoders.go) every *)
(* argument of a call arrives in the field it is meant for, and so do the    *)
(* cluster's hand-filled buffers.  And what an adapter reads by offset, or   *)
(* dispatches by a template id of its own, is the field and the message that *)
(* the generated codec wrote.                                                *)
ReceivedIsSent ==
  /\ Decoded /\ (received.ok \/ sent.by = "call") => received.name = sent.name /\ received.m = sent.meant
  /\ received # Nothing /\ received.by = "dispatch" => received.name = sent.name
  /\ received # Nothing /\ received.by = "offset" =>
       \A n \in DOMAIN received.m : received.m[n] = sent.meant[n]

(* A message that arrived whole is refused exactly if a range check was      *)
(* asked for and its writer put into it what the schema forbids: neither a   *)
(* field an older peer cannot have, nor an enum value only a newer one knows *)
(* makes RangeCheck fail.  The same holds of Encode.                         *)
RangeCheckIsExact ==
  /\ Decoded /\ ~sent.cut => (received.ok <=> (received.checked => sent.legal))
  /\ sent # Nothing /\ sent.refused => ~sent.legal
===========================================================================
