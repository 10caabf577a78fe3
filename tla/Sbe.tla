------------------------------- MODULE Sbe -------------------------------
(***************************************************************************)
(* The Simple Binary Encoding used by the archive and cluster protocols:   *)
(* the marshaller (SbeMarshalling.go) and the shape every generated codec  *)
(* has (Encode, Decode, RangeCheck of <Message>.go).                       *)
(*                                                                         *)
(* A message is described by its fields in wire order.  A field value is   *)
(* what the codecs tell apart: for an integer a token, "null" for the      *)
(* field's NullValue (below MinValue where the range is all the others),   *)
(* "outside" for another value beyond Min/MaxValue, "zero" for a field Go  *)
(* left at zero; for an enum one of its names, "null" or "unlisted"; for   *)
(* variable-length data a sequence of characters; for a group a sequence   *)
(* of elements.                                                            *)
(*                                                                         *)
(* The wire is a sequence of bytes, each knowing the value it is part of   *)
(* and its place in it, so a read that is not aligned with a write yields  *)
(* garbage and not the value.                                              *)
(***************************************************************************)
EXTENDS Naturals, Sequences, SequencesExt

---------------------------------------------------------------------------
(* Fields.  bad is what RangeCheck refuses in the field.                   *)

Field(n, k, w, bad) ==
  [name |-> n, kind |-> k, width |-> w, since |-> 0, bad |-> bad, of |-> <<>>]

Int64(n) == Field(n, "int", 8, {"null"})
Int32(n) == Field(n, "int", 4, {"null"})
Int8(n)  == Field(n, "int", 1, {"null"})

\* An optional field may be null; Ranged is optional with a narrower range.
Optional(f) == [f EXCEPT !.bad = {}]
Ranged(f)   == [f EXCEPT !.bad = {"outside"}]
Since(v, f) == [f EXCEPT !.since = v]

\* values is listed by number, so its head is what Go's zero means.
Enum(n, values) == [Field(n, "enum", 4, {"unlisted"}) EXCEPT !.of = values]

Pad(w)   == Field("", "pad", w, {})
Data(n)  == Field(n, "var", 4, {})
Ascii(n) == Field(n, "var", 4, {"nonascii"})

\* width: the number of bytes of an element's fixed fields
Group(n, block, fields) == [Field(n, "group", block, {}) EXCEPT !.of = fields]

Message(n, id, block, fields) ==
  [name |-> n, templateId |-> id, blockLength |-> block, fields |-> fields]

IsFixed(f) == f.kind \in {"int", "enum", "pad"}
Fixed(fields)    == SelectSeq(fields, IsFixed)
Variable(fields) == SelectSeq(fields, LAMBDA f : ~IsFixed(f))

InActingVersion(f, actingVersion) == actingVersion >= f.since

\* The message every decoder starts from: a Go struct no one has written to.
Fresh(fields) ==
  [n \in {fields[i].name : i \in DOMAIN fields} |->
     LET f == fields[CHOOSE i \in DOMAIN fields : fields[i].name = n]
     IN  CASE f.kind = "enum" -> Head(f.of)
           [] f.kind \in {"var", "group"} -> <<>>
           [] OTHER -> "zero"]

---------------------------------------------------------------------------
(* Marshalling *)

Bytes(tag, v, n) == [i \in 1..n |-> [tag |-> tag, v |-> v, i |-> i, n |-> n]]

WriteHeader(blockLength, templateId, schemaId, version) ==
  Bytes("num", blockLength, 2) \o Bytes("num", templateId, 2)
    \o Bytes("num", schemaId, 2) \o Bytes("num", version, 2)

Chars(s) == [i \in DOMAIN s |-> [tag |-> "chr", v |-> s[i], i |-> 1, n |-> 1]]

\* A field that is not a group
WriteField(m, f) ==
  CASE f.kind = "pad" -> Bytes("val", "pad", f.width)
    [] f.kind = "var" -> Bytes("num", Len(m[f.name]), 4) \o Chars(m[f.name])
    [] OTHER          -> Bytes("val", m[f.name], f.width)

WriteFields(m, fields) == FlattenSeq([i \in DOMAIN fields |-> WriteField(m, fields[i])])

WriteGroup(m, f) ==
  Bytes("num", f.width, 2) \o Bytes("num", Len(m[f.name]), 2)
    \o FlattenSeq([i \in DOMAIN m[f.name] |-> WriteFields(m[f.name][i], f.of)])

Encode(m, fields) ==
  FlattenSeq([i \in DOMAIN fields |->
                IF fields[i].kind = "group" THEN WriteGroup(m, fields[i])
                                            ELSE WriteField(m, fields[i])])

---------------------------------------------------------------------------
(* Reading: rd is the reader's position in the wire w, whether every read  *)
(* so far succeeded, and the message decoded so far.                       *)

Least(a, b) == IF a <= b THEN a ELSE b

Aligned(b, tag) == \A i \in DOMAIN b : b[i].tag = tag /\ b[i].i = i /\ b[i].n = Len(b)

\* io.ReadFull of n bytes: the bytes, and whether there were that many
ReadFull(w, pos, n) == [ok |-> pos + n <= Len(w), b |-> SubSeq(w, pos + 1, Least(pos + n, Len(w)))]

Fail(rd) == [rd EXCEPT !.ok = FALSE]

ReadValue(w, rd, f) ==
  LET r == ReadFull(w, rd.pos, f.width)
  IN  IF ~r.ok THEN Fail(rd)
      ELSE [rd EXCEPT !.pos = @ + f.width,
                      !.m[f.name] = IF r.b # <<>> /\ Aligned(r.b, "val") THEN r.b[1].v ELSE "garbage"]

\* An unsigned number of n bytes; misaligned bytes read as a number too large
ReadNumber(w, pos, n) ==
  LET r == ReadFull(w, pos, n)
  IN  [ok |-> r.ok, v |-> IF r.b # <<>> /\ Aligned(r.b, "num") THEN r.b[1].v ELSE Len(w) + 1]

ReadVar(w, rd, f) ==
  LET len == ReadNumber(w, rd.pos, 4)
      r   == ReadFull(w, rd.pos + 4, len.v)
  IN  IF ~len.ok \/ ~r.ok THEN Fail(rd)
      ELSE [rd EXCEPT !.pos = @ + 4 + len.v,
                      !.m[f.name] = [i \in DOMAIN r.b |-> IF r.b[i].tag = "chr" THEN r.b[i].v ELSE "garbage"]]

Skip(w, rd, n) == [rd EXCEPT !.pos = Least(@ + n, Len(w))]

\* Decode's treatment of one field that is not a group
DecodeField(w, rd, f, actingVersion) ==
  CASE ~rd.ok          -> rd
    [] f.kind = "pad"  -> Skip(w, rd, f.width)
    [] InActingVersion(f, actingVersion) ->
         IF f.kind = "var" THEN ReadVar(w, rd, f) ELSE ReadValue(w, rd, f)
    [] f.kind = "int"  -> [rd EXCEPT !.m[f.name] = "null"]
    [] OTHER           -> rd

DecodeFixed(w, rd, fields, actingVersion) ==
  FoldLeft(LAMBDA r, f : DecodeField(w, r, f, actingVersion), rd, Fixed(fields))

\* The bytes a newer peer's block has beyond ours; CopyN's error is ignored
Discard(w, rd, newer, surplus) ==
  IF rd.ok /\ newer /\ surplus > 0 THEN Skip(w, rd, surplus) ELSE rd

Surplus(theirs, ours) == IF theirs > ours THEN theirs - ours ELSE 0

DecodeElement(w, rd, f, theirs, actingVersion, version) ==
  LET fixed == Discard(w, DecodeFixed(w, [rd EXCEPT !.m = Fresh(f.of)], f.of, actingVersion),
                       actingVersion > version, Surplus(theirs, f.width))
      all   == FoldLeft(LAMBDA r, g : DecodeField(w, r, g, actingVersion), fixed, Variable(f.of))
  IN  [all EXCEPT !.m = [rd.m EXCEPT ![f.name] = Append(@, all.m)]]

DecodeGroup(w, rd, f, actingVersion, version) ==
  LET theirs == ReadNumber(w, rd.pos, 2)
      num    == ReadNumber(w, rd.pos + 2, 2)
  IN  IF ~theirs.ok \/ ~num.ok THEN Fail(rd)
      ELSE FoldLeft(LAMBDA r, i : IF r.ok THEN DecodeElement(w, r, f, theirs.v, actingVersion, version) ELSE r,
                    [rd EXCEPT !.pos = @ + 4], [i \in 1..num.v |-> i])

Decode(w, pos, msg, actingVersion, blockLength, version) ==
  LET fixed == Discard(w, DecodeFixed(w, [pos |-> pos, ok |-> TRUE, m |-> Fresh(msg.fields)],
                                      msg.fields, actingVersion),
                       actingVersion > version, Surplus(blockLength, msg.blockLength))
      step(r, f) == IF r.ok /\ f.kind = "group" /\ InActingVersion(f, actingVersion)
                    THEN DecodeGroup(w, r, f, actingVersion, version)
                    ELSE IF f.kind = "group" THEN r ELSE DecodeField(w, r, f, actingVersion)
  IN  FoldLeft(step, fixed, Variable(msg.fields))

---------------------------------------------------------------------------
(* Range checks *)

\* Mutated form: the check of a fixed field ignores the acting version
CheckFieldAlways(v, f, actingVersion, version) ==
  CASE f.kind = "enum" -> actingVersion > version \/ v \notin f.bad
    [] f.kind = "var"  -> \A i \in DOMAIN v : v[i] \notin f.bad
    [] OTHER           -> v \notin f.bad

\* Integers are checked if the acting version has them.  Enums always are,
\* unless the peer is newer; characters always are.
CheckField(v, f, actingVersion, version) ==
  CASE f.kind = "enum" -> actingVersion > version \/ v \notin f.bad
    [] f.kind = "var"  -> \A i \in DOMAIN v : v[i] \notin f.bad
    [] OTHER           -> InActingVersion(f, actingVersion) => v \notin f.bad

CheckFields(m, fields, actingVersion, version) ==
  \A i \in DOMAIN fields : LET f == fields[i] IN
    f.kind \in {"int", "enum", "var"} => CheckField(m[f.name], f, actingVersion, version)

RangeCheck(m, fields, actingVersion, version) ==
  /\ CheckFields(m, fields, actingVersion, version)
  /\ \A i \in DOMAIN fields : fields[i].kind = "group" =>
       \A j \in DOMAIN m[fields[i].name] :
         CheckFields(m[fields[i].name][j], fields[i].of, actingVersion, version)
===========================================================================
