----------------------------- MODULE WireCodec -----------------------------
(***************************************************************************)
(* The binary form of the protocol's messages (swirldb-core:               *)
(* protocol/mod.rs).  A message is a tag and the fields of its type;       *)
(* strings, byte strings and lists are preceded by their length, of which  *)
(* the encoder writes the last 32 bits (`as u32`), and the decoder refuses *)
(* lengths beyond its limits.                                              *)
(*                                                                         *)
(* A frame is a sequence of numbers: a tag, a length, a sequence number or *)
(* one byte of a string each.  A frame cut inside one of the multi-byte    *)
(* numbers is refused like one cut before it.                              *)
(***************************************************************************)
EXTENDS Naturals, Sequences, SequencesExt

CONSTANTS
  MaxString, MaxBytes,                  \* MAX_STRING_LENGTH, MAX_BYTES_LENGTH
  MaxStrings, MaxChanges, MaxUpdates,   \* MAX_..._COUNT, MAX_EPHEMERAL_BATCH_SIZE
  Wrap,      \* 2^32: lengths are written modulo Wrap
  Longest,   \* bound: elements of any string or list
  Trailing   \* bound: bytes after a message

ASSUME WireConstantsOK ==
  /\ {MaxString, MaxBytes, MaxStrings, MaxChanges, MaxUpdates, Wrap, Longest, Trailing} \subseteq Nat
  /\ \A max \in {MaxString, MaxBytes, MaxStrings, MaxChanges, MaxUpdates} : max < Wrap

VARIABLES
  message,  \* a message that is sent
  frame     \* what arrives of it

wireVars == <<message, frame>>

-----------------------------------------------------------------------------
(* The fields of the messages, in their order. *)

Fields ==
  [Connect        |-> <<"string", "strings", "bytes">>,
   Sync           |-> <<"bytes", "changes">>,
   Push           |-> <<"bytes", "changes">>,
   Broadcast      |-> <<"string", "changes", "strings">>,
   PushAck        |-> <<"bytes">>,
   SubscribeAck   |-> <<"strings", "strings">>,
   Subscribe      |-> <<"strings", "strings">>,
   Ping           |-> <<>>,
   Pong           |-> <<>>,
   Ephemeral      |-> <<"string", "bytes">>,
   EphemeralBatch |-> <<"updates">>,
   EphemeralRelay |-> <<"string", "number", "strings", "updates">>,
   Error          |-> <<"string">>]

Type == DOMAIN Fields

\* MessageType
Tag ==
  [Connect |-> 1, Sync |-> 2, Push |-> 3, Broadcast |-> 4, PushAck |-> 5, SubscribeAck |-> 6,
   Subscribe |-> 7, Ping |-> 16, Pong |-> 17, Ephemeral |-> 32, EphemeralBatch |-> 33,
   EphemeralRelay |-> 37, Error |-> 255]

Update == <<"string", "bytes">>

-----------------------------------------------------------------------------
(* Encoding. *)

\* The elements of a list, each encoded, behind their number.
Counted(forms) == <<Len(forms) % Wrap>> \o FlattenSeq(forms)

WriteBytes(b) == <<Len(b) % Wrap>> \o b
WriteUpdate(u) == WriteBytes(u[1]) \o WriteBytes(u[2])

WriteField(kind, v) ==
  CASE kind \in {"string", "bytes"}    -> WriteBytes(v)
    [] kind \in {"strings", "changes"} -> Counted([i \in DOMAIN v |-> WriteBytes(v[i])])
    [] kind = "updates"                -> Counted([i \in DOMAIN v |-> WriteUpdate(v[i])])
    [] kind = "number"                 -> <<v>>

Encode(m) ==
  <<Tag[m.type]>>
    \o FlattenSeq([i \in DOMAIN m.fields |-> WriteField(Fields[m.type][i], m.fields[i])])

-----------------------------------------------------------------------------
(* Decoding.  A reader is a function that gives the value and the rest of a frame, *)
(* or fails.                                                                        *)

Frame == Seq(Nat)

Failed == [ok |-> FALSE, value |-> <<>>, rest |-> <<>>]
Result(v, rest) == [ok |-> TRUE, value |-> v, rest |-> rest]

\* Mutant: the length is taken as it is.
TrustsLength(n, max) == TRUE

Within(n, max) == n <= max

\* Mutant: of a string that is cut short its first part is taken.
ReadWhatIsThere(s, max) ==
  LET n == IF s = <<>> THEN 0 ELSE IF Head(s) < Len(s) THEN Head(s) ELSE Len(s) - 1 IN
  IF s # <<>> /\ Within(Head(s), max)
  THEN Result(SubSeq(s, 2, n + 1), SubSeq(s, n + 2, Len(s)))
  ELSE Failed

ReadBytes(s, max) ==
  IF s # <<>> /\ Within(Head(s), max) /\ Head(s) < Len(s)
  THEN Result(SubSeq(s, 2, Head(s) + 1), SubSeq(s, Head(s) + 2, Len(s)))
  ELSE Failed

\* One after another: each reader takes what the last one left.
ReadAll(readers, s) ==
  FoldLeft(LAMBDA sofar, read :
             LET next == read[sofar.rest] IN
             IF sofar.ok /\ next.ok THEN Result(Append(sofar.value, next.value), next.rest) ELSE Failed,
           Result(<<>>, s), readers)

ReadPart(kind, s) == ReadBytes(s, IF kind = "string" THEN MaxString ELSE MaxBytes)
PartReader(kind) == [s \in Frame |-> ReadPart(kind, s)]

ReadUpdate(s) == ReadAll([i \in DOMAIN Update |-> PartReader(Update[i])], s)
ElementReader(kind) == IF kind = "update" THEN [s \in Frame |-> ReadUpdate(s)] ELSE PartReader(kind)

ReadList(s, max, kind) ==
  IF s # <<>> /\ Within(Head(s), max)
  THEN ReadAll([i \in 1..Head(s) |-> ElementReader(kind)], Tail(s))
  ELSE Failed

ReadField(kind, s) ==
  CASE kind \in {"string", "bytes"} -> ReadPart(kind, s)
    [] kind = "strings" -> ReadList(s, MaxStrings, "string")
    [] kind = "changes" -> ReadList(s, MaxChanges, "bytes")
    [] kind = "updates" -> ReadList(s, MaxUpdates, "update")
    [] kind = "number"  -> IF s = <<>> THEN Failed ELSE Result(Head(s), Tail(s))
FieldReader(kind) == [s \in Frame |-> ReadField(kind, s)]

ReadFields(kinds, s) == ReadAll([i \in DOMAIN kinds |-> FieldReader(kinds[i])], s)

\* A Connect may end before its heads.
HeadsLeftOut(type, s) ==
  type = "Connect" /\ LET start == ReadFields(SubSeq(Fields.Connect, 1, 2), s)
                      IN  start.ok /\ start.rest = <<>>

\* Bytes after the last field are not looked at.
Decode(s) ==
  IF s = <<>> \/ \A t \in Type : Tag[t] # Head(s) THEN Failed
  ELSE LET type == CHOOSE t \in Type : Tag[t] = Head(s)
           body == IF HeadsLeftOut(type, Tail(s)) THEN Append(Tail(s), 0) ELSE Tail(s)
           read == ReadFields(Fields[type], body)
       IN  [ok |-> read.ok, value |-> [type |-> type, fields |-> read.value]]

-----------------------------------------------------------------------------
(* Messages on their way. *)

Lists(S) == UNION {[1..n -> S] : n \in 0..Longest}
Bytes == Lists({1})

\* As many elements as are written as none.
Overlong(e) == [i \in 1..Wrap |-> e]

\* Strings and lists up to Longest, and some that are overlong or have an element that is.
Strings == Bytes \cup {Overlong(1)}
StringLists == Lists(Bytes) \cup {Overlong(<<>>), <<Overlong(1)>>}
UpdateLists == Lists(Bytes \X Bytes) \cup {Overlong(<< <<>>, <<>> >>), << <<<<>>, Overlong(1)>> >>}

Values ==
  [string |-> Strings, bytes |-> Strings, strings |-> StringLists, changes |-> StringLists,
   updates |-> UpdateLists, number |-> {0}]

\* All messages of a type, field by field.
NextFields(type, fields) ==
  {Append(fields, v) : v \in Values[Fields[type][Len(fields) + 1]]}

NoMessage == [type |-> "Ping", fields |-> <<>>]

\* An application makes a message.
Compose ==
  \/ /\ message = NoMessage
     /\ \E type \in Type : message' = [type |-> type, fields |-> <<>>]
  \/ /\ Len(message.fields) < Len(Fields[message.type])
     /\ \E fields \in NextFields(message.type, message.fields) :
          message' = [message EXCEPT !.fields = fields]

Complete == Len(message.fields) = Len(Fields[message.type])

\* It goes out, and is possibly cut short, or followed by something.
Send == Complete /\ frame = <<>> /\ frame' = Encode(message) /\ UNCHANGED message

CutShort ==
  /\ frame # <<>> /\ Len(frame) <= Len(Encode(message))
  /\ frame' = Front(frame) /\ frame' # <<>>
  /\ UNCHANGED message

Extend ==
  /\ frame # <<>> /\ Len(frame) >= Len(Encode(message))
  /\ Len(frame) < Len(Encode(message)) + Trailing
  /\ frame' = Append(frame, 1)
  /\ UNCHANGED message

WireInit == message = NoMessage /\ frame = <<>>
WireNext == (frame = <<>> /\ Compose /\ UNCHANGED frame) \/ Send \/ CutShort \/ Extend
WireSpec == WireInit /\ [][WireNext]_wireVars

-----------------------------------------------------------------------------
(* Properties. *)

FitsIn(kind, v) ==
  CASE kind = "string"  -> Len(v) <= MaxString
    [] kind = "bytes"   -> Len(v) <= MaxBytes
    [] kind = "strings" -> Len(v) <= MaxStrings /\ \A i \in DOMAIN v : Len(v[i]) <= MaxString
    [] kind = "changes" -> Len(v) <= MaxChanges /\ \A i \in DOMAIN v : Len(v[i]) <= MaxBytes
    [] kind = "updates" -> Len(v) <= MaxUpdates
                           /\ \A i \in DOMAIN v : Len(v[i][1]) <= MaxString /\ Len(v[i][2]) <= MaxBytes
    [] kind = "number"  -> TRUE

Fits(m) == \A i \in DOMAIN m.fields : FitsIn(Fields[m.type][i], m.fields[i])

\* The lengths that 32 bits hold.
Representable(kind, v) ==
  CASE kind \in {"string", "bytes"}    -> Len(v) < Wrap
    [] kind \in {"strings", "changes"} -> Len(v) < Wrap /\ \A i \in DOMAIN v : Len(v[i]) < Wrap
    [] kind = "updates" -> Len(v) < Wrap /\ \A i \in DOMAIN v : Len(v[i][1]) < Wrap /\ Len(v[i][2]) < Wrap
    [] kind = "number"  -> TRUE

AllRepresentable(m) == \A i \in DOMAIN m.fields : Representable(Fields[m.type][i], m.fields[i])

\* A message within the limits arrives as it was sent, whatever follows it.  One that is
\* beyond a limit anywhere, but has no string or list of 2^32 elements, is encoded, and
\* refused as a whole; a longer one may arrive as another message.
ArrivesAsSent ==
  frame # <<>> /\ Len(frame) >= Len(Encode(message)) =>
    /\ Fits(message) => Decode(frame) = [ok |-> TRUE, value |-> message]
    /\ ~Fits(message) /\ AllRepresentable(message) => ~Decode(frame).ok

\* A message without strings and lists of 2^32 elements that is cut short is refused
\* wherever it is cut: its first part is never taken for another message, but for a Connect
\* that loses exactly its heads.
CutIsRefused ==
  frame # <<>> /\ Len(frame) < Len(Encode(message)) /\ Decode(frame).ok /\ AllRepresentable(message) =>
    /\ message.type = "Connect"
    /\ Decode(frame).value.fields = [message.fields EXCEPT ![3] = <<>>]
=============================================================================
