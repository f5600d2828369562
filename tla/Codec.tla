-------------------------------- MODULE Codec --------------------------------
(***************************************************************************)
(* The wire format of src/iox2redis/codec.py, and one exchange that uses   *)
(* it: encode_command, decode_command, encode_response, decode_response,   *)
(* response_to_redis_value.                                                *)
(*                                                                         *)
(* A binary payload is a sequence of cells.  The magic and every field of  *)
(* the header, whatever its width, is one cell; a byte of data is one too. *)
(* A payload of the legacy format is a JSON document: a function from the  *)
(* names of its fields.                                                    *)
(***************************************************************************)
EXTENDS Naturals, Sequences

CONSTANTS
  Magic,         \* MAGIC, the first bytes of every binary payload
  MaxCell,       \* bound: every other cell is in 0..MaxCell
  MaxU16,        \* the largest number a U16 field takes
  NotText,       \* a byte that makes data no UTF-8 text
  Small,         \* a lower case letter; Small + 1 is its capital
  JsonTexts,     \* the sequences of cells that json.loads accepts
  PongText,      \* b"PONG"
  UnknownError,  \* "ERR unknown error"
  Commands,      \* the argument lists clients send
  Frames,        \* the frames handlers answer with
  Documents      \* JSON objects that other programs send as requests

Cells == 0..MaxCell

IsText(s) == \A i \in DOMAIN s : s[i] # NotText

ASSUME CodecAssumption ==
  /\ MaxCell \in Nat /\ MaxU16 \in 1..MaxCell
  /\ NotText \in Cells /\ Small \in 0..MaxCell - 1 /\ NotText \notin {Small, Small + 1}
  /\ \A s \in JsonTexts : s \in Seq(Cells) /\ IsText(s)
  /\ UnknownError # <<>>

VARIABLES
  phase,    \* "idle", "request", "response" or "done"; "refused" by encode_command
  sent,     \* the arguments of the command
  wire,     \* the payload under way
  harm,     \* what happened to each payload: "none", "cut", "longer", "changed"
            \* or, of a request of another program, "foreign"
  heard,    \* what decode_command made of the request
  answer,   \* the frame it is answered with
  got       \* what the caller gets

vars == <<phase, sent, wire, harm, heard, answer, got>>

(* A Python value: its type and its bytes, characters or JSON text. *)
Python(type, data) == [type |-> type, data |-> data]
None == Python("none", <<>>)

Texts == { s \in Seq(Cells) : IsText(s) }

Value ==
  {None} \cup [type : {"bytes"}, data : Seq(Cells)] \cup [type : {"str"}, data : Texts]
    \cup [type : {"json"}, data : JsonTexts]

(* Outcomes: a value, a CodecError with its message, or another exception. *)
Good(value)       == [error |-> "", value |-> value]
Raised(message)   == [error |-> "codec", value |-> message]
Malformed         == Raised(<<>>)
OtherError        == [error |-> "other", value |-> <<>>]
Then(x, value)    == IF x.error = "" THEN Good(value) ELSE x

Text(s)  == IF IsText(s) THEN Good(s) ELSE OtherError
Upper(s) == [i \in DOMAIN s |-> IF s[i] = Small THEN Small + 1 ELSE s[i]]

-----------------------------------------------------------------------------
(* Values *)

Tag == [none |-> 0, bytes |-> 1, str |-> 2, json |-> 3]

Prefixed(s) == <<Len(s)>> \o s

EncodeValueUntyped(v) ==   \* a mutant: text is sent as bytes
  IF v.type = "none" THEN <<Tag["none"]>> ELSE <<Tag["bytes"]>> \o Prefixed(v.data)

(* What is neither bytes, text, JSON nor None is sent as str(value): as the *)
(* text it is, so it is one of the texts here.                              *)
EncodeValue(v) == <<Tag[v.type]>> \o IF v.type = "none" THEN <<>> ELSE Prefixed(v.data)

EncodePresent(vs) ==   \* a mutant: None is left out
  LET upto[i \in 0..Len(vs)] ==
        IF i = 0 THEN <<>>
        ELSE upto[i - 1] \o IF vs[i] = None THEN <<>> ELSE EncodeValue(vs[i])
  IN upto[Len(vs)]

Encoded(vs) ==
  LET upto[i \in 0..Len(vs)] == IF i = 0 THEN <<>> ELSE upto[i - 1] \o EncodeValue(vs[i])
  IN upto

EncodeValues(vs) == Encoded(vs)[Len(vs)]

(* What a decoder made of some cells, and the cell it goes on from. *)
Step(outcome, at) == [outcome |-> outcome, at |-> at]

(* _read_len_prefixed *)
Field(p, at) ==
  IF at > Len(p) \/ at + p[at] > Len(p) THEN Step(Malformed, at)
  ELSE Step(Good(SubSeq(p, at + 1, at + p[at])), at + p[at] + 1)

Interpreted(tag, data) ==
  CASE tag = Tag["bytes"] -> Good(Python("bytes", data))
    [] tag = Tag["str"]   -> Then(Text(data), Python("str", data))
    [] tag = Tag["json"]  -> IF data \in JsonTexts THEN Good(Python("json", data)) ELSE OtherError
    [] OTHER              -> Malformed

DecodeValue(p, at) ==
  IF at > Len(p) THEN Step(Malformed, at)
  ELSE IF p[at] = Tag["none"] THEN Step(Good(None), at + 1)
  ELSE LET field == Field(p, at + 1)
       IN Step(IF field.outcome.error # "" THEN Malformed
               ELSE Interpreted(p[at], field.outcome.value), field.at)

PrefixOk(p, step) == step.outcome   \* a mutant: bytes that follow are not noticed

(* The payload must end where its decoder stops. *)
Whole(p, step) ==
  IF step.outcome.error = "" /\ step.at # Len(p) + 1 THEN Malformed ELSE step.outcome

(* One more value, after those before. *)
DecodeNext(p, before) ==
  LET next == DecodeValue(p, before.at)
  IN IF before.outcome.error # "" THEN before
     ELSE Step(Then(next.outcome, Append(before.outcome.value, next.outcome.value)), next.at)

Decoded(p, from, n) ==
  LET upto[i \in 0..n] ==
        IF i = 0 THEN Step(Good(<<>>), from) ELSE DecodeNext(p, upto[i - 1])
  IN upto

(* n values that follow each other from a cell to the end. *)
DecodeValues(p, from, n) == Whole(p, Decoded(p, from, n)[n])

-----------------------------------------------------------------------------
(* Binary frames *)

Version == 1
FrameType == [command |-> 1, response |-> 2]
Header(type) == <<Magic, Version, FrameType[type]>>

HasVersion(p, type) ==   \* a mutant: the type of a frame is not looked at
  Len(p) >= 3 /\ p[1] = Magic /\ p[2] = Version

HasHeader(p, type) == Len(p) >= 3 /\ SubSeq(p, 1, 3) = Header(type)

Codes == [simple |-> 1, bulk |-> 2, array |-> 3, nil |-> 4, error |-> 5, integer |-> 6, pong |-> 7]

CommandName(v) == IF v.type = "bytes" THEN Text(v.data) ELSE Good(v.data)

EncodeCommand(args) ==
  IF args = <<>> THEN Malformed
  ELSE LET name == CommandName(args[1])
           rest == Tail(args)
       IN IF name.error # "" THEN name
          ELSE IF Len(name.value) > MaxU16 \/ Len(rest) > MaxU16 THEN Malformed
          ELSE Good(Header("command") \o <<Len(name.value), Len(rest)>>
                      \o Upper(name.value) \o EncodeValues(rest))

CommandFrame(name, args) == [command |-> Upper(name), args |-> args]

DecodeBinaryCommand(p) ==
  IF ~HasHeader(p, "command") \/ Len(p) < 5 THEN Malformed
  ELSE IF 5 + p[4] > Len(p) THEN Malformed
  ELSE LET name == Text(SubSeq(p, 6, 5 + p[4]))
           args == DecodeValues(p, 6 + p[4], p[5])
       IN IF name.error # "" THEN name
          ELSE IF name.value = <<>> THEN Malformed
          ELSE Then(args, CommandFrame(name.value, args.value))

ResponseFrame(kind, value, message) == [kind |-> kind, value |-> value, message |-> message]

(* What handlers answer with. *)
Frame ==
  [kind : {"simple", "bulk", "integer", "pong"}, value : Value, message : {<<>>}]
    \cup [kind : {"array"}, value : Seq(Value), message : {<<>>}]
    \cup [kind : {"nil"}, value : {None}, message : {<<>>}]
    \cup [kind : {"error"}, value : {None}, message : Texts]

ASSUME ExchangeAssumption == Commands \subseteq Seq(Value) /\ Frames \subseteq Frame

EncodeResponse(f) ==
  Header("response") \o <<Codes[f.kind]>> \o
    CASE f.kind = "nil"   -> <<>>
      [] f.kind = "error" -> Prefixed(f.message)
      [] f.kind = "array" -> <<Len(f.value)>> \o EncodeValues(f.value)
      [] OTHER            -> EncodeValue(f.value)

OrUnknown(message) == IF message = <<>> THEN UnknownError ELSE message

DecodeArray(p, at) == IF at > Len(p) THEN Malformed ELSE DecodeValues(p, at + 1, p[at])

DecodeBody(p, kind) ==
  CASE kind = "nil" -> Then(Whole(p, Step(Good(<<>>), 5)), ResponseFrame(kind, None, <<>>))
    [] kind = "error" ->
         LET field   == Whole(p, Field(p, 5))
             message == IF field.error # "" THEN field ELSE Text(field.value)
         IN Then(message, ResponseFrame(kind, None, OrUnknown(message.value)))
    [] kind = "array" ->
         LET items == DecodeArray(p, 5) IN Then(items, ResponseFrame(kind, items.value, <<>>))
    [] OTHER ->
         LET items == DecodeValues(p, 5, 1)
         IN Then(items, ResponseFrame(kind, items.value[1], <<>>))

DecodeBinaryResponse(p) ==
  IF ~HasHeader(p, "response") \/ Len(p) < 4 THEN Malformed
  ELSE IF \A kind \in DOMAIN Codes : Codes[kind] # p[4] THEN Malformed
  ELSE DecodeBody(p, CHOOSE kind \in DOMAIN Codes : Codes[kind] = p[4])

-----------------------------------------------------------------------------
(* Frames of the legacy format *)

Base64(s) == [base64 |-> s]

EncodeJsonValue(v) ==
  CASE v.type = "bytes" -> [type |-> "bytes", data |-> Base64(v.data)]
    [] v.type = "str"   -> [type |-> "str", data |-> v.data]
    [] OTHER            -> [type |-> "json", data |-> v]

DecodeJsonValue(x) ==
  IF "type" \notin DOMAIN x THEN Malformed
  ELSE IF x.type \notin {"bytes", "str", "json"} THEN Malformed
  ELSE IF "data" \notin DOMAIN x THEN (IF x.type = "json" THEN Good(None) ELSE OtherError)
  ELSE Good(CASE x.type = "bytes" -> Python("bytes", x.data.base64)
              [] x.type = "str"   -> Python("str", x.data)
              [] OTHER            -> x.data)

FieldOf(d, field, default) == IF field \in DOMAIN d THEN d[field] ELSE default

(* Tagged values; null is what comes of a null among them. *)
DecodeJsonValues(xs, null) ==
  LET items    == [i \in DOMAIN xs |-> IF xs[i] = None THEN null ELSE DecodeJsonValue(xs[i])]
      failures == { i \in DOMAIN xs : items[i].error # "" }
  IN IF failures = {} THEN Good([i \in DOMAIN xs |-> items[i].value])
     ELSE items[CHOOSE i \in failures : \A j \in failures : i <= j]

DecodeJsonCommand(d) ==
  IF FieldOf(d, "v", 0) # Version \/ FieldOf(d, "command", <<>>) = <<>> THEN Malformed
  ELSE LET args == DecodeJsonValues(FieldOf(d, "args", <<>>), Malformed)
       IN Then(args, CommandFrame(d.command, args.value))

DecodeJsonResponse(d) ==
  IF FieldOf(d, "v", 0) # Version \/ "kind" \notin DOMAIN d THEN Malformed
  ELSE CASE d.kind = "bulk" ->
              IF "value" \notin DOMAIN d THEN OtherError
              ELSE LET value == DecodeJsonValue(d.value)
                   IN Then(value, ResponseFrame("bulk", value.value, <<>>))
         [] d.kind = "array" ->
              LET items == DecodeJsonValues(FieldOf(d, "value", <<>>), Good(None))
              IN Then(items, ResponseFrame("array", items.value, <<>>))
         [] d.kind = "error" ->
              Good(ResponseFrame("error", None, FieldOf(d, "message", UnknownError)))
         [] OTHER ->
              Good(ResponseFrame(d.kind, FieldOf(d, "value", None), FieldOf(d, "message", <<>>)))

(* The documents docs/architecture.md describes.                           *)
LegacyCommand(args) ==
  [v |-> Version, command |-> args[1].data,
   args |-> [i \in DOMAIN Tail(args) |-> EncodeJsonValue(Tail(args)[i])]]

LegacyResponse(f) ==
  LET value ==
        CASE f.kind = "bulk"  -> EncodeJsonValue(f.value)
          [] f.kind = "array" -> [i \in DOMAIN f.value |->
                                    IF f.value[i] = None THEN None ELSE EncodeJsonValue(f.value[i])]
          [] OTHER            -> f.value
  IN IF f.kind = "error" THEN [v |-> Version, kind |-> f.kind, message |-> f.message]
     ELSE [v |-> Version, kind |-> f.kind, value |-> value]

Binary(p)   == [format |-> "binary", data |-> p]
Document(d) == [format |-> "json", data |-> d]

(* What does not start with the magic is read as JSON. *)
StartsWithMagic(w) == w.data # <<>> /\ w.data[1] = Magic

DecodeCommand(w) ==
  IF w.format = "json" THEN DecodeJsonCommand(w.data)
  ELSE IF StartsWithMagic(w) THEN DecodeBinaryCommand(w.data) ELSE Malformed

DecodeResponse(w) ==
  IF w.format = "json" THEN DecodeJsonResponse(w.data)
  ELSE IF StartsWithMagic(w) THEN DecodeBinaryResponse(w.data) ELSE Malformed

-----------------------------------------------------------------------------
(* An exchange *)

AsBytes(v) == IF v.type = "str" THEN Python("bytes", v.data) ELSE v

(* response_to_redis_value *)
RedisValue(f) ==
  CASE f.kind \in {"simple", "bulk"} -> Good(AsBytes(f.value))
    [] f.kind = "integer" -> Good(f.value)
    [] f.kind = "array"   -> Good([i \in DOMAIN f.value |-> AsBytes(f.value[i])])
    [] f.kind = "nil"     -> Good(None)
    [] f.kind = "pong"    -> Good(IF f.value = None THEN Python("bytes", PongText)
                                  ELSE AsBytes(f.value))
    [] f.kind = "error"   -> Raised(OrUnknown(f.message))

Nothing == ResponseFrame("nil", None, <<>>)

Init ==
  /\ phase = "idle" /\ sent = <<>> /\ wire = Binary(<<>>)
  /\ harm = [request |-> "none", response |-> "none"]
  /\ heard = Malformed /\ answer = Nothing /\ got = Good(None)

(* A client of this package; it may fail to encode its arguments. *)
Send ==
  /\ phase = "idle"
  /\ \E args \in Commands :
       /\ sent' = args
       /\ LET request == EncodeCommand(args)
          IN \/ /\ request.error = "" /\ wire' = Binary(request.value)
                /\ phase' = "request" /\ UNCHANGED got
             \/ /\ request.error # "" /\ got' = request
                /\ phase' = "refused" /\ UNCHANGED wire
  /\ UNCHANGED <<harm, heard, answer>>

SendLegacy ==   \* a client that speaks the legacy format
  /\ phase = "idle"
  /\ \E args \in Commands :
       /\ args # <<>> /\ args[1].type = "str" /\ sent' = args
       /\ wire' = Document(LegacyCommand(args))
  /\ phase' = "request"
  /\ UNCHANGED <<harm, heard, answer, got>>

SendDocument ==
  /\ phase = "idle"
  /\ \E d \in Documents : wire' = Document(d)
  /\ harm' = [harm EXCEPT !.request = "foreign"]
  /\ phase' = "request"
  /\ UNCHANGED <<sent, heard, answer, got>>

(* The binary payload of a client or server that does not keep to the      *)
(* format: too short, too long, or with another cell somewhere.            *)
Garble ==
  /\ phase \in {"request", "response"} /\ wire.format = "binary"
  /\ \A payload \in DOMAIN harm : harm[payload] = "none"
  /\ LET p == wire.data
         Becomes(q, what) == wire' = Binary(q) /\ harm' = [harm EXCEPT ![phase] = what]
     IN \/ \E n \in 0..Len(p) - 1 : Becomes(SubSeq(p, 1, n), "cut")
        \/ \E c \in Cells : Becomes(Append(p, c), "longer")
        \/ \E i \in DOMAIN p, c \in Cells : Becomes([p EXCEPT ![i] = c], "changed")
  /\ UNCHANGED <<phase, sent, heard, answer, got>>

(* _handle_payload: whatever goes wrong in decode_command is an error      *)
(* reply.  An older server replies in the legacy format.                   *)
Serve ==
  /\ phase = "request"
  /\ heard' = DecodeCommand(wire)
  /\ \/ heard'.error = "" /\ answer' \in Frames
     \/ heard'.error # "" /\ answer' = ResponseFrame("error", None, <<Small>>)
  /\ \/ wire' = Binary(EncodeResponse(answer'))
     \/ wire' = Document(LegacyResponse(answer'))
  /\ phase' = "response"
  /\ UNCHANGED <<sent, harm, got>>

Receive ==
  /\ phase = "response"
  /\ LET response == DecodeResponse(wire)
     IN got' = IF response.error # "" THEN response ELSE RedisValue(response.value)
  /\ phase' = "done"
  /\ UNCHANGED <<sent, wire, harm, heard, answer>>

Next == Send \/ SendLegacy \/ SendDocument \/ Garble \/ Serve \/ Receive

Spec == Init /\ [][Next]_vars

-----------------------------------------------------------------------------
(* Properties *)

Served == phase \in {"response", "done"}

(* In either format the server hears the command and the arguments the     *)
(* client was given, byte for byte and type for type, unless the command   *)
(* has no name; and whatever a request was, its reply reaches the caller   *)
(* as if there were no wire between the handler and                        *)
(* response_to_redis_value.                                                *)
RoundTrip ==
  /\ Served /\ sent # <<>> /\ harm.request = "none" =>
       heard = IF sent[1].data = <<>> THEN Malformed
               ELSE Good([command |-> Upper(sent[1].data), args |-> Tail(sent)])
  /\ phase = "done" /\ harm.response = "none" => got = RedisValue(answer)

(* A payload that ends too early or too late is never taken for a frame,   *)
(* nor is a binary one that goes the wrong way: however it was changed, it *)
(* is not both a command and a response.                                   *)
GarbledRefused ==
  /\ Served /\ harm.request \in {"cut", "longer"} => heard.error # ""
  /\ phase = "done" /\ harm.response \in {"cut", "longer"} => got.error # ""
  /\ wire.format = "binary" => ~(DecodeCommand(wire).error = "" /\ DecodeResponse(wire).error = "")
=============================================================================
