------------------------------ MODULE ClientApi ------------------------------
(***************************************************************************)
(* What programs use to talk to the server: the helpers of                 *)
(* src/iox2redis/client.py, on top of redis-py (JsonHelpersMixin) and on   *)
(* their own (Iox2DirectClient), and the HTTP API of                       *)
(* examples/client_flask.py.  Each call is one command at most, so it is   *)
(* one step here, with its answer; what becomes of a command on its way is *)
(* the matter of Iox2Connection.                                           *)
(***************************************************************************)
EXTENDS JsonServer

CONSTANTS
  NullText,   \* the JSON document null
  Malformed,  \* a body sent as application/json that is no JSON
  NoArg       \* a command without value

ASSUME ClientAssumption ==
  /\ NullText \in JsonTexts /\ Malformed \notin Payloads \cup Blobs \cup {BadBlob}
  /\ NoArg \notin Payloads \cup Blobs \cup {Malformed, BadBlob}

VARIABLE call   \* the last call: of which interface, what was asked and answered

callVars == <<vars, call>>

(* What a call returns or raises, or the status and body of an HTTP answer. *)
Returned(x)   == [kind |-> "returned", body |-> x]
None          == [kind |-> "none", body |-> NoArg]
Raised(error) == [kind |-> error, body |-> NoArg]

-----------------------------------------------------------------------------
(* Commands *)

Redis(op, k, x, cond) ==
  \/ op = "GET" /\ Get(Home[k], k)
  \/ op = "JSON.GET" /\ JsonGet(Home[k], k)
  \/ op = "DUMP" /\ Dump(Home[k], k)
  \/ op = "DEL" /\ RoutedDel(<<k>>, FALSE)
  \/ /\ op = "SET"
     /\ \/ Home[k] = Const /\ ConstSet(Const, k, x, NoDeadline, cond, FALSE)
        \/ Home[k] = Plain /\ Set(Plain, clock, k, x, NoDeadline, cond, FALSE)
  \/ /\ op = "JSON.SET"
     /\ \/ Home[k] = Const /\ ConstJsonSet(Const, k, x, cond)
        \/ Home[k] = Plain /\ JsonSet(Plain, clock, k, x, cond)
  \/ /\ op = "LOAD"
     /\ \/ Home[k] = Const /\ ConstLoad(Const, k, x, cond)
        \/ Home[k] = Plain /\ Load(Plain, k, x, cond)

(* json.loads of the text of a reply, which need not be a document. *)
LoadsLeniently(v) == IF v \in JsonTexts THEN Returned(v) ELSE None   \* a mutant

Loads(v) ==
  IF v = NullText THEN None
  ELSE IF v \in JsonTexts THEN Returned(v) ELSE Raised("ValueError")

(* The helpers; error is what an error reply raises, and text tells        *)
(* whether the client decodes replies.                                     *)
Helper(op, reply, error, text) ==
  IF reply = Error THEN Raised(error)
  ELSE IF reply = Nil THEN None
  ELSE CASE op = "JSON.GET" -> Loads(reply[2])
         [] op = "GET" /\ text /\ reply[2] \in Binaries -> Raised("ValueError")
         [] OTHER -> Returned(reply[2])

(* The routes: jsonify does not take the b"OK" that LOAD is answered with. *)
Http(op, result) ==
  CASE result.kind = "ResponseError" -> Raised("400")
    [] result.kind = "ValueError"    -> Raised("500")
    [] result.kind = "none" -> IF op \in Reads THEN Raised("404") ELSE result
    [] OTHER -> IF op = "LOAD" THEN Raised("500") ELSE result

-----------------------------------------------------------------------------
(* Calls *)

Called(by, op, k, x, answer) ==
  call' = [by |-> by, op |-> op, key |-> k, value |-> x, answer |-> answer]

(* JsonHelpersMixin and the commands of redis-py, with text replies. *)
CallHelper(op, k, x, cond) ==
  /\ Redis(op, k, x, cond)
  /\ Called("redis-py", op, k, x, Helper(op, last'.reply, "ResponseError", TRUE))

(* Iox2DirectClient: set_bytes, set_json_bytes and load answer nil with    *)
(* False.                                                                  *)
CallDirect(op, k, x, cond) ==
  /\ Redis(op, k, x, cond)
  /\ Called("direct", op, k, x, Helper(op, last'.reply, "CodecError", FALSE))

(* A route with a command of its own; get_json(silent=True) turns a body   *)
(* that is no JSON into null.                                              *)
CallHttp(op, k, x, cond) ==
  /\ Redis(op, k, IF x = Malformed THEN NullText ELSE x, cond)
  /\ Called("HTTP", op, k, x,
            Http(op, Helper(op, last'.reply, "ResponseError", op \notin {"DUMP", "LOAD"})))

(* No JSON, no such field in it, no base64, or NX and XX at once. *)
HttpRefuses(op, k) ==
  /\ op \in {"SET", "JSON.SET", "LOAD"}
  /\ Called("HTTP", op, k, NoArg, Raised("400"))
  /\ UNCHANGED vars

NoCall == [by |-> "", op |-> "", key |-> InfoKey, value |-> NoArg, answer |-> None]

(* Clients that use none of the helpers: every command of the server. *)
OtherCommand == ServerNext /\ call' = NoCall

ClientInit == ServerInit /\ call = NoCall

Options == {"none", "NX", "XX", "NX and XX"}

ClientCall ==
  \E k \in Keys :
    \/ \E op \in Reads \cup {"DEL"} :
         \/ CallHelper(op, k, NoArg, "none") \/ CallHttp(op, k, NoArg, "none")
         \/ op # "DEL" /\ CallDirect(op, k, NoArg, "none")
    \/ \E v \in Payloads :
         \/ v \notin Binaries /\ CallHelper("SET", k, v, "none")
         \/ v \notin Binaries /\ CallHttp("SET", k, v, "none")
         \/ CallDirect("SET", k, v, "none") \/ CallDirect("JSON.SET", k, v, "none")
    \/ \E v \in JsonTexts, cond \in Options : CallHelper("JSON.SET", k, v, cond)
    \/ \E v \in JsonTexts \cup {Malformed} : CallHttp("JSON.SET", k, v, "none")
    \/ \E b \in Blobs \cup {BadBlob}, cond \in Options :
         \/ CallHelper("LOAD", k, b, cond) \/ CallDirect("LOAD", k, b, cond)
         \/ cond # "NX and XX" /\ CallHttp("LOAD", k, b, cond)
    \/ \E op \in {"SET", "JSON.SET", "LOAD"} : HttpRefuses(op, k)

ClientNext == ClientCall \/ OtherCommand

ClientSpec == ClientInit /\ [][ClientNext]_callVars

-----------------------------------------------------------------------------
(* Properties *)

(* Every other entry, as clients see it, and this one. *)
NothingChanges == LiveContents(clock)' = [k \in Keys |-> AliveAt(items[Home[k]][k], clock')]

OtherKeysUntouched ==
  \A k \in Keys \ {call'.key} :
    AliveAt(items[Home[k]][k], clock') = LiveContents(clock)'[k]

(* A value that is returned was there, and an update that is reported was  *)
(* made, with what was asked for.                                          *)
Success(was, now, body) ==
  CASE call'.op \in {"GET", "JSON.GET"} -> was # Absent /\ was.val = body
    [] call'.op = "DUMP"     -> was # Absent /\ was.val = body.val /\ was.json = body.json
    [] call'.op = "DEL"      -> now = Absent /\ body = (IF was = Absent THEN 0 ELSE 1)
    [] call'.op = "SET"      -> now = StoredValue(call'.value, NoDeadline, FALSE)
    [] call'.op = "JSON.SET" -> now.json /\ now.val = call'.value
    [] call'.op = "LOAD"     -> now.val = call'.value.val /\ now.json = call'.value.json

(* None, False and 404 say that nothing was there or nothing was done; but *)
(* None is also what json.loads makes of the document null.                *)
Nothing(was) ==
  IF call'.op \in Reads
  THEN \/ was = Absent
       \/ call'.op = "JSON.GET" /\ call'.answer = None /\ was.val = NullText
  ELSE NothingChanges

Truthful(was, now) ==
  LET answer == call'.answer
  IN CASE answer.kind = "returned"        -> Success(was, now, answer.body)
       [] answer.kind \in {"none", "404"} -> Nothing(was)
       [] OTHER                           -> NothingChanges

(* The answers of routes that are not true: a body that is no JSON is      *)
(* reported as stored, and null is; null that is stored is not found; and  *)
(* a payload was stored though the answer is 500.                          *)
Misleading(was, now) ==
  LET Answered(op, kind) == call'.op = op /\ call'.answer.kind = kind
  IN /\ call'.by = "HTTP"
     /\ \/ /\ Answered("JSON.SET", "returned") /\ call'.value = Malformed
           /\ now.json /\ now.val = NullText
        \/ Answered("JSON.GET", "404") /\ was # Absent /\ was.val = NullText
        \/ /\ Answered("LOAD", "500")
           /\ now.val = call'.value.val /\ now.json = call'.value.json

TrueOfStores ==
  LET k == call'.key
  IN /\ OtherKeysUntouched
     /\ \E t \in clock..clock' :
          LET was == AliveAt(items[Home[k]][k], t)
              now == items'[Home[k]][k]
          IN Truthful(was, now) \/ Misleading(was, now)

(* Through whichever interface a call is made, and whoever else uses which *)
(* one on the same key: its answer is true of the stores at an instant     *)
(* during the call, no other key changes, and a call that fails changes    *)
(* nothing.  Three answers of HTTP routes are excepted, see Misleading.    *)
AnswersTrue == [][call' = NoCall \/ TrueOfStores]_callVars
=============================================================================
