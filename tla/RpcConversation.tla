---- MODULE RpcConversation ----
(***************************************************************************)
(* One connection of the core daemon: handle_client of daemon/main.py, the *)
(* handlers, the protocol's checks, and what the client's library makes of *)
(* an answer.  A line is what its reader can tell of it.                   *)
(***************************************************************************)
EXTENDS Naturals, Sequences

CONSTANTS
    Ids,     \* request ids that can be written as UTF-8
    OddIds,  \* ids with a lone surrogate, which JSON can name and UTF-8 not
    Null,    \* the id null
    Absent   \* no id

Methods == {"core.ping", "core.shutdown"}

(* plain: what an answer repeats of the request besides its id, the name of  *)
(* an unknown method or the client of a ping, can be written as UTF-8.       *)
Requests ==
    [form : {"object"}, version : BOOLEAN, id : Ids \cup OddIds \cup {Null, Absent},
     method : Methods \cup {"other", "none"}, params : BOOLEAN, plain : BOOLEAN]

(* A line over the reader's limit, no UTF-8, or too deep or with too long a  *)
(* number for the JSON module makes readline or decode_message raise what is *)
(* no ProtocolError.                                                         *)
Lines == Requests \cup [form : {"unreadable", "no JSON", "no object"}]

Error(id, code) == [id |-> id, error |-> code]
Result(id, method) == [id |-> id, result |-> method]

(* validate_request *)
Valid(message) ==
    message.version /\ message.id # Absent /\ message.method # "none" /\ message.params

IdOf(line) == IF line.form = "object" /\ line.id # Absent THEN line.id ELSE Null

(* dispatch_rpc *)
Dispatch(message) ==
    CASE ~Valid(message) -> Error(IdOf(message), "INVALID_REQUEST")
      [] Valid(message) /\ message.method \notin Methods -> Error(IdOf(message), "METHOD_NOT_FOUND")
      [] Valid(message) /\ message.method \in Methods -> Result(IdOf(message), message.method)

Answer(line) ==
    CASE line.form = "no JSON"   -> Error(Null, "PARSE_ERROR")
      [] line.form = "no object" -> Error(Null, "INVALID_REQUEST")
      [] line.form = "object"    -> Dispatch(line)

(* Whether encode_message can write the answer. *)
Encodable(line) ==
    line.form = "object" =>
        /\ line.id \notin OddIds
        /\ Valid(line) /\ line.method # "core.shutdown" => line.plain

ShouldShutdown(line) ==
    line.form = "object" /\ Valid(line) /\ line.method = "core.shutdown"

NewConnection == [answers |-> <<>>, state |-> "open"]

Answered(connection, line) ==
    [answers |-> Append(connection.answers, Answer(line)),
     state |-> IF ShouldShutdown(line) THEN "stopped" ELSE "open"]

(* Mistake: shutdown_event is set before the response is written. *)
HandleStoppingFirst(connection, line) ==
    IF connection.state # "open" THEN connection
    ELSE IF line.form # "unreadable" /\ Encodable(line) THEN Answered(connection, line)
    ELSE [connection EXCEPT !.state = IF ShouldShutdown(line) THEN "stopped" ELSE "broken"]

(* The loop's body: an exception other than ProtocolError ends the loop, and *)
(* the connection is closed without an answer.                               *)
HandleLine(connection, line) ==
    IF connection.state # "open" THEN connection
    ELSE IF line.form # "unreadable" /\ Encodable(line) THEN Answered(connection, line)
    ELSE [connection EXCEPT !.state = "broken"]

(* read_result_response, and the last check of CoreClient.request. *)
ReadResponse(answer, expected_id) ==
    IF answer.id # expected_id THEN "ProtocolError"
    ELSE IF "error" \in DOMAIN answer THEN "JsonRpcError" ELSE "result"
====
