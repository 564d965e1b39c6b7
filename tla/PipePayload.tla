----------------------------- MODULE PipePayload -----------------------------
(***************************************************************************)
(* The life of a payload in a Dash pipe: a client dumps it and publishes   *)
(* the message (client.rs), a pipe reads the message and loads it          *)
(* (pipe.rs, messengers), its function makes an output of it (function),   *)
(* the pipe dumps that, notes the message in its table (storage/deltalake) *)
(* and publishes it or answers the one who asked, and a client loads it.   *)
(* A payload is inline, in the message, or in a bucket of an S3 store: what *)
(* dump decides from where the payload was last (message.rs).              *)
(***************************************************************************)
EXTENDS PipeSchema
LOCAL INSTANCE SequencesExt
LOCAL INSTANCE FiniteSetsExt

NoName  == "no name"
NoPath  == "no path"
NoValue == "no value"
Lost    == "lost"

(* PipePayload, and a new one *)
Payload(key, model, path, storage, value) ==
    [key |-> key, model |-> model, path |-> path, storage |-> storage, value |-> value]
NewPayload(key, value) == Payload(key, NoName, NoPath, NoName, value)
Dropped(payload) == [payload EXCEPT !.value = NoValue]
DropAll(payloads) == [i \in DOMAIN payloads |-> Dropped(payloads[i])]

-----------------------------------------------------------------------------
(* StorageSet: a storage by default, a model if it was made for one, and the name
   and start of the process, by which the paths of S3 objects begin. *)
StorageSet(process, persistent, model) ==
    [process |-> process, default |-> IF persistent THEN "S3" ELSE "Passthrough", model |-> model]

PathOf(set, key) == set.process \o "/" \o key

(* The store is a function from a bucket, that of a model, and a path. *)
Kept(store, model, path, value) == (<<model, path>> :> value) @@ store

(* PipePayload::load: "error" if there is none, for the payload's storage. *)
LoadPayload(store, payload) ==
    CASE payload.storage = "Passthrough" -> payload
      [] payload.storage = "S3" ->
            IF payload.model = NoName \/ payload.path = NoPath THEN Dropped(payload)
            ELSE IF <<payload.model, payload.path>> \in DOMAIN store
                 THEN [payload EXCEPT !.value = store[payload.model, payload.path]]
                 ELSE NewPayload(payload.key, "error")
      [] OTHER -> NewPayload(payload.key, "error")

(* load_payloads: one that is not loaded fails the message. *)
LoadMessage(store, message) ==
    LET loaded == [i \in DOMAIN message.payloads |-> LoadPayload(store, message.payloads[i])]
    IN  IF \E i \in DOMAIN loaded : loaded[i].value = "error" THEN {}
        ELSE {[message EXCEPT !.payloads = loaded]}

(* as_payloads_map: of those with a key, the last. *)
PayloadsMap(messages) ==
    LET all == FlattenSeq([i \in DOMAIN messages |-> messages[i].payloads])
    IN  [k \in {all[i].key : i \in DOMAIN all} |-> all[Max({i \in DOMAIN all : all[i].key = k})]]

(* Mutant: a payload that was in some bucket is left there. *)
StoredAnywhere(set, model, storage) == model # NoName

(* is_storage_same: nothing is stored again where it is. *)
StoredThere(set, model, storage) == model # NoName /\ storage = set.default

(* PipePayload::dump into [seq, store], adding the payload to the first: not a
   payload that is in the same storage already, nor one that has no bucket. *)
DumpPayload(set, model, last, done, payload) ==
    LET known   == payload.key \in DOMAIN last
        was     == IF known THEN last[payload.key] ELSE payload
        from    == IF was.model # NoName THEN was.model ELSE payload.model
        where   == IF was.storage # NoName THEN was.storage ELSE payload.storage
        bucket  == IF model # NoName THEN model ELSE set.model
        adding(p) == [done EXCEPT !.seq = Append(@, p)]
    IN  CASE StoredThere(set, from, where) ->
                adding(Payload(payload.key, from, payload.path, where, NoValue))
          [] ~StoredThere(set, from, where) /\ set.default = "Passthrough" ->
                adding(Payload(payload.key, NoName, NoPath, "Passthrough", payload.value))
          [] OTHER ->
                IF bucket = NoName \/ payload.value = NoValue THEN done
                ELSE LET path == PathOf(set, payload.key)
                     IN  [seq   |-> Append(done.seq, Payload(payload.key, bucket, path, "S3", NoValue)),
                          store |-> Kept(done.store, bucket, path, payload.value)]

(* dump_payloads *)
DumpPayloads(set, model, last, store, payloads) ==
    FoldLeft(LAMBDA done, p : DumpPayload(set, model, last, done, p), [seq |-> <<>>, store |-> store], payloads)

-----------------------------------------------------------------------------
(* A message in bytes: the first one tells how to read the others. *)
Codecs == {"Json", "MessagePack", "Cbor"}
OpCode(byte) == CASE byte <= 127 -> "Json"
                  [] byte = 128  -> "MessagePack"
                  [] byte = 129  -> "Cbor"
                  [] OTHER       -> "Unsupported"

ToBytes(codec, message) ==
    [first |-> CASE codec = "Json" -> 123               \* an opening brace
                 [] codec = "MessagePack" -> 128
                 [] codec = "Cbor" -> 129,
     as |-> codec, of |-> message]

FromBytes(bytes) == IF OpCode(bytes.first) = bytes.as THEN {bytes.of} ELSE {}

(* What a subscriber makes of what was sent: NATS gives an inbox to a request,
   Kafka none. *)
NoReply == [inbox |-> NoName, target |-> NoName]
ReceivedNats(inbox, message) == [message EXCEPT !.reply = [inbox |-> inbox, target |-> NoName]]
ReceivedKafka(message)       == [message EXCEPT !.reply = NoReply]
Received(messenger, inbox, message) ==
    IF messenger = "Nats" THEN ReceivedNats(inbox, message) ELSE ReceivedKafka(message)

(* with_reply_target *)
Targeted(message, out) ==
    IF message.reply.inbox # NoName /\ message.reply.target = NoName
    THEN [message EXCEPT !.reply.target = out] ELSE message

(* reply_or_send_one: to the inbox of the asker, or to the topic. *)
Published(out, message) ==
    IF message.reply.inbox # NoName /\ message.reply.target = out THEN message.reply.inbox ELSE out

-----------------------------------------------------------------------------
(* A pipe: [in, out, persistent, loads, stores], the last two unless its function
   disabled them.  A pipe without an output, or with its input as its output, stores
   nothing. *)
Loads(pipe)  == pipe.loads
Stores(pipe) == pipe.stores /\ pipe.in # pipe.out /\ pipe.out # NoName

(* read_input_one *)
Input(pipe, store, message) ==
    IF ~Loads(pipe) \/ message.payloads = <<>>
    THEN {[message EXCEPT !.payloads = DropAll(@)]}
    ELSE LoadMessage(store, message)

(* What a function makes of a message: the same, one with new payloads of the same
   or of other keys, or, if it runs remotely, one without values. *)
Tick(function, message) ==
    LET new(key(_)) == [message EXCEPT !.payloads =
                            [i \in DOMAIN @ |-> NewPayload(key(@[i].key), @[i].value)]]
    IN  CASE function = "pass"   -> message
          [] function = "renew"  -> new(LAMBDA k : k)
          [] function = "rename" -> new(LAMBDA k : "new " \o k)
          [] function = "remote" -> [message EXCEPT !.payloads = DropAll(@)]
          [] function = "answer" -> [message EXCEPT !.reply = NoReply]   \* a new message

(* send_one, of a batch: [seq, store] of messages. *)
Output(pipe, store, inputs, outputs) ==
    LET set == StorageSet("pipe", pipe.persistent, pipe.out)
        one(done, m) ==
            LET dump == DumpPayloads(set, NoName, PayloadsMap(inputs), done.store, m.payloads)
            IN  [seq |-> Append(done.seq, [m EXCEPT !.payloads = dump.seq]), store |-> dump.store]
    IN  IF Stores(pipe) THEN FoldLeft(one, [seq |-> <<>>, store |-> store], outputs)
        ELSE [seq |-> outputs, store |-> store]

-----------------------------------------------------------------------------
(* PipePublisher, PipeSubscriber: what a client sends, and what it finds. *)
ClientSend(client, topic, payloads, store) ==
    LET set  == StorageSet(client.process, client.persistent, NoName)
        dump == DumpPayloads(set, topic, <<>>, store, payloads)
    IN  [store |-> dump.store, message |-> [payloads |-> dump.seq, reply |-> NoReply]]

ClientRead(store, message) ==
    LET read == LoadMessage(store, message)
    IN  IF read = {} THEN "error"
        ELSE LET ps == (CHOOSE m \in read : TRUE).payloads
             IN  IF ps = <<>> THEN Lost ELSE ps[1].value

(* Two clients send a message each, of one payload, to the topic "in" of a pipe,
   which takes them as one batch; the reader of its output loads them. *)
Sent(client, key, value, store) == ClientSend(client, "in", <<NewPayload(key, value)>>, store)

Clients == [process : {"client", "other"}, persistent : BOOLEAN]
Pipes   == [in : {"in"}, out : {"in", "out"}, persistent : BOOLEAN, loads : BOOLEAN, stores : BOOLEAN]

(* The values the reader finds in the two messages. *)
Travelled(pipe, function, clients, keys) ==
    LET first   == Sent(clients[1], keys[1], "v", <<>>)
        second  == Sent(clients[2], keys[2], "w", first.store)
        inputs  == [i \in 1..2 |-> Input(pipe, second.store, <<first, second>>[i].message)]
        batch   == [i \in 1..2 |-> CHOOSE m \in inputs[i] : TRUE]
        outputs == [i \in 1..2 |-> Tick(function, batch[i])]
        output  == Output(pipe, second.store, batch, outputs)
    IN  [i \in 1..2 |-> ClientRead(output.store, output.seq[i])]

(* Whether a payload outlives its pipe: one that is passed on does, unless it was in
   the message and the pipe dropped it there; a new one does if the pipe had its
   value to store, and does not take it for the one of the same key it has already. *)
Outlives(pipe, function, persistent) ==
    CASE function = "pass"   -> Loads(pipe) \/ (persistent /\ (pipe.persistent \/ ~Stores(pipe)))
      [] function = "remote" -> persistent /\ (pipe.persistent \/ ~Stores(pipe))
      [] function = "renew"  -> Loads(pipe) /\ Stores(pipe) /\ ~(persistent /\ pipe.persistent)
      [] function = "rename" -> Loads(pipe) /\ Stores(pipe)

(* Two payloads are apart if their keys are; for, one process has one path for
   a key, and a batch one payload. *)
PayloadsTravel ==
    \A pipe \in Pipes, function \in {"pass", "renew", "rename", "remote"}, clients \in [1..2 -> Clients] :
        LET found == Travelled(pipe, function, clients, <<"k", "l">>)
        IN  \A i \in 1..2 :
                found[i] = <<"v", "w">>[i] <=> Outlives(pipe, function, clients[i].persistent)

(* A request is answered by the pipe that was asked, when the messenger knows
   replies and the output still is the one of the request; or else the output goes
   on to the next pipe, which answers nobody. *)
RepliesReach ==
    \A first \in Codecs, second \in Codecs, messenger \in {"Nats", "Kafka"},
       inbox \in {"inbox", NoName}, function \in {"pass", "answer"} :
        LET hop(codec, sent, box, out) ==
                UNION {{Tick(function, Targeted(Received(messenger, box, m), out)) :
                            m \in FromBytes(ToBytes(codec, s))} : s \in sent}
            asked  == hop(first, {[payloads |-> <<>>, reply |-> NoReply]}, inbox, "out")
            passed == hop(second, asked, NoName, "end")
        IN  /\ \E m \in asked : Published("out", m) =
                    IF messenger = "Nats" /\ function = "pass" /\ inbox # NoName THEN inbox ELSE "out"
            /\ \E m \in passed : Published("end", m) = "end"

-----------------------------------------------------------------------------
(* put_metadata: the row of a message; list: what is read of the columns. *)
Cell(text) == IF text \in {NoName, NoPath} THEN Null ELSE [v |-> "string", of |-> text]
Text(name, at, default) == IF name \in DOMAIN at /\ at[name] # Null THEN at[name].of ELSE default

RowOf(message) ==
    Object("__id" :> Value("string") @@ "__timestamp" :> Value("string") @@
           "__payloads" :> Array([i \in DOMAIN message.payloads |->
               LET p == message.payloads[i]
               IN  Object("key" :> Cell(p.key) @@ "model" :> Cell(p.model) @@ "path" :> Cell(p.path) @@
                          "storage" :> Cell(p.storage) @@ "value" :> Null)]))

(* The table takes of a row what it has columns for. *)
RECURSIVE Taken(_, _)
Taken(type, value) ==
    CASE type.t = "struct" /\ value.v = "object" ->
            Object([c \in DOMAIN type.cols \cap DOMAIN value.at |-> Taken(type.cols[c].type, value.at[c])])
      [] type.t = "list" /\ value.v = "array" ->
            Array([i \in DOMAIN value.of |-> Taken(type.of, value.of[i])])
      [] OTHER -> value

(* list: a row is a message again if it has payloads, which are loaded. *)
Listed(store, table, row) ==
    LET at == Taken(table, row).at
        payload(cells) == Payload(cells.key.of, Text("model", cells, NoName),
                                  Text("path", cells, NoPath), Text("storage", cells, NoName), NoValue)
    IN  IF {"__id", "__payloads", "__timestamp"} \subseteq DOMAIN at
        THEN LoadMessage(store, [payloads |-> [i \in DOMAIN at["__payloads"].of |->
                                                    payload(at["__payloads"].of[i].at)],
                                 reply |-> NoReply])
        ELSE {}

(* The schema of PipeMessage<Value, ()> *)
MessageParts ==
    "Name" :> Simple(<<"string">>) @@ "StorageType" :> Simple(<<"string">>) @@
    "PipePayload" :> Types(<<"object">>, Never,
        "key" :> Simple(<<"string">>) @@ "path" :> Simple(<<"string", "null">>) @@
        "model" :> AnyOf(<<Reference("Name"), Simple(<<"null">>)>>) @@
        "storage" :> AnyOf(<<Reference("StorageType"), Simple(<<"null">>)>>) @@
        "value" :> Simple(<<"null">>), {"key"})
MessageSchema ==
    Types(<<"object">>, Never,
        "__id" :> Simple(<<"string">>) @@ "__timestamp" :> Simple(<<"string">>) @@
        "__payloads" :> Types(<<"array">>, Reference("PipePayload"), <<>>, {}),
        {"__id", "__payloads", "__timestamp"})

(* StorageContext::try_new, StorageTableWriter::get: the columns are those of the
   schema, if the messages have one, or else of the first row alone. *)
TableFor(static, first) ==
    IF static THEN TableOfSchema(MessageParts, MessageSchema) ELSE TableOfRow(first)

(* A payload that was stored is listed with its value, and one that was inline
   without: always, if the table is made for the messages; but if it is made from
   the first one, only if that had payloads, stored ones where this one is. *)
ListsBack ==
    \A static \in BOOLEAN, kinds \in [1..2 -> {"none", "inline", "stored"}], i \in 1..2 :
        LET by(process, n) == [process |-> process, persistent |-> kinds[n] = "stored"]
            first  == Sent(by("client", 1), "k", "v", <<>>)
            second == Sent(by("other", 2), "k", "w", first.store)
            message(n) == IF kinds[n] = "none" THEN [payloads |-> <<>>, reply |-> NoReply]
                          ELSE <<first, second>>[n].message
            table  == TableFor(static, RowOf(message(1)))
            listed == Listed(second.store, table, RowOf(message(i)))
        IN  IF ~static /\ kinds[1] = "none" THEN listed = {}
            ELSE \E m \in listed :
                    /\ static => Fits(table, FALSE, RowOf(message(i)))
                    /\ Len(m.payloads) = Len(message(i).payloads)
                    /\ m.payloads # <<>> =>
                        (m.payloads[1].value = <<"v", "w">>[i] <=>
                            (kinds[i] = "stored" /\ (static \/ kinds[1] = "stored")))

(* All the data of a pipe. *)
DataIsSound == /\ JsonFits /\ FieldsFit /\ ArrowSurvives /\ InferredFits
               /\ PayloadsTravel /\ RepliesReach /\ ListsBack

=============================================================================
