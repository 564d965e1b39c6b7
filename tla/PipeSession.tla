---------------------------- MODULE PipeSession ----------------------------
(***************************************************************************)
(* A Dash pipe (crates/dash/pipe/provider): a reader task takes messages   *)
(* from the subscription and loads their payloads, the main loop collects  *)
(* them into batches and calls the function, and write tasks store the     *)
(* payloads of the outputs, note their metadata and publish them.  The     *)
(* order of the messages is abstracted: payloads are loaded by tasks of    *)
(* their own, which end in any order.  A function gives one output for     *)
(* each input, none at all, or an error.                                   *)
(***************************************************************************)
EXTENDS Naturals, FiniteSets

CONSTANTS
    Message,        \* the messages that are published to the pipe's input
    Heavy,          \* those that have payloads to be loaded
    BatchSize,      \* the batch sizes a pipe is started with; 0: no batches
    DefaultMax,     \* PIPE_MAX_TASKS
    NoMessage       \* no message

ASSUME PipeAssumption ==
    /\ Heavy \subseteq Message
    /\ BatchSize \subseteq Nat
    /\ DefaultMax \in Nat \ {0}
    /\ NoMessage \notin Message

VARIABLES
    size,           \* the batch size of this pipe
    wire,           \* messages the subscription has not delivered yet
    held,           \* the message the reader waits to put into the channel
    loading,        \* messages whose payloads a task is loading
    loaded,         \* messages whose task waits to put them into the channel
    rx,             \* the channel to the main loop
    pc,             \* where the main loop is
    batch,          \* the inputs that were collected
    tasks,          \* write tasks: their messages left, their next step
    num,            \* AtomicSession.num_tasks
    signal,         \* FunctionSignal.is_terminating
    sent,           \* messages whose output was published
    dropped,        \* messages a failure, the function or a stop threw away
    stored,         \* messages whose payloads are in the storage
    buffer,         \* metadata written to the DeltaLake writer
    table,          \* metadata committed to the DeltaLake table
    dirty,          \* StorageTableWriter.dirty
    broken          \* metadata a failing write or commit left behind

reader == <<wire, held, loading, loaded>>
main == <<size, pc, batch>>
meta == <<buffer, table, dirty, broken>>
vars == <<reader, rx, main, tasks, num, signal, sent, dropped, stored, meta>>

Ended == pc \in {"done", "failed"}

\* The capacity of the channel, and of the tasks that are in flight.
MaxTasks == IF size = 0 THEN DefaultMax ELSE size * DefaultMax

Init ==
    /\ size \in BatchSize
    /\ wire = Message
    /\ held = NoMessage
    /\ loading = {} /\ loaded = {} /\ rx = {} /\ batch = {} /\ tasks = {}
    /\ pc = "top"
    /\ num = 0
    /\ signal = FALSE
    /\ sent = {} /\ dropped = {} /\ stored = {}
    /\ buffer = {} /\ table = {} /\ broken = {}
    /\ dirty = FALSE

----------------------------------------------------------------------------
(* The reader.                                                             *)

\* A message is taken: one that cannot be decoded is dropped, one without
\* payloads is handed over by the reader itself, and the payloads of the
\* others are loaded by a task.
Read(m) ==
    /\ ~Ended /\ held = NoMessage /\ m \in wire
    /\ wire' = wire \ {m}
    /\ \/ dropped' = dropped \union {m} /\ UNCHANGED <<held, loading>>
       \/ m \notin Heavy /\ held' = m /\ UNCHANGED <<loading, dropped>>
       \/ m \in Heavy /\ loading' = loading \union {m} /\ UNCHANGED <<held, dropped>>
    /\ UNCHANGED <<loaded, rx, main, tasks, num, signal, sent, stored, meta>>

\* A failed load ends its task with an error that nobody looks at.
Load(m) ==
    /\ ~Ended /\ m \in loading
    /\ loading' = loading \ {m}
    /\ \/ loaded' = loaded \union {m} /\ UNCHANGED dropped
       \/ dropped' = dropped \union {m} /\ UNCHANGED loaded
    /\ UNCHANGED <<wire, held, rx, main, tasks, num, signal, sent, stored, meta>>

\* The channel is bounded: the reader, or a load task, waits for a place.
HandOver ==
    /\ ~Ended /\ Cardinality(rx) < MaxTasks
    /\ \/ held # NoMessage /\ rx' = rx \union {held} /\ held' = NoMessage /\ UNCHANGED loaded
       \/ \E m \in loaded : rx' = rx \union {m} /\ loaded' = loaded \ {m} /\ UNCHANGED held
    /\ UNCHANGED <<wire, loading, main, tasks, num, signal, sent, dropped, stored, meta>>

----------------------------------------------------------------------------
(* The main loop.                                                          *)

Top ==
    /\ pc = "top"
    /\ pc' = IF signal THEN "drain" ELSE "recv"
    /\ UNCHANGED <<reader, rx, size, batch, tasks, num, signal, sent, dropped, stored, meta>>

\* The first input, or one more input of a batch.
Receive ==
    /\ pc \in {"recv", "more"}
    /\ \E m \in rx : rx' = rx \ {m} /\ batch' = batch \union {m}
    /\ pc' = IF size = 0 THEN "call" ELSE "fill"
    /\ UNCHANGED <<reader, size, tasks, num, signal, sent, dropped, stored, meta>>

\* The timer of a batch is looked at between two inputs, never while one is
\* awaited.
Fill ==
    /\ pc = "fill"
    /\ \/ pc' = "call"                                  \* full, or outdated
       \/ Cardinality(batch) < size /\ pc' = "more"
    /\ UNCHANGED <<reader, rx, size, batch, tasks, num, signal, sent, dropped, stored, meta>>

\* Awaiting an input, the loop looks at the signal ten times a second.  The
\* inputs of an unfinished batch are given up.
Interrupt ==
    /\ pc \in {"recv", "more"} /\ signal
    /\ pc' = "top"
    /\ dropped' = dropped \union batch /\ batch' = {}
    /\ UNCHANGED <<reader, rx, size, tasks, num, signal, sent, stored, meta>>

\* AtomicSession.spawn: the task is counted before it exists.
Spawn ==
    /\ tasks' = tasks \union {[left |-> batch, step |-> "dump", cur |-> NoMessage]}
    /\ num' = num + 1

\* The function is called.  It may fail, give no output or outputs to write.
Call ==
    /\ pc = "call"
    /\ batch' = {}
    /\ \/ /\ pc' = "top" /\ dropped' = dropped \union batch
          /\ UNCHANGED <<tasks, num>>
       \/ pc' = "wait" /\ Spawn /\ UNCHANGED dropped
    /\ UNCHANGED <<reader, rx, size, signal, sent, stored, meta>>

\* AtomicSession.wait.
Wait ==
    /\ pc = "wait" /\ num < MaxTasks
    /\ pc' = "top"
    /\ UNCHANGED <<reader, rx, size, batch, tasks, num, signal, sent, dropped, stored, meta>>

(* Mutant: the tasks in flight are not waited for. *)
DrainNow ==
    /\ pc = "drain"
    /\ pc' = "flush"
    /\ UNCHANGED <<reader, rx, size, batch, tasks, num, signal, sent, dropped, stored, meta>>

\* AtomicSession.terminate.
Drain ==
    /\ pc = "drain" /\ num = 0
    /\ pc' = "flush"
    /\ UNCHANGED <<reader, rx, size, batch, tasks, num, signal, sent, dropped, stored, meta>>

----------------------------------------------------------------------------
(* The metadata writer.                                                    *)

\* What a flush of the rows "all" leads to.  The writer is clean before the
\* commit is tried: when it fails the rows are left where they are, or are
\* lost with the files that were being written.
Commit(all, ok) ==
    /\ dirty' = FALSE
    /\ \/ ok /\ table' = table \union all /\ buffer' = {} /\ broken' = broken \ all
       \/ ~ok /\ broken' = broken \union all /\ buffer' \in {all, {}} /\ UNCHANGED table

\* put_metadata: the rows are flushed when the interval has elapsed.
PutMetadata(m) ==
    \/ dirty' = TRUE /\ broken' = broken \union {m} /\ UNCHANGED <<buffer, table>>
    \/ dirty' = TRUE /\ buffer' = buffer \union {m} /\ UNCHANGED <<table, broken>>
    \/ \E ok \in BOOLEAN : Commit(buffer \union {m}, ok)

\* The flush at the end; a failure ends the program with an error.
Flush ==
    /\ pc = "flush"
    /\ \/ ~dirty /\ pc' = "done" /\ UNCHANGED meta
       \/ dirty /\ Commit(buffer, TRUE) /\ pc' = "done"
       \/ dirty /\ Commit(buffer, FALSE) /\ pc' = "failed"
    /\ UNCHANGED <<reader, rx, size, batch, tasks, num, signal, sent, dropped, stored>>

----------------------------------------------------------------------------
(* The write tasks.                                                        *)

(* Mutant: a task that fails is never counted down. *)
EndUncounted(t, rest) == tasks' = tasks \ {t} /\ num' = IF rest = {} THEN num - 1 ELSE num

\* A task ends, with the messages "rest" not published, and is counted down.
End(t, rest) == tasks' = tasks \ {t} /\ num' = num - 1

\* The payloads are put into the storage, all of them or the task fails.
Dump(t) ==
    /\ t.step = "dump"
    /\ \/ /\ stored' = stored \union t.left
          /\ tasks' = (tasks \ {t}) \union {[t EXCEPT !.step = "put"]}
          /\ UNCHANGED <<num, dropped>>
       \/ End(t, t.left) /\ dropped' = dropped \union t.left /\ UNCHANGED stored
    /\ UNCHANGED <<sent, meta>>

\* The metadata of the next message is noted; a failure is only logged.
Put(t) ==
    /\ t.step = "put"
    /\ \E m \in t.left :
          /\ PutMetadata(m)
          /\ tasks' = (tasks \ {t}) \union {[t EXCEPT !.step = "send", !.cur = m]}
    /\ UNCHANGED <<num, sent, dropped, stored>>

\* The message is published or, as a reply, sent to the one that asked.  A
\* failure gives up the messages that follow it, too.
Send(t) ==
    /\ t.step = "send"
    /\ LET rest == t.left \ {t.cur} IN
       \/ /\ sent' = sent \union {t.cur} /\ UNCHANGED dropped
          /\ IF rest = {} THEN End(t, rest)
             ELSE /\ tasks' = (tasks \ {t})
                               \union {[left |-> rest, step |-> "put", cur |-> NoMessage]}
                  /\ UNCHANGED num
       \/ dropped' = dropped \union t.left /\ End(t, t.left) /\ UNCHANGED sent
    /\ UNCHANGED <<stored, meta>>

\* Any step of a write task; none is left running once the program has ended.
Write ==
    /\ ~Ended
    /\ \E t \in tasks : Dump(t) \/ Put(t) \/ Send(t)
    /\ UNCHANGED <<reader, rx, main, signal>>

----------------------------------------------------------------------------
\* SIGINT, or a function that has nothing left to do.
Terminate ==
    /\ ~signal /\ signal' = TRUE
    /\ UNCHANGED <<reader, rx, main, tasks, num, sent, dropped, stored, meta>>

Main == Top \/ Receive \/ Fill \/ Interrupt \/ Call \/ Wait \/ Drain \/ Flush

Next ==
    \/ \E m \in Message : Read(m) \/ Load(m)
    \/ HandOver \/ Main \/ Write \/ Terminate

Spec == Init /\ [][Next]_vars

\* Every task is polled as long as it can do something; a message need not
\* arrive and nobody needs to stop the pipe.
LiveSpec ==
    /\ Spec
    /\ \A m \in Message : WF_vars(Load(m))
    /\ WF_vars(HandOver)
    /\ WF_vars(Main)
    /\ WF_vars(Write)

----------------------------------------------------------------------------
Task == [left : SUBSET Message, step : {"dump", "put", "send"}, cur : Message \union {NoMessage}]

\* The messages at each of the places a message can be at, but for the tasks.
Place ==
    [wire |-> wire, held |-> {held} \ {NoMessage}, loading |-> loading, loaded |-> loaded,
     rx |-> rx, batch |-> batch, sent |-> sent, dropped |-> dropped]

TypeOK ==
    /\ size \in BatchSize
    /\ held \in Message \union {NoMessage}
    /\ \A p \in DOMAIN Place : Place[p] \subseteq Message
    /\ pc \in {"top", "recv", "fill", "more", "call", "wait", "drain", "flush", "done", "failed"}
    /\ tasks \subseteq Task
    /\ num \in Nat
    /\ signal \in BOOLEAN /\ dirty \in BOOLEAN
    /\ stored \subseteq Message
    /\ buffer \union table \union broken \subseteq Message

\* No message is handled twice or silently disappears: it is at one place.
OnePlace ==
    \A m \in Message :
        Cardinality({p \in DOMAIN Place : m \in Place[p]})
            + Cardinality({t \in tasks : m \in t.left}) = 1

\* The counter tells the tasks that are in flight, and they are never more
\* than the limit.
Counted == num = Cardinality(tasks) /\ num <= MaxTasks

\* A message is published after its payloads have been stored.
PayloadFirst == sent \subseteq stored

\* When the program has ended well nothing is being written any more, and the
\* metadata of every published message is in the table, except for what a
\* write or a commit that failed took with it.
EndsClean == pc = "done" => tasks = {} /\ sent \subseteq table \union broken

\* The type, and what holds of the pipe's messages, tasks and metadata in
\* every state.
Safe == TypeOK /\ OnePlace /\ Counted /\ PayloadFirst /\ EndsClean

\* A pipe that is told to stop stops, whatever its tasks fail at.
Terminates == signal ~> Ended

\* A pipe without batches gets rid of every message it has taken: its output
\* is published, or it was given up.
Handled ==
    \A m \in Message :
        (size = 0 /\ m \notin wire) ~> (m \in sent \union dropped \/ signal)

\* A pipe neither hangs when it is told to stop nor sits on a message.
Progresses == Terminates /\ Handled
=============================================================================
