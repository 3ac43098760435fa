---------------------------- MODULE JsonlStream ----------------------------
(***************************************************************************)
(* One streamed response from the operation to the terminal: the blocking  *)
(* producer, its bounded channel and the response stream of                *)
(* fn jsonl_response (templates/server_auto.rs), and the loop over frames  *)
(* of fn run (templates/client_auto.rs).                                   *)
(*                                                                         *)
(* The operation is an iterator; its items are numbered in the order it    *)
(* yields them, and may differ in size. It ends, fails or panics at any    *)
(* point, and leaves diagnostics behind at any of its steps. The client    *)
(* may go away and the daemon may die at any time.                         *)
(***************************************************************************)
EXTENDS Naturals, Sequences

CONSTANTS
    MaxItems,   \* bound on the items an operation yields
    Sizes,      \* sizes an item may have
    BatchSize,  \* bytes per batch (64 KiB in the code)
    Capacity,   \* messages in the channel (64 in the code)
    Window,     \* bound: frames between server and client
    MaxDiags    \* bound on the diagnostics an operation writes

ASSUME StreamAssumption ==
    /\ MaxItems \in Nat /\ MaxDiags \in Nat
    /\ Sizes \subseteq Nat
    /\ BatchSize \in Nat \ {0}
    /\ Capacity \in Nat \ {0}
    /\ Window \in Nat \ {0}

VARIABLES
    ppc,        \* what the producer does next
    yielded,    \* items the operation has yielded
    outcome,    \* how the operation ended, if it has
    batch,      \* the producer's batch, as item numbers
    bytes,      \* its size
    waiting,    \* size of the item that did not fit into the batch
    diags,      \* diagnostics written by the operation
    chan,       \* the channel
    spc,        \* what the response does next
    exit,       \* the exit code remembered by the response stream
    wire,       \* frames on their way to the client
    cpc,        \* what the client does
    stdout,     \* item numbers printed by the client, and the error row
    code,       \* the client's error_code
    shown       \* diagnostics the client has been told of

producerVars == <<ppc, yielded, outcome, batch, bytes, waiting, diags>>
serverVars == <<spc, exit>>
clientVars == <<cpc, stdout, code, shown>>
vars == <<producerVars, chan, serverVars, wire, clientVars>>

\* An error row in the output stream; no item has number 0.
ErrorRow == 0
\* Exit codes: that of a failed operation, and that of the client's own errors.
None == "none"
OpCode == "op"
Broken == "broken"

Message(items, err) == [items |-> items, err |-> err]
Data(items) == [kind |-> "data", items |-> items]
\* Response head: a success says nothing yet; an error carries everything.
Status(err, n) == [kind |-> "head", err |-> err, diags |-> n]
Trailers(ec, n) == [kind |-> "trailers", code |-> ec, diags |-> n]
End == [kind |-> "end"]

TypeOK ==
    /\ ppc \in {"pull", "flush", "flushError", "sendError", "flushEnd", "done"}
    /\ yielded \in 0..MaxItems
    /\ outcome \in {"running", "ended", "failed", "panicked"}
    /\ batch \in Seq(1..MaxItems) /\ bytes \in Nat /\ waiting \in Nat
    /\ diags \in 0..MaxDiags
    /\ chan \in Seq([items : Seq(0..MaxItems), err : BOOLEAN])
    /\ Len(chan) <= Capacity
    /\ spc \in {"first", "stream", "trailers", "closed"}
    /\ exit \in {None, OpCode}
    /\ Len(wire) <= Window
    /\ cpc \in {"head", "body", "exited", "quit"}
    /\ stdout \in Seq(0..MaxItems)
    /\ code \in {None, OpCode, Broken}
    /\ shown \in 0..MaxDiags

Init ==
    /\ ppc = "pull" /\ yielded = 0 /\ outcome = "running"
    /\ batch = <<>> /\ bytes = 0 /\ waiting = 0 /\ diags = 0
    /\ chan = <<>>
    /\ spc = "first" /\ exit = None
    /\ wire = <<>>
    /\ cpc = "head" /\ stdout = <<>> /\ code = None /\ shown = 0

-----------------------------------------------------------------------------
(* The producer: the closure given to spawn_blocking.                      *)

\* The receiver lives as long as the response that owns it.
ReceiverGone == spc = "closed"
SenderGone == ppc = "done"

\* The operation writes a diagnostic while it computes its next item.
Diagnose ==
    /\ ppc = "pull" /\ diags < MaxDiags
    /\ diags' = diags + 1
    /\ UNCHANGED <<ppc, yielded, outcome, batch, bytes, waiting, chan, serverVars, wire, clientVars>>

\* The next item joins the batch, unless the batch must be sent first.
Pull(size) ==
    /\ ppc = "pull" /\ yielded < MaxItems
    /\ yielded' = yielded + 1
    /\ IF bytes + size > BatchSize /\ batch # <<>>
       THEN ppc' = "flush" /\ waiting' = size /\ UNCHANGED <<batch, bytes>>
       ELSE /\ batch' = Append(batch, yielded') /\ bytes' = bytes + size
            /\ UNCHANGED <<ppc, waiting>>
    /\ UNCHANGED <<outcome, diags, chan, serverVars, wire, clientVars>>

\* Mutant: the batch in hand is forgotten when the operation fails.
Fail_DropsBatch ==
    /\ ppc = "pull"
    /\ outcome' = "failed"
    /\ ppc' = "sendError"
    /\ UNCHANGED <<yielded, batch, bytes, waiting, diags, chan, serverVars, wire, clientVars>>

\* The operation fails: what it yielded before goes out first.
Fail ==
    /\ ppc = "pull"
    /\ outcome' = "failed"
    /\ ppc' = IF batch = <<>> THEN "sendError" ELSE "flushError"
    /\ UNCHANGED <<yielded, batch, bytes, waiting, diags, chan, serverVars, wire, clientVars>>

Finish ==
    /\ ppc = "pull"
    /\ outcome' = "ended"
    /\ ppc' = IF batch = <<>> THEN "done" ELSE "flushEnd"
    /\ UNCHANGED <<yielded, batch, bytes, waiting, diags, chan, serverVars, wire, clientVars>>

\* The operation panics: the blocking task unwinds, batch and sender are gone,
\* and nobody looks at the task's result.
Panic ==
    /\ ppc = "pull"
    /\ outcome' = "panicked"
    /\ ppc' = "done"
    /\ UNCHANGED <<yielded, batch, bytes, waiting, diags, chan, serverVars, wire, clientVars>>

\* Sending the batch: where the producer goes, and what its next batch holds.
AfterSend == CASE ppc = "flush" -> "pull"
               [] ppc = "flushError" -> "sendError"
               [] ppc = "flushEnd" -> "done"
Refill(taken) ==
    /\ batch' = taken \o (IF ppc = "flush" THEN <<yielded>> ELSE <<>>)
    /\ bytes' = IF ppc = "flush" THEN waiting ELSE 0

\* Mutant: a batch sent to make room is sent again with the next item.
SendBatch_KeepsBatch ==
    /\ ppc \in {"flush", "flushError", "flushEnd"}
    /\ ~ReceiverGone /\ Len(chan) < Capacity
    /\ chan' = Append(chan, Message(batch, FALSE))
    /\ Refill(batch) /\ ppc' = AfterSend
    /\ UNCHANGED <<yielded, outcome, waiting, diags, serverVars, wire, clientVars>>

\* Mutant: the producer waits for room even when nobody will make any.
SendBatch_IgnoresClose ==
    /\ ppc \in {"flush", "flushError", "flushEnd"}
    /\ ~ReceiverGone /\ Len(chan) < Capacity
    /\ chan' = Append(chan, Message(batch, FALSE))
    /\ Refill(<<>>) /\ ppc' = AfterSend
    /\ UNCHANGED <<yielded, outcome, waiting, diags, serverVars, wire, clientVars>>

\* blocking_send waits for room, and fails once the receiver is gone.
SendBatch ==
    /\ ppc \in {"flush", "flushError", "flushEnd"}
    /\ \/ /\ ReceiverGone
          /\ ppc' = "done"
          /\ UNCHANGED <<batch, bytes, chan>>
       \/ /\ ~ReceiverGone /\ Len(chan) < Capacity
          /\ chan' = Append(chan, Message(batch, FALSE))
          /\ Refill(<<>>) /\ ppc' = AfterSend
    /\ UNCHANGED <<yielded, outcome, waiting, diags, serverVars, wire, clientVars>>

\* The error row is the producer's last word, whether it can be sent or not.
SendError ==
    /\ ppc = "sendError"
    /\ ReceiverGone \/ Len(chan) < Capacity
    /\ chan' = IF ReceiverGone THEN chan ELSE Append(chan, Message(<<ErrorRow>>, TRUE))
    /\ ppc' = "done"
    /\ UNCHANGED <<yielded, outcome, batch, bytes, waiting, diags, serverVars, wire, clientVars>>

-----------------------------------------------------------------------------
(* The response: fn jsonl_response after spawn_blocking.                   *)

Room == Len(wire) < Window

\* The first message decides between an error response, which carries the
\* error and all diagnostics in its head, and a stream.
RecvFirst ==
    /\ spc = "first" /\ Room
    /\ \/ /\ chan # <<>> /\ chan[1].err
          /\ wire' = Append(wire, Status(TRUE, diags))
          /\ chan' = <<>> /\ spc' = "closed"
       \/ /\ IF chan = <<>> THEN SenderGone ELSE ~chan[1].err
          /\ wire' = Append(wire, Status(FALSE, 0))
          /\ spc' = "stream"
          /\ UNCHANGED chan
    /\ UNCHANGED <<producerVars, exit, clientVars>>

\* The stream hands out the messages in order, and remembers the exit code.
Emit ==
    /\ spc = "stream" /\ Room
    /\ chan # <<>>
    /\ wire' = Append(wire, Data(chan[1].items))
    /\ exit' = IF chan[1].err THEN OpCode ELSE exit
    /\ chan' = Tail(chan)
    /\ UNCHANGED <<producerVars, spc, clientVars>>

\* Mutant: diagnostics go out only along with an exit code.
EmitTrailers_OnlyOnError ==
    /\ spc = "stream" /\ Room
    /\ chan = <<>> /\ SenderGone
    /\ wire' = IF exit = None THEN Append(wire, End) ELSE Append(wire, Trailers(exit, diags))
    /\ spc' = IF exit = None THEN "closed" ELSE "trailers"
    /\ UNCHANGED <<producerVars, chan, exit, clientVars>>

\* Once the channel is closed and empty, one frame of trailers follows, unless
\* there is nothing to say.
EmitTrailers ==
    /\ spc = "stream" /\ Room
    /\ chan = <<>> /\ SenderGone
    /\ wire' = IF exit = None /\ diags = 0
               THEN Append(wire, End) ELSE Append(wire, Trailers(exit, diags))
    /\ spc' = IF exit = None /\ diags = 0 THEN "closed" ELSE "trailers"
    /\ UNCHANGED <<producerVars, chan, exit, clientVars>>

EmitEnd ==
    /\ spc = "trailers" /\ Room
    /\ wire' = Append(wire, End)
    /\ spc' = "closed"
    /\ UNCHANGED <<producerVars, chan, exit, clientVars>>

-----------------------------------------------------------------------------
(* The client: fn run after send.                                          *)

\* The response head: an error ends the run with the exit code it carries.
ReadHead ==
    /\ cpc = "head" /\ wire # <<>>
    /\ wire' = Tail(wire)
    /\ shown' = wire[1].diags
    /\ IF wire[1].err
       THEN cpc' = "exited" /\ code' = OpCode
       ELSE cpc' = "body" /\ UNCHANGED code
    /\ UNCHANGED <<producerVars, chan, serverVars, stdout>>

\* Data goes to stdout, trailers add diagnostics and may set the exit code.
ReadFrame ==
    /\ cpc = "body" /\ wire # <<>>
    /\ wire' = Tail(wire)
    /\ LET frame == wire[1] IN
       CASE frame.kind = "data" ->
                stdout' = stdout \o frame.items /\ UNCHANGED <<cpc, code, shown>>
         [] frame.kind = "trailers" ->
                /\ shown' = shown + frame.diags
                /\ code' = IF frame.code = None THEN code ELSE frame.code
                /\ UNCHANGED <<cpc, stdout>>
         [] frame.kind = "end" ->
                cpc' = "exited" /\ UNCHANGED <<stdout, code, shown>>
    /\ UNCHANGED <<producerVars, chan, serverVars>>

\* The client is interrupted, or cannot write: the connection closes, and the
\* server drops the response and with it the receiver.
Quit ==
    /\ cpc \in {"head", "body"}
    /\ cpc' = "quit"
    /\ spc' = "closed" /\ chan' = <<>> /\ wire' = <<>>
    /\ UNCHANGED <<producerVars, exit, stdout, code, shown>>

\* The daemon dies: the frames already sent still arrive, and then an error.
Die ==
    /\ cpc \in {"head", "body"} /\ spc # "closed"
    /\ ppc' = "done" /\ spc' = "closed" /\ chan' = <<>>
    /\ UNCHANGED <<yielded, outcome, batch, bytes, waiting, diags, exit, wire, clientVars>>

\* The connection ended before the response did: `frame?' ends the run, and
\* with it the buffered writer, which is not flushed. The diagnostics so far
\* are not written either.
SeeBroken ==
    /\ cpc \in {"head", "body"} /\ wire = <<>> /\ spc = "closed"
    /\ cpc' = "exited" /\ code' = Broken
    /\ \E n \in 0..Len(stdout) : stdout' = SubSeq(stdout, 1, n)
    /\ shown' = 0
    /\ UNCHANGED <<producerVars, chan, serverVars, wire>>

Over == cpc \in {"exited", "quit"} /\ SenderGone /\ UNCHANGED vars

Producer == Diagnose \/ (\E size \in Sizes : Pull(size)) \/ Fail \/ Finish \/ Panic
                \/ SendBatch \/ SendError
Server == RecvFirst \/ Emit \/ EmitTrailers \/ EmitEnd
Client == ReadHead \/ ReadFrame \/ SeeBroken

Next == Producer \/ Server \/ Client \/ Quit \/ Die \/ Over

\* The threads run, and the client reads. Nothing obliges it to quit or the
\* daemon to die.
Fairness == WF_vars(Producer) /\ WF_vars(Server) /\ WF_vars(Client)

Spec == Init /\ [][Next]_vars
FairSpec == Spec /\ Fairness

-----------------------------------------------------------------------------
(* Properties.                                                             *)

\* What the operation yielded, as numbers: the first n items.
Items(n) == [i \in 1..n |-> i]

\* Whatever happens to the connection, the terminal shows the items in order,
\* none twice and none left out in between, and an error row only after the
\* last item of an operation that did fail.
StdoutInOrder ==
    \/ \E n \in 0..yielded : stdout = Items(n)
    \/ outcome = "failed" /\ stdout = Append(Items(yielded), ErrorRow)

\* The exit code of a run that ends tells the truth: 0 only if everything the
\* operation yielded was printed, the operation's code only if it failed, and
\* then with the items before the failure printed; and unless the connection
\* was lost, every diagnostic has been shown, whether the operation ended, failed
\* or panicked. (A panic is not told: the stream then ends like that of an
\* operation that ended early.)
ExitCodeTellsTruth ==
    cpc = "exited" =>
        /\ code = None /\ outcome # "panicked" =>
               outcome = "ended" /\ stdout = Items(yielded)
        /\ code = OpCode =>
               /\ outcome = "failed"
               /\ IF yielded = 0 THEN stdout = <<>>
                  ELSE stdout = Append(Items(yielded), ErrorRow)
        /\ code # Broken => shown = diags

\* A response ends: the client gets an end and the blocking thread is freed,
\* also if the client leaves while the channel is full.
ResponseEnds == <>(cpc \in {"exited", "quit"} /\ SenderGone)
=============================================================================
