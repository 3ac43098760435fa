-------------------------- MODULE JsonlStreamProofs --------------------------
(* What arrives at the terminal, for items of any number and size, and any   *)
(* sizes of the batch, the channel and the connection.                       *)
EXTENDS JsonlStream, SequenceTheorems, TLAPS

-----------------------------------------------------------------------------
(* The items in flight. The operation gives n items, numbered, and perhaps an *)
(* error row; on their way they are cut into pieces.                         *)

\* What lies between two cuts: the items after the a-th up to the b-th, where
\* the error row comes after the n-th.
Piece(n, a, b) == [k \in 1..(b - a) |-> IF a + k <= n THEN a + k ELSE ErrorRow]

\* The first len places of p hold all that lies between a and b, in order.
Chain(n, len, p, a, b) ==
    \E c \in [0..len -> a..b] :
        /\ c[0] = a /\ c[len] = b
        /\ \A i, j \in 0..len : i <= j => c[i] <= c[j]
        /\ \A i \in 1..len : p[i] = Piece(n, c[i - 1], c[i])

Payload(frame) == IF frame.kind = "data" THEN frame.items ELSE <<>>
OnWire == [i \in 1..Len(wire) |-> Payload(wire[i])]
InChan == [i \in 1..Len(chan) |-> chan[i].items]

\* What the producer has done once b items, the error row among them, are sent.
Sent(b) ==
    /\ ppc \in {"pull", "flushError", "flushEnd"} =>
           b <= yielded /\ batch = Piece(yielded, b, yielded)
    /\ ppc = "flush" => b < yielded /\ batch = Piece(yielded, b, yielded - 1)
    /\ ppc = "sendError" => b = yielded
    /\ ppc = "done" => /\ outcome = "ended" => b = yielded
                       /\ outcome = "failed" <=> b = yielded + 1

\* The response says no more: the stream handed out everything.
EndSent == \E i \in 1..Len(wire) : wire[i].kind = "end"
Closing == spc = "trailers" \/ EndSent
TrailersSent == \E i \in 1..Len(wire) : wire[i].kind = "trailers"

\* w is the place of the last item that the response has handed out.
FlowAt(w) ==
    /\ stdout = Piece(yielded, 0, Len(stdout))
    /\ Chain(yielded, Len(wire), OnWire, Len(stdout), w)
    /\ w = yielded + 1 => outcome = "failed"
    /\ spc # "closed" =>
           /\ w = yielded + 1 <=> exit = OpCode
           /\ \E b \in w..(yielded + 1) : Chain(yielded, Len(chan), InChan, w, b) /\ Sent(b)
    /\ Closing => /\ outcome = "ended" => w = yielded
                  /\ outcome = "failed" => w = yielded + 1

Flow == \E w \in 0..(yielded + 1) : FlowAt(w)

-----------------------------------------------------------------------------
(* The stages.                                                             *)

\* The blocking task: its next step tells how the operation stands.
ProducerInv ==
    /\ ppc \in {"pull", "flush"} => outcome = "running"
    /\ ppc \in {"flushError", "sendError"} => outcome = "failed"
    /\ ppc = "flushEnd" => outcome = "ended"
    /\ ppc \in {"flush", "flushError", "flushEnd"} => batch # <<>>
    /\ ppc = "done" /\ spc # "closed" => outcome # "running"

\* An error row has a message of its own, the last; no message is empty.
ChanInv ==
    /\ \A i \in 1..Len(chan) :
           /\ chan[i].err => chan[i].items = <<ErrorRow>> /\ ppc = "done"
           /\ ~chan[i].err => chan[i].items \in Seq(1..MaxItems) /\ chan[i].items # <<>>
    /\ spc \in {"trailers", "closed"} => chan = <<>>

\* The response and what it has put on the wire: a head, data, trailers, the end.
Frame == [kind : {"data"}, items : Seq(0..MaxItems)]
             \union [kind : {"head"}, err : BOOLEAN, diags : 0..MaxDiags]
             \union [kind : {"trailers"}, code : {None, OpCode}, diags : 0..MaxDiags]
             \union [kind : {"end"}]

ServerInv ==
    /\ spc = "first" => wire = <<>> /\ stdout = <<>> /\ cpc = "head" /\ exit = None
    /\ spc # "closed" => cpc \in {"head", "body"}
    /\ spc = "stream" => yielded > 0 \/ (ppc = "done" /\ chan = <<>> /\ exit = None)
    /\ spc = "trailers" => ppc = "done"
    /\ exit = OpCode => yielded > 0 /\ ppc = "done" /\ outcome = "failed"
    /\ Closing => outcome # "running" /\ (outcome = "failed" => exit = OpCode)

\* A head comes first, the status behind all rows, and the end last.
FramesInv ==
    \A i \in 1..Len(wire) :
       /\ wire[i].kind = "head" => i = 1
       /\ wire[i].kind = "head" /\ wire[i].err =>
              /\ Len(wire) = 1 /\ spc = "closed" /\ ppc = "done"
              /\ yielded = 0 /\ outcome = "failed" /\ wire[i].diags = diags
       /\ wire[i].kind = "head" /\ ~wire[i].err => wire[i].diags = 0
       /\ wire[i].kind = "end" => i = Len(wire) /\ spc = "closed" /\ ppc = "done"
       /\ wire[i].kind = "trailers" =>
              /\ spc \in {"trailers", "closed"} /\ ppc = "done"
              /\ wire[i].code = exit /\ wire[i].diags = diags
              /\ \A j \in (i + 1)..Len(wire) : wire[j].kind = "end"

WireInv ==
    /\ wire \in Seq(Frame)
    /\ cpc = "head" => stdout = <<>> /\ (spc \in {"stream", "trailers"} => wire # <<>>)
    /\ cpc = "head" /\ wire # <<>> => wire[1].kind = "head"
    /\ cpc = "body" /\ wire # <<>> => wire[1].kind # "head"
    /\ cpc \in {"exited", "quit"} => wire = <<>> /\ spc = "closed"
    /\ FramesInv

\* What the client knows: nothing, until it has read the trailers.
ClientInv ==
    /\ spc \in {"first", "stream"} \/ TrailersSent \/ cpc = "head" => code = None /\ shown = 0
    /\ Closing => TrailersSent \/ (code = exit /\ shown = diags)
    /\ cpc = "exited" => code = Broken \/ ppc = "done"
    /\ ExitCodeTellsTruth

IInv == TypeOK /\ Flow /\ ProducerInv /\ ChanInv /\ ServerInv /\ WireInv /\ ClientInv

-----------------------------------------------------------------------------
(* Pieces and chains.                                                      *)

LEMMA PieceType ==
    ASSUME NEW n \in Nat, NEW a \in Nat, NEW b \in Nat, a <= b
    PROVE  /\ Piece(n, a, b) \in Seq(Nat)
           /\ Len(Piece(n, a, b)) = b - a
<1>1. b - a \in Nat /\ Piece(n, a, b) = [k \in 1..(b - a) |-> IF a + k <= n THEN a + k ELSE ErrorRow]
    BY DEF Piece
<1>2. \A k \in 1..(b - a) : (IF a + k <= n THEN a + k ELSE ErrorRow) \in Nat
    BY DEF ErrorRow
<1> QED BY <1>1, <1>2, IsASeq, LenProperties

LEMMA PieceAt ==
    ASSUME NEW n \in Nat, NEW a \in Nat, NEW b \in Nat, NEW k \in 1..(b - a)
    PROVE  Piece(n, a, b)[k] = IF a + k <= n THEN a + k ELSE ErrorRow
BY DEF Piece

LEMMA PieceEmpty ==
    ASSUME NEW n \in Nat, NEW a \in Nat, NEW b \in Nat, a <= b
    PROVE  Piece(n, a, b) = <<>> <=> a = b
<1>1. Piece(n, a, b) \in Seq(Nat) /\ Len(Piece(n, a, b)) = b - a
    BY PieceType
<1>2. Piece(n, a, b) = <<>> <=> Len(Piece(n, a, b)) = 0
    BY <1>1, EmptySeq
<1> QED BY <1>1, <1>2

(* What has been printed begins with the first item.                         *)
LEMMA PieceFirst ==
    ASSUME NEW n \in Nat, NEW b \in Nat
    PROVE  Piece(n, 0, b) \in Seq(Nat) /\ Len(Piece(n, 0, b)) = b
<1>1. 0 \in Nat /\ 0 <= b
    OBVIOUS
<1>2. Piece(n, 0, b) \in Seq(Nat) /\ Len(Piece(n, 0, b)) = b - 0
    BY <1>1, PieceType
<1> QED BY <1>2

(* A piece that begins where another ends continues it.                      *)
LEMMA PieceConcat ==
    ASSUME NEW n \in Nat, NEW a \in Nat, NEW b \in Nat, NEW d \in Nat, a <= b, b <= d
    PROVE  Piece(n, a, b) \o Piece(n, b, d) = Piece(n, a, d)
<1> DEFINE s == Piece(n, a, b)
           t == Piece(n, b, d)
           u == Piece(n, a, d)
<1>1. a <= d
    OBVIOUS
<1>2. s \in Seq(Nat) /\ Len(s) = b - a
    BY PieceType
<1>3. t \in Seq(Nat) /\ Len(t) = d - b
    BY PieceType
<1>4. u \in Seq(Nat) /\ Len(u) = d - a
    BY <1>1, PieceType
<1>5. s \o t \in Seq(Nat) /\ Len(s \o t) = Len(u)
    <2> HIDE DEF s, t, u
    <2>1. s \o t \in Seq(Nat) /\ Len(s \o t) = Len(s) + Len(t)
        BY <1>2, <1>3, ConcatProperties
    <2> QED BY <1>2, <1>3, <1>4, <2>1
<1>6. ASSUME NEW i \in 1..Len(u) PROVE (s \o t)[i] = u[i]
    <2>1. i \in 1..(d - a) /\ i \in 1..(Len(s) + Len(t))
        BY <1>2, <1>3, <1>4, <1>6
    <2>2. u[i] = IF a + i <= n THEN a + i ELSE ErrorRow
        BY <2>1, PieceAt
    <2>3. (s \o t)[i] = IF i <= Len(s) THEN s[i] ELSE t[i - Len(s)]
        BY <1>2, <1>3, <2>1, ConcatProperties
    <2>4. CASE i <= b - a
        <3>1. i \in 1..(b - a)
            BY <2>1, <2>4
        <3>2. s[i] = IF a + i <= n THEN a + i ELSE ErrorRow
            BY <3>1, PieceAt
        <3> QED BY <1>2, <2>2, <2>3, <2>4, <3>2
    <2>5. CASE i > b - a
        <3>1. i - (b - a) \in 1..(d - b) /\ b + (i - (b - a)) = a + i
            BY <2>1, <2>5
        <3>2. t[i - (b - a)] = IF b + (i - (b - a)) <= n THEN b + (i - (b - a)) ELSE ErrorRow
            BY <3>1, PieceAt
        <3> HIDE DEF s, t, u
        <3> QED BY <1>2, <2>1, <2>2, <2>3, <2>5, <3>1, <3>2
    <2> QED BY <2>1, <2>4, <2>5
<1> HIDE DEF s, t, u
<1>7. s \o t = u
    BY <1>4, <1>5, <1>6, SeqEqual
<1> QED BY <1>7 DEF s, t, u

LEMMA PieceFirstTwo ==
    ASSUME NEW n \in Nat, NEW b \in Nat, NEW d \in Nat, b <= d
    PROVE  Piece(n, 0, b) \o Piece(n, b, d) = Piece(n, 0, d)
<1>1. ASSUME NEW a \in Nat, a <= b
      PROVE  Piece(n, a, b) \o Piece(n, b, d) = Piece(n, a, d)
    BY <1>1, PieceConcat
<1>2. 0 \in Nat /\ 0 <= b
    OBVIOUS
<1> QED BY <1>1, <1>2, Zenon

(* As long as there is no error row, another item changes no piece.          *)
LEMMA PieceGrow ==
    ASSUME NEW n \in Nat, NEW a \in Nat, NEW b \in Nat, b <= n
    PROVE  Piece(n + 1, a, b) = Piece(n, a, b)
BY DEF Piece

LEMMA PieceAppend ==
    ASSUME NEW n \in Nat, NEW a \in Nat, a <= n
    PROVE  /\ Append(Piece(n, a, n), n + 1) = Piece(n + 1, a, n + 1)
           /\ Piece(n + 1, n, n + 1) = <<n + 1>>
           /\ Piece(n, n, n + 1) = <<ErrorRow>>
<1>1. Piece(n + 1, n, n + 1) = <<n + 1>>
    BY DEF Piece
<1>2. Piece(n, n, n + 1) = <<ErrorRow>>
    BY DEF Piece
<1>3. Piece(n, a, n) \in Seq(Nat)
    BY PieceType
<1>4. Append(Piece(n, a, n), n + 1) = Piece(n, a, n) \o <<n + 1>>
    BY <1>3, AppendIsConcat
<1>5. Piece(n, a, n) = Piece(n + 1, a, n)
    BY PieceGrow
<1>6. n + 1 \in Nat /\ n <= n + 1
    OBVIOUS
<1>7. Piece(n + 1, a, n) \o Piece(n + 1, n, n + 1) = Piece(n + 1, a, n + 1)
    BY <1>6, PieceConcat
<1> QED BY <1>1, <1>2, <1>4, <1>5, <1>7

(* A beginning of what has been printed.                                     *)
LEMMA PieceCut ==
    ASSUME NEW n \in Nat, NEW b \in Nat, NEW m \in 0..b
    PROVE  SubSeq(Piece(n, 0, b), 1, m) = Piece(n, 0, m)
<1> DEFINE s == Piece(n, 0, b)
           t == Piece(n, 0, m)
           r == SubSeq(s, 1, m)
<1>1. s \in Seq(Nat) /\ Len(s) = b
    BY PieceFirst
<1>2. t \in Seq(Nat) /\ Len(t) = m
    BY PieceFirst
<1>3. ASSUME NEW i \in 1..m PROVE s[i] = t[i] /\ s[i] \in Nat
    <2>1. i \in 1..(b - 0) /\ i \in 1..(m - 0) /\ 0 \in Nat
        OBVIOUS
    <2>2. s[i] = (IF 0 + i <= n THEN 0 + i ELSE ErrorRow)
        BY <2>1, PieceAt
    <2>3. t[i] = (IF 0 + i <= n THEN 0 + i ELSE ErrorRow)
        BY <2>1, PieceAt
    <2> QED BY <1>1, <2>1, <2>2, <2>3 DEF ErrorRow
<1> HIDE DEF s, t
<1>4. r \in Seq(Nat) /\ Len(r) = m /\ \A i \in 1..m : r[i] = s[i]
    BY <1>1, <1>3, SubSeqProperties
<1> HIDE DEF r
<1>5. r = t
    BY <1>2, <1>3, <1>4, SeqEqual
<1> QED BY <1>5 DEF r, s, t

(* An empty stage holds nothing.                                             *)
LEMMA ChainEmpty ==
    ASSUME NEW n \in Nat, NEW p, NEW a \in Nat
    PROVE  Chain(n, 0, p, a, a)
<1> DEFINE c == [i \in 0..0 |-> a]
<1>1. c \in [0..0 -> a..a] /\ c[0] = a
    OBVIOUS
<1> HIDE DEF c
<1> QED BY <1>1 DEF Chain

LEMMA ChainEmptyOnly ==
    ASSUME NEW n \in Nat, NEW p, NEW a \in Nat, NEW b \in Nat, Chain(n, 0, p, a, b)
    PROVE  a = b
BY DEF Chain

(* A chain is what its places hold. *)
LEMMA ChainSame ==
    ASSUME NEW n, NEW len \in Nat, NEW p, NEW q, NEW a, NEW b,
           Chain(n, len, p, a, b), \A i \in 1..len : q[i] = p[i]
    PROVE  Chain(n, len, q, a, b)
BY DEF Chain

LEMMA ChainOrder ==
    ASSUME NEW n \in Nat, NEW len \in Nat, NEW p, NEW a \in Nat, NEW b \in Nat,
           Chain(n, len, p, a, b)
    PROVE  a <= b
<1>1. PICK c \in [0..len -> a..b] : c[0] = a
    BY DEF Chain
<1> QED BY <1>1

(* The first place of a chain, and the rest.                                 *)
LEMMA ChainHead ==
    ASSUME NEW n \in Nat, NEW len \in Nat, NEW p, NEW q, NEW a \in Nat, NEW b \in Nat,
           Chain(n, len, p, a, b), len > 0, \A i \in 1..(len - 1) : q[i] = p[i + 1]
    PROVE  \E m \in a..b : p[1] = Piece(n, a, m) /\ Chain(n, len - 1, q, m, b)
<1>1. PICK c \in [0..len -> a..b] :
        /\ c[0] = a /\ c[len] = b
        /\ \A i, j \in 0..len : i <= j => c[i] <= c[j]
        /\ \A i \in 1..len : p[i] = Piece(n, c[i - 1], c[i])
    BY DEF Chain
<1> DEFINE d == [i \in 0..(len - 1) |-> c[i + 1]]
<1>2. c[1] \in a..b /\ p[1] = Piece(n, a, c[1])
    BY <1>1, SMTT(20)
<1>3. ASSUME NEW i \in 0..(len - 1) PROVE d[i] = c[i + 1] /\ i + 1 \in 1..len /\ c[i + 1] \in c[1]..b
    BY <1>1
<1>4. d \in [0..(len - 1) -> c[1]..b]
    BY <1>3
<1>5. d[0] = c[1] /\ d[len - 1] = b
    BY <1>1
<1>6. \A i, j \in 0..(len - 1) : i <= j => d[i] <= d[j]
    BY <1>1, <1>3
<1>7. ASSUME NEW i \in 1..(len - 1) PROVE q[i] = Piece(n, d[i - 1], d[i])
    <2>1. d[i - 1] = c[i] /\ d[i] = c[i + 1] /\ i + 1 \in 1..len
        OBVIOUS
    <2>2. p[i + 1] = Piece(n, c[(i + 1) - 1], c[i + 1])
        BY <1>1, <2>1
    <2> QED BY <2>1, <2>2
<1> HIDE DEF d
<1>8. Chain(n, len - 1, q, c[1], b)
    BY <1>4, <1>5, <1>6, <1>7 DEF Chain
<1> QED BY <1>2, <1>8

(* Another place at the end.                                                 *)
LEMMA ChainAppend ==
    ASSUME NEW n \in Nat, NEW len \in Nat, NEW p, NEW q, NEW a \in Nat, NEW b \in Nat,
           NEW d \in Nat, Chain(n, len, p, a, b), b <= d,
           \A i \in 1..len : q[i] = p[i], q[len + 1] = Piece(n, b, d)
    PROVE  Chain(n, len + 1, q, a, d)
<1>1. PICK c \in [0..len -> a..b] :
        /\ c[0] = a /\ c[len] = b
        /\ \A i, j \in 0..len : i <= j => c[i] <= c[j]
        /\ \A i \in 1..len : p[i] = Piece(n, c[i - 1], c[i])
    BY DEF Chain
<1> DEFINE e == [i \in 0..(len + 1) |-> IF i <= len THEN c[i] ELSE d]
<1>2. ASSUME NEW i \in 0..(len + 1)
      PROVE  e[i] \in a..d /\ e[i] = IF i <= len THEN c[i] ELSE d
    BY <1>1
<1>3. e \in [0..(len + 1) -> a..d]
    BY <1>2
<1>4. e[0] = a /\ e[len + 1] = d
    BY <1>1
<1>5. \A i, j \in 0..(len + 1) : i <= j => e[i] <= e[j]
    BY <1>1, <1>2
<1>6. ASSUME NEW i \in 1..(len + 1) PROVE q[i] = Piece(n, e[i - 1], e[i])
    <2>1. CASE i <= len
        BY <1>1, <2>1
    <2>2. CASE i = len + 1
        BY <1>1, <2>2
    <2> QED BY <2>1, <2>2
<1> HIDE DEF e
<1> QED BY <1>3, <1>4, <1>5, <1>6 DEF Chain

(* A chain that holds no error row stays as it is when another item comes.   *)
LEMMA ChainGrow ==
    ASSUME NEW n \in Nat, NEW len \in Nat, NEW p, NEW a \in Nat, NEW b \in Nat,
           Chain(n, len, p, a, b), b <= n
    PROVE  Chain(n + 1, len, p, a, b)
<1>1. PICK c \in [0..len -> a..b] :
        /\ c[0] = a /\ c[len] = b
        /\ \A i, j \in 0..len : i <= j => c[i] <= c[j]
        /\ \A i \in 1..len : p[i] = Piece(n, c[i - 1], c[i])
    BY DEF Chain
<1>2. ASSUME NEW i \in 1..len PROVE p[i] = Piece(n + 1, c[i - 1], c[i])
    <2>1. c[i - 1] \in Nat /\ c[i] \in Nat /\ c[i] <= n
        OBVIOUS
    <2> QED BY <1>1, <2>1, PieceGrow
<1> QED BY <1>1, <1>2 DEF Chain

-----------------------------------------------------------------------------
(* The channel and the connection as queues.                               *)

LEMMA WireAppend ==
    ASSUME wire \in Seq(Frame), NEW f \in Frame, wire' = Append(wire, f)
    PROVE  /\ wire' \in Seq(Frame)
           /\ Len(wire) \in Nat /\ Len(wire') = Len(wire) + 1
           /\ \A i \in 1..Len(wire) : wire'[i] = wire[i] /\ OnWire'[i] = OnWire[i]
           /\ wire'[Len(wire) + 1] = f /\ OnWire'[Len(wire) + 1] = Payload(f)
<1>1. /\ wire' \in Seq(Frame) /\ Len(wire') = Len(wire) + 1 /\ Len(wire) \in Nat
      /\ \A i \in 1..Len(wire) : wire'[i] = wire[i]
      /\ wire'[Len(wire) + 1] = f
    BY AppendProperties, LenProperties
<1>2. \A i \in 1..(Len(wire) + 1) : OnWire'[i] = Payload(wire'[i])
    BY <1>1 DEF OnWire, Payload
<1>3. \A i \in 1..Len(wire) : OnWire[i] = Payload(wire[i])
    BY DEF OnWire
<1> QED BY <1>1, <1>2, <1>3

LEMMA WireTail ==
    ASSUME wire \in Seq(Frame), wire # <<>>, wire' = Tail(wire)
    PROVE  /\ wire' \in Seq(Frame)
           /\ Len(wire) \in Nat \ {0} /\ Len(wire') = Len(wire) - 1
           /\ wire[1] \in Frame /\ OnWire[1] = Payload(wire[1])
           /\ \A i \in 1..(Len(wire) - 1) : wire'[i] = wire[i + 1] /\ OnWire'[i] = OnWire[i + 1]
<1>1. /\ wire' \in Seq(Frame) /\ Len(wire') = Len(wire) - 1 /\ Len(wire) \in Nat \ {0}
      /\ \A i \in 1..(Len(wire) - 1) : wire'[i] = wire[i + 1]
    BY HeadTailProperties, LenProperties, EmptySeq
<1>2. \A i \in 1..(Len(wire) - 1) : OnWire'[i] = Payload(wire'[i])
    BY <1>1 DEF OnWire, Payload
<1>3. \A i \in 1..Len(wire) : OnWire[i] = Payload(wire[i])
    BY DEF OnWire
<1>4. wire[1] \in Frame
    BY <1>1, ElementOfSeq
<1> QED BY <1>1, <1>2, <1>3, <1>4

Messages == [items : Seq(0..MaxItems), err : BOOLEAN]

LEMMA ChanAppend ==
    ASSUME chan \in Seq(Messages), NEW m \in Messages, chan' = Append(chan, m)
    PROVE  /\ chan' \in Seq(Messages)
           /\ Len(chan) \in Nat /\ Len(chan') = Len(chan) + 1
           /\ \A i \in 1..Len(chan) : chan'[i] = chan[i] /\ InChan'[i] = InChan[i]
           /\ chan'[Len(chan) + 1] = m /\ InChan'[Len(chan) + 1] = m.items
<1>1. /\ chan' \in Seq(Messages) /\ Len(chan') = Len(chan) + 1 /\ Len(chan) \in Nat
      /\ \A i \in 1..Len(chan) : chan'[i] = chan[i]
      /\ chan'[Len(chan) + 1] = m
    BY AppendProperties, LenProperties
<1>2. \A i \in 1..(Len(chan) + 1) : InChan'[i] = chan'[i].items
    BY <1>1 DEF InChan
<1>3. \A i \in 1..Len(chan) : InChan[i] = chan[i].items
    BY DEF InChan
<1> QED BY <1>1, <1>2, <1>3

LEMMA ChanTail ==
    ASSUME chan \in Seq(Messages), chan # <<>>, chan' = Tail(chan)
    PROVE  /\ chan' \in Seq(Messages)
           /\ Len(chan) \in Nat \ {0} /\ Len(chan') = Len(chan) - 1
           /\ chan[1] \in Messages /\ InChan[1] = chan[1].items
           /\ \A i \in 1..(Len(chan) - 1) : chan'[i] = chan[i + 1] /\ InChan'[i] = InChan[i + 1]
<1>1. /\ chan' \in Seq(Messages) /\ Len(chan') = Len(chan) - 1 /\ Len(chan) \in Nat \ {0}
      /\ \A i \in 1..(Len(chan) - 1) : chan'[i] = chan[i + 1]
    BY HeadTailProperties, LenProperties, EmptySeq
<1>2. \A i \in 1..(Len(chan) - 1) : InChan'[i] = chan'[i].items
    BY <1>1 DEF InChan
<1>3. \A i \in 1..Len(chan) : InChan[i] = chan[i].items
    BY DEF InChan
<1>4. chan[1] \in Messages
    BY <1>1, ElementOfSeq
<1> QED BY <1>1, <1>2, <1>3, <1>4

LEMMA InitIInv == Init => IInv
<1> SUFFICES ASSUME Init PROVE IInv
    OBVIOUS
<1> USE StreamAssumption DEF Init
<1>1. TypeOK
    <2>1. 0 \in 0..MaxItems /\ 0 \in 0..MaxDiags
        OBVIOUS
    <2> QED BY <2>1 DEF TypeOK
<1>2. Flow
    <2>1. Chain(0, 0, OnWire, 0, 0) /\ Chain(0, 0, InChan, 0, 0)
        BY ChainEmpty
    <2>2. Piece(0, 0, 0) = <<>>
        BY PieceEmpty
    <2>3. Sent(0)
        BY <2>2 DEF Sent
    <2>4. ~ Closing
        BY DEF Closing, EndSent
    <2>5. FlowAt(0)
        BY <2>1, <2>2, <2>3, <2>4 DEF FlowAt, None, OpCode
    <2> QED BY <2>5 DEF Flow
<1>3. ProducerInv /\ ChanInv
    BY DEF ProducerInv, ChanInv
<1>4. ServerInv /\ WireInv /\ ClientInv
    BY DEF ServerInv, WireInv, FramesInv, ClientInv, Closing, EndSent, ExitCodeTellsTruth, None, OpCode
<1> QED BY <1>1, <1>2, <1>3, <1>4 DEF IInv

-----------------------------------------------------------------------------
(* The producer's steps.                                                   *)

(* What holds of everything but the flow is not disturbed by a step of the   *)
(* operation itself: nobody else has heard the producer's last word.         *)
LEMMA OperationStage ==
    ASSUME IInv, ppc = "pull",
           UNCHANGED <<chan, serverVars, wire, clientVars>>,
           yielded' \in {yielded, yielded + 1},
           outcome' \in {"running", "ended", "failed", "panicked"},
           ppc' = "done" => outcome' # "running"
    PROVE  ChanInv' /\ ServerInv' /\ WireInv' /\ ClientInv'
<1> USE DEF serverVars, clientVars
<1>1. (EndSent' <=> EndSent) /\ (TrailersSent' <=> TrailersSent) /\ (Closing' <=> Closing)
    BY DEF EndSent, TrailersSent, Closing
<1>2. ~ Closing /\ exit # OpCode
    BY DEF IInv, WireInv, FramesInv, ServerInv, Closing, EndSent
<1>3. ChanInv'
    BY DEF IInv, ChanInv
<1>4. ServerInv'
    BY <1>1, <1>2 DEF IInv, ServerInv, TypeOK
<1>5. WireInv'
    BY DEF IInv, WireInv, FramesInv
<1>6. ClientInv'
    BY <1>1, <1>2 DEF IInv, ClientInv, ExitCodeTellsTruth, Broken, None, OpCode
<1> QED BY <1>3, <1>4, <1>5, <1>6

LEMMA DiagnoseKeeps ==
    ASSUME IInv, Diagnose
    PROVE  IInv'
<1> USE DEF Diagnose
<1>1. TypeOK'
    BY StreamAssumption DEF IInv, TypeOK, serverVars, clientVars
<1>2. ChanInv' /\ ServerInv' /\ WireInv' /\ ClientInv'
    BY OperationStage DEF IInv, TypeOK
<1>3. ProducerInv'
    BY DEF IInv, ProducerInv, serverVars
<1>4. Flow'
    BY DEF IInv, Flow, FlowAt, OnWire, InChan, Sent, Closing, EndSent, serverVars, clientVars
<1> QED BY <1>1, <1>2, <1>3, <1>4 DEF IInv

LEMMA PullKeeps ==
    ASSUME IInv, NEW size \in Sizes, Pull(size)
    PROVE  IInv'
<1> USE DEF Pull
<1>1. yielded \in Nat /\ yielded + 1 \in 1..MaxItems /\ batch \in Seq(1..MaxItems)
    BY StreamAssumption DEF IInv, TypeOK
<1>2. TypeOK'
    <2>1. size \in Nat /\ bytes + size \in Nat
        BY StreamAssumption DEF IInv, TypeOK
    <2>2. Append(batch, yielded + 1) \in Seq(1..MaxItems)
        BY <1>1, AppendProperties
    <2>3. batch' \in Seq(1..MaxItems) /\ bytes' \in Nat /\ waiting' \in Nat
        BY <1>1, <2>1, <2>2 DEF IInv, TypeOK
    <2>4. yielded' \in 0..MaxItems /\ ppc' \in {"pull", "flush"}
        BY <1>1
    <2> QED BY <2>3, <2>4 DEF IInv, TypeOK, serverVars, clientVars
<1>3. ChanInv' /\ ServerInv' /\ WireInv' /\ ClientInv'
    BY OperationStage DEF IInv, TypeOK
<1>4. ProducerInv'
    BY DEF IInv, ProducerInv, serverVars
<1>5. Flow'
    <2>1. PICK w \in 0..(yielded + 1) : FlowAt(w)
        BY DEF IInv, Flow
    <2>2. outcome = "running" /\ w \in 0..yielded
        BY <1>1, <2>1 DEF IInv, ProducerInv, FlowAt
    <2>3. ~ Closing /\ ~ Closing' /\ exit # OpCode
        BY DEF IInv, WireInv, FramesInv, ServerInv, Closing, EndSent, serverVars
    <2>4. Len(stdout) \in Nat /\ Len(wire) \in Nat /\ Len(chan) \in Nat
        BY LenProperties DEF IInv, TypeOK, WireInv, FramesInv
    <2>5. Len(stdout) <= w
        <3>1. Chain(yielded, Len(wire), OnWire, Len(stdout), w) /\ w \in Nat
            BY <2>1, <2>2 DEF FlowAt
        <3> QED BY <1>1, <2>4, <3>1, ChainOrder
    <2>6. stdout' = Piece(yielded', 0, Len(stdout'))
        BY <1>1, <2>1, <2>2, <2>4, <2>5, PieceGrow DEF FlowAt, clientVars
    <2>7. Chain(yielded', Len(wire'), OnWire', Len(stdout'), w)
        BY <1>1, <2>1, <2>2, <2>4, ChainGrow DEF FlowAt, OnWire, clientVars
    <2>8. ASSUME spc # "closed"
          PROVE  \E b \in w..(yielded' + 1) : Chain(yielded', Len(chan'), InChan', w, b) /\ Sent(b)'
        <3>1. PICK b \in w..(yielded + 1) : Chain(yielded, Len(chan), InChan, w, b) /\ Sent(b)
            BY <2>1, <2>8 DEF FlowAt
        <3>2. b <= yielded /\ b \in Nat /\ batch = Piece(yielded, b, yielded)
            BY <1>1, <2>2, <3>1 DEF Sent
        <3>3. Chain(yielded', Len(chan'), InChan', w, b)
            BY <1>1, <2>2, <2>4, <3>1, <3>2, ChainGrow DEF InChan
        <3>4. /\ Append(batch, yielded + 1) = Piece(yielded + 1, b, yielded + 1)
              /\ batch = Piece(yielded + 1, b, yielded)
            <4>1. Append(Piece(yielded, b, yielded), yielded + 1) = Piece(yielded + 1, b, yielded + 1)
                BY <1>1, <3>2, PieceAppend
            <4>2. Piece(yielded + 1, b, yielded) = Piece(yielded, b, yielded)
                BY <1>1, <3>2, PieceGrow
            <4> QED BY <3>2, <4>1, <4>2
        <3>5. (yielded + 1) - 1 = yielded
            BY <1>1
        <3>6. Sent(b)'
            BY <1>1, <3>2, <3>4, <3>5 DEF Sent
        <3> QED BY <1>1, <3>1, <3>3, <3>6
    <2>9. FlowAt(w)'
        BY <1>1, <2>1, <2>2, <2>3, <2>6, <2>7, <2>8 DEF FlowAt, serverVars
    <2> QED BY <1>1, <2>2, <2>9 DEF Flow
<1> QED BY <1>2, <1>3, <1>4, <1>5 DEF IInv

(* The operation ends, fails or panics. *)
LEMMA OutcomeKeeps ==
    ASSUME IInv, Fail \/ Finish \/ Panic
    PROVE  IInv'
<1> USE DEF Fail, Finish, Panic
<1>1. yielded \in Nat /\ ppc = "pull" /\ outcome = "running"
    BY StreamAssumption DEF IInv, TypeOK, ProducerInv
<1>2. TypeOK'
    BY DEF IInv, TypeOK, serverVars, clientVars
<1>3. ChanInv' /\ ServerInv' /\ WireInv' /\ ClientInv'
    BY OperationStage
<1>4. ProducerInv'
    BY DEF IInv, ProducerInv, serverVars
<1>5. Flow'
    <2>1. PICK w \in 0..(yielded + 1) : FlowAt(w)
        BY DEF IInv, Flow
    <2>2. w # yielded + 1
        BY <1>1, <2>1 DEF FlowAt
    <2>3. ~ Closing /\ ~ Closing'
        BY DEF IInv, WireInv, FramesInv, ServerInv, Closing, EndSent, serverVars
    <2>4. ASSUME NEW b \in w..(yielded + 1), Sent(b) PROVE Sent(b)'
        <3>1. b <= yielded /\ batch = Piece(yielded, b, yielded)
            BY <1>1, <2>4 DEF Sent
        <3>2. batch = <<>> <=> b = yielded
            BY <1>1, <3>1, PieceEmpty
        <3> QED BY <1>1, <3>1, <3>2 DEF Sent
    <2>5. FlowAt(w)'
        BY <2>1, <2>2, <2>3, <2>4 DEF FlowAt, OnWire, InChan, serverVars, clientVars
    <2> QED BY <2>5 DEF Flow
<1> QED BY <1>2, <1>3, <1>4, <1>5 DEF IInv

LEMMA ChainPut ==
    ASSUME chan \in Seq(Messages), NEW m \in Messages, chan' = Append(chan, m),
           NEW n \in Nat, NEW w \in Nat, NEW b \in Nat, NEW d \in Nat, b <= d,
           Chain(n, Len(chan), InChan, w, b), m.items = Piece(n, b, d)
    PROVE  Chain(n, Len(chan'), InChan', w, d)
<1>1. /\ Len(chan) \in Nat /\ Len(chan') = Len(chan) + 1
      /\ \A i \in 1..Len(chan) : InChan'[i] = InChan[i]
      /\ InChan'[Len(chan) + 1] = Piece(n, b, d)
    BY ChanAppend
<1> QED BY <1>1, ChainAppend

(* A message goes into the channel. *)
LEMMA PutStage ==
    ASSUME IInv, ppc # "done", spc # "closed", NEW m \in Messages, chan' = Append(chan, m),
           UNCHANGED <<yielded, outcome, diags, serverVars, wire, clientVars>>,
           m.err => m.items = <<ErrorRow>> /\ ppc' = "done" /\ outcome = "failed",
           ~m.err => m.items \in Seq(1..MaxItems) /\ m.items # <<>>,
           ppc' = "done" => outcome # "running"
    PROVE  /\ chan' \in Seq(Messages)
           /\ ChanInv' /\ ServerInv' /\ WireInv' /\ ClientInv'
<1> USE DEF serverVars, clientVars
<1>1. chan \in Seq(Messages)
    BY DEF IInv, TypeOK, Messages
<1>2. /\ chan' \in Seq(Messages)
      /\ Len(chan) \in Nat /\ Len(chan') = Len(chan) + 1
      /\ \A i \in 1..Len(chan) : chan'[i] = chan[i]
      /\ chan'[Len(chan) + 1] = m
    BY <1>1, ChanAppend
<1>3. (EndSent' <=> EndSent) /\ (TrailersSent' <=> TrailersSent) /\ (Closing' <=> Closing)
    BY DEF EndSent, TrailersSent, Closing
<1>4. ~ Closing /\ exit # OpCode /\ spc \in {"first", "stream"}
    BY DEF IInv, WireInv, FramesInv, ServerInv, Closing, EndSent, TypeOK
<1>5. \A i \in 1..Len(chan) : ~ chan[i].err
    BY DEF IInv, ChanInv
<1>6. ChanInv'
    <2> SUFFICES ASSUME NEW i \in 1..Len(chan')
                 PROVE  /\ chan'[i].err => chan'[i].items = <<ErrorRow>> /\ ppc' = "done"
                        /\ ~chan'[i].err => chan'[i].items \in Seq(1..MaxItems) /\ chan'[i].items # <<>>
        BY <1>4 DEF ChanInv
    <2>1. CASE i \in 1..Len(chan)
        BY <1>2, <1>5, <2>1 DEF IInv, ChanInv
    <2>2. CASE i = Len(chan) + 1
        BY <1>2, <2>2
    <2> QED BY <1>2, <2>1, <2>2
<1>7. ServerInv'
    BY <1>3, <1>4 DEF IInv, ServerInv, TypeOK
<1>8. WireInv'
    BY <1>4 DEF IInv, WireInv, FramesInv
<1>9. ClientInv'
    BY <1>3, <1>4 DEF IInv, ClientInv, ExitCodeTellsTruth, Broken, None, OpCode, WireInv, FramesInv, ServerInv
<1> QED BY <1>2, <1>6, <1>7, <1>8, <1>9

(* The receiver is gone: the producer ends, and nobody notices.              *)
LEMMA GiveUpKeeps ==
    ASSUME IInv, ppc # "done", spc = "closed", ppc' = "done",
           UNCHANGED <<yielded, outcome, batch, bytes, waiting, diags, chan, serverVars, wire, clientVars>>
    PROVE  IInv'
<1> USE DEF serverVars, clientVars
<1>1. (EndSent' <=> EndSent) /\ (TrailersSent' <=> TrailersSent) /\ (Closing' <=> Closing)
    BY DEF EndSent, TrailersSent, Closing
<1>2. TypeOK' /\ ProducerInv' /\ ChanInv' /\ ServerInv' /\ WireInv'
    BY <1>1, SMTT(20) DEF IInv, TypeOK, ProducerInv, ChanInv, ServerInv, WireInv, FramesInv
<1>3. ClientInv'
    BY <1>1 DEF IInv, ClientInv, ExitCodeTellsTruth
<1>4. Flow'
    BY <1>1 DEF IInv, Flow, FlowAt, OnWire
<1> QED BY <1>2, <1>3, <1>4 DEF IInv

LEMMA SendBatchKeeps ==
    ASSUME IInv, SendBatch
    PROVE  IInv'
<1>1. CASE ReceiverGone
    <2>1. ppc' = "done" /\ UNCHANGED <<batch, bytes, chan>>
        BY <1>1 DEF SendBatch
    <2> QED BY <1>1, <2>1, GiveUpKeeps DEF SendBatch, ReceiverGone
<1>2. CASE ~ ReceiverGone
    <2> DEFINE m == Message(batch, FALSE)
    <2>1. /\ ppc \in {"flush", "flushError", "flushEnd"} /\ spc # "closed"
          /\ Len(chan) < Capacity /\ chan' = Append(chan, m)
          /\ Refill(<<>>) /\ ppc' = AfterSend
          /\ UNCHANGED <<yielded, outcome, waiting, diags, serverVars, wire, clientVars>>
        BY <1>2 DEF SendBatch, ReceiverGone
    <2>2. /\ ppc = "flush" => ppc' = "pull" /\ outcome = "running" /\ bytes' = waiting
          /\ ppc = "flushError" => ppc' = "sendError" /\ outcome = "failed" /\ bytes' = 0
          /\ ppc = "flushEnd" => ppc' = "done" /\ outcome = "ended" /\ bytes' = 0
        BY <2>1 DEF AfterSend, Refill, IInv, ProducerInv
    <2>3. batch \in Seq(1..MaxItems) /\ batch # <<>> /\ chan \in Seq(Messages) /\ yielded \in 0..MaxItems
        BY <2>1 DEF IInv, TypeOK, Messages, ProducerInv
    <2>4. m \in Messages /\ m.items = batch /\ ~ m.err
        <3>1. 1..MaxItems \subseteq 0..MaxItems
            BY StreamAssumption
        <3>2. batch \in Seq(0..MaxItems)
            BY <2>3, <3>1, SeqMonotonic
        <3> QED BY <3>2 DEF Message, Messages
    <2> HIDE DEF m
    <2>5. chan' \in Seq(Messages) /\ ChanInv' /\ ServerInv' /\ WireInv' /\ ClientInv'
        BY <2>1, <2>2, <2>3, <2>4, PutStage
    <2>6. Len(chan') <= Capacity
        BY <2>1, <2>3, <2>4, ChanAppend, StreamAssumption
    <2>7. PICK w \in 0..(yielded + 1) : FlowAt(w)
        BY DEF IInv, Flow
    <2>8. PICK b \in w..(yielded + 1) : Chain(yielded, Len(chan), InChan, w, b) /\ Sent(b)
        BY <2>1, <2>7 DEF FlowAt
    <2>9. /\ ppc = "flush" => b < yielded /\ batch = Piece(yielded, b, yielded - 1)
          /\ ppc # "flush" => b <= yielded /\ batch = Piece(yielded, b, yielded)
        BY <2>1, <2>8 DEF Sent
    <2> PICK d \in Nat : d = IF ppc = "flush" THEN yielded - 1 ELSE yielded
        BY <2>3, <2>9
    <2>10. /\ yielded \in Nat /\ w \in Nat /\ b \in Nat /\ d \in Nat /\ b <= d
           /\ d \in w..(yielded + 1) /\ batch = Piece(yielded, b, d)
        BY <2>3, <2>9
    <2>11. Chain(yielded, Len(chan'), InChan', w, d)
        <3> QED BY <2>1, <2>3, <2>4, <2>8, <2>10, ChainPut
    <2>12. Sent(d)' /\ batch' \in Seq(1..MaxItems)
        <3>1. CASE ppc = "flush"
            <4>1. batch' = <<yielded>>
                BY <2>1, <3>1 DEF Refill
            <4>2. yielded - 1 \in Nat /\ yielded \in 1..MaxItems /\ (yielded - 1) + 1 = yielded
                BY <2>3, <2>9, <3>1
            <4>3. Piece((yielded - 1) + 1, yielded - 1, (yielded - 1) + 1) = <<(yielded - 1) + 1>>
                BY <4>2, PieceAppend, SMTT(20)
            <4>4. Piece(yielded, yielded - 1, yielded) = <<yielded>>
                BY <4>2, <4>3
            <4> QED BY <2>1, <2>2, <3>1, <4>1, <4>2, <4>4 DEF Sent
        <3>2. CASE ppc # "flush"
            <4>1. batch' = <<>>
                BY <2>1, <3>2 DEF Refill
            <4>2. Sent(d)'
                BY <2>1, <2>2, <2>3, <3>2 DEF Sent
            <4> QED BY <4>1, <4>2, EmptySeq
        <3> QED BY <3>1, <3>2
    <2>13. FlowAt(w)'
        <3>1. (Closing' <=> Closing) /\ OnWire' = OnWire
            BY <2>1 DEF Closing, EndSent, OnWire, serverVars
        <3> QED BY <2>1, <2>7, <2>10, <2>11, <2>12, <3>1 DEF FlowAt, serverVars, clientVars
    <2>14. Flow'
        BY <2>1, <2>13 DEF Flow
    <2>15. TypeOK'
        BY <2>1, <2>2, <2>5, <2>6, <2>12 DEF IInv, TypeOK, Messages, serverVars, clientVars
    <2>16. ProducerInv'
        <3>1. ppc' \notin {"flush", "flushError", "flushEnd"}
            BY <2>1, <2>2
        <3> QED BY <2>1, <2>2, <3>1 DEF ProducerInv, serverVars
    <2> QED BY <2>5, <2>14, <2>15, <2>16 DEF IInv
<1> QED BY <1>1, <1>2

LEMMA SendErrorKeeps ==
    ASSUME IInv, SendError
    PROVE  IInv'
<1>1. CASE ReceiverGone
    <2>1. chan' = chan
        BY <1>1 DEF SendError
    <2> QED BY <1>1, <2>1, GiveUpKeeps DEF SendError, ReceiverGone
<1>2. CASE ~ ReceiverGone
    <2> DEFINE m == Message(<<ErrorRow>>, TRUE)
    <2>1. /\ ppc = "sendError" /\ spc # "closed" /\ ppc' = "done"
          /\ Len(chan) < Capacity /\ chan' = Append(chan, m)
          /\ UNCHANGED <<yielded, outcome, batch, bytes, waiting, diags, serverVars, wire, clientVars>>
        BY <1>2 DEF SendError, ReceiverGone
    <2>2. outcome = "failed" /\ chan \in Seq(Messages) /\ yielded \in Nat
        BY <2>1, StreamAssumption DEF IInv, TypeOK, Messages, ProducerInv
    <2>3. m \in Messages /\ m.items = <<ErrorRow>> /\ m.err
        <3>1. <<ErrorRow>> \in Seq(0..MaxItems)
            BY StreamAssumption DEF ErrorRow
        <3> QED BY <3>1 DEF Message, Messages
    <2> HIDE DEF m
    <2>4. chan' \in Seq(Messages) /\ ChanInv' /\ ServerInv' /\ WireInv' /\ ClientInv'
        BY <2>1, <2>2, <2>3, PutStage
    <2>5. Len(chan') <= Capacity
        BY <2>1, <2>2, <2>3, ChanAppend, StreamAssumption
    <2>6. PICK w \in 0..(yielded + 1) : FlowAt(w)
        BY DEF IInv, Flow
    <2>7. PICK b \in w..(yielded + 1) : Chain(yielded, Len(chan), InChan, w, b) /\ Sent(b)
        BY <2>1, <2>6 DEF FlowAt
    <2>8. b = yielded /\ m.items = Piece(yielded, yielded, yielded + 1)
        BY <2>1, <2>2, <2>3, <2>7, PieceAppend DEF Sent
    <2>9. Chain(yielded, Len(chan'), InChan', w, yielded + 1)
        <3>1. b \in Nat /\ w \in Nat /\ yielded + 1 \in Nat /\ b <= yielded + 1
            BY <2>2, <2>7
        <3>2. m.items = Piece(yielded, b, yielded + 1)
            BY <2>8
        <3> QED BY <2>1, <2>2, <2>3, <2>7, <3>1, <3>2, ChainPut
    <2>10. Sent(yielded + 1)'
        BY <2>1, <2>2 DEF Sent
    <2>11. FlowAt(w)'
        <3>1. (Closing' <=> Closing) /\ OnWire' = OnWire
            BY <2>1 DEF Closing, EndSent, OnWire, serverVars
        <3>2. yielded + 1 \in w..(yielded + 1)
            BY <2>2
        <3> QED BY <2>1, <2>6, <2>9, <2>10, <3>1, <3>2 DEF FlowAt, serverVars, clientVars
    <2>12. Flow'
        BY <2>1, <2>11 DEF Flow
    <2>13. TypeOK'
        BY <2>1, <2>4, <2>5 DEF IInv, TypeOK, Messages, serverVars, clientVars
    <2>14. ProducerInv'
        BY <2>1, <2>2 DEF ProducerInv
    <2> QED BY <2>4, <2>12, <2>13, <2>14 DEF IInv
<1> QED BY <1>1, <1>2

-----------------------------------------------------------------------------
(* The response's steps.                                                   *)

LEMMA ChainEmit ==
    ASSUME wire \in Seq(Frame), NEW f \in Frame, wire' = Append(wire, f),
           NEW n \in Nat, NEW a \in Nat, NEW w \in Nat, NEW m \in Nat, w <= m,
           Chain(n, Len(wire), OnWire, a, w), Payload(f) = Piece(n, w, m)
    PROVE  Chain(n, Len(wire'), OnWire', a, m)
<1>1. /\ Len(wire) \in Nat /\ Len(wire') = Len(wire) + 1
      /\ \A i \in 1..Len(wire) : OnWire'[i] = OnWire[i]
      /\ OnWire'[Len(wire) + 1] = Piece(n, w, m)
    BY WireAppend
<1> QED BY <1>1, ChainAppend

(* The first message tells items from the error row: the error row stands    *)
(* after the last item, and no other message reaches that far.               *)
LEMMA FirstMessage ==
    ASSUME IInv, chan # <<>>, NEW w \in 0..(yielded + 1), NEW b \in w..(yielded + 1),
           Chain(yielded, Len(chan), InChan, w, b), Sent(b)
    PROVE  \E m \in w..b :
             /\ chan[1].items = Piece(yielded, w, m)
             /\ w <= yielded
             /\ chan[1].err => m = yielded + 1 /\ w = yielded /\ ppc = "done"
             /\ ~chan[1].err => m <= yielded /\ w < m
             /\ m = yielded + 1 => outcome = "failed"
             /\ chan' = Tail(chan) => Chain(yielded, Len(chan'), InChan', m, b)
<1>1. /\ chan \in Seq(Messages) /\ yielded \in Nat /\ w \in Nat /\ b \in Nat
    BY StreamAssumption DEF IInv, TypeOK, Messages
<1> DEFINE q == [i \in 1..(Len(chan) - 1) |-> InChan[i + 1]]
<1>2. /\ Len(chan) \in Nat \ {0} /\ InChan[1] = chan[1].items
    BY <1>1, LenProperties, EmptySeq DEF InChan
<1>3. PICK m \in w..b : InChan[1] = Piece(yielded, w, m) /\ Chain(yielded, Len(chan) - 1, q, m, b)
    <2>1. \A i \in 1..(Len(chan) - 1) : q[i] = InChan[i + 1]
        OBVIOUS
    <2> HIDE DEF q
    <2>2. Len(chan) > 0
        BY <1>2
    <2> QED BY <1>1, <1>2, <2>1, <2>2, ChainHead
<1>4. m \in Nat /\ w <= m /\ chan[1].items = Piece(yielded, w, m)
    BY <1>1, <1>2, <1>3
<1>5. Len(chan[1].items) = m - w
    BY <1>1, <1>4, PieceType
<1>6. /\ chan[1].err => chan[1].items = <<ErrorRow>> /\ ppc = "done"
      /\ ~chan[1].err => chan[1].items \in Seq(1..MaxItems) /\ chan[1].items # <<>>
    BY <1>2 DEF IInv, ChanInv
<1>7. ASSUME chan[1].err PROVE m = yielded + 1 /\ w = yielded /\ ppc = "done"
    <2>1. m - w = 1
        BY <1>5, <1>6, <1>7
    <2>2. chan[1].items[1] = (IF w + 1 <= yielded THEN w + 1 ELSE ErrorRow)
        BY <1>1, <1>4, <2>1, PieceAt
    <2>3. ~ (w + 1 <= yielded)
        BY <1>1, <1>6, <1>7, <2>2 DEF ErrorRow
    <2> QED BY <1>1, <1>4, <1>6, <1>7, <2>1, <2>3
<1>8. ASSUME ~ chan[1].err PROVE m <= yielded /\ w < m
    <2>1. w < m
        BY <1>1, <1>4, <1>6, <1>8, PieceEmpty
    <2>2. m - w \in 1..(m - w) /\ w + (m - w) = m
        BY <1>1, <1>4, <2>1
    <2>3. chan[1].items[m - w] = (IF w + (m - w) <= yielded THEN w + (m - w) ELSE ErrorRow)
        BY <1>1, <1>4, <2>2, PieceAt
    <2>4. chan[1].items[m - w] \in 1..MaxItems
        BY <1>5, <1>6, <1>8, <2>2, ElementOfSeq
    <2>5. chan[1].items[m - w] # 0
        BY <2>4, StreamAssumption
    <2> QED BY <1>1, <1>4, <2>1, <2>2, <2>3, <2>5 DEF ErrorRow
<1>9. m = yielded + 1 => outcome = "failed"
    <2>1. ASSUME m = yielded + 1 PROVE ppc = "done" /\ b = yielded + 1
        BY <1>1, <1>3, <1>7, <1>8, <2>1
    <2> QED BY <2>1 DEF Sent
<1>10. ASSUME chan' = Tail(chan) PROVE Chain(yielded, Len(chan'), InChan', m, b)
    <2>1. /\ Len(chan') = Len(chan) - 1
          /\ \A i \in 1..(Len(chan) - 1) : InChan'[i] = InChan[i + 1]
        BY <1>1, <1>10, ChanTail
    <2>2. \A i \in 1..(Len(chan) - 1) : InChan'[i] = q[i]
        BY <2>1
    <2> HIDE DEF q
    <2> QED BY <1>1, <1>2, <1>3, <1>4, <2>1, <2>2, ChainSame
<1> QED BY <1>1, <1>3, <1>4, <1>7, <1>8, <1>9, <1>10

LEMMA RecvFirstKeeps ==
    ASSUME IInv, RecvFirst
    PROVE  IInv'
<1> USE DEF producerVars, clientVars
<1>1. /\ spc = "first" /\ wire = <<>> /\ stdout = <<>> /\ cpc = "head" /\ exit = None
      /\ code = None /\ shown = 0 /\ Len(wire) < Window
      /\ yielded \in Nat /\ diags \in 0..MaxDiags /\ chan \in Seq(Messages)
    BY StreamAssumption DEF RecvFirst, Room, IInv, ServerInv, ClientInv, TypeOK, Messages
<1>2. PICK w \in 0..(yielded + 1) : FlowAt(w)
    BY DEF IInv, Flow
<1>3. w = 0
    <2>1. Chain(yielded, 0, OnWire, 0, w) /\ w \in Nat
        BY <1>1, <1>2 DEF FlowAt
    <2> QED BY <1>1, <2>1, ChainEmptyOnly
<1>4. PICK b \in 0..(yielded + 1) : Chain(yielded, Len(chan), InChan, 0, b) /\ Sent(b)
    BY <1>1, <1>2, <1>3 DEF FlowAt
<1>5. 0 \in 0..MaxDiags /\ Len(<<>>) = 0
    BY <1>1, StreamAssumption
<1>6. ASSUME NEW f \in Frame, f.kind = "head", wire' = Append(wire, f), UNCHANGED <<yielded, stdout>>
      PROVE  /\ wire' \in Seq(Frame) /\ Len(wire') = 1 /\ wire'[1] = f
             /\ Chain(yielded', Len(wire'), OnWire', Len(stdout'), 0)
             /\ ~ EndSent' /\ ~ TrailersSent'
    <2>1. wire \in Seq(Frame)
        BY DEF IInv, WireInv, FramesInv
    <2>2. wire' \in Seq(Frame) /\ Len(wire') = 1 /\ wire'[1] = f
        BY <1>1, <1>5, <1>6, <2>1, WireAppend
    <2>3. Payload(f) = Piece(yielded, 0, 0)
        BY <1>1, <1>6, PieceEmpty DEF Payload
    <2>4. Chain(yielded, Len(wire), OnWire, 0, 0)
        BY <1>1, <1>2, <1>3, <1>5 DEF FlowAt
    <2>5. Chain(yielded, Len(wire'), OnWire', 0, 0)
        BY <1>1, <1>6, <2>1, <2>3, <2>4, ChainEmit
    <2> QED BY <1>1, <1>5, <1>6, <2>2, <2>5 DEF EndSent, TrailersSent
<1>7. CASE chan # <<>> /\ chan[1].err
    <2>1. /\ wire' = Append(wire, Status(TRUE, diags)) /\ chan' = <<>> /\ spc' = "closed"
          /\ UNCHANGED <<producerVars, exit, clientVars>>
        BY <1>7 DEF RecvFirst
    <2>2. yielded = 0 /\ ppc = "done" /\ outcome = "failed"
        <3>1. 0 \in 0..(yielded + 1)
            BY <1>1
        <3> QED BY <1>1, <1>4, <1>7, <3>1, FirstMessage
    <2> DEFINE f == Status(TRUE, diags)
    <2>3. f \in Frame /\ f.kind = "head" /\ f.err /\ f.diags = diags
        BY <1>1 DEF Status, Frame
    <2> HIDE DEF f
    <2>4. /\ wire' \in Seq(Frame) /\ Len(wire') = 1 /\ wire'[1] = f
          /\ Chain(yielded', Len(wire'), OnWire', Len(stdout'), 0)
          /\ ~ Closing'
        BY <1>6, <2>1, <2>3 DEF f, Closing
    <2>5. TypeOK'
        <3>1. Len(wire') <= Window
            BY <1>1, <1>5, <2>4, StreamAssumption
        <3>2. chan' \in Seq(Messages) /\ Len(chan') <= Capacity
            BY <1>5, <2>1, EmptySeq, StreamAssumption
        <3> QED BY <2>1, <3>1, <3>2 DEF IInv, TypeOK, Messages
    <2>6. Flow'
        <3>1. FlowAt(w)'
            BY <1>1, <1>2, <1>3, <2>1, <2>4 DEF FlowAt
        <3> QED BY <2>1, <3>1 DEF Flow
    <2>7. ProducerInv' /\ ChanInv' /\ ServerInv'
        BY <1>1, <2>1, <2>4 DEF IInv, ProducerInv, ChanInv, ServerInv, None, OpCode
    <2>8. WireInv'
        <3>1. \A i \in 1..Len(wire') : i = 1 /\ wire'[i].kind = "head" /\ wire'[i].err /\ wire'[i].diags = diags
            BY <2>3, <2>4
        <3>2. FramesInv'
            BY <1>1, <2>1, <2>2, <2>4, <3>1 DEF FramesInv
        <3> QED BY <1>1, <2>1, <2>3, <2>4, <3>2 DEF WireInv
    <2>9. ClientInv'
        BY <1>1, <2>1, <2>4 DEF ClientInv, ExitCodeTellsTruth
    <2> QED BY <2>5, <2>6, <2>7, <2>8, <2>9 DEF IInv
<1>8. CASE ~ (chan # <<>> /\ chan[1].err)
    <2>1. /\ wire' = Append(wire, Status(FALSE, 0)) /\ spc' = "stream"
          /\ IF chan = <<>> THEN ppc = "done" ELSE ~chan[1].err
          /\ UNCHANGED <<producerVars, exit, clientVars, chan>>
        BY <1>8 DEF RecvFirst, SenderGone
    <2>2. yielded > 0 \/ (ppc = "done" /\ chan = <<>> /\ exit = None)
        <3>1. 0 \in 0..(yielded + 1)
            BY <1>1
        <3>2. CASE chan # <<>>
            BY <1>1, <1>4, <2>1, <3>1, <3>2, FirstMessage
        <3> QED BY <1>1, <2>1, <3>2
    <2> DEFINE f == Status(FALSE, 0)
    <2>3. f \in Frame /\ f.kind = "head" /\ ~ f.err /\ f.diags = 0
        BY <1>5 DEF Status, Frame
    <2> HIDE DEF f
    <2>4. /\ wire' \in Seq(Frame) /\ Len(wire') = 1 /\ wire'[1] = f
          /\ Chain(yielded', Len(wire'), OnWire', Len(stdout'), 0)
          /\ ~ Closing' /\ ~ TrailersSent'
        BY <1>6, <2>1, <2>3 DEF f, Closing
    <2>5. TypeOK'
        <3>1. Len(wire') <= Window
            BY <1>1, <1>5, <2>4, StreamAssumption
        <3> QED BY <2>1, <3>1 DEF IInv, TypeOK
    <2>6. Flow'
        <3>1. InChan' = InChan /\ Sent(b)'
            BY <1>4, <2>1 DEF InChan, Sent
        <3>2. FlowAt(w)'
            BY <1>1, <1>2, <1>3, <1>4, <2>1, <2>4, <3>1 DEF FlowAt, None, OpCode
        <3> QED BY <2>1, <3>2 DEF Flow
    <2>7. ProducerInv' /\ ChanInv'
        BY <1>1, <2>1, <2>4 DEF IInv, ProducerInv, ChanInv
    <2>8. ServerInv'
        BY <1>1, <2>1, <2>2, <2>4 DEF IInv, ServerInv, None, OpCode
    <2>9. WireInv'
        <3>1. \A i \in 1..Len(wire') : i = 1 /\ wire'[i].kind = "head" /\ ~ wire'[i].err /\ wire'[i].diags = 0
            BY <2>3, <2>4
        <3>2. wire' # <<>>
            BY <1>5, <2>4, SMTT(20)
        <3>3. wire'[1].kind = "head" /\ cpc' = "head" /\ stdout' = <<>>
            BY <1>1, <2>1, <2>3, <2>4
        <3> QED BY <2>1, <2>4, <3>1, <3>2, <3>3 DEF WireInv, FramesInv
    <2>10. ClientInv'
        BY <1>1, <2>1, <2>4 DEF ClientInv, ExitCodeTellsTruth
    <2> QED BY <2>5, <2>6, <2>7, <2>8, <2>9, <2>10 DEF IInv
<1> QED BY <1>7, <1>8

LEMMA EmitKeeps ==
    ASSUME IInv, Emit
    PROVE  IInv'
<1> DEFINE f == Data(chan[1].items)
<1>1. /\ spc = "stream" /\ chan # <<>> /\ Len(wire) < Window
      /\ wire' = Append(wire, f) /\ chan' = Tail(chan)
      /\ exit' = IF chan[1].err THEN OpCode ELSE exit
      /\ UNCHANGED <<producerVars, spc, clientVars>>
    BY DEF Emit, Room
<1>2. /\ yielded \in Nat /\ yielded > 0 /\ chan \in Seq(Messages) /\ wire \in Seq(Frame)
      /\ stdout \in Seq(0..MaxItems)
    BY <1>1, StreamAssumption DEF IInv, TypeOK, Messages, WireInv, FramesInv, ServerInv
<1>3. /\ chan' \in Seq(Messages) /\ Len(chan') = Len(chan) - 1 /\ Len(chan) \in Nat \ {0}
      /\ chan[1] \in Messages
      /\ \A i \in 1..(Len(chan) - 1) : chan'[i] = chan[i + 1]
    BY <1>1, <1>2, ChanTail
<1>4. f \in Frame /\ f.kind = "data" /\ f.items = chan[1].items
    BY <1>3 DEF Data, Frame, Messages
<1> HIDE DEF f
<1>5. /\ wire' \in Seq(Frame) /\ Len(wire) \in Nat /\ Len(wire') = Len(wire) + 1
      /\ \A i \in 1..Len(wire) : wire'[i] = wire[i]
      /\ wire'[Len(wire) + 1] = f
    BY <1>1, <1>2, <1>4, WireAppend
<1>6. PICK w \in 0..(yielded + 1) : FlowAt(w)
    BY DEF IInv, Flow
<1>7. PICK b \in w..(yielded + 1) : Chain(yielded, Len(chan), InChan, w, b) /\ Sent(b)
    BY <1>1, <1>6 DEF FlowAt
<1>8. PICK m \in w..b :
             /\ chan[1].items = Piece(yielded, w, m)
             /\ w <= yielded
             /\ chan[1].err => m = yielded + 1 /\ w = yielded /\ ppc = "done"
             /\ ~chan[1].err => m <= yielded /\ w < m
             /\ m = yielded + 1 => outcome = "failed"
             /\ Chain(yielded, Len(chan'), InChan', m, b)
    BY <1>1, <1>7, FirstMessage
<1>9. exit # OpCode
    BY <1>1, <1>2, <1>6, <1>8 DEF FlowAt
<1>10. exit' = OpCode <=> chan[1].err
    BY <1>1, <1>9
<1>11. m = yielded + 1 <=> chan[1].err
    BY <1>2, <1>8
<1>12. ~ Closing' /\ ~ Closing
    <2>1. \A i \in 1..Len(wire) : wire[i].kind # "end"
        BY <1>1 DEF IInv, WireInv, FramesInv
    <2>2. \A i \in 1..Len(wire') : wire'[i].kind # "end"
        BY <1>4, <1>5, <2>1
    <2> QED BY <1>1, <2>1, <2>2 DEF Closing, EndSent
<1>13. TypeOK'
    <2>1. Len(wire') <= Window /\ Len(chan') <= Capacity
        BY <1>1, <1>3, <1>5, StreamAssumption DEF IInv, TypeOK
    <2> QED BY <1>1, <1>3, <2>1 DEF IInv, TypeOK, Messages, producerVars, clientVars
<1>14. Flow'
    <2>1. Len(stdout) \in Nat /\ w \in Nat /\ m \in Nat /\ b \in Nat /\ w <= m
          /\ b \in m..(yielded + 1) /\ m \in 0..(yielded + 1)
        BY <1>2, <1>7, <1>8, LenProperties
    <2>2. Payload(f) = Piece(yielded, w, m)
        BY <1>4, <1>8 DEF Payload
    <2>3. Chain(yielded, Len(wire'), OnWire', Len(stdout), m)
        BY <1>1, <1>2, <1>4, <1>6, <2>1, <2>2, ChainEmit DEF FlowAt
    <2>4. Sent(b)'
        BY <1>1, <1>7 DEF Sent, producerVars
    <2>5. FlowAt(m)'
        BY <1>1, <1>6, <1>8, <1>10, <1>11, <1>12, <2>1, <2>3, <2>4 DEF FlowAt, producerVars, clientVars
    <2> QED BY <1>1, <2>1, <2>5 DEF Flow, producerVars
<1>15. ProducerInv'
    BY <1>1 DEF IInv, ProducerInv, producerVars
<1>16. ChanInv'
    <2>1. ASSUME NEW i \in 1..Len(chan') PROVE chan'[i] = chan[i + 1] /\ i + 1 \in 1..Len(chan)
        BY <1>3
    <2> QED BY <1>1, <2>1 DEF IInv, ChanInv, producerVars
<1>17. ServerInv'
    BY <1>1, <1>2, <1>8, <1>10, <1>11, <1>12 DEF IInv, ServerInv, producerVars, clientVars
<1>18. WireInv'
    <2>1. \A i \in 1..Len(wire) : wire[i].kind \notin {"trailers", "end"}
        BY <1>1 DEF IInv, WireInv, FramesInv
    <2>2. \A i \in 1..Len(wire') : wire'[i].kind \notin {"trailers", "end"}
        BY <1>4, <1>5, <2>1
    <2>3. ASSUME NEW i \in 1..Len(wire'), wire'[i].kind = "head"
          PROVE  i = 1 /\ ~ wire'[i].err /\ wire'[i].diags = 0
        <3>1. i \in 1..Len(wire) /\ wire'[i] = wire[i]
            BY <1>4, <1>5, <2>3
        <3>2. wire[i].kind = "head" /\ wire[i] \in Frame
            BY <1>2, <2>3, <3>1, ElementOfSeq
        <3>3. wire[i].err \in BOOLEAN
            BY <3>2 DEF Frame
        <3> QED BY <1>1, <3>1, <3>2, <3>3 DEF IInv, WireInv, FramesInv
    <2>4. wire' # <<>> /\ 1 \in 1..Len(wire')
        BY <1>5, EmptySeq
    <2>5. /\ cpc = "head" => wire'[1].kind = "head"
          /\ cpc = "body" => wire'[1].kind # "head"
        <3>1. CASE wire = <<>>
            <4>1. Len(wire) = 0 /\ cpc # "head"
                BY <1>1, <3>1 DEF IInv, WireInv, FramesInv
            <4> QED BY <1>4, <1>5, <4>1
        <3>2. CASE wire # <<>>
            <4>1. 1 \in 1..Len(wire)
                BY <1>2, <3>2, EmptySeq, LenProperties
            <4> QED BY <1>5, <3>2, <4>1 DEF IInv, WireInv, FramesInv
        <3> QED BY <3>1, <3>2
    <2>6. cpc \in {"head", "body"} /\ (cpc = "head" => stdout = <<>>)
        BY <1>1 DEF IInv, ServerInv, WireInv, FramesInv
    <2> QED BY <1>1, <1>5, <2>2, <2>3, <2>4, <2>5, <2>6 DEF WireInv, FramesInv, clientVars
<1>19. ClientInv'
    <2>1. cpc # "exited" /\ code = None /\ shown = 0
        BY <1>1 DEF IInv, ServerInv, ClientInv
    <2> QED BY <1>1, <1>12, <2>1 DEF ClientInv, ExitCodeTellsTruth, clientVars
<1> QED BY <1>13, <1>14, <1>15, <1>16, <1>17, <1>18, <1>19 DEF IInv

(* The steps after the last message: trailers, if there is something to say, *)
(* and the end.                                                              *)
LEMMA CloseStage ==
    ASSUME IInv, spc \in {"stream", "trailers"}, ppc = "done", chan = <<>>, Len(wire) < Window,
           NEW f \in Frame, f.kind \in {"trailers", "end"}, wire' = Append(wire, f),
           spc' = IF f.kind = "end" THEN "closed" ELSE "trailers",
           f.kind = "trailers" => spc = "stream" /\ f.code = exit /\ f.diags = diags,
           spc = "stream" /\ f.kind = "end" => exit = None /\ diags = 0,
           UNCHANGED <<producerVars, chan, exit, clientVars>>
    PROVE  IInv'
<1> USE DEF producerVars, clientVars
<1>1. /\ yielded \in Nat /\ wire \in Seq(Frame) /\ outcome \in {"ended", "failed", "panicked"}
      /\ Len(stdout) \in Nat
    BY StreamAssumption, LenProperties DEF IInv, TypeOK, WireInv, FramesInv, ProducerInv
<1>2. /\ wire' \in Seq(Frame) /\ Len(wire) \in Nat /\ Len(wire') = Len(wire) + 1
      /\ \A i \in 1..Len(wire) : wire'[i] = wire[i]
      /\ wire'[Len(wire) + 1] = f
    BY <1>1, WireAppend
<1>3. PICK w \in 0..(yielded + 1) : FlowAt(w)
    BY DEF IInv, Flow
<1>4. PICK b \in w..(yielded + 1) : Chain(yielded, Len(chan), InChan, w, b) /\ Sent(b)
    BY <1>3 DEF FlowAt
<1>5. w = b
    <2>1. Chain(yielded, 0, InChan, w, b) /\ w \in Nat /\ b \in Nat
        BY <1>1, <1>4
    <2> QED BY <1>1, <2>1, ChainEmptyOnly
<1>6. /\ outcome = "ended" => w = yielded
      /\ outcome = "failed" <=> w = yielded + 1
      /\ outcome = "failed" => exit = OpCode
    BY <1>3, <1>4, <1>5 DEF Sent, FlowAt
<1>7. TypeOK'
    <2>1. Len(wire') <= Window
        BY <1>2, StreamAssumption
    <2> QED BY <2>1 DEF IInv, TypeOK
<1>8. Flow'
    <2>1. Payload(f) = <<>> /\ w \in Nat
        BY <1>1 DEF Payload
    <2>2. Payload(f) = Piece(yielded, w, w)
        BY <1>1, <2>1, PieceEmpty
    <2>3. Chain(yielded, Len(wire'), OnWire', Len(stdout), w)
        BY <1>1, <1>3, <2>1, <2>2, ChainEmit DEF FlowAt
    <2>4. InChan' = InChan /\ Sent(b)'
        BY <1>4 DEF Sent, InChan
    <2>5. FlowAt(w)'
        BY <1>3, <1>4, <1>6, <2>3, <2>4 DEF FlowAt
    <2> QED BY <2>5 DEF Flow
<1>9. ProducerInv' /\ ChanInv'
    BY DEF IInv, ProducerInv, ChanInv
<1>10. ServerInv'
    BY <1>1, <1>6 DEF IInv, ServerInv
<1>11. WireInv'
    <2>1. wire' # <<>> /\ 1 \in 1..Len(wire')
        BY <1>2, EmptySeq
    <2>2. cpc \in {"head", "body"} /\ (cpc = "head" => stdout = <<>> /\ wire # <<>>)
        BY DEF IInv, ServerInv, WireInv, FramesInv
    <2>3. /\ cpc = "head" => wire'[1].kind = "head"
          /\ cpc = "body" => wire'[1].kind # "head"
        <3>1. CASE wire = <<>>
            <4>1. Len(wire) = 0
                BY <3>1
            <4> QED BY <1>2, <2>2, <3>1, <4>1
        <3>2. CASE wire # <<>>
            <4>1. 1 \in 1..Len(wire)
                BY <1>1, <3>2, EmptySeq, LenProperties
            <4> QED BY <1>2, <3>2, <4>1 DEF IInv, WireInv, FramesInv
        <3> QED BY <3>1, <3>2
    <2>4. ASSUME NEW i \in 1..Len(wire')
          PROVE  /\ wire'[i].kind = "head" => i = 1
                 /\ wire'[i].kind = "head" => ~ wire'[i].err /\ wire'[i].diags = 0
                 /\ wire'[i].kind = "end" => i = Len(wire') /\ spc' = "closed"
                 /\ wire'[i].kind = "trailers" =>
                        /\ wire'[i].code = exit /\ wire'[i].diags = diags
                        /\ \A j \in (i + 1)..Len(wire') : wire'[j].kind = "end"
        <3>1. CASE i \in 1..Len(wire)
            <4>1. wire'[i] = wire[i] /\ wire[i] \in Frame
                BY <1>1, <1>2, <3>1, ElementOfSeq
            <4>2. wire[i].kind # "end" /\ (wire[i].kind = "trailers" => spc = "trailers" /\ f.kind = "end")
                BY <3>1 DEF IInv, WireInv, FramesInv
            <4>3. wire[i].kind = "head" => wire[i].err \in BOOLEAN
                BY <4>1 DEF Frame
            <4>4. wire[i].kind = "head" => i = 1 /\ ~ wire[i].err /\ wire[i].diags = 0
                BY <3>1, <4>3 DEF IInv, WireInv, FramesInv
            <4>5. ASSUME wire[i].kind = "trailers", NEW j \in (i + 1)..Len(wire') PROVE wire'[j].kind = "end"
                <5>1. j \in (i + 1)..Len(wire) \/ j = Len(wire) + 1
                    BY <1>2, <3>1
                <5>2. j \in (i + 1)..Len(wire) => wire'[j] = wire[j]
                    BY <1>2, <3>1
                <5> QED BY <1>2, <3>1, <4>2, <4>5, <5>1, <5>2 DEF IInv, WireInv, FramesInv
            <4>6. wire[i].kind = "trailers" => wire[i].code = exit /\ wire[i].diags = diags
                BY <3>1 DEF IInv, WireInv, FramesInv
            <4> QED BY <4>1, <4>2, <4>4, <4>5, <4>6
        <3>2. CASE i = Len(wire) + 1
            <4>1. (i + 1)..Len(wire') = {}
                BY <1>2, <3>2
            <4> QED BY <1>2, <3>2, <4>1
        <3> QED BY <1>2, <3>1, <3>2
    <2> QED BY <1>2, <2>1, <2>2, <2>3, <2>4 DEF WireInv, FramesInv
<1>12. ClientInv'
    <2>1. cpc # "exited" /\ (spc = "stream" => code = None /\ shown = 0)
        BY DEF IInv, ServerInv, ClientInv
    <2>2. Len(wire) + 1 \in 1..Len(wire')
        BY <1>2
    <2>3. f.kind = "trailers" => TrailersSent'
        BY <1>2, <2>2 DEF TrailersSent
    <2>4. TrailersSent => TrailersSent'
        BY <1>2 DEF TrailersSent
    <2>5. TrailersSent' => TrailersSent \/ f.kind = "trailers"
        BY <1>2 DEF TrailersSent
    <2>6. spc = "trailers" => TrailersSent \/ (code = exit /\ shown = diags)
        BY DEF IInv, ClientInv, Closing
    <2>7. TrailersSent \/ cpc = "head" => code = None /\ shown = 0
        BY DEF IInv, ClientInv
    <2> QED BY <2>1, <2>3, <2>4, <2>5, <2>6, <2>7 DEF ClientInv, ExitCodeTellsTruth
<1> QED BY <1>7, <1>8, <1>9, <1>10, <1>11, <1>12 DEF IInv

LEMMA CloseKeeps ==
    ASSUME IInv, EmitTrailers \/ EmitEnd
    PROVE  IInv'
<1>1. Trailers(exit, diags) \in Frame /\ End \in Frame
    BY DEF Trailers, End, Frame, IInv, TypeOK
<1>2. /\ Trailers(exit, diags).kind = "trailers" /\ Trailers(exit, diags).code = exit
      /\ Trailers(exit, diags).diags = diags /\ End.kind = "end"
    BY DEF Trailers, End
<1>3. CASE EmitTrailers
    <2>1. /\ spc = "stream" /\ ppc = "done" /\ chan = <<>> /\ Len(wire) < Window
          /\ UNCHANGED <<producerVars, chan, exit, clientVars>>
        BY <1>3 DEF EmitTrailers, Room, SenderGone
    <2>2. CASE exit = None /\ diags = 0
        BY <1>1, <1>2, <1>3, <2>1, <2>2, CloseStage DEF EmitTrailers
    <2>3. CASE ~ (exit = None /\ diags = 0)
        BY <1>1, <1>2, <1>3, <2>1, <2>3, CloseStage DEF EmitTrailers
    <2> QED BY <2>2, <2>3
<1>4. CASE EmitEnd
    <2>1. /\ spc = "trailers" /\ ppc = "done" /\ chan = <<>> /\ Len(wire) < Window
          /\ wire' = Append(wire, End) /\ spc' = "closed"
          /\ UNCHANGED <<producerVars, chan, exit, clientVars>>
        BY <1>4 DEF EmitEnd, Room, IInv, ServerInv, ChanInv
    <2> QED BY <1>1, <1>2, <2>1, CloseStage
<1> QED BY <1>3, <1>4

-----------------------------------------------------------------------------
(* The client's steps, and the ends of the connection.                     *)

LEMMA ChainRead ==
    ASSUME wire \in Seq(Frame), wire # <<>>, wire' = Tail(wire),
           NEW n \in Nat, NEW a \in Nat, NEW w \in Nat, Chain(n, Len(wire), OnWire, a, w)
    PROVE  \E m \in a..w : Payload(wire[1]) = Piece(n, a, m) /\ Chain(n, Len(wire'), OnWire', m, w)
<1>1. /\ Len(wire) \in Nat \ {0} /\ Len(wire') = Len(wire) - 1
      /\ OnWire[1] = Payload(wire[1])
      /\ \A i \in 1..(Len(wire) - 1) : OnWire'[i] = OnWire[i + 1]
    BY WireTail
<1>2. Len(wire) > 0
    BY <1>1
<1>3. \E m \in a..w : OnWire[1] = Piece(n, a, m) /\ Chain(n, Len(wire) - 1, OnWire', m, w)
    BY <1>1, <1>2, ChainHead
<1> QED BY <1>1, <1>3

(* What a frame read leaves of the invariant of the connection.              *)
LEMMA ReadStage ==
    ASSUME IInv, wire # <<>>, wire' = Tail(wire), cpc \in {"head", "body"},
           UNCHANGED <<producerVars, chan, serverVars>>,
           cpc' \in {"body", "exited"},
           cpc' = "exited" => Len(wire) = 1 /\ spc = "closed"
    PROVE  /\ wire' \in Seq(Frame) /\ Len(wire) \in Nat \ {0} /\ Len(wire') = Len(wire) - 1
           /\ wire[1] \in Frame
           /\ \A i \in 1..Len(wire') : wire'[i] = wire[i + 1] /\ i + 1 \in 1..Len(wire)
           /\ ProducerInv' /\ ChanInv' /\ WireInv'
           /\ Len(wire') <= Window
<1> USE DEF producerVars, serverVars
<1>1. /\ wire' \in Seq(Frame) /\ Len(wire) \in Nat \ {0} /\ Len(wire') = Len(wire) - 1
      /\ wire[1] \in Frame
      /\ \A i \in 1..(Len(wire) - 1) : wire'[i] = wire[i + 1]
    BY WireTail DEF IInv, WireInv, FramesInv
<1>2. \A i \in 1..Len(wire') : wire'[i] = wire[i + 1] /\ i + 1 \in 1..Len(wire) /\ i + 1 # 1
    BY <1>1
<1>3. ProducerInv' /\ ChanInv'
    BY DEF IInv, ProducerInv, ChanInv
<1>4. Len(wire') <= Window
    BY <1>1, StreamAssumption DEF IInv, TypeOK
<1>5. ASSUME NEW i \in 1..Len(wire')
      PROVE  /\ wire'[i].kind # "head"
             /\ wire'[i].kind = "end" => i = Len(wire') /\ spc = "closed" /\ ppc = "done"
             /\ wire'[i].kind = "trailers" =>
                    /\ spc \in {"trailers", "closed"} /\ ppc = "done"
                    /\ wire'[i].code = exit /\ wire'[i].diags = diags
                    /\ \A j \in (i + 1)..Len(wire') : wire'[j].kind = "end"
    <2>1. wire'[i] = wire[i + 1] /\ i + 1 \in 1..Len(wire) /\ i + 1 # 1
        BY <1>2
    <2>2. wire[i + 1].kind # "head" /\ (wire[i + 1].kind = "end" => i + 1 = Len(wire) /\ spc = "closed" /\ ppc = "done")
        BY <2>1 DEF IInv, WireInv, FramesInv
    <2>3. wire[i + 1].kind = "trailers" =>
             /\ spc \in {"trailers", "closed"} /\ ppc = "done"
             /\ wire[i + 1].code = exit /\ wire[i + 1].diags = diags
             /\ \A j \in (i + 2)..Len(wire) : wire[j].kind = "end"
        BY <2>1 DEF IInv, WireInv, FramesInv
    <2>4. ASSUME wire[i + 1].kind = "trailers", NEW j \in (i + 1)..Len(wire') PROVE wire'[j].kind = "end"
        <3>1. wire'[j] = wire[j + 1] /\ j + 1 \in (i + 2)..Len(wire)
            BY <1>1
        <3> QED BY <2>3, <2>4, <3>1
    <2> QED BY <1>1, <2>1, <2>2, <2>3, <2>4
<1>6. WireInv'
    <2>1. wire' # <<>> => 1 \in 1..Len(wire')
        BY <1>1, LenProperties, EmptySeq
    <2>2. cpc' = "exited" => wire' = <<>> /\ spc = "closed"
        BY <1>1, EmptySeq
    <2>3. FramesInv'
        BY <1>5 DEF FramesInv
    <2> QED BY <1>1, <1>5, <2>1, <2>2, <2>3 DEF WireInv
<1> QED BY <1>1, <1>2, <1>3, <1>4, <1>6

LEMMA ReadHeadKeeps ==
    ASSUME IInv, ReadHead
    PROVE  IInv'
<1> USE DEF producerVars, serverVars
<1>1. /\ cpc = "head" /\ wire # <<>> /\ wire' = Tail(wire) /\ shown' = wire[1].diags
      /\ IF wire[1].err THEN cpc' = "exited" /\ code' = OpCode ELSE cpc' = "body" /\ code' = code
      /\ UNCHANGED <<producerVars, chan, serverVars, stdout>>
    BY DEF ReadHead
<1>2. /\ wire \in Seq(Frame) /\ 1 \in 1..Len(wire) /\ wire[1].kind = "head" /\ stdout = <<>>
      /\ code = None /\ yielded \in Nat
    BY <1>1, LenProperties, EmptySeq, StreamAssumption DEF IInv, WireInv, FramesInv, ClientInv, TypeOK
<1>3. wire[1].err \in BOOLEAN /\ wire[1].diags \in 0..MaxDiags
    <2>1. wire[1] \in Frame
        BY <1>2, ElementOfSeq
    <2> QED BY <1>2, <2>1 DEF Frame
<1>4. /\ wire[1].err => /\ Len(wire) = 1 /\ spc = "closed" /\ ppc = "done"
                         /\ yielded = 0 /\ outcome = "failed" /\ wire[1].diags = diags
      /\ ~ wire[1].err => wire[1].diags = 0
    BY <1>2 DEF IInv, WireInv, FramesInv
<1>5. /\ wire' \in Seq(Frame) /\ Len(wire) \in Nat \ {0} /\ Len(wire') = Len(wire) - 1
      /\ \A i \in 1..Len(wire') : wire'[i] = wire[i + 1] /\ i + 1 \in 1..Len(wire)
      /\ ProducerInv' /\ ChanInv' /\ WireInv' /\ Len(wire') <= Window
    BY <1>1, <1>3, <1>4, ReadStage
<1>6. (EndSent' <=> EndSent) /\ (TrailersSent' <=> TrailersSent)
    <2>1. ASSUME NEW i \in 1..Len(wire), wire[i].kind # "head"
          PROVE  i - 1 \in 1..Len(wire') /\ wire'[i - 1] = wire[i]
        BY <1>2, <1>5, <2>1
    <2> QED BY <1>5, <2>1 DEF EndSent, TrailersSent
<1>7. Closing' <=> Closing
    BY <1>1, <1>6 DEF Closing
<1>8. TypeOK'
    BY <1>1, <1>3, <1>5 DEF IInv, TypeOK
<1>9. Flow'
    <2>1. PICK w \in 0..(yielded + 1) : FlowAt(w)
        BY DEF IInv, Flow
    <2>2. Len(stdout) = 0 /\ w \in Nat
        BY <1>2, <2>1
    <2>3. Chain(yielded, Len(wire), OnWire, 0, w)
        BY <2>1, <2>2 DEF FlowAt
    <2>4. PICK m \in 0..w : Payload(wire[1]) = Piece(yielded, 0, m) /\ Chain(yielded, Len(wire'), OnWire', m, w)
        BY <1>1, <1>2, <2>2, <2>3, ChainRead
    <2>5. Piece(yielded, 0, m) = <<>> /\ m \in Nat
        BY <1>2, <2>2, <2>4 DEF Payload
    <2>6. m = 0
        <3>1. 0 \in Nat /\ 0 <= m
            BY <2>5
        <3> QED BY <1>2, <2>5, <3>1, PieceEmpty
    <2>7. Chain(yielded, Len(wire'), OnWire', Len(stdout'), w)
        BY <1>1, <2>2, <2>4, <2>6
    <2>8. \A b : (Sent(b) => Sent(b)') /\ InChan' = InChan
        BY <1>1 DEF Sent, InChan
    <2>9. FlowAt(w)'
        BY <1>1, <1>7, <2>1, <2>7, <2>8 DEF FlowAt
    <2> QED BY <1>1, <2>9 DEF Flow
<1>10. ServerInv'
    <2>1. spc # "first"
        BY <1>1 DEF IInv, ServerInv
    <2> QED BY <1>1, <1>3, <1>4, <1>7, <2>1 DEF IInv, ServerInv
<1>11. ClientInv'
    <2>1. CASE wire[1].err
        <3>1. ~ EndSent' /\ ~ TrailersSent' /\ cpc' = "exited" /\ spc = "closed"
            BY <1>1, <1>4, <1>5, <2>1 DEF EndSent, TrailersSent
        <3> QED BY <1>1, <1>2, <1>4, <2>1, <3>1 DEF ClientInv, Closing, ExitCodeTellsTruth, OpCode, None, Broken
    <2>2. CASE ~ wire[1].err
        <3>1. cpc' = "body" /\ code' = None /\ shown' = 0 /\ shown = 0
            BY <1>1, <1>2, <1>4, <2>2 DEF IInv, ClientInv
        <3> QED BY <1>1, <1>2, <1>6, <1>7, <3>1 DEF IInv, ClientInv, ExitCodeTellsTruth
    <2> QED BY <2>1, <2>2
<1> QED BY <1>5, <1>8, <1>9, <1>10, <1>11 DEF IInv

LEMMA PieceItems ==
    ASSUME NEW n \in Nat
    PROVE  /\ \A m \in 0..n : Piece(n, 0, m) = Items(m)
           /\ Piece(n, 0, n + 1) = Append(Items(n), ErrorRow)
<1>1. ASSUME NEW m \in 0..n PROVE Piece(n, 0, m) = Items(m)
    BY <1>1 DEF Piece, Items
<1>2. Piece(n, 0, n) = Items(n)
    BY <1>1
<1>3. 0 \in Nat /\ 0 <= n /\ n + 1 \in Nat /\ n <= n + 1
    OBVIOUS
<1>4. Piece(n, 0, n) \o Piece(n, n, n + 1) = Piece(n, 0, n + 1)
    BY <1>3, PieceConcat
<1>5. Piece(n, n, n + 1) = <<ErrorRow>>
    BY PieceAppend, SMTT(20)
<1>6. Append(Items(n), ErrorRow) = Items(n) \o <<ErrorRow>>
    <2>1. Items(n) \in Seq(Nat) /\ ErrorRow \in Nat
        BY <1>2, PieceFirst DEF ErrorRow
    <2> QED BY <2>1, AppendIsConcat
<1> QED BY <1>1, <1>2, <1>4, <1>5, <1>6

LEMMA ReadFrameKeeps ==
    ASSUME IInv, ReadFrame
    PROVE  IInv'
<1> USE DEF producerVars, serverVars
<1>1. /\ cpc = "body" /\ wire # <<>> /\ wire' = Tail(wire)
      /\ UNCHANGED <<producerVars, chan, serverVars>>
    BY DEF ReadFrame
<1>2. /\ wire \in Seq(Frame) /\ 1 \in 1..Len(wire) /\ Len(wire) \in Nat /\ wire[1].kind # "head"
      /\ yielded \in Nat /\ Len(stdout) \in Nat /\ stdout \in Seq(0..MaxItems)
    BY <1>1, LenProperties, EmptySeq, StreamAssumption DEF IInv, WireInv, FramesInv, TypeOK
<1>3. wire[1] \in Frame
    BY <1>2, ElementOfSeq
<1>4. CASE wire[1].kind = "data"
    <2>1. stdout' = stdout \o wire[1].items /\ UNCHANGED <<cpc, code, shown>>
        BY <1>4 DEF ReadFrame
    <2>2. wire[1].items \in Seq(0..MaxItems)
        BY <1>3, <1>4 DEF Frame
    <2>3. /\ wire' \in Seq(Frame) /\ Len(wire) \in Nat \ {0} /\ Len(wire') = Len(wire) - 1
          /\ \A i \in 1..Len(wire') : wire'[i] = wire[i + 1] /\ i + 1 \in 1..Len(wire)
          /\ ProducerInv' /\ ChanInv' /\ WireInv' /\ Len(wire') <= Window
        BY <1>1, <2>1, ReadStage
    <2>4. (EndSent' <=> EndSent) /\ (TrailersSent' <=> TrailersSent)
        <3>1. ASSUME NEW i \in 1..Len(wire), wire[i].kind # "data"
              PROVE  i - 1 \in 1..Len(wire') /\ wire'[i - 1] = wire[i]
            BY <1>4, <2>3, <3>1
        <3> QED BY <2>3, <3>1 DEF EndSent, TrailersSent
    <2>5. Closing' <=> Closing
        BY <1>1, <2>4 DEF Closing
    <2>6. TypeOK'
        <3>1. stdout' \in Seq(0..MaxItems)
            BY <1>2, <2>1, <2>2, ConcatProperties
        <3> QED BY <1>1, <2>1, <2>3, <3>1 DEF IInv, TypeOK
    <2>7. Flow'
        <3>1. PICK w \in 0..(yielded + 1) : FlowAt(w)
            BY DEF IInv, Flow
        <3>2. Chain(yielded, Len(wire), OnWire, Len(stdout), w) /\ w \in Nat
            BY <1>2, <3>1 DEF FlowAt
        <3>3. PICK m \in Len(stdout)..w :
                  Payload(wire[1]) = Piece(yielded, Len(stdout), m) /\ Chain(yielded, Len(wire'), OnWire', m, w)
            BY <1>1, <1>2, <3>2, ChainRead
        <3>4. m \in Nat /\ Len(stdout) <= m /\ 0 \in Nat /\ 0 <= Len(stdout)
            BY <1>2, <3>2, <3>3
        <3>5. stdout' = Piece(yielded, 0, m)
            <4>1. stdout = Piece(yielded, 0, Len(stdout))
                BY <3>1 DEF FlowAt
            <4>2. wire[1].items = Piece(yielded, Len(stdout), m)
                BY <1>4, <3>3 DEF Payload
            <4>3. Piece(yielded, 0, Len(stdout)) \o Piece(yielded, Len(stdout), m) = Piece(yielded, 0, m)
                <5>1. PICK n \in Nat, k \in Nat, o \in Nat : n = yielded /\ k = Len(stdout) /\ o = m /\ k <= o
                    BY <1>2, <3>4
                <5>2. Piece(n, 0, k) \o Piece(n, k, o) = Piece(n, 0, o)
                    BY <5>1, PieceFirstTwo
                <5> QED BY <5>1, <5>2
            <4> QED BY <2>1, <4>1, <4>2, <4>3
        <3>6. Len(stdout') = m
            BY <1>2, <3>4, <3>5, PieceFirst
        <3>7. \A b : (Sent(b) => Sent(b)') /\ InChan' = InChan
            BY <1>1 DEF Sent, InChan
        <3>8. FlowAt(w)'
            BY <1>1, <2>5, <3>1, <3>3, <3>5, <3>6, <3>7 DEF FlowAt
        <3> QED BY <1>1, <3>8 DEF Flow
    <2>8. ServerInv'
        BY <1>1, <2>1, <2>5 DEF IInv, ServerInv
    <2>9. ClientInv'
        BY <1>1, <2>1, <2>4, <2>5 DEF IInv, ClientInv, ExitCodeTellsTruth
    <2> QED BY <2>3, <2>6, <2>7, <2>8, <2>9 DEF IInv
<1>5. ASSUME wire[1].kind \in {"trailers", "end"}, UNCHANGED stdout, Len(wire') = Len(wire) - 1,
             (Closing' => Closing) \/ wire' = <<>>
      PROVE  \E w \in 0..(yielded + 1) : FlowAt(w) /\ FlowAt(w)'
    <2>1. PICK w \in 0..(yielded + 1) : FlowAt(w)
        BY DEF IInv, Flow
    <2>2. Chain(yielded, Len(wire), OnWire, Len(stdout), w) /\ w \in Nat
        BY <1>2, <2>1 DEF FlowAt
    <2>3. PICK m \in Len(stdout)..w :
              Payload(wire[1]) = Piece(yielded, Len(stdout), m) /\ Chain(yielded, Len(wire'), OnWire', m, w)
        BY <1>1, <1>2, <2>2, ChainRead
    <2>4. m = Len(stdout)
        <3>1. m \in Nat /\ Len(stdout) <= m /\ Payload(wire[1]) = <<>>
            BY <1>2, <1>5, <2>2, <2>3 DEF Payload
        <3>2. Piece(yielded, Len(stdout), m) = <<>>
            BY <2>3, <3>1
        <3> QED BY <1>2, <3>1, <3>2, PieceEmpty
    <2>5. \A b : (Sent(b) => Sent(b)') /\ InChan' = InChan
        BY <1>1 DEF Sent, InChan
    <2>6. Closing' => Closing
        <3>1. CASE wire' = <<>>
            <4>1. ~ EndSent'
                BY <3>1 DEF EndSent
            <4> QED BY <1>1, <4>1 DEF Closing
        <3> QED BY <1>5, <3>1
    <2>7. FlowAt(w)'
        BY <1>1, <1>5, <2>1, <2>3, <2>4, <2>5, <2>6 DEF FlowAt
    <2> QED BY <2>1, <2>7
<1>6. CASE wire[1].kind = "trailers"
    <2>1. /\ shown' = shown + wire[1].diags
          /\ code' = IF wire[1].code = None THEN code ELSE wire[1].code
          /\ UNCHANGED <<cpc, stdout>>
        BY <1>6 DEF ReadFrame
    <2>2. /\ wire' \in Seq(Frame) /\ Len(wire) \in Nat \ {0} /\ Len(wire') = Len(wire) - 1
          /\ \A i \in 1..Len(wire') : wire'[i] = wire[i + 1] /\ i + 1 \in 1..Len(wire)
          /\ ProducerInv' /\ ChanInv' /\ WireInv' /\ Len(wire') <= Window
        BY <1>1, <2>1, ReadStage
    <2>3. /\ spc \in {"trailers", "closed"} /\ wire[1].code = exit /\ wire[1].diags = diags
          /\ \A j \in 2..Len(wire) : wire[j].kind = "end"
        <3>1. 1 + 1 = 2
            OBVIOUS
        <3> QED BY <1>2, <1>6, <3>1 DEF IInv, WireInv, FramesInv
    <2>4. TrailersSent /\ code = None /\ shown = 0
        BY <1>2, <1>6 DEF IInv, ClientInv, TrailersSent
    <2>5. ~ TrailersSent'
        <3>1. ASSUME NEW i \in 1..Len(wire') PROVE wire'[i].kind = "end"
            BY <2>2, <2>3
        <3> QED BY <3>1 DEF TrailersSent
    <2>6. EndSent' => EndSent
        BY <2>2 DEF EndSent
    <2>7. Closing' => Closing
        BY <1>1, <2>6 DEF Closing
    <2>8. diags \in 0..MaxDiags /\ exit \in {None, OpCode} /\ shown' = diags /\ code' = exit
        BY <2>1, <2>3, <2>4, StreamAssumption DEF IInv, TypeOK
    <2>9. TypeOK'
        BY <1>1, <2>1, <2>2, <2>8 DEF IInv, TypeOK
    <2>10. Flow'
        BY <1>1, <1>5, <1>6, <2>1, <2>2, <2>7 DEF Flow
    <2>11. ServerInv'
        BY <1>1, <2>1, <2>3, <2>7 DEF IInv, ServerInv
    <2>12. ClientInv'
        BY <1>1, <2>1, <2>3, <2>5, <2>8 DEF ClientInv, ExitCodeTellsTruth
    <2> QED BY <2>2, <2>9, <2>10, <2>11, <2>12 DEF IInv
<1>7. CASE wire[1].kind = "end"
    <2>1. cpc' = "exited" /\ UNCHANGED <<stdout, code, shown>>
        BY <1>7 DEF ReadFrame
    <2>2. Len(wire) = 1 /\ spc = "closed" /\ ppc = "done" /\ Closing
        BY <1>2, <1>7 DEF IInv, WireInv, FramesInv, Closing, EndSent
    <2>3. /\ wire' \in Seq(Frame) /\ Len(wire') = Len(wire) - 1
          /\ ProducerInv' /\ ChanInv' /\ WireInv' /\ Len(wire') <= Window
        BY <1>1, <2>1, <2>2, ReadStage
    <2>4. wire' = <<>> /\ ~ Closing' /\ ~ TrailersSent'
        <3>1. Len(wire') = 0
            BY <2>2, <2>3
        <3>2. wire' = <<>>
            BY <2>3, <3>1, EmptySeq
        <3>3. \A i \in 1..Len(wire') : FALSE
            BY <3>1
        <3> QED BY <1>1, <2>2, <3>2, <3>3 DEF Closing, EndSent, TrailersSent
    <2>5. code = exit /\ shown = diags
        <3>1. ~ TrailersSent
            <4>1. ASSUME NEW i \in 1..Len(wire) PROVE wire[i].kind # "trailers"
                <5>1. i \in 1..1
                    BY <2>2
                <5> QED BY <1>7, <5>1
            <4> QED BY <4>1 DEF TrailersSent
        <3> QED BY <2>2, <3>1 DEF IInv, ClientInv
    <2>6. PICK w \in 0..(yielded + 1) : FlowAt(w) /\ FlowAt(w)'
        BY <1>5, <1>7, <2>1, <2>3, <2>4
    <2>7. w = Len(stdout)
        <3>1. Chain(yielded', 0, OnWire', Len(stdout'), w)
            BY <2>4, <2>6 DEF FlowAt
        <3>2. Chain(yielded, 0, OnWire', Len(stdout), w) /\ w \in Nat
            BY <1>1, <1>2, <2>1, <3>1
        <3> QED BY <1>2, <3>2, ChainEmptyOnly
    <2>8. /\ outcome = "ended" => stdout = Items(yielded)
          /\ outcome = "failed" => stdout = Append(Items(yielded), ErrorRow)
        <3>1. stdout = Piece(yielded, 0, Len(stdout))
            BY <2>6 DEF FlowAt
        <3>2. (outcome = "ended" => w = yielded) /\ (outcome = "failed" => w = yielded + 1)
            BY <2>2, <2>6 DEF FlowAt
        <3>3. yielded \in 0..yielded
            BY <1>2
        <3> QED BY <1>2, <2>7, <3>1, <3>2, <3>3, PieceItems
    <2>9. /\ outcome \in {"ended", "failed", "panicked"} /\ (outcome = "failed" => exit = OpCode)
          /\ exit = OpCode => outcome = "failed" /\ yielded > 0
        BY <2>2 DEF IInv, ServerInv, TypeOK
    <2>10. TypeOK'
        BY <1>1, <2>1, <2>3 DEF IInv, TypeOK
    <2>11. Flow'
        BY <1>1, <2>6 DEF Flow
    <2>12. ServerInv'
        BY <1>1, <2>1, <2>2, <2>4 DEF IInv, ServerInv
    <2>13. ClientInv'
        <3>1. None # OpCode /\ (yielded > 0 => yielded # 0)
            BY <1>2 DEF None, OpCode
        <3>2. ExitCodeTellsTruth'
            BY <1>1, <2>1, <2>5, <2>8, <2>9, <3>1 DEF ExitCodeTellsTruth, Items
        <3> QED BY <1>1, <2>1, <2>2, <2>4, <3>2 DEF ClientInv
    <2> QED BY <2>3, <2>10, <2>11, <2>12, <2>13 DEF IInv
<1> QED BY <1>2, <1>3, <1>4, <1>6, <1>7 DEF Frame

(* The client leaves, or the daemon dies: what is printed stays.             *)
LEMMA LeaveKeeps ==
    ASSUME IInv, Quit \/ Die
    PROVE  IInv'
<1> USE DEF producerVars
<1>1. PICK w \in 0..(yielded + 1) : FlowAt(w)
    BY DEF IInv, Flow
<1>2. /\ yielded \in Nat /\ Len(stdout) \in Nat /\ w \in Nat
    BY <1>1, LenProperties, StreamAssumption DEF IInv, TypeOK
<1>3. chan' = <<>> /\ chan' \in Seq(Messages) /\ Len(chan') <= Capacity /\ Len(<<>>) = 0
    <2>1. chan' = <<>>
        BY DEF Quit, Die
    <2>2. Len(<<>>) = 0 /\ <<>> \in Seq(Messages)
        BY EmptySeq
    <2> QED BY <2>1, <2>2, StreamAssumption
<1>4. CASE Quit
    <2>1. /\ cpc' = "quit" /\ spc' = "closed" /\ wire' = <<>>
          /\ UNCHANGED <<producerVars, exit, stdout, code, shown>>
        BY <1>4 DEF Quit
    <2>2. ~ Closing' /\ ~ TrailersSent'
        BY <2>1 DEF Closing, EndSent, TrailersSent
    <2>3. TypeOK'
        BY <1>3, <2>1, StreamAssumption DEF IInv, TypeOK, Messages
    <2>4. Flow'
        <3>1. Len(stdout) <= w
            <4>1. Chain(yielded, Len(wire), OnWire, Len(stdout), w) /\ Len(wire) \in Nat
                BY <1>1, LenProperties DEF FlowAt, IInv, WireInv, FramesInv
            <4> QED BY <1>2, <4>1, ChainOrder
        <3>2. PICK v \in 0..(yielded + 1) : v = Len(stdout) /\ (v = yielded + 1 => outcome = "failed")
            BY <1>1, <1>2, <3>1 DEF FlowAt
        <3>3. Chain(yielded, 0, OnWire', v, v)
            BY <1>2, <3>2, ChainEmpty
        <3>4. FlowAt(v)'
            BY <1>1, <1>3, <2>1, <2>2, <3>2, <3>3 DEF FlowAt
        <3> QED BY <2>1, <3>4 DEF Flow
    <2>5. ProducerInv' /\ ChanInv' /\ ServerInv' /\ WireInv'
        BY <1>3, <2>1, <2>2, EmptySeq DEF IInv, ProducerInv, ChanInv, ServerInv, WireInv, FramesInv
    <2>6. ClientInv'
        BY <2>1, <2>2 DEF IInv, ClientInv, ExitCodeTellsTruth
    <2> QED BY <2>3, <2>4, <2>5, <2>6 DEF IInv
<1>5. CASE Die
    <2>1. /\ spc # "closed" /\ cpc \in {"head", "body"} /\ ppc' = "done" /\ spc' = "closed"
          /\ UNCHANGED <<yielded, outcome, batch, bytes, waiting, diags, exit, wire, clientVars>>
        BY <1>5 DEF Die
    <2> USE DEF clientVars
    <2>2. ~ Closing' /\ (TrailersSent' <=> TrailersSent) /\ OnWire' = OnWire
        BY <2>1 DEF IInv, WireInv, FramesInv, Closing, EndSent, TrailersSent, OnWire
    <2>3. TypeOK'
        BY <1>3, <2>1 DEF IInv, TypeOK, Messages
    <2>4. Flow'
        <3>1. FlowAt(w)'
            BY <1>1, <2>1, <2>2 DEF FlowAt
        <3> QED BY <2>1, <3>1 DEF Flow
    <2>5. ProducerInv' /\ ChanInv' /\ ServerInv'
        BY <1>3, <2>1, <2>2 DEF IInv, ProducerInv, ChanInv, ServerInv
    <2>6. WireInv'
        BY <2>1 DEF IInv, WireInv, FramesInv
    <2>7. ClientInv'
        BY <2>1, <2>2 DEF IInv, ClientInv, ExitCodeTellsTruth
    <2> QED BY <2>3, <2>4, <2>5, <2>6, <2>7 DEF IInv
<1> QED BY <1>4, <1>5

LEMMA SeeBrokenKeeps ==
    ASSUME IInv, SeeBroken
    PROVE  IInv'
<1> USE DEF producerVars, serverVars
<1>1. /\ wire = <<>> /\ spc = "closed" /\ cpc' = "exited" /\ code' = Broken /\ shown' = 0
      /\ UNCHANGED <<producerVars, chan, serverVars, wire>>
    BY DEF SeeBroken
<1>2. PICK n \in 0..Len(stdout) : stdout' = SubSeq(stdout, 1, n)
    BY DEF SeeBroken
<1>3. PICK w \in 0..(yielded + 1) : FlowAt(w)
    BY DEF IInv, Flow
<1>4. /\ yielded \in Nat /\ Len(stdout) \in Nat /\ w \in Nat /\ n \in Nat /\ stdout \in Seq(0..MaxItems)
    BY <1>2, <1>3, LenProperties, StreamAssumption DEF IInv, TypeOK
<1>5. ~ Closing' /\ ~ TrailersSent'
    BY <1>1 DEF Closing, EndSent, TrailersSent
<1>6. TypeOK'
    <2>1. stdout' \in Seq(0..MaxItems)
        <3>1. ASSUME NEW i \in 1..n PROVE stdout[i] \in 0..MaxItems
            <4>1. i \in 1..Len(stdout)
                BY <1>2, <1>4
            <4> QED BY <1>4, <4>1, ElementOfSeq
        <3> QED BY <1>2, <1>4, <3>1, SubSeqProperties
    <2> QED BY <1>1, <2>1, StreamAssumption DEF IInv, TypeOK
<1>7. Flow'
    <2>1. Len(stdout) <= w
        <3>1. Chain(yielded, Len(wire), OnWire, Len(stdout), w) /\ Len(wire) \in Nat
            BY <1>3, LenProperties DEF FlowAt, IInv, WireInv, FramesInv
        <3> QED BY <1>4, <3>1, ChainOrder
    <2>2. stdout = Piece(yielded, 0, Len(stdout))
        BY <1>3 DEF FlowAt
    <2>3. SubSeq(Piece(yielded, 0, Len(stdout)), 1, n) = Piece(yielded, 0, n)
        BY <1>4, PieceCut
    <2>4. stdout' = Piece(yielded, 0, n)
        BY <1>2, <2>2, <2>3
    <2>5. Len(stdout') = n
        BY <1>4, <2>4, PieceFirst
    <2>6. n \in 0..(yielded + 1) /\ (n = yielded + 1 => outcome = "failed")
        BY <1>2, <1>3, <1>4, <2>1 DEF FlowAt
    <2>7. Chain(yielded, 0, OnWire', n, n) /\ Len(wire') = 0
        BY <1>1, <1>4, ChainEmpty
    <2>8. FlowAt(n)'
        BY <1>1, <1>5, <2>4, <2>5, <2>6, <2>7 DEF FlowAt
    <2> QED BY <1>1, <2>6, <2>8 DEF Flow
<1>8. ProducerInv' /\ ChanInv' /\ ServerInv' /\ WireInv'
    BY <1>1, <1>5 DEF IInv, ProducerInv, ChanInv, ServerInv, WireInv, FramesInv
<1>9. ClientInv'
    BY <1>1, <1>5 DEF ClientInv, ExitCodeTellsTruth, Broken, None, OpCode
<1> QED BY <1>6, <1>7, <1>8, <1>9 DEF IInv

LEMMA StutterKeeps ==
    ASSUME IInv, UNCHANGED vars
    PROVE  IInv'
<1> USE DEF vars, producerVars, serverVars, clientVars
<1>1. (EndSent' <=> EndSent) /\ (TrailersSent' <=> TrailersSent) /\ (Closing' <=> Closing)
    BY DEF EndSent, TrailersSent, Closing
<1>2. TypeOK' /\ ProducerInv' /\ ChanInv' /\ WireInv'
    BY SMTT(20) DEF IInv, TypeOK, ProducerInv, ChanInv, WireInv, FramesInv
<1>3. ServerInv' /\ ClientInv'
    BY <1>1 DEF IInv, ServerInv, ClientInv, ExitCodeTellsTruth
<1>4. Flow'
    <2>1. PICK w \in 0..(yielded + 1) : FlowAt(w)
        BY DEF IInv, Flow
    <2>2. OnWire' = OnWire /\ InChan' = InChan /\ \A b : Sent(b) => Sent(b)'
        BY DEF OnWire, InChan, Sent
    <2>3. FlowAt(w)'
        BY <1>1, <2>1, <2>2 DEF FlowAt
    <2> QED BY <2>1, <2>3 DEF Flow
<1> QED BY <1>2, <1>3, <1>4 DEF IInv

LEMMA NextIInv == IInv /\ [Next]_vars => IInv'
<1> SUFFICES ASSUME IInv, [Next]_vars PROVE IInv'
    OBVIOUS
<1>1. CASE Producer
    BY <1>1, DiagnoseKeeps, PullKeeps, OutcomeKeeps, SendBatchKeeps, SendErrorKeeps DEF Producer
<1>2. CASE Server
    BY <1>2, RecvFirstKeeps, EmitKeeps, CloseKeeps DEF Server
<1>3. CASE Client
    BY <1>3, ReadHeadKeeps, ReadFrameKeeps, SeeBrokenKeeps DEF Client
<1>4. CASE Quit \/ Die
    BY <1>4, LeaveKeeps
<1>5. CASE UNCHANGED vars \/ Over
    BY <1>5, StutterKeeps DEF Over
<1> QED BY <1>1, <1>2, <1>3, <1>4, <1>5 DEF Next

(* At every moment the items in flight continue, in order and without a gap, *)
(* what is printed: on the wire, in the channel, in the producer's batch.    *)
THEOREM Invariance == Spec => []IInv
<1> QED BY InitIInv, NextIInv, PTL DEF Spec

(* Every variable keeps its type; no more messages than the channel takes.   *)
THEOREM TypeCorrect == Spec => []TypeOK
<1>1. IInv => TypeOK
    BY DEF IInv
<1> QED BY <1>1, Invariance, PTL

(* The terminal shows a beginning of what the operation yielded, with an      *)
(* error row only behind all of it, whatever happens to client and daemon.    *)
THEOREM PrintsInOrder == Spec => []StdoutInOrder
<1>1. ASSUME IInv PROVE StdoutInOrder
    <2>1. PICK w \in 0..(yielded + 1) : FlowAt(w)
        BY <1>1 DEF IInv, Flow
    <2>2. yielded \in Nat /\ Len(stdout) \in Nat /\ w \in Nat
        BY <1>1, <2>1, LenProperties, StreamAssumption DEF IInv, TypeOK
    <2>3. Chain(yielded, Len(wire), OnWire, Len(stdout), w) /\ Len(wire) \in Nat
        BY <1>1, <2>1, LenProperties DEF FlowAt, IInv, WireInv, FramesInv
    <2>4. Len(stdout) <= w
        BY <2>2, <2>3, ChainOrder
    <2>5. stdout = Piece(yielded, 0, Len(stdout)) /\ (w = yielded + 1 => outcome = "failed")
        BY <2>1 DEF FlowAt
    <2>6. CASE Len(stdout) \in 0..yielded
        BY <2>2, <2>5, <2>6, PieceItems DEF StdoutInOrder
    <2>7. CASE Len(stdout) = yielded + 1
        <3>1. outcome = "failed" /\ stdout = Piece(yielded, 0, yielded + 1)
            BY <2>1, <2>2, <2>4, <2>5, <2>7
        <3> QED BY <2>2, <3>1, PieceItems DEF StdoutInOrder
    <2> QED BY <2>1, <2>2, <2>4, <2>6, <2>7
<1>2. IInv => StdoutInOrder
    BY <1>1
<1> QED BY <1>2, Invariance, PTL

(* The exit code of the client, and what it has shown, agree with what the   *)
(* operation did.                                                             *)
THEOREM TellsTruth == Spec => []ExitCodeTellsTruth
<1>1. IInv => ExitCodeTellsTruth
    BY DEF IInv, ClientInv
<1> QED BY <1>1, Invariance, PTL
=============================================================================
