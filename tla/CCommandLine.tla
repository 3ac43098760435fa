----------------------------- MODULE CCommandLine -----------------------------
(* The command line of the C front end: cli_scan walks argv with getopt_long    *)
(* taking one option at a time, the parser first looks for the options of the   *)
(* root, then for the command, then scans the rest with the options of the       *)
(* operation, and at last fills the arguments (6_cli_runtime.ts, 7_cli.ts).      *)
(*                                                                              *)
(* A token has its text, the options it spells (several for -abc, none for a     *)
(* word) and the value after = or behind the letters. rc is 0, 2 for an error or *)
(* -1 when the help is printed.                                                  *)
EXTENDS Routes

Word(w)      == [text |-> w, opts |-> <<>>, inline |-> <<>>]
Option(n)    == [text |-> "--option", opts |-> <<n>>, inline |-> <<>>]
Assigned(n, w) == [text |-> "--option", opts |-> <<n>>, inline |-> <<w>>]
Dashes       == Word("--")

descriptors(op) == {p \in ToSet(op.params) : ~p.stream /\ ~p.skip /\ roleOf(p) # "positional"}

(* emitCli refuses: names that collide, a list before another positional, two    *)
(* operations on one path, an option named help.                                  *)
ListsLast(op) == LET ps == SelectSeq(op.params, LAMBDA p : roleOf(p) = "positional")
                 IN  \A j \in 1..(Len(ps) - 1) : ps[j].kind # "array"
emitCliThrows(ops) ==
    \/ planCliTreeThrows(ops)
    \/ \E i, j \in DOMAIN ops : i # j /\ ops[i].name = ops[j].name
    \/ \E i \in DOMAIN ops :
          \/ ~ListsLast(ops[i])
          \/ \E p \in descriptors(ops[i]) : p.name = "help"
          \/ Cardinality(Names(ops[i].params)) # Len(ops[i].params)

cli_push(st, p, w) ==
    IF st.values[p.name] # <<>> /\ p.kind # "array" THEN [st EXCEPT !.rc = 2]
    ELSE [st EXCEPT !.values[p.name] = Append(@, w)]

(* The options of one element of argv; only the last of them may take a value,   *)
(* and takes the next element whatever that looks like.                           *)
ScanOption(argv, st, flags) ==
    LET t == argv[st.cursor]
        next == IF st.cursor < Len(argv) THEN <<argv[st.cursor + 1].text>> ELSE <<>>
        known(n) == {p \in flags : p.name = n}
        take(s, n) ==
            CASE s.rc # 0 -> s
              [] s.rc = 0 /\ known(n) = {} -> [s EXCEPT !.rc = IF n = "help" THEN -1 ELSE 2]
              [] OTHER ->
                   LET p == CHOOSE q \in known(n) : TRUE
                       word == IF t.inline # <<>> THEN t.inline ELSE next
                   IN  CASE p.kind = "bool" /\ t.inline = <<>> -> cli_push(s, p, "true")
                         [] p.kind # "bool" /\ word # <<>> ->
                              [cli_push(s, p, word[1]) EXCEPT !.cursor = @ + IF t.inline = <<>> THEN 1 ELSE 0]
                         [] OTHER -> [s EXCEPT !.rc = 2]
    IN  [FoldLeft(take, st, t.opts) EXCEPT !.cursor = @ + 1]

cli_scan_NoTerminator(argv, from, flags, names, root) ==
    LET step(st, i) ==
            LET t == argv[i]
                word == t.opts = <<>>
            IN  IF st.rc # 0 \/ st.stop \/ i < st.cursor THEN st
                ELSE IF word /\ root THEN [st EXCEPT !.stop = TRUE]
                ELSE IF word THEN [st EXCEPT !.positionals = Append(@, t.text), !.cursor = @ + 1]
                ELSE ScanOption(argv, st, flags)
        start == [rc |-> 0, stop |-> FALSE, literal |-> FALSE, cursor |-> from,
                  positionals |-> <<>>, values |-> [n \in names |-> <<>>]]
    IN  FoldLeft(step, start, [i \in 1..Len(argv) |-> i])

cli_scan(argv, from, flags, names, root) ==
    LET step(st, i) ==
            LET t    == argv[i]
                done == st.rc # 0 \/ st.stop \/ i < st.cursor
                word == st.literal \/ (t.opts = <<>> /\ t # Dashes)
            IN  IF done THEN st
                ELSE IF word /\ root THEN [st EXCEPT !.stop = TRUE]
                ELSE IF word THEN [st EXCEPT !.positionals = Append(@, t.text), !.cursor = @ + 1]
                ELSE IF t = Dashes THEN [st EXCEPT !.literal = TRUE, !.cursor = @ + 1]
                ELSE ScanOption(argv, st, flags)
        start == [rc |-> 0, stop |-> FALSE, literal |-> FALSE, cursor |-> from,
                  positionals |-> <<>>, values |-> [n \in names |-> <<>>]]
    IN  FoldLeft(step, start, [i \in 1..Len(argv) |-> i])

(* How far the words from from on lead into the tree. *)
descend(ops, argv, from) ==
    LET step(node, i) ==
            IF i = from + Len(node) /\ Append(node, argv[i].text) \in Nodes(ops)
            THEN Append(node, argv[i].text) ELSE node
    IN  FoldLeft(step, <<>>, [i \in 1..Len(argv) |-> i])

convert(p, w) == /\ p.words # {} => w \in p.words
                 /\ p.min # <<>> => NumberOf[w] >= p.min[1]
                 /\ p.max # <<>> => NumberOf[w] <= p.max[1]

fill_EarlyPositionals(op, st) ==
    LET placed == TakePositionals(op, st.positionals)
        v == [n \in Names(Fields(op)) |-> IF n \in DOMAIN placed THEN placed[n] ELSE st.values[n]]
    IN  [ok |-> ~TooMany(op, st.positionals) /\ Constrained(op, v),
         args |-> [n \in Names(Fields(op)) |-> Meaning(ParamOf(op, n), v[n])]]
(* fill and oneOf: a default counts as an argument that is present. *)
fill(op, st) ==
    LET placed == TakePositionals(op, st.positionals)
        v == [n \in Names(Fields(op)) |->
                 LET p == ParamOf(op, n)
                     given == IF n \in DOMAIN placed THEN placed[n] ELSE st.values[n]
                 IN  IF given = <<>> /\ p.default THEN DefaultOf(p) ELSE given]
        ok == /\ ~TooMany(op, st.positionals)
              /\ Constrained(op, v)
              /\ \A p \in ToSet(Fields(op)) :
                    /\ (Required(p) /\ ~p.skip) \/ p.required => v[p.name] # <<>>
                    /\ \A i \in DOMAIN v[p.name] : convert(p, v[p.name][i])
    IN  [ok |-> ok, args |-> [n \in Names(Fields(op)) |->
                                IF v[n] # <<>> THEN v[n] ELSE TypeDefault(ParamOf(op, n))]]

Nowhere == [ok |-> FALSE, op |-> 0, args |-> <<>>]
cli_parse(ops, argv) ==
    LET root == cli_scan(argv, 1, {}, {}, TRUE)
        node == descend(ops, argv, root.cursor)
        at   == PlansAt(ops, node)
    IN  IF root.rc # 0 \/ at = {} THEN Nowhere
        ELSE LET i  == CHOOSE j \in at : TRUE
                 st == cli_scan(argv, root.cursor + Len(node), descriptors(ops[i]),
                                Names(ops[i].params), FALSE)
                 filled == fill(ops[i], st)
             IN  IF st.rc # 0 \/ ~filled.ok THEN Nowhere
                 ELSE [ok |-> TRUE, op |-> i, args |-> filled.args]
===============================================================================
