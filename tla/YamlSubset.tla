------------------------------ MODULE YamlSubset -----------------------------
(***************************************************************************)
(* The front matter parser WorkflowLoader and PersonaLoader share: one     *)
(* pass over the lines with a stack of the open maps, checked against what *)
(* the nesting of the lines means.  A line is known by its indentation and *)
(* by what follows it: a key with a value on its line, a key alone, a list *)
(* item, a blank line or an indented comment, a comment at column 0, or    *)
(* text without a colon.  The value of a key is the number of its line.    *)
(***************************************************************************)
EXTENDS Integers, Sequences, FiniteSets, SequencesExt, Functions

CONSTANTS Indents, KeyNames, MaxLines   \* MaxLines is a bound of the model

VARIABLE doc   \* the lines written so far

Line == [kind : {"value", "open"}, indent : Indents, key : KeyNames]
        \cup [kind : {"item"}, indent : Indents, key : {"-"}]
        \cup [kind : {"blank", "comment", "bad"}, indent : {0}, key : {"-"}]

IsKey(l) == l.kind \in {"value", "open"}
Skipped(l) == l.kind \in {"blank", "comment"}

-----------------------------------------------------------------------------
(* The parser                                                              *)

\* The next line that is not blank: a comment at column 0 counts as one.
PeekNext(d, from) ==
    LET rest == {i \in from..Len(d) : d[i].kind # "blank"}
    IN  IF rest = {} THEN [kind |-> "none"] ELSE d[CHOOSE i \in rest : \A j \in rest : i <= j]

\* parent.obj[key] = value: what was there is gone with all it held.
Assign(tree, path, value) ==
    LET kept == {p \in DOMAIN tree : ~IsPrefix(path, p)}
    IN  [p \in kept \cup {path} |-> IF p = path THEN value ELSE tree[p]]

NoList == [indent |-> -1, path |-> << >>]
Start == [stack |-> <<[indent |-> -1, path |-> << >>]>>, list |-> NoList,
          tree |-> << >>, failed |-> FALSE]

\* stack.pop() while the top is not less indented, which the first one always is.
Popped(stack, indent) ==
    SubSeq(stack, 1, CHOOSE n \in 1..Len(stack) : /\ stack[n].indent < indent
                                                 /\ \A m \in n + 1..Len(stack) : stack[m].indent >= indent)

\* A key closes the maps that are not less indented; alone on its line it
\* opens a map, or a list if an item comes next.
ParseKey(d, i, st) ==
    LET l == d[i]
        stack == Popped(st.stack, l.indent)
        path == Append(Last(stack).path, l.key)
        next == PeekNext(d, i + 1)
    IN  IF l.kind = "value" THEN [st EXCEPT !.stack = stack, !.list = NoList, !.tree = Assign(@, path, <<i>>)]
        ELSE IF next.kind = "item"
        THEN [st EXCEPT !.stack = stack, !.list = [indent |-> next.indent, path |-> path],
                        !.tree = Assign(@, path, << >>)]
        ELSE [st EXCEPT !.stack = Append(stack, [indent |-> l.indent, path |-> path]), !.list = NoList,
                        !.tree = Assign(@, path, <<i>>)]

ParseItem(d, i, st) ==
    IF st.list = NoList \/ st.list.indent # d[i].indent THEN [st EXCEPT !.failed = TRUE]
    ELSE [st EXCEPT !.tree[st.list.path] = Append(@, i)]

ParseLine(d, i, st) ==
    IF st.failed \/ Skipped(d[i]) THEN st
    ELSE IF d[i].kind = "item" THEN ParseItem(d, i, st)
    ELSE IF d[i].kind = "bad" THEN [st EXCEPT !.failed = TRUE]
    ELSE ParseKey(d, i, st)

\* parseYamlSubset.
Parsed(d) ==
    LET state[i \in 0..Len(d)] == IF i = 0 THEN Start ELSE ParseLine(d, i, state[i - 1])
    IN  state[Len(d)]

-----------------------------------------------------------------------------
(* What the lines mean                                                     *)

KeyLines(d) == {i \in DOMAIN d : IsKey(d[i])}
ListKeys(d) == {i \in KeyLines(d) : d[i].kind = "open" /\ PeekNext(d, i + 1).kind = "item"}

\* The items of the list that line i opens, and whether item n is one of them:
\* nothing but equally indented items between the two.
ItemOf(d, n, i) ==
    /\ i < n /\ d[n].kind = "item"
    /\ \A k \in i + 1..n : Skipped(d[k]) \/ (d[k].kind = "item" /\ d[k].indent = PeekNext(d, i + 1).indent)

Malformed(d) ==
    \E n \in DOMAIN d :
        \/ d[n].kind = "bad"
        \/ d[n].kind = "item" /\ ~\E i \in ListKeys(d) : ItemOf(d, n, i)

\* The line that encloses line i: the last map key that is less indented, and
\* that no key between the two has closed.
Enclosing(d, i) ==
    {j \in KeyLines(d) \ ListKeys(d) :
        /\ j < i /\ d[j].kind = "open" /\ d[j].indent < d[i].indent
        /\ \A k \in KeyLines(d) : j < k /\ k < i => d[k].indent > d[j].indent}

Parent(d, i) == IF Enclosing(d, i) = {} THEN 0 ELSE CHOOSE j \in Enclosing(d, i) : \A k \in Enclosing(d, i) : k <= j

Paths(d) ==
    LET path[i \in 0..Len(d)] == IF i = 0 THEN << >>
                                 ELSE IF ~IsKey(d[i]) THEN <<"-">> ELSE Append(path[Parent(d, i)], d[i].key)
    IN  path

\* The keys that no later key overwrites, with or without what is around them.
Living(d) == LET path == Paths(d)
             IN  {i \in KeyLines(d) : ~\E k \in KeyLines(d) : k > i /\ IsPrefix(path[k], path[i])}

\* The value of a key, and the items of a list in their order.
Means(d, i, value) ==
    IF i \notin ListKeys(d) THEN value = <<i>>
    ELSE /\ Range(value) = {n \in DOMAIN d : ItemOf(d, n, i)}
         /\ \A k \in 2..Len(value) : value[k - 1] < value[k]

-----------------------------------------------------------------------------
Init == doc = << >>
Next == Len(doc) < MaxLines /\ \E l \in Line : doc' = Append(doc, l)

Spec == Init /\ [][Next]_doc

\* The parser refuses the documents that are malformed and no others, and of
\* the others reads each key at the place its nesting gives it, with the value
\* or the items that are its own.
ParseIsNesting ==
    LET p == Parsed(doc)
    IN  /\ p.failed <=> Malformed(doc)
        /\ ~p.failed => /\ DOMAIN p.tree = {Paths(doc)[i] : i \in Living(doc)}
                        /\ \A i \in Living(doc) : Means(doc, i, p.tree[Paths(doc)[i]])
=============================================================================
