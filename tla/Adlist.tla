------------------------------- MODULE Adlist -------------------------------
(***************************************************************************)
(* The doubly linked list of adlist.c: nodes with prev and next pointers,  *)
(* a header with head, tail and len, and iterators that remember the node  *)
(* they will return next.  A list is a record; its nodes are numbers, and  *)
(* zmalloc hands out the smallest number that is not in use (a freed node  *)
(* is reused at once, which is when a pointer left behind does most harm). *)
(***************************************************************************)
EXTENDS Naturals, Integers, Sequences, FiniteSets

NULL == 0

listCreate == [head |-> NULL, tail |-> NULL, len |-> 0, node |-> <<>>]

Nodes(l) == DOMAIN l.node
Value(l, n) == l.node[n].value

Fresh(l) == CHOOSE n \in 1..(Cardinality(Nodes(l)) + 1) : n \notin Nodes(l)

Alloc(l, value, prev, next) ==
    LET n == Fresh(l)
    IN [l EXCEPT !.node =
          [m \in Nodes(l) \cup {n} |->
             IF m = n THEN [value |-> value, prev |-> prev, next |-> next] ELSE l.node[m]]]

SetNext(l, n, to) == IF n = NULL THEN l ELSE [l EXCEPT !.node[n].next = to]
SetPrev(l, n, to) == IF n = NULL THEN l ELSE [l EXCEPT !.node[n].prev = to]

listAddNodeHead(l, value) ==
    LET n == Fresh(l)
        a == Alloc(l, value, NULL, IF l.len = 0 THEN NULL ELSE l.head)
    IN IF l.len = 0
       THEN [a EXCEPT !.head = n, !.tail = n, !.len = 1]
       ELSE [SetPrev(a, l.head, n) EXCEPT !.head = n, !.len = @ + 1]

listAddNodeTail(l, value) ==
    LET n == Fresh(l)
        a == Alloc(l, value, IF l.len = 0 THEN NULL ELSE l.tail, NULL)
    IN IF l.len = 0
       THEN [a EXCEPT !.head = n, !.tail = n, !.len = 1]
       ELSE [SetNext(a, l.tail, n) EXCEPT !.tail = n, !.len = @ + 1]

\* The neighbours are linked to the new node only through its own pointers.
listInsertNode(l, old, value, after) ==
    LET n == Fresh(l)
        prev == IF after THEN old ELSE l.node[old].prev
        next == IF after THEN l.node[old].next ELSE old
        a == Alloc(l, value, prev, next)
        h == [a EXCEPT !.tail = IF after /\ @ = old THEN n ELSE @,
                       !.head = IF ~after /\ @ = old THEN n ELSE @]
    IN [SetPrev(SetNext(h, prev, n), next, n) EXCEPT !.len = @ + 1]

listDelNode(l, n) ==
    LET prev == l.node[n].prev
        next == l.node[n].next
        a == IF prev # NULL THEN SetNext(l, prev, next) ELSE [l EXCEPT !.head = next]
        b == IF next # NULL THEN SetPrev(a, next, prev) ELSE [a EXCEPT !.tail = prev]
    IN [b EXCEPT !.node = [m \in Nodes(b) \ {n} |-> b.node[m]], !.len = @ - 1]

\* An iterator is the node it returns next; listNext moves it before the caller
\* sees the node, so the caller may delete what it was given.
listGetIterator(l, fromHead) == IF fromHead THEN l.head ELSE l.tail
Advance(l, n, fromHead) == IF fromHead THEN l.node[n].next ELSE l.node[n].prev

\* The values from node n on, as a loop over listNext sees them.
From(l, n, fromHead) ==
    LET Loop[k \in 0..l.len] ==
            IF k = 0 THEN [at |-> n, seen |-> <<>>]
            ELSE LET s == Loop[k - 1]
                 IN IF s.at = NULL THEN s
                    ELSE [at |-> Advance(l, s.at, fromHead),
                          seen |-> Append(s.seen, Value(l, s.at))]
    IN Loop[l.len].seen

Listed(l) == From(l, listGetIterator(l, TRUE), TRUE)

listDup(orig) ==
    LET values == Listed(orig)
        Copy[k \in 0..Len(values)] ==
            IF k = 0 THEN listCreate ELSE listAddNodeTail(Copy[k - 1], values[k])
    IN Copy[Len(values)]

\* The k-th node after n, or NULL when the list ends before.
Skip(l, n, k, fromHead) ==
    LET Step[j \in 0..k] ==
            IF j = 0 THEN n
            ELSE IF Step[j - 1] = NULL THEN NULL ELSE Advance(l, Step[j - 1], fromHead)
    IN Step[k]

listIndex(l, index) ==
    IF index < 0 THEN Skip(l, l.tail, (-index) - 1, FALSE) ELSE Skip(l, l.head, index, TRUE)

listSearchKey(l, value) ==
    LET at == {k \in 0..(l.len - 1) : Value(l, listIndex(l, k)) = value}
    IN IF at = {} THEN NULL ELSE listIndex(l, CHOOSE k \in at : \A j \in at : k <= j)

listRotate(l) ==
    LET tail == l.tail
        last == l.node[tail].prev
    IN IF l.len <= 1 THEN l
       ELSE [l EXCEPT !.tail = last, !.head = tail,
                      !.node = [n \in Nodes(l) |->
                          [value |-> Value(l, n),
                           prev |-> IF n = tail THEN NULL
                                    ELSE IF n = l.head THEN tail ELSE l.node[n].prev,
                           next |-> IF n = tail THEN l.head
                                    ELSE IF n = last THEN NULL ELSE l.node[n].next]]]

\* Every node is reached from the head and from the tail, in opposite orders,
\* and len counts them: what every caller of the list relies on.
Linked(l) ==
    LET forth == Listed(l)
        back == From(l, listGetIterator(l, FALSE), FALSE)
    IN /\ l.len = Cardinality(Nodes(l))
       /\ l.len = 0 => l.head = NULL /\ l.tail = NULL
       /\ Len(forth) = l.len /\ Len(back) = l.len
       /\ \A k \in 1..l.len : back[k] = forth[l.len + 1 - k]
=============================================================================
