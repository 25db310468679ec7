----------------------------- MODULE Validation -----------------------------
(***************************************************************************)
(* cfgx: one walk over a configuration (walkValidate).  The configuration  *)
(* is a graph of values with Validators: a value lies on the heap, in a    *)
(* field of another (perhaps the first, which has its address) or in a map *)
(* of another, and may point to a value that is not inside a map.  The     *)
(* order of a value's fields is left open.  Every value is wrong at first; *)
(* its Validator mends it or reports it.                                   *)
(***************************************************************************)
EXTENDS Integers, Sequences, FiniteSets, SequencesExt

CONSTANTS Size, None

Nodes == 1 .. Size

VARIABLES
  place,       \* of every value: [kind, of] with kind "heap", "first", "field" or "entry"
  ptr,         \* of every value: where its pointer points, or None
  fix,         \* Validators mend
  stack,       \* calls of walkValidate, the innermost last
  visited,     \* addresses of pointers followed
  freed,       \* a copy of a map's entry is garbage, and its address may be used again
  wrong,       \* values that are wrong
  reported,    \* history: values with an error in the answer
  validated,   \* history: values whose Validator was called
  premature,   \* history: it was called before those of the values it holds
  aliased      \* history: an address was taken for that of another value

vars == <<place, ptr, fix, stack, visited, freed, wrong, reported, validated, premature, aliased>>

Holder(n)  == place[n].of
\* The values that move with a copy of n.
Inside[n \in Nodes] ==
  {n} \cup UNION {Inside[c] : c \in {m \in Nodes : m > n /\ place[m].kind \in {"first", "field"}
                                                  /\ Holder(m) = n}}
Addr[n \in Nodes] == IF place[n].kind = "first" THEN Addr[Holder(n)] ELSE n
InMap == UNION {Inside[n] : n \in {m \in Nodes : place[m].kind = "entry"}}

Edges(n) == {<<place[c].kind, c>> : c \in {m \in Nodes : place[m].kind # "heap" /\ Holder(m) = n}}
            \cup (IF ptr[n] = None THEN {} ELSE {<<"ptr", ptr[n]>>})
Held(n) == {e[2] : e \in Edges(n)}
Reach[k \in 0 .. Size] == IF k = 0 THEN {1} ELSE Reach[k - 1] \cup UNION {Held(n) : n \in Reach[k - 1]}

Places(n) == {[kind |-> "heap", of |-> None]}
             \cup [kind : {"first", "field", "entry"}, of : 1 .. n - 1]

Frame(n, e) == [node |-> n, todo |-> Edges(n), entry |-> e, stored |-> wrong \cap Inside[n]]

TypeOK ==
  /\ fix \in BOOLEAN /\ freed \in BOOLEAN
  /\ visited \subseteq Nodes /\ wrong \subseteq Nodes
  /\ \A i \in DOMAIN stack : stack[i].node \in Nodes /\ stack[i].todo \subseteq Edges(stack[i].node)

\* runValidator on dst, which leads to every value.
Init ==
  /\ place \in {p \in [Nodes -> Places(Size)] :
                  /\ \A n \in Nodes : p[n] \in Places(n)
                  /\ \A n, m \in Nodes : p[n].kind = "first" /\ p[m] = p[n] => n = m}
  /\ ptr \in [Nodes -> Nodes \cup {None}]
  /\ {ptr[n] : n \in Nodes} \cap InMap = {}
  /\ Reach[Size] = Nodes
  /\ fix \in BOOLEAN
  /\ visited = {1} /\ freed = FALSE
  /\ wrong = Nodes /\ reported = {} /\ validated = {} /\ premature = {} /\ aliased = FALSE
  /\ stack = <<[node |-> 1, todo |-> Edges(1), entry |-> FALSE, stored |-> Inside[1]]>>

-----------------------------------------------------------------------------
Top == stack[Len(stack)]

\* The call at the top goes on without edge e; callees are the calls it makes for it.
Walk(e, callees) ==
  stack' = Append(Front(stack), [Top EXCEPT !.todo = @ \ {e}]) \o callees

\* Values whose call has begun.
Begun == validated \cup {stack[i].node : i \in DOMAIN stack}

Graph == UNCHANGED <<place, ptr, fix>>
Calls == UNCHANGED <<wrong, reported, validated, premature>>

OnceAnAddress(e) == IF Addr[e[2]] \in visited THEN <<>> ELSE <<Frame(e[2], FALSE)>>   \* mutant

\* A value in place is walked whether or not a pointer came to its address before.
InPlace(e) == <<Frame(e[2], FALSE)>>

\* walkStructFields, walkIndexed.
Field(e) ==
  /\ e[1] \in {"first", "field"}
  /\ Walk(e, InPlace(e))
  /\ Graph /\ Calls /\ UNCHANGED <<visited, freed, aliased>>

\* derefValidate. An address may be that of another value, whose first field this is or
\* that is its first field.
Pointer(e) ==
  /\ e[1] = "ptr"
  /\ IF Addr[e[2]] \in visited THEN Walk(e, <<>>) ELSE Walk(e, <<Frame(e[2], FALSE)>>)
  /\ visited' = visited \cup {Addr[e[2]]}
  /\ aliased' = (aliased \/ \E m \in visited : Addr[e[2]] = m /\ e[2] \notin Begun)
  /\ Graph /\ Calls /\ UNCHANGED freed

\* walkMapValue: a copy, followed by its pointer; the address of an earlier copy that
\* was collected may be in visited.
Entry(e) ==
  /\ e[1] = "entry"
  /\ \/ Walk(e, <<Frame(e[2], TRUE)>>) /\ UNCHANGED aliased
     \/ freed /\ Walk(e, <<>>) /\ aliased' = TRUE
  /\ Graph /\ Calls /\ UNCHANGED <<visited, freed>>

NeverStores == FALSE                                                       \* mutant

\* SetMapIndex.
WritesBack == fix

\* The end of walkValidate: callValidator; walkMapValue stores the copy if it is to mend.
Return ==
  /\ stack # <<>> /\ Top.todo = {}
  /\ \E mends \in {FALSE, fix} :
       LET now == IF mends THEN wrong \ {Top.node} ELSE wrong
       IN /\ wrong' = IF Top.entry /\ ~WritesBack
                      THEN (now \ Inside[Top.node]) \cup Top.stored ELSE now
          /\ reported' = reported \cup (now \cap {Top.node})
  /\ validated' = validated \cup {Top.node}
  /\ premature' = IF Held(Top.node) \subseteq Begun THEN premature ELSE premature \cup {Top.node}
  /\ freed' = (freed \/ Top.entry)
  /\ stack' = Front(stack)
  /\ Graph /\ UNCHANGED <<visited, aliased>>

Next ==
  \/ stack # <<>> /\ \E e \in Top.todo : Field(e) \/ Pointer(e) \/ Entry(e)
  \/ Return
  \/ stack = <<>> /\ UNCHANGED vars

-----------------------------------------------------------------------------
\* Unless an address was taken for another's, a walk calls every Validator there is to
\* reach, after those of the values it holds (but for a cycle), and whatever is still
\* wrong where it is stored is in the answer: nothing is mended in a copy only
\* (walkValidate, derefValidate, walkMapValue, callValidator).
WalkComplete ==
  ~aliased =>
    /\ premature = {}
    /\ stack = <<>> => validated = Nodes /\ wrong \subseteq reported
=============================================================================
