------------------------------ MODULE JsonValue ------------------------------
(***************************************************************************)
(* A JSON value of MbedJSONValue used as an object or an array: a table of *)
(* names and children with NB_TOKEN places, children on the heap.  Its     *)
(* owner may take it for an object, for an array, or for both in turn.     *)
(***************************************************************************)
EXTENDS Naturals, Sequences, FiniteSets

CONSTANTS
    NB_TOKEN,       \* places of an object, and of an array
    JsonKeys,       \* member names
    JsonData,       \* what is assigned to a child
    MaxNews         \* bound: children created

ASSUME JsonAssumption == NB_TOKEN \in Nat \ {0} /\ MaxNews \in Nat

VARIABLES
    type,           \* _type: "null", "array" or "object"
    token_name, token, \* names and children of the members, in step
    array,          \* children of the array
    heap,           \* the children alive: [address -> what was assigned]
    news,           \* children created so far
    given,          \* what the owner assigned to each member since clean
    mixed, full     \* it was both object and array; a member found no place

table == <<type, token_name, token, array>>
jsonVars == <<table, heap, news, given, mixed, full>>

Updated(f, k, x) == [a \in DOMAIN f \cup {k} |-> IF a = k THEN x ELSE f[a]]
Without(f, s) == [a \in DOMAIN f \ s |-> f[a]]
InTable(s) == {s[i] : i \in 1..Len(s)}

JsonInit ==
    /\ type = "null" /\ token_name = <<>> /\ token = <<>> /\ array = <<>>
    /\ heap = <<>> /\ news = 0
    /\ given = <<>> /\ mixed = FALSE /\ full = FALSE

\* A new child, with what is assigned to it.
NewChild(x) ==
    /\ news < MaxNews /\ news' = news + 1
    /\ heap' = Updated(heap, news', x)

Assign(child, x) == heap' = [heap EXCEPT ![child] = x] /\ UNCHANGED news

\* Where a new member goes; in a full table it takes the place of the last.
Place == IF Len(token) >= NB_TOKEN THEN NB_TOKEN ELSE Len(token) + 1

\* operator[](std::string), and an assignment to what it returns.
SetMember(k, x) ==
    /\ type' = "object"
    /\ IF \E i \in 1..Len(token) : token_name[i] = k
       THEN /\ \E i \in 1..Len(token) : token_name[i] = k /\ Assign(token[i], x)
            /\ UNCHANGED <<token_name, token, full>>
       ELSE /\ NewChild(x)
            /\ token' = [i \in 1..(IF Place > Len(token) THEN Place ELSE Len(token)) |->
                            IF i = Place THEN news' ELSE token[i]]
            /\ token_name' = [i \in 1..Len(token') |-> IF i = Place THEN k ELSE token_name[i]]
            /\ full' = (full \/ Len(token) >= NB_TOKEN)
    /\ given' = Updated(given, k, x)
    /\ mixed' = (mixed \/ type = "array" \/ array # <<>>)
    /\ UNCHANGED array

\* operator[](int), and an assignment to what it returns: an element that
\* exists, the next one, or else a child nobody will ever delete.
SetElement(i, x) ==
    /\ type' = "array"
    /\ IF i <= Len(array) THEN Assign(array[i], x) /\ UNCHANGED <<array, full>>
       ELSE /\ NewChild(x)
            /\ IF i = Len(array) + 1 /\ i <= NB_TOKEN
               THEN array' = Append(array, news') /\ UNCHANGED full
               ELSE full' = TRUE /\ UNCHANGED array
    /\ mixed' = (mixed \/ type = "object" \/ token # <<>>)
    /\ UNCHANGED <<token_name, token, given>>

\* The children of what the value is now.
Owned ==
    CASE type = "array" -> InTable(array)
      [] type = "object" -> InTable(token)
      [] OTHER -> {}

\* Slip: the children are deleted and the index stays.
Clean_slip ==
    /\ heap' = Without(heap, Owned)
    /\ type' = "null" /\ given' = <<>>
    /\ UNCHANGED <<token_name, token, array, news, mixed, full>>

\* clean, before every assignment to the value and when it is destroyed.
Clean ==
    /\ heap' = Without(heap, Owned)
    /\ array' = IF type = "array" THEN <<>> ELSE array
    /\ IF type = "object" THEN token' = <<>> /\ token_name' = <<>>
       ELSE UNCHANGED <<token, token_name>>
    /\ type' = "null" /\ given' = <<>>
    /\ UNCHANGED <<news, mixed, full>>

JsonNext ==
    \/ \E x \in JsonData : \/ \E k \in JsonKeys : SetMember(k, x)
                           \/ \E i \in 1..(NB_TOKEN + 1) : SetElement(i, x)
    \/ Clean

JsonSpec == JsonInit /\ [][JsonNext]_jsonVars

-----------------------------------------------------------------------------
(* Properties *)

\* No member or element is a child that was deleted, also of a value that is
\* taken for an object and an array in turn, and no place is used beyond the
\* last.
NoDanglingChild ==
    /\ InTable(token) \cup InTable(array) \subseteq DOMAIN heap
    /\ Len(token) <= NB_TOKEN /\ Len(array) <= NB_TOKEN

\* While its members found a place and it was only an object, hasMember and
\* operator[] find exactly what was assigned since the last clean.
ReadsWhatWasGiven ==
    ~mixed /\ ~full =>
        /\ InTable(token_name) = DOMAIN given /\ Len(token_name) = Cardinality(DOMAIN given)
        /\ \A i \in 1..Len(token) : heap[token[i]] = given[token_name[i]]

\* Such a value keeps no child alive that it does not hold; one that was full
\* or changed its kind leaks.
NothingLeaks ==
    ~mixed /\ ~full => DOMAIN heap = InTable(token) \cup InTable(array)

\* What clean and the assignments keep of the children, together.
ChildrenOwned == NoDanglingChild /\ ReadsWhatWasGiven /\ NothingLeaks
=============================================================================
