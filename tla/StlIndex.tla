------------------------------ MODULE StlIndex ------------------------------
(***************************************************************************)
(* The two indexes kept in containers of the standard library              *)
(* (storage/index/stl_ordered.h, stl_unordered.h) over GenericKey and      *)
(* GenericComparator, given the same calls, and an iterator over the       *)
(* ordered one.                                                            *)
(*                                                                         *)
(* The three operations hold the index's mutex from end to end; the        *)
(* iterator takes none.  Its steps fall between operations here, as when   *)
(* a scan and its changes share a thread; inside one they would race.      *)
(* Indexed columns hold no NULL, which compares as equal to every value    *)
(* and so gives the containers no order to rely on.                        *)
(***************************************************************************)
EXTENDS Integers, Sequences

CONSTANTS
    Rows,        \* rows of the indexed table: sequences of integers
    KeyAttrs,    \* the indexed columns, in key order
    KeySize,     \* columns a GenericKey has room for
    Rids,
    Buckets,     \* buckets of the hash table
    MaxCalls     \* bound on the calls

ASSUME IndexAssumption ==
    /\ KeySize \in Nat /\ MaxCalls \in Nat
    /\ KeyAttrs \in Seq(Nat) /\ Len(KeyAttrs) <= KeySize
    /\ \A row \in Rows, i \in DOMAIN KeyAttrs : row[KeyAttrs[i]] \in Int

VARIABLES
    ordered,     \* data_ of STLOrderedIndex: function from keys to rids
    unordered,   \* data_ of STLUnorderedIndex
    calls,       \* history: the calls made
    iter,        \* the iterator: Iterator(at, key)
    visited,     \* history: the keys the iterator stood on
    stayed       \* history: keys to be visited, present since the iterator was made

indexVars == <<ordered, unordered, calls, iter, visited, stayed>>

\* at is "none", "on" the key, past the "end", or on an "erased" element
Iterator(at, key) == [at |-> at, key |-> key]

IndexInit ==
    /\ ordered = <<>> /\ unordered = <<>> /\ calls = <<>>
    /\ iter = Iterator("none", <<>>) /\ visited = <<>> /\ stayed = {}

\* the key tuple of a row, in the schema CopySchema makes of the indexed columns
KeyFromTuple(row) == [i \in DOMAIN KeyAttrs |-> row[KeyAttrs[i]]]

\* GenericKey::SetFromKey: the tuple's bytes, then zeroes
SetFromKey(tuple) == [i \in 1..KeySize |-> IF i <= Len(tuple) THEN tuple[i] ELSE 0]

IndexKey(row) == SetFromKey(KeyFromTuple(row))

(* Mutant: the comparator looks at the first column only. *)
Compare_FirstColumn(l, r) == IF l[1] < r[1] THEN -1 ELSE IF l[1] > r[1] THEN 1 ELSE 0

\* GenericComparator: the first column of the key schema that differs decides
Compare(l, r) ==
    LET differ == {i \in DOMAIN KeyAttrs : l[i] # r[i]}
        i == CHOOSE i \in differ : \A j \in differ : i <= j
    IN IF differ = {} THEN 0 ELSE IF l[i] < r[i] THEN -1 ELSE 1

Less(l, r) == Compare(l, r) < 0
Equal(l, r) == Compare(l, r) = 0
HashOf(key) ==
    LET h[i \in 0..KeySize] == IF i = 0 THEN 0 ELSE (3 * h[i - 1] + key[i]) % Buckets
    IN h[KeySize]

\* std::map finds by order, std::unordered_map by bucket and equality
FindOrdered(key) == {k \in DOMAIN ordered : ~Less(k, key) /\ ~Less(key, k)}
FindUnordered(key) == {k \in DOMAIN unordered : HashOf(k) = HashOf(key) /\ Equal(k, key)}

Erase(data, keys) == [k \in DOMAIN data \ keys |-> data[k]]
With(data, key, rid) == [k \in DOMAIN data \cup {key} |-> IF k = key THEN rid ELSE data[k]]

InsertEntry(row, rid) ==
    /\ ordered' = IF FindOrdered(IndexKey(row)) = {} THEN With(ordered, IndexKey(row), rid) ELSE ordered
    /\ unordered' = IF FindUnordered(IndexKey(row)) = {} THEN With(unordered, IndexKey(row), rid)
                    ELSE unordered
    /\ UNCHANGED <<iter, stayed>>

(* The rid is not looked at.  Erasing the element under the iterator leaves *)
(* it dangling.                                                             *)
DeleteEntry(row) ==
    \E gone \in {FindOrdered(IndexKey(row))} :
        /\ ordered' = Erase(ordered, gone)
        /\ unordered' = Erase(unordered, FindUnordered(IndexKey(row)))
        /\ iter' = IF iter.key \in gone THEN Iterator("erased", <<>>) ELSE iter
        /\ stayed' = stayed \ gone

\* the rids ScanKey returns
ScanOrdered(row) == {ordered[k] : k \in FindOrdered(IndexKey(row))}
ScanUnordered(row) == {unordered[k] : k \in FindUnordered(IndexKey(row))}

Call(op, row, rids) ==
    /\ Len(calls) < MaxCalls
    /\ calls' = Append(calls, [op |-> op, key |-> KeyFromTuple(row), rids |-> rids])
    /\ UNCHANGED visited

\* the iterator goes to the least of keys in the map's order, past the end if there is none
StandOn(keys) ==
    \/ /\ keys = {}
       /\ iter' = Iterator("end", <<>>) /\ UNCHANGED visited
    \/ \E k \in keys :
         /\ \A l \in keys \ {k} : Less(k, l)
         /\ iter' = Iterator("on", k) /\ visited' = Append(visited, k)

(* GetBeginIterator(), and GetBeginIterator(key) with its lower_bound *)
GetBeginIterator(keys) ==
    /\ iter.at = "none" /\ stayed' = keys
    /\ StandOn(keys)
    /\ UNCHANGED <<ordered, unordered, calls>>

(* operator++ *)
Advance ==
    /\ iter.at = "on"
    /\ StandOn({k \in DOMAIN ordered : Less(iter.key, k)})
    /\ UNCHANGED <<ordered, unordered, calls, stayed>>

IndexNext ==
    \/ \E row \in Rows, rid \in Rids : Call("insert", row, {rid}) /\ InsertEntry(row, rid)
    \/ \E row \in Rows : Call("delete", row, {}) /\ DeleteEntry(row)
    \/ GetBeginIterator(DOMAIN ordered)
    \/ \E row \in Rows : GetBeginIterator({k \in DOMAIN ordered : ~Less(k, IndexKey(row))})
    \/ Advance

IndexSpec == IndexInit /\ [][IndexNext]_indexVars

-----------------------------------------------------------------------------
\* what a lookup of the row should give: the first insert since the last delete
Is(i, op, row) == calls[i].op = op /\ calls[i].key = KeyFromTuple(row)
FirstSinceDelete(row) ==
    {i \in DOMAIN calls :
       /\ Is(i, "insert", row) /\ \A j \in DOMAIN calls : j > i => ~Is(j, "delete", row)
       /\ \A j \in DOMAIN calls : j < i /\ Is(j, "insert", row) =>
            \E d \in DOMAIN calls : j < d /\ d < i /\ Is(d, "delete", row)}
Expected(row) == UNION {calls[i].rids : i \in FirstSinceDelete(row)}

\* lexicographic order of keys
KeyBefore(k, l) == \E i \in DOMAIN k : k[i] < l[i] /\ \A j \in 1..i - 1 : k[j] = l[j]

(* LookupsExact: whatever the calls so far, both indexes answer every lookup *)
(* with the rid of the first insert of that key since its last delete.       *)
LookupsExact == \A row \in Rows : ScanOrdered(row) = Expected(row) /\ ScanUnordered(row) = Expected(row)

(* IterationComplete: an iterator whose element was not erased stands on     *)
(* ever larger keys, and at the end it has stood on every key that was there *)
(* from when it was made, whatever was inserted or deleted meanwhile.        *)
IterationComplete ==
    /\ \A i, j \in DOMAIN visited : i < j => KeyBefore(visited[i], visited[j])
    /\ iter.at = "end" => stayed \subseteq {visited[i] : i \in DOMAIN visited}

(* IndexesExact: both standard-library indexes answer every lookup with the  *)
(* first insert of the key since its last delete, and an iterator over the   *)
(* ordered one misses no key that stayed.                                    *)
IndexesExact == LookupsExact /\ IterationComplete
=============================================================================
