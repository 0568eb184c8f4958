--------------------------- MODULE StorageProofs ---------------------------
(***************************************************************************)
(* Proofs about what a table is stored in: StlIndex, the indexes kept in   *)
(* standard-library containers, for any rows and calls; TablePage, for     *)
(* every page layout and every set of small tuple lengths; VersionLinks,   *)
(* the versions of a page's tuples, for any threads, slots and versions.   *)
(***************************************************************************)
EXTENDS TablePage, StlIndex, WellFoundedInduction, TLAPS

(* Leaves go to the SMT solver unless they name another prover. *)
USE SMTT(30)

-----------------------------------------------------------------------------
(***************************************************************************)
(* The two standard-library indexes.  Both maps always hold the same       *)
(* entries, those of the inserts since the last delete of their key: the   *)
(* comparator of generic keys is a strict total order that tells keys      *)
(* apart, so neither map ever confuses two keys.  The iterator has seen,   *)
(* or has still before it, every key that stayed.                          *)
(***************************************************************************)

(* A nonempty set of naturals has a least element. *)
LEMMA LeastExists ==
  ASSUME NEW S \in SUBSET Nat, S # {}
  PROVE  \E m \in S : \A n \in S : m <= n
<1>1. PICK m \in S : \A n \in S : ~(<<n, m>> \in OpToRel(<, Nat))
  BY NatLessThanWellFounded, WFMin, Zenon
<1>2. \A n \in S : ~(n < m) BY <1>1, Zenon DEF OpToRel
<1> QED BY <1>2

-----------------------------------------------------------------------------

IndexKeys == {IndexKey(row) : row \in Rows}
Seen == {visited[i] : i \in DOMAIN visited}

(* both maps hold the same, and a key is there when an insert of it was not  *)
(* followed by a delete                                                      *)
MapsAgree ==
    /\ unordered = ordered /\ ordered = [k \in DOMAIN ordered |-> ordered[k]]
    /\ DOMAIN ordered \subseteq IndexKeys
    /\ calls \in Seq([op : {"insert", "delete"}, key : {KeyFromTuple(row) : row \in Rows}, rids : SUBSET Rids])
    /\ \A row \in Rows :
         /\ IndexKey(row) \in DOMAIN ordered =>
              \E i \in DOMAIN calls : /\ FirstSinceDelete(row) = {i}
                                      /\ calls[i].rids = {ordered[IndexKey(row)]}
         /\ IndexKey(row) \notin DOMAIN ordered =>
              \A j \in DOMAIN calls : Is(j, "insert", row) =>
                 \E d \in DOMAIN calls : j < d /\ Is(d, "delete", row)

(* the iterator stands on the last key visited, and the keys still to come   *)
(* are after it                                                              *)
OnItsWay ==
    /\ visited \in Seq(IndexKeys)
    /\ iter.at = "none" => visited = <<>>
    /\ iter.at = "on" =>
         /\ visited # <<>> /\ iter.key = visited[Len(visited)] /\ iter.key \in DOMAIN ordered
         /\ stayed \subseteq DOMAIN ordered
         /\ \A k \in stayed : k \in Seen \/ KeyBefore(iter.key, k)

IndexInv == MapsAgree /\ OnItsWay /\ IterationComplete

-----------------------------------------------------------------------------
(* Keys and their order *)

(* A generic key is KeySize bytes. *)
LEMMA KeyShape ==
  ASSUME NEW k \in IndexKeys
  PROVE  /\ k \in [1..KeySize -> Int] /\ DOMAIN k = 1..KeySize
         /\ \A i \in 1..KeySize : ~(i <= Len(KeyAttrs)) => k[i] = 0
         /\ \A i \in DOMAIN KeyAttrs : i \in 1..KeySize
<1>1. PICK row \in Rows : k = IndexKey(row) BY Zenon DEF IndexKeys
<1> DEFINE n == Len(KeyAttrs)
           tuple == KeyFromTuple(row)
<1>2. n \in Nat /\ DOMAIN KeyAttrs = 1..n /\ n <= KeySize /\ KeySize \in Nat BY IndexAssumption
<1>3. \A i \in 1..n : row[KeyAttrs[i]] \in Int BY <1>2, IndexAssumption, Zenon
<1>4. tuple = [i \in 1..n |-> row[KeyAttrs[i]]] BY <1>2, Zenon DEF KeyFromTuple
<1>5. Len(tuple) = n BY <1>2, <1>4
<1>6. k = [i \in 1..KeySize |-> IF i <= n THEN tuple[i] ELSE 0]
  BY <1>1, <1>5, Zenon DEF IndexKey, SetFromKey
<1>7. \A i \in 1..KeySize : k[i] \in Int /\ (~(i <= n) => k[i] = 0)
  <2>1. \A i \in 1..KeySize : i <= n => i \in 1..n BY <1>2
  <2>2. \A i \in 1..n : tuple[i] \in Int BY Zenon, <1>3, <1>4
  <2> QED BY <1>6, <2>1, <2>2
<1>8. k = [i \in 1..KeySize |-> k[i]] BY <1>6, Zenon
<1>9. \A i \in DOMAIN KeyAttrs : i \in 1..KeySize BY <1>2
<1> QED BY Zenon, <1>6, <1>7, <1>8, <1>9

(* Rows have the same index key exactly when they agree in the indexed       *)
(* columns.                                                                  *)
LEMMA KeysTell ==
  ASSUME NEW r \in Rows, NEW q \in Rows
  PROVE  IndexKey(r) = IndexKey(q) <=> KeyFromTuple(r) = KeyFromTuple(q)
<1> DEFINE n == Len(KeyAttrs)
           x == KeyFromTuple(r)
           y == KeyFromTuple(q)
<1>1. n \in Nat /\ DOMAIN KeyAttrs = 1..n /\ n <= KeySize /\ KeySize \in Nat BY IndexAssumption
<1>2. /\ x = [i \in 1..n |-> r[KeyAttrs[i]]] /\ y = [i \in 1..n |-> q[KeyAttrs[i]]]
  BY <1>1, Zenon DEF KeyFromTuple
<1>3. Len(x) = n /\ Len(y) = n BY <1>1, <1>2
<1>4. ASSUME IndexKey(r) = IndexKey(q) PROVE x = y
  <2>1. \A i \in 1..n : i \in 1..KeySize /\ i <= n BY <1>1
  <2>2. \A i \in 1..n : IndexKey(r)[i] = x[i] /\ IndexKey(q)[i] = y[i]
    BY Zenon, <1>3, <2>1 DEF IndexKey, SetFromKey
  <2>3. \A i \in 1..n : x[i] = y[i] BY <1>4, <2>2, Zenon
  <2> QED BY Zenon, <1>2, <2>3
<1>5. ASSUME x = y PROVE IndexKey(r) = IndexKey(q) BY <1>5, Zenon DEF IndexKey
<1> QED BY <1>4, <1>5, Zenon

(* The comparator tells keys apart and orders them lexicographically. *)
LEMMA CompareIs ==
  ASSUME NEW k \in IndexKeys, NEW l \in IndexKeys
  PROVE  /\ Compare(k, l) = 0 <=> k = l
         /\ Less(k, l) <=> KeyBefore(k, l)
         /\ k # l => Less(k, l) \/ Less(l, k)
<1> DEFINE n == Len(KeyAttrs)
           differ == {i \in DOMAIN KeyAttrs : k[i] # l[i]}
           back == {i \in DOMAIN KeyAttrs : l[i] # k[i]}
           least(S) == CHOOSE i \in S : \A j \in S : i <= j
<1>1. n \in Nat /\ DOMAIN KeyAttrs = 1..n /\ n <= KeySize /\ KeySize \in Nat BY IndexAssumption
<1>2. /\ k \in [1..KeySize -> Int] /\ \A i \in 1..KeySize : ~(i <= n) => k[i] = 0
      /\ l \in [1..KeySize -> Int] /\ \A i \in 1..KeySize : ~(i <= n) => l[i] = 0
      /\ DOMAIN k = 1..KeySize
  BY KeyShape, Zenon
<1>3. CASE differ = {}
  <2>1. ASSUME NEW i \in 1..KeySize PROVE k[i] = l[i]
    <3>1. i <= n => i \in DOMAIN KeyAttrs BY <1>1
    <3> QED BY <1>2, <1>3, <3>1, Zenon
  <2>2. k = l
    <3>1. k = [i \in 1..KeySize |-> k[i]] /\ l = [i \in 1..KeySize |-> l[i]] BY <1>2, Zenon
    <3>2. [i \in 1..KeySize |-> k[i]] = [i \in 1..KeySize |-> l[i]] BY <2>1, Zenon
    <3> QED BY <3>1, <3>2, Zenon
  <2>3. Compare(k, l) = 0 BY Zenon, <1>3 DEF Compare
  <2>4. ~Less(k, l) BY <2>3 DEF Less
  <2>5. ~KeyBefore(k, l) BY <1>2, <2>1 DEF KeyBefore
  <2> QED BY Zenon, <2>2, <2>3, <2>4, <2>5
<1>4. CASE differ # {}
  <2>1. differ \in SUBSET Nat BY <1>1
  <2>2. \E i \in differ : \A j \in differ : i <= j BY <1>4, <2>1, LeastExists, Zenon
  <2>3. PICK i \in differ : i = least(differ) /\ \A j \in differ : i <= j BY <2>2, Zenon
  <2>4. i \in 1..n /\ i \in 1..KeySize /\ i \in Nat /\ k[i] # l[i] /\ k[i] \in Int /\ l[i] \in Int
    BY <1>1, <1>2, <2>3
  <2>5. \A j \in 1..i - 1 : k[j] = l[j] BY <1>1, <2>3, <2>4
  <2>6. back = differ BY Zenon
  <2>7. Compare(k, l) = IF k[i] < l[i] THEN -1 ELSE 1 BY Zenon, <1>4, <2>3 DEF Compare
  <2>8. Compare(l, k) = IF l[i] < k[i] THEN -1 ELSE 1 BY Zenon, <1>4, <2>3, <2>6 DEF Compare
  <2>9. Less(k, l) <=> k[i] < l[i] BY <2>7 DEF Less
  <2>10. Less(l, k) <=> l[i] < k[i] BY <2>8 DEF Less
  <2>11. k[i] < l[i] => KeyBefore(k, l) BY Zenon, <1>2, <2>4, <2>5 DEF KeyBefore
  <2>12. ASSUME KeyBefore(k, l) PROVE k[i] < l[i]
    <3>1. PICK m \in 1..KeySize : k[m] < l[m] /\ \A j \in 1..m - 1 : k[j] = l[j]
      BY Zenon, <1>2, <2>12 DEF KeyBefore
    <3>2. m \in Nat /\ k[m] \in Int /\ l[m] \in Int /\ k[m] # l[m] BY <1>1, <1>2, <3>1
    <3>3. m \in differ BY <1>1, <1>2, <3>1, <3>2
    <3>4. i <= m BY <2>3, <3>3, Zenon
    <3>5. i = m BY <2>4, <3>1, <3>2, <3>4
    <3> QED BY <3>1, <3>5, Zenon
  <2>13. Compare(k, l) # 0 /\ k # l BY <2>4, <2>7
  <2>14. Less(k, l) \/ Less(l, k) BY <2>4, <2>9, <2>10
  <2> QED BY <2>9, <2>11, <2>12, <2>13, <2>14, Zenon
<1> QED BY <1>3, <1>4, Zenon

(* The comparator is transitive. *)
LEMMA BeforeTransitive ==
  ASSUME NEW k \in IndexKeys, NEW l \in IndexKeys, NEW m \in IndexKeys,
         KeyBefore(k, l), KeyBefore(l, m)
  PROVE  KeyBefore(k, m)
<1>1. /\ k \in [1..KeySize -> Int] /\ l \in [1..KeySize -> Int] /\ m \in [1..KeySize -> Int]
      /\ DOMAIN k = 1..KeySize /\ DOMAIN l = 1..KeySize
  BY KeyShape, Zenon
<1>2. PICK a \in 1..KeySize : k[a] < l[a] /\ \A j \in 1..a - 1 : k[j] = l[j] BY <1>1, Zenon DEF KeyBefore
<1>3. PICK b \in 1..KeySize : l[b] < m[b] /\ \A j \in 1..b - 1 : l[j] = m[j] BY <1>1, Zenon DEF KeyBefore
<1>4. KeySize \in Nat BY Zenon, IndexAssumption
<1>5. CASE a <= b
  <2>1. k[a] < m[a]
    <3>1. k[a] \in Int /\ l[a] \in Int /\ m[a] \in Int BY <1>1, Zenon
    <3>2. a = b \/ a \in 1..b - 1 BY <1>4, <1>5
    <3> QED BY <1>2, <1>3, <3>1, <3>2
  <2>2. \A j \in 1..a - 1 : k[j] = m[j] BY <1>2, <1>3, <1>4, <1>5
  <2> QED BY <1>1, <2>1, <2>2, Zenon DEF KeyBefore
<1>6. CASE ~(a <= b)
  <2>1. k[b] < m[b]
    <3>1. b \in 1..a - 1 BY <1>4, <1>6
    <3> QED BY <1>2, <1>3, <3>1, Zenon
  <2>2. \A j \in 1..b - 1 : k[j] = m[j] BY <1>2, <1>3, <1>4, <1>6
  <2> QED BY <1>1, <2>1, <2>2, Zenon DEF KeyBefore
<1> QED BY <1>5, <1>6, Zenon

(* Both maps find a key exactly when they hold it. *)
LEMMA Finds ==
  ASSUME MapsAgree, NEW row \in Rows
  PROVE  /\ FindOrdered(IndexKey(row)) = DOMAIN ordered \cap {IndexKey(row)}
         /\ FindUnordered(IndexKey(row)) = DOMAIN ordered \cap {IndexKey(row)}
<1> DEFINE key == IndexKey(row)
<1>1. key \in IndexKeys BY Zenon DEF IndexKeys
<1>2. ASSUME NEW k \in DOMAIN ordered
      PROVE  /\ ~Less(k, key) /\ ~Less(key, k) <=> k = key
             /\ HashOf(k) = HashOf(key) /\ Equal(k, key) <=> k = key
  <2>1. k \in IndexKeys BY Zenon DEF MapsAgree
  <2>2. /\ Compare(k, key) = 0 <=> k = key
        /\ Compare(key, k) = 0 <=> key = k
        /\ k # key => Less(k, key) \/ Less(key, k)
    BY <1>1, <2>1, CompareIs, Zenon
  <2>3. k = key => ~Less(k, key) /\ ~Less(key, k) BY <2>2 DEF Less
  <2>4. k = key => HashOf(k) = HashOf(key) BY Zenon
  <2> QED BY <2>2, <2>3, <2>4, Zenon DEF Equal
<1>3. FindOrdered(key) = DOMAIN ordered \cap {key} BY <1>2, Zenon DEF FindOrdered
<1>4. FindUnordered(key) = DOMAIN ordered \cap {key} BY <1>2, Zenon DEF FindUnordered, MapsAgree
<1> QED BY <1>3, <1>4, Zenon

(* A call on row adds one call; the earlier ones stay. *)
CallRecords == [op : {"insert", "delete"}, key : {KeyFromTuple(row) : row \in Rows}, rids : SUBSET Rids]

CallAdded(n, op, row, rids) ==
    /\ calls' \in Seq(CallRecords) /\ n \in Nat /\ DOMAIN calls = 1..Len(calls)
    /\ DOMAIN calls' = DOMAIN calls \cup {n} /\ n \notin DOMAIN calls
    /\ calls'[n].rids = rids /\ visited' = visited
    /\ \A i \in DOMAIN calls : calls'[i] = calls[i] /\ i \in Nat /\ i < n
    /\ \A q \in Rows, o \in {"insert", "delete"} : Is(n, o, q)' <=> o = op /\ IndexKey(q) = IndexKey(row)
    /\ \A q \in Rows : \A o : \A i \in DOMAIN calls : Is(i, o, q)' <=> Is(i, o, q)

(* A call extends the history of calls by one. *)
LEMMA CallAdds ==
  ASSUME calls \in Seq(CallRecords), NEW op \in {"insert", "delete"}, NEW row \in Rows,
         NEW rids \in SUBSET Rids, Call(op, row, rids), NEW n, n = Len(calls) + 1
  PROVE  CallAdded(n, op, row, rids)
<1> DEFINE c == [op |-> op, key |-> KeyFromTuple(row), rids |-> rids]
<1>1. calls' = Append(calls, c) /\ visited' = visited BY Zenon DEF Call
<1>2. c \in CallRecords /\ c.op = op /\ c.key = KeyFromTuple(row) /\ c.rids = rids BY Zenon DEF CallRecords
<1>3. /\ calls' \in Seq(CallRecords) /\ n \in Nat /\ DOMAIN calls = 1..Len(calls)
      /\ DOMAIN calls' = DOMAIN calls \cup {n} /\ n \notin DOMAIN calls /\ calls'[n] = c
      /\ \A i \in DOMAIN calls : calls'[i] = calls[i] /\ i \in Nat /\ i < n
  <2> HIDE DEF c
  <2> QED BY <1>1, <1>2
<1>4. \A q \in Rows, o \in {"insert", "delete"} :
        (calls'[n].op = o /\ calls'[n].key = KeyFromTuple(q)) <=> o = op /\ IndexKey(q) = IndexKey(row)
  BY <1>2, <1>3, KeysTell, Zenon
<1>5. \A q \in Rows : \A o : \A i \in DOMAIN calls : Is(i, o, q)' <=> Is(i, o, q) BY <1>3, Zenon DEF Is
<1>6. \A q \in Rows, o \in {"insert", "delete"} : Is(n, o, q)' <=> o = op /\ IndexKey(q) = IndexKey(row)
  BY <1>4, Zenon DEF Is
<1> QED BY <1>1, <1>2, <1>3, <1>5, <1>6, Zenon DEF CallAdded

(* the part of MapsAgree that is about the calls on one row *)
Told(row) ==
    /\ IndexKey(row) \in DOMAIN ordered =>
         \E i \in DOMAIN calls : /\ FirstSinceDelete(row) = {i}
                                 /\ calls[i].rids = {ordered[IndexKey(row)]}
    /\ IndexKey(row) \notin DOMAIN ordered =>
         \A j \in DOMAIN calls : Is(j, "insert", row) =>
            \E d \in DOMAIN calls : j < d /\ Is(d, "delete", row)

(* A call on another key does not touch what is told of this one. *)
LEMMA OtherKeysTold ==
  ASSUME MapsAgree, NEW row \in Rows, NEW op \in {"insert", "delete"}, NEW rids \in SUBSET Rids,
         Call(op, row, rids), NEW q \in Rows, IndexKey(q) # IndexKey(row),
         IndexKey(q) \in DOMAIN ordered' <=> IndexKey(q) \in DOMAIN ordered,
         IndexKey(q) \in DOMAIN ordered => ordered'[IndexKey(q)] = ordered[IndexKey(q)]
  PROVE  Told(q)'
<1>1. PICK n : n = Len(calls) + 1 BY Zenon
<1>2. calls \in Seq(CallRecords) /\ Told(q) BY Zenon DEF MapsAgree, CallRecords, Told
<1>3. /\ n \in Nat /\ DOMAIN calls' = DOMAIN calls \cup {n} /\ n \notin DOMAIN calls
      /\ \A i \in DOMAIN calls : calls'[i] = calls[i] /\ i \in Nat /\ i < n
      /\ ~Is(n, "insert", q)' /\ ~Is(n, "delete", q)'
      /\ \A o : \A i \in DOMAIN calls : Is(i, o, q)' <=> Is(i, o, q)
  <2>1. CallAdded(n, op, row, rids) BY <1>1, <1>2, CallAdds, Zenon
  <2>2. "insert" \in {"insert", "delete"} /\ "delete" \in {"insert", "delete"} BY Zenon
  <2> QED BY <2>1, <2>2, Zenon DEF CallAdded
<1>4. ASSUME NEW i PROVE i \in FirstSinceDelete(q)' <=> i \in FirstSinceDelete(q)
  BY <1>3, Zenon DEF FirstSinceDelete
<1>5. FirstSinceDelete(q)' = FirstSinceDelete(q) BY <1>4, Zenon
<1>6. ASSUME IndexKey(q) \in DOMAIN ordered
      PROVE  \E i \in DOMAIN calls' : /\ FirstSinceDelete(q)' = {i}
                                      /\ calls'[i].rids = {ordered'[IndexKey(q)]}
  <2>1. PICK i \in DOMAIN calls : FirstSinceDelete(q) = {i} /\ calls[i].rids = {ordered[IndexKey(q)]}
    BY <1>2, <1>6, Zenon DEF Told
  <2> QED BY <1>3, <1>5, <1>6, <2>1, Zenon
<1>7. ASSUME IndexKey(q) \notin DOMAIN ordered, NEW j \in DOMAIN calls', Is(j, "insert", q)'
      PROVE  \E d \in DOMAIN calls' : j < d /\ Is(d, "delete", q)'
  <2>1. j \in DOMAIN calls /\ Is(j, "insert", q) BY <1>3, <1>7, Zenon
  <2>2. PICK d \in DOMAIN calls : j < d /\ Is(d, "delete", q) BY <1>2, <1>7, <2>1, Zenon DEF Told
  <2> QED BY <1>3, <2>2, Zenon
<1> QED BY <1>6, <1>7, Zenon DEF Told

(* InsertEntry keeps both maps and the iterator right. *)
LEMMA InsertEntryKeeps ==
  ASSUME MapsAgree, NEW row \in Rows, NEW rid \in Rids, Call("insert", row, {rid}), InsertEntry(row, rid)
  PROVE  /\ MapsAgree' /\ iter' = iter /\ stayed' = stayed /\ visited' = visited
         /\ DOMAIN ordered \subseteq DOMAIN ordered'
<1> DEFINE key == IndexKey(row)
<1>1. PICK n : n = Len(calls) + 1 BY Zenon
<1>2. /\ calls \in Seq(CallRecords) /\ \A q \in Rows : Told(q)
      /\ unordered = ordered /\ ordered = [k \in DOMAIN ordered |-> ordered[k]]
      /\ DOMAIN ordered \subseteq IndexKeys /\ key \in IndexKeys
  BY Zenon DEF MapsAgree, CallRecords, Told, IndexKeys
<1>3. "insert" \in {"insert", "delete"} /\ "delete" \in {"insert", "delete"} /\ "insert" # "delete"
      /\ {rid} \in SUBSET Rids
  BY Zenon
<1>4. /\ calls' \in Seq(CallRecords) /\ n \in Nat /\ DOMAIN calls' = DOMAIN calls \cup {n}
      /\ n \notin DOMAIN calls /\ calls'[n].rids = {rid} /\ visited' = visited
      /\ \A i \in DOMAIN calls : calls'[i] = calls[i] /\ i \in Nat /\ i < n
      /\ \A q \in Rows : ~Is(n, "delete", q)' /\ (Is(n, "insert", q)' <=> IndexKey(q) = key)
      /\ \A q \in Rows : \A o : \A i \in DOMAIN calls : Is(i, o, q)' <=> Is(i, o, q)
  <2>1. CallAdded(n, "insert", row, {rid}) BY <1>1, <1>2, <1>3, CallAdds, Zenon
  <2> QED BY <1>3, <2>1, Zenon DEF CallAdded
<1>5. /\ FindOrdered(key) = DOMAIN ordered \cap {key} /\ FindUnordered(key) = DOMAIN ordered \cap {key}
  BY Finds, Zenon
<1>6. /\ iter' = iter /\ stayed' = stayed
      /\ ordered' = IF key \in DOMAIN ordered THEN ordered ELSE With(ordered, key, rid)
      /\ unordered' = ordered'
  BY <1>2, <1>5, Zenon DEF InsertEntry
<1>7. /\ DOMAIN ordered' = DOMAIN ordered \cup {key} /\ ordered' = [k \in DOMAIN ordered' |-> ordered'[k]]
      /\ \A k \in DOMAIN ordered : ordered'[k] = ordered[k]
      /\ key \notin DOMAIN ordered => ordered'[key] = rid
  <2>1. CASE key \in DOMAIN ordered BY <1>2, <1>6, <2>1, Zenon
  <2>2. CASE key \notin DOMAIN ordered
    <3>1. ordered' = [k \in DOMAIN ordered \cup {key} |-> IF k = key THEN rid ELSE ordered[k]]
      BY <1>6, <2>2, Zenon DEF With
    <3>2. DOMAIN ordered' = DOMAIN ordered \cup {key} BY <3>1, Zenon
    <3>3. \A k \in DOMAIN ordered' : ordered'[k] = IF k = key THEN rid ELSE ordered[k] BY <3>1, Zenon
    <3>4. ordered' = [k \in DOMAIN ordered' |-> ordered'[k]] BY <3>1, Zenon
    <3> QED BY <2>2, <3>2, <3>3, <3>4, Zenon
  <2> QED BY <2>1, <2>2, Zenon
<1>8. ASSUME NEW q \in Rows, IndexKey(q) = key PROVE Told(q)'
  <2>1. IndexKey(q) \in DOMAIN ordered' /\ Is(n, "insert", q)' /\ ~Is(n, "delete", q)' /\ Told(q)
        /\ \A o : \A i \in DOMAIN calls : Is(i, o, q)' <=> Is(i, o, q)
    BY <1>2, <1>4, <1>7, <1>8, Zenon
  <2>2. CASE key \in DOMAIN ordered
    <3>1. PICK i \in DOMAIN calls : FirstSinceDelete(q) = {i} /\ calls[i].rids = {ordered[key]}
      BY <1>8, <2>1, <2>2, Zenon DEF Told
    <3>2. /\ i \in Nat /\ Is(i, "insert", q) /\ i < n
          /\ \A j \in DOMAIN calls : j > i => ~Is(j, "delete", q)
      BY <1>4, <3>1, Zenon DEF FirstSinceDelete
    <3>3. n \notin FirstSinceDelete(q)'
      <4>1. ASSUME NEW d \in DOMAIN calls', i < d, d < n, Is(d, "delete", q)' PROVE FALSE
        <5>1. d \in DOMAIN calls /\ Is(d, "delete", q) BY <1>4, <2>1, <4>1, Zenon
        <5>2. d > i BY Zenon, <1>4, <3>2, <4>1, <5>1
        <5> QED BY <3>2, <5>1, <5>2, Zenon
      <4>2. i \in DOMAIN calls' /\ Is(i, "insert", q)' BY <1>4, <2>1, <3>2, Zenon
      <4> QED BY <3>2, <4>1, <4>2, Zenon DEF FirstSinceDelete
    <3>4. ASSUME NEW j \in DOMAIN calls PROVE j \in FirstSinceDelete(q)' <=> j \in FirstSinceDelete(q)
      <4>1. ~(n < j) /\ j < n BY <1>4
      <4>2. \A x \in DOMAIN calls : x < j => ~(n < x) BY <1>4
      <4> QED BY <1>4, <2>1, <4>1, <4>2, Zenon DEF FirstSinceDelete
    <3>5. FirstSinceDelete(q)' \subseteq DOMAIN calls' BY Zenon DEF FirstSinceDelete
    <3>6. ASSUME NEW j PROVE j \in FirstSinceDelete(q)' <=> j = i
      <4>1. CASE j \in DOMAIN calls BY <3>1, <3>4, <4>1, Zenon
      <4>2. CASE j \notin DOMAIN calls
        <5>1. j \notin FirstSinceDelete(q)' BY <1>4, <3>3, <3>5, <4>2, Zenon
        <5> QED BY <4>2, <5>1, Zenon
      <4> QED BY <4>1, <4>2, Zenon
    <3>7. FirstSinceDelete(q)' = {i} BY <3>6, Zenon
    <3> QED BY <1>4, <1>7, <1>8, <2>1, <2>2, <3>1, <3>7, Zenon DEF Told
  <2>3. CASE key \notin DOMAIN ordered
    <3>1. \A j \in DOMAIN calls : Is(j, "insert", q) =>
             \E d \in DOMAIN calls : j < d /\ Is(d, "delete", q)
      BY <1>8, <2>1, <2>3, Zenon DEF Told
    <3>2. n \in FirstSinceDelete(q)'
      <4>1. \A j \in DOMAIN calls' : j > n => FALSE BY <1>4
      <4>2. ~(n < n) BY <1>4
      <4>3. ASSUME NEW j \in DOMAIN calls', j < n, Is(j, "insert", q)'
            PROVE  \E d \in DOMAIN calls' : j < d /\ d < n /\ Is(d, "delete", q)'
        <5>1. j \in DOMAIN calls /\ Is(j, "insert", q) BY <1>4, <2>1, <4>2, <4>3, Zenon
        <5>2. PICK d \in DOMAIN calls : j < d /\ Is(d, "delete", q) BY <3>1, <5>1, Zenon
        <5> QED BY <1>4, <2>1, <5>2, Zenon
      <4> QED BY <1>4, <2>1, <4>1, <4>3, Zenon DEF FirstSinceDelete
    <3>3. ASSUME NEW j \in DOMAIN calls PROVE j \notin FirstSinceDelete(q)'
      <4>1. SUFFICES ASSUME Is(j, "insert", q)' PROVE \E d \in DOMAIN calls' : d > j /\ Is(d, "delete", q)'
        BY Zenon DEF FirstSinceDelete
      <4>2. PICK d \in DOMAIN calls : j < d /\ Is(d, "delete", q) BY <2>1, <3>1, <4>1, Zenon
      <4>3. d > j BY Zenon, <1>4, <4>2
      <4> QED BY <1>4, <2>1, <4>2, <4>3, Zenon
    <3>4. FirstSinceDelete(q)' \subseteq DOMAIN calls' BY Zenon DEF FirstSinceDelete
    <3>5. FirstSinceDelete(q)' = {n} BY <1>4, <3>2, <3>3, <3>4, Zenon
    <3> QED BY <1>4, <1>7, <1>8, <2>1, <2>3, <3>5, Zenon DEF Told
  <2> QED BY <2>2, <2>3, Zenon
<1>9. ASSUME NEW q \in Rows, IndexKey(q) # key PROVE Told(q)'
  <2>1. IndexKey(q) \in DOMAIN ordered' <=> IndexKey(q) \in DOMAIN ordered BY <1>7, <1>9, Zenon
  <2>2. IndexKey(q) \in DOMAIN ordered => ordered'[IndexKey(q)] = ordered[IndexKey(q)] BY <1>7, Zenon
  <2> QED BY <1>3, <1>9, <2>1, <2>2, OtherKeysTold, Zenon
<1>10. \A q \in Rows : Told(q)' BY <1>8, <1>9, Zenon
<1>11. MapsAgree' BY <1>2, <1>4, <1>6, <1>7, <1>10, Zenon DEF MapsAgree, CallRecords, Told
<1> QED BY <1>4, <1>6, <1>7, <1>11, Zenon

(* DeleteEntry keeps both maps and the iterator right. *)
LEMMA DeleteEntryKeeps ==
  ASSUME MapsAgree, NEW row \in Rows, Call("delete", row, {}), DeleteEntry(row)
  PROVE  /\ MapsAgree' /\ visited' = visited
         /\ DOMAIN ordered' = DOMAIN ordered \ {IndexKey(row)}
         /\ stayed' = stayed \ (DOMAIN ordered \cap {IndexKey(row)})
         /\ \/ iter' = Iterator("erased", <<>>)
            \/ iter' = iter /\ iter.key \notin DOMAIN ordered \cap {IndexKey(row)}
<1> DEFINE key == IndexKey(row)
<1>1. PICK n : n = Len(calls) + 1 BY Zenon
<1>2. /\ calls \in Seq(CallRecords) /\ unordered = ordered /\ DOMAIN ordered \subseteq IndexKeys
  BY Zenon DEF MapsAgree, CallRecords
<1>3. "insert" \in {"insert", "delete"} /\ "delete" \in {"insert", "delete"} /\ "insert" # "delete"
      /\ {} \in SUBSET Rids
  BY Zenon
<1>4. CallAdded(n, "delete", row, {}) BY <1>1, <1>2, <1>3, CallAdds, Zenon
<1>5. /\ FindOrdered(key) = DOMAIN ordered \cap {key} /\ FindUnordered(key) = DOMAIN ordered \cap {key}
  BY Finds, Zenon
<1>6. /\ ordered' = Erase(ordered, DOMAIN ordered \cap {key}) /\ unordered' = ordered'
      /\ stayed' = stayed \ (DOMAIN ordered \cap {key})
      /\ \/ iter' = Iterator("erased", <<>>)
         \/ iter' = iter /\ iter.key \notin DOMAIN ordered \cap {key}
  BY <1>2, <1>5, Zenon DEF DeleteEntry
<1>7. /\ DOMAIN ordered' = DOMAIN ordered \ {key} /\ ordered' = [k \in DOMAIN ordered' |-> ordered'[k]]
      /\ \A k \in DOMAIN ordered' : ordered'[k] = ordered[k]
  <2>1. DOMAIN ordered \ (DOMAIN ordered \cap {key}) = DOMAIN ordered \ {key} BY Zenon
  <2>2. ordered' = [k \in DOMAIN ordered \ {key} |-> ordered[k]] BY <1>6, <2>1, Zenon DEF Erase
  <2>3. DOMAIN ordered' = DOMAIN ordered \ {key} BY <2>2, Zenon
  <2>4. \A k \in DOMAIN ordered' : ordered'[k] = ordered[k] BY <2>2, Zenon
  <2>5. ordered' = [k \in DOMAIN ordered' |-> ordered'[k]] BY <2>2, Zenon
  <2> QED BY <2>3, <2>4, <2>5, Zenon
<1>8. ASSUME NEW q \in Rows, IndexKey(q) = key PROVE Told(q)'
  <2>1. /\ IndexKey(q) \notin DOMAIN ordered' /\ n \in DOMAIN calls'
        /\ DOMAIN calls' = DOMAIN calls \cup {n} /\ \A i \in DOMAIN calls : i < n
        /\ Is(n, "delete", q)' /\ ~Is(n, "insert", q)'
    BY <1>3, <1>4, <1>7, <1>8, Zenon DEF CallAdded
  <2>2. ASSUME NEW j \in DOMAIN calls', Is(j, "insert", q)'
        PROVE  \E d \in DOMAIN calls' : j < d /\ Is(d, "delete", q)'
    <3>1. j \in DOMAIN calls BY <2>1, <2>2, Zenon
    <3> QED BY <2>1, <3>1, Zenon
  <2> QED BY <2>1, <2>2, Zenon DEF Told
<1>9. ASSUME NEW q \in Rows, IndexKey(q) # key PROVE Told(q)'
  <2>1. IndexKey(q) \in DOMAIN ordered' <=> IndexKey(q) \in DOMAIN ordered BY <1>7, <1>9, Zenon
  <2>2. IndexKey(q) \in DOMAIN ordered => ordered'[IndexKey(q)] = ordered[IndexKey(q)]
    BY <1>7, <2>1, Zenon
  <2> QED BY <1>3, <1>9, <2>1, <2>2, OtherKeysTold, Zenon
<1>10. \A q \in Rows : Told(q)' BY <1>8, <1>9, Zenon
<1>11. calls' \in Seq(CallRecords) /\ visited' = visited BY <1>4, Zenon DEF CallAdded
<1>12. MapsAgree' BY <1>2, <1>6, <1>7, <1>10, <1>11, Zenon DEF MapsAgree, CallRecords, Told
<1> QED BY <1>6, <1>7, <1>11, <1>12, Zenon

-----------------------------------------------------------------------------
(* The iterator *)

(* What a call leaves of the iterator's part, when it takes away at most one *)
(* key, and the iterator if it stands there.                                 *)
LEMMA CallsKeepIterator ==
  ASSUME OnItsWay, IterationComplete, visited' = visited, NEW gone,
         DOMAIN ordered \ gone \subseteq DOMAIN ordered', stayed' = stayed \ gone,
         \/ iter' = Iterator("erased", <<>>) 
         \/ iter' = iter /\ iter.key \notin gone
  PROVE  OnItsWay' /\ IterationComplete'
<1>1. iter' = Iterator("erased", <<>>) => iter'.at # "on" /\ iter'.at # "none" /\ iter'.at # "end"
  BY DEF Iterator
<1>2. iter'.at = "on" \/ iter'.at = "none" \/ iter'.at = "end" => iter' = iter /\ iter.key \notin gone
  BY <1>1, Zenon
<1>3. OnItsWay'
  <2>1. visited' \in Seq(IndexKeys) BY Zenon DEF OnItsWay
  <2>2. iter'.at = "none" => visited' = <<>> BY <1>2, Zenon DEF OnItsWay
  <2>3. ASSUME iter'.at = "on"
        PROVE  /\ visited' # <<>> /\ iter'.key = visited'[Len(visited')] /\ iter'.key \in DOMAIN ordered'
               /\ stayed' \subseteq DOMAIN ordered'
               /\ \A k \in stayed' : k \in Seen' \/ KeyBefore(iter'.key, k)
    <3>1. iter' = iter /\ iter.key \notin gone /\ iter.at = "on" BY <1>2, <2>3, Zenon
    <3>2. /\ visited # <<>> /\ iter.key = visited[Len(visited)] /\ iter.key \in DOMAIN ordered
          /\ stayed \subseteq DOMAIN ordered
          /\ \A k \in stayed : k \in Seen \/ KeyBefore(iter.key, k)
      BY <3>1, Zenon DEF OnItsWay
    <3>3. Seen' = Seen BY Zenon DEF Seen
    <3>4. visited' # <<>> /\ iter'.key = visited'[Len(visited')] BY <3>1, <3>2, Zenon
    <3>5. iter'.key \in DOMAIN ordered' /\ stayed' \subseteq DOMAIN ordered' BY <3>1, <3>2, Zenon
    <3>6. \A k \in stayed' : k \in Seen' \/ KeyBefore(iter'.key, k) BY <3>1, <3>2, <3>3, Zenon
    <3> QED BY <3>4, <3>5, <3>6, Zenon
  <2> QED BY <2>1, <2>2, <2>3, Zenon DEF OnItsWay
<1>4. IterationComplete'
  <2>1. \A i, j \in DOMAIN visited' : i < j => KeyBefore(visited'[i], visited'[j])
    BY Zenon DEF IterationComplete
  <2>2. iter'.at = "end" => stayed' \subseteq {visited'[i] : i \in DOMAIN visited'}
    BY <1>2, Zenon DEF IterationComplete
  <2> QED BY <2>1, <2>2, Zenon DEF IterationComplete
<1> QED BY <1>3, <1>4, Zenon

(* What the iterator has ahead of it, as the map grows or stays. *)
LEMMA IteratorStands ==
  ASSUME DOMAIN ordered \subseteq IndexKeys, visited \in Seq(IndexKeys), NEW keys \in SUBSET DOMAIN ordered,
         StandOn(keys), ordered' = ordered, stayed' \subseteq DOMAIN ordered, stayed' \subseteq Seen \cup keys,
         \A i, j \in DOMAIN visited : i < j => KeyBefore(visited[i], visited[j]),
         \A i \in DOMAIN visited : \A k \in keys : KeyBefore(visited[i], k)
  PROVE  OnItsWay' /\ IterationComplete'
<1>1. CASE keys = {} /\ iter' = Iterator("end", <<>>) /\ visited' = visited
  <2>1. iter'.at = "end" BY Zenon, <1>1 DEF Iterator
  <2>2. iter'.at # "on" /\ iter'.at # "none" BY Zenon, <2>1
  <2>3. OnItsWay' BY <1>1, <2>2, Zenon DEF OnItsWay
  <2>4. stayed' \subseteq {visited'[i] : i \in DOMAIN visited'} BY <1>1, Zenon DEF Seen
  <2>5. \A i, j \in DOMAIN visited' : i < j => KeyBefore(visited'[i], visited'[j]) BY <1>1, Zenon
  <2> QED BY <2>3, <2>4, <2>5, Zenon DEF IterationComplete
<1>2. ASSUME NEW k \in keys, \A l \in keys \ {k} : Less(k, l), iter' = Iterator("on", k),
             visited' = Append(visited, k)
      PROVE  OnItsWay' /\ IterationComplete'
  <2>1. iter'.at = "on" /\ iter'.key = k BY Zenon, <1>2 DEF Iterator
  <2>2. iter'.at # "end" /\ iter'.at # "none" BY Zenon, <2>1
  <2>3. k \in IndexKeys /\ k \in DOMAIN ordered' BY <1>2, Zenon
  <2>4. PICK n : n = Len(visited) + 1 BY Zenon
  <2>5. /\ visited' \in Seq(IndexKeys) /\ visited' # <<>> /\ visited'[Len(visited')] = k
        /\ n \in DOMAIN visited' /\ visited'[n] = k /\ n \in Nat
        /\ DOMAIN visited' = DOMAIN visited \cup {n}
        /\ \A i \in DOMAIN visited : visited'[i] = visited[i] /\ i \in Nat /\ i < n
    BY <1>2, <2>3, <2>4
  <2>6. ASSUME NEW l \in stayed' PROVE l \in Seen' \/ KeyBefore(k, l)
    <3>1. CASE l \in Seen
      <4>1. PICK i \in DOMAIN visited : l = visited[i] BY <3>1, Zenon DEF Seen
      <4>2. i \in DOMAIN visited' /\ visited'[i] = l BY <2>5, <4>1, Zenon
      <4> QED BY <4>2, Zenon DEF Seen
    <3>2. CASE l = k BY <2>5, <3>2, Zenon DEF Seen
    <3>3. CASE l \in keys \ {k}
      <4>1. Less(k, l) /\ l \in IndexKeys BY <1>2, <3>3, Zenon
      <4> QED BY <2>3, <4>1, CompareIs, Zenon
    <3> QED BY <3>1, <3>2, <3>3, Zenon
  <2>7. OnItsWay' BY <2>1, <2>2, <2>3, <2>5, <2>6, Zenon DEF OnItsWay
  <2>8. ASSUME NEW i \in DOMAIN visited', NEW j \in DOMAIN visited', i < j
        PROVE  KeyBefore(visited'[i], visited'[j])
    <3>1. i \in DOMAIN visited BY <2>5, <2>8
    <3>2. CASE j = n BY <1>2, <2>5, <3>1, <3>2, Zenon
    <3>3. CASE j \in DOMAIN visited BY <2>5, <2>8, <3>1, <3>3, Zenon
    <3> QED BY <2>5, <3>2, <3>3, Zenon
  <2>9. IterationComplete' BY <2>2, <2>8, Zenon DEF IterationComplete
  <2> QED BY <2>7, <2>9, Zenon
<1> QED BY <1>1, <1>2, Zenon DEF StandOn

(* A begin iterator has every key of its range ahead of it. *)
LEMMA BeginKeeps ==
  ASSUME IndexInv, NEW keys \in SUBSET DOMAIN ordered, GetBeginIterator(keys)
  PROVE  OnItsWay' /\ IterationComplete'
<1>1. visited = <<>> BY Zenon DEF IndexInv, OnItsWay, GetBeginIterator
<1>2. visited \in Seq(IndexKeys) /\ DOMAIN ordered \subseteq IndexKeys
  BY Zenon DEF IndexInv, OnItsWay, MapsAgree
<1>3. DOMAIN visited = {} BY <1>1
<1>4. StandOn(keys) /\ ordered' = ordered /\ stayed' = keys BY Zenon DEF GetBeginIterator
<1>5. stayed' \subseteq DOMAIN ordered /\ stayed' \subseteq Seen \cup keys BY <1>4, Zenon
<1>6. /\ \A i, j \in DOMAIN visited : i < j => KeyBefore(visited[i], visited[j])
      /\ \A i \in DOMAIN visited : \A k \in keys : KeyBefore(visited[i], k)
  BY <1>3, Zenon
<1> QED BY <1>2, <1>4, <1>5, <1>6, IteratorStands, Zenon

(* operator++ passes exactly the key it stood on. *)
LEMMA AdvanceKeeps ==
  ASSUME IndexInv, Advance
  PROVE  OnItsWay' /\ IterationComplete'
<1>1. PICK keys : keys = {k \in DOMAIN ordered : Less(iter.key, k)} BY Zenon
<1>2. /\ visited \in Seq(IndexKeys) /\ DOMAIN ordered \subseteq IndexKeys
      /\ \A i, j \in DOMAIN visited : i < j => KeyBefore(visited[i], visited[j])
      /\ visited # <<>> /\ iter.key = visited[Len(visited)] /\ iter.key \in DOMAIN ordered
      /\ stayed \subseteq DOMAIN ordered
      /\ \A k \in stayed : k \in Seen \/ KeyBefore(iter.key, k)
  BY Zenon DEF IndexInv, OnItsWay, MapsAgree, IterationComplete, Advance
<1>3. StandOn(keys) /\ ordered' = ordered /\ stayed' = stayed BY <1>1, Zenon DEF Advance
<1>4. ASSUME NEW k \in DOMAIN ordered PROVE k \in keys <=> KeyBefore(iter.key, k)
  <2>1. k \in IndexKeys /\ iter.key \in IndexKeys BY <1>2, Zenon
  <2>2. Less(iter.key, k) <=> KeyBefore(iter.key, k) BY <2>1, CompareIs, Zenon
  <2> QED BY <1>1, <2>2, Zenon
<1>5. keys \in SUBSET DOMAIN ordered BY <1>1, Zenon
<1>6. stayed' \subseteq Seen \cup keys BY <1>2, <1>3, <1>4, Zenon
<1>7. ASSUME NEW i \in DOMAIN visited, NEW k \in keys PROVE KeyBefore(visited[i], k)
  <2>1. /\ Len(visited) \in DOMAIN visited /\ visited[i] \in IndexKeys
        /\ i = Len(visited) \/ i < Len(visited)
    BY <1>2
  <2>2. KeyBefore(visited[Len(visited)], k) BY <1>2, <1>4, <1>5, Zenon
  <2>3. CASE i = Len(visited) BY <2>2, <2>3, Zenon
  <2>4. CASE i < Len(visited)
    <3>1. KeyBefore(visited[i], iter.key) BY <1>2, <2>1, <2>4, Zenon
    <3>2. KeyBefore(iter.key, k) BY <1>2, <2>2, Zenon
    <3>3. iter.key \in IndexKeys /\ k \in IndexKeys BY <1>2, <1>5, Zenon
    <3> QED BY <2>1, <3>1, <3>2, <3>3, BeforeTransitive, Zenon
  <2> QED BY <2>1, <2>3, <2>4, Zenon
<1>8. stayed' \subseteq DOMAIN ordered BY <1>2, <1>3, Zenon
<1> QED BY <1>2, <1>3, <1>5, <1>6, <1>7, <1>8, IteratorStands, Zenon

(* What MapsAgree says stays when the maps and the calls do. *)
LEMMA MapsStay ==
  ASSUME MapsAgree, UNCHANGED <<ordered, unordered, calls>>
  PROVE  MapsAgree'
<1>1. ordered' = ordered /\ unordered' = unordered /\ calls' = calls BY Zenon
<1>2. \A row \in Rows : \A i, op : Is(i, op, row)' <=> Is(i, op, row) BY <1>1, Zenon DEF Is
<1>3. ASSUME NEW row \in Rows PROVE FirstSinceDelete(row)' = FirstSinceDelete(row)
  <2>1. ASSUME NEW i PROVE i \in FirstSinceDelete(row)' <=> i \in FirstSinceDelete(row)
    BY <1>1, <1>2, Zenon DEF FirstSinceDelete
  <2> QED BY <2>1, Zenon
<1>4. ASSUME NEW q \in Rows PROVE Told(q)'
  <2>1. Told(q) BY Zenon DEF MapsAgree, Told
  <2> QED BY <1>1, <1>2, <1>3, <2>1, Zenon DEF Told
<1> QED BY <1>1, <1>4, Zenon DEF MapsAgree, Told

-----------------------------------------------------------------------------

(* Every call keeps the invariant. *)
LEMMA IndexInductive == ASSUME IndexInv, [IndexNext]_indexVars PROVE IndexInv'
<1>1. MapsAgree /\ OnItsWay /\ IterationComplete BY Zenon DEF IndexInv
<1>2. ASSUME NEW row \in Rows, NEW rid \in Rids, Call("insert", row, {rid}), InsertEntry(row, rid)
      PROVE  IndexInv'
  <2>1. /\ MapsAgree' /\ iter' = iter /\ stayed' = stayed /\ visited' = visited
        /\ DOMAIN ordered \subseteq DOMAIN ordered'
    BY <1>1, <1>2, InsertEntryKeeps, Zenon
  <2>2. DOMAIN ordered \ {} \subseteq DOMAIN ordered' /\ stayed' = stayed \ {} BY <2>1, Zenon
  <2>3. iter' = iter /\ iter.key \notin {} BY <2>1, Zenon
  <2> QED BY <1>1, <2>1, <2>2, <2>3, CallsKeepIterator, Zenon DEF IndexInv
<1>3. ASSUME NEW row \in Rows, Call("delete", row, {}), DeleteEntry(row) PROVE IndexInv'
  <2>1. PICK gone : gone = DOMAIN ordered \cap {IndexKey(row)} BY Zenon
  <2>2. /\ MapsAgree' /\ visited' = visited /\ DOMAIN ordered' = DOMAIN ordered \ {IndexKey(row)}
        /\ stayed' = stayed \ gone
        /\ \/ iter' = Iterator("erased", <<>>)
           \/ iter' = iter /\ iter.key \notin gone
    <3>1. /\ MapsAgree' /\ visited' = visited /\ DOMAIN ordered' = DOMAIN ordered \ {IndexKey(row)}
          /\ stayed' = stayed \ (DOMAIN ordered \cap {IndexKey(row)})
          /\ \/ iter' = Iterator("erased", <<>>)
             \/ iter' = iter /\ iter.key \notin DOMAIN ordered \cap {IndexKey(row)}
      BY <1>1, <1>3, DeleteEntryKeeps, Zenon
    <3> QED BY <2>1, <3>1, Zenon
  <2>3. DOMAIN ordered \ gone \subseteq DOMAIN ordered' BY <2>1, <2>2, Zenon
  <2> QED BY <1>1, <2>2, <2>3, CallsKeepIterator, Zenon DEF IndexInv
<1>4. ASSUME NEW keys \in SUBSET DOMAIN ordered, GetBeginIterator(keys) PROVE IndexInv'
  <2>1. UNCHANGED <<ordered, unordered, calls>> BY <1>4, Zenon DEF GetBeginIterator
  <2> QED BY <1>1, <1>4, <2>1, MapsStay, BeginKeeps, Zenon DEF IndexInv
<1>5. CASE Advance
  <2>1. UNCHANGED <<ordered, unordered, calls>> BY <1>5, Zenon DEF Advance
  <2> QED BY <1>1, <1>5, <2>1, MapsStay, AdvanceKeeps, Zenon DEF IndexInv
<1>6. CASE UNCHANGED indexVars
  <2>1. /\ UNCHANGED <<ordered, unordered, calls>> /\ iter' = iter /\ visited' = visited
        /\ stayed' = stayed /\ ordered' = ordered
    BY <1>6, Zenon DEF indexVars
  <2>2. DOMAIN ordered \ {} \subseteq DOMAIN ordered' /\ stayed' = stayed \ {} BY <2>1, Zenon
  <2>3. iter' = iter /\ iter.key \notin {} BY <2>1, Zenon
  <2> QED BY <1>1, <2>1, <2>2, <2>3, MapsStay, CallsKeepIterator, Zenon DEF IndexInv
<1>7. CASE IndexNext
  <2>1. DOMAIN ordered \in SUBSET DOMAIN ordered BY Zenon
  <2>2. \A row \in Rows : {k \in DOMAIN ordered : ~Less(k, IndexKey(row))} \in SUBSET DOMAIN ordered BY Zenon
  <2> QED BY <1>2, <1>3, <1>4, <1>5, <1>7, <2>1, <2>2, Zenon DEF IndexNext
<1> QED BY <1>6, <1>7, Zenon

(* Empty indexes satisfy it. *)
LEMMA IndexStarts == ASSUME IndexInit PROVE IndexInv
<1>1. /\ ordered = <<>> /\ unordered = <<>> /\ calls = <<>> /\ visited = <<>> /\ stayed = {}
      /\ iter = Iterator("none", <<>>)
  BY Zenon DEF IndexInit
<1>2. /\ DOMAIN ordered = {} /\ DOMAIN calls = {} /\ DOMAIN visited = {}
      /\ calls \in Seq(CallRecords) /\ visited \in Seq(IndexKeys) /\ ordered = [k \in DOMAIN ordered |-> ordered[k]]
  BY <1>1
<1>3. iter.at = "none" /\ iter.at # "on" /\ iter.at # "end" BY Zenon, <1>1 DEF Iterator
<1>4. MapsAgree BY <1>1, <1>2, Zenon DEF MapsAgree, CallRecords
<1>5. OnItsWay BY <1>1, <1>2, <1>3, Zenon DEF OnItsWay
<1>6. IterationComplete BY <1>2, <1>3, Zenon DEF IterationComplete
<1> QED BY <1>4, <1>5, <1>6, Zenon DEF IndexInv

(* The invariant gives exact answers to every scan. *)
LEMMA IndexInvAnswers == ASSUME IndexInv PROVE IndexesExact
<1>1. MapsAgree /\ IterationComplete BY Zenon DEF IndexInv
<1>2. ASSUME NEW row \in Rows
      PROVE  ScanOrdered(row) = Expected(row) /\ ScanUnordered(row) = Expected(row)
  <2> DEFINE key == IndexKey(row)
  <2>1. /\ FindOrdered(key) = DOMAIN ordered \cap {key} /\ FindUnordered(key) = DOMAIN ordered \cap {key}
        /\ unordered = ordered /\ Told(row)
    BY <1>1, Finds, Zenon DEF MapsAgree, Told
  <2>2. ScanUnordered(row) = ScanOrdered(row) BY <2>1, Zenon DEF ScanOrdered, ScanUnordered
  <2>3. CASE key \in DOMAIN ordered
    <3>1. PICK i \in DOMAIN calls : FirstSinceDelete(row) = {i} /\ calls[i].rids = {ordered[key]}
      BY <2>1, <2>3, Zenon DEF Told
    <3>2. Expected(row) = {ordered[key]} BY <3>1, Zenon DEF Expected
    <3>3. FindOrdered(key) = {key} BY <2>1, <2>3, Zenon
    <3>4. ScanOrdered(row) = {ordered[key]} BY <3>3, Zenon DEF ScanOrdered
    <3> QED BY <2>2, <3>2, <3>4, Zenon
  <2>4. CASE key \notin DOMAIN ordered
    <3>1. \A j \in DOMAIN calls : Is(j, "insert", row) =>
             \E d \in DOMAIN calls : j < d /\ Is(d, "delete", row)
      BY <2>1, <2>4, Zenon DEF Told
    <3>2. \A j, d \in DOMAIN calls : j < d => d > j
      <4>1. DOMAIN calls = 1..Len(calls) /\ Len(calls) \in Nat BY <1>1 DEF MapsAgree
      <4> QED BY Zenon, <4>1
    <3>3. FirstSinceDelete(row) = {} BY <3>1, <3>2, Zenon DEF FirstSinceDelete
    <3>4. Expected(row) = {} BY <3>3, Zenon DEF Expected
    <3>5. FindOrdered(key) = {} BY <2>1, <2>4, Zenon
    <3>6. ScanOrdered(row) = {} BY <3>5, Zenon DEF ScanOrdered
    <3> QED BY <2>2, <3>4, <3>6, Zenon
  <2> QED BY <2>3, <2>4, Zenon
<1> QED BY <1>1, <1>2, Zenon DEF IndexesExact, LookupsExact

(* Both standard-library indexes answer every lookup with the rid of the     *)
(* first insert of the key since its last delete, for any rows, key columns, *)
(* hash and number of calls, and an iterator over the ordered one, whatever  *)
(* is inserted or deleted meanwhile, misses no key that stayed               *)
(* (stl_ordered.h, stl_unordered.h, generic_key.h).                          *)
THEOREM IndexesAlwaysExact == IndexSpec => []IndexesExact
<1>1. IndexInit => IndexInv BY IndexStarts, Zenon
<1>2. IndexInv /\ [IndexNext]_indexVars => IndexInv' BY IndexInductive, Zenon
<1>3. IndexInv => IndexesExact BY IndexInvAnswers, Zenon
<1> QED BY <1>1, <1>2, <1>3, PTL DEF IndexSpec

-----------------------------------------------------------------------------
(* The table page *)

ByteKinds == Contents \cup {"slot entry", "free"}
Info == [offset : 0..(U16 - 1), size : 1..(U16 - 1), is_deleted : BOOLEAN]

(* The slots of a typed page. *)
LEMMA PageSlots ==
    ASSUME TypeOK
    PROVE  /\ tuple_info_ \in Seq(Info) /\ num_tuples_ \in Nat /\ DOMAIN tuple_info_ = 1..num_tuples_
           /\ \A i \in 1..num_tuples_ : tuple_info_[i] \in Info
  <1>1. tuple_info_ \in Seq(Info) BY Zenon DEF TypeOK, Info
  <1> QED BY <1>1 DEF num_tuples_

(* The slot array grows by one entry per tuple, and with one tuple or more  *)
(* reaches at least past the first entry.                                   *)
LEMMA SlotArray ==
    ASSUME NEW n \in Nat
    PROVE  /\ InfoSize * n \in Nat
           /\ InfoSize * (n + 1) = InfoSize * n + InfoSize
           /\ n > 0 => InfoSize * n >= InfoSize
  <1>1. InfoSize \in Nat BY Zenon, LayoutAssumption
  <1>2. \A a, b \in Nat : a * b \in Nat /\ a * (b + 1) = a * b + a OBVIOUS
  <1>3. ASSUME n > 0 PROVE InfoSize * n >= InfoSize
    <2>1. n - 1 \in Nat /\ n = (n - 1) + 1 BY <1>3
    <2>2. InfoSize * ((n - 1) + 1) = InfoSize * (n - 1) + InfoSize /\ InfoSize * (n - 1) \in Nat
      BY Zenon, <1>1, <1>2, <2>1
    <2>3. InfoSize * n = InfoSize * (n - 1) + InfoSize BY Zenon, <2>1, <2>2
    <2> QED BY <1>1, <2>2, <2>3
  <1> QED BY Zenon, <1>1, <1>2, <1>3

(* A small tuple never underflows the offset: when GetNextTupleOffset says  *)
(* it fits, the offset is the true difference and leaves room for the slot. *)
LEMMA OffsetExact ==
    ASSUME SmallTuples, TypeOK, TuplesInPage, NEW len \in Lengths, GetNextTupleOffset(len).fits
    PROVE  /\ GetNextTupleOffset(len).offset = SlotEndOffset - len
           /\ SlotEndOffset - len \in 0..(U16 - 1)
           /\ HeaderSize + InfoSize * (num_tuples_ + 1) <= SlotEndOffset - len
           /\ SlotEndOffset \in Nat /\ SlotEndOffset <= PageSize
           /\ len \in 1..(U16 - 1)
  <1>1. num_tuples_ \in Nat BY Zenon, PageSlots
  <1>2. len \in 1..(U16 - 1) /\ len <= HeaderSize + InfoSize
    BY Zenon, LayoutAssumption DEF SmallTuples
  <1>3. SlotEndOffset \in Nat /\ SlotEndOffset <= PageSize /\ len <= SlotEndOffset
    <2>1. CASE num_tuples_ = 0
      BY <1>2, <2>1, LayoutAssumption DEF SlotEndOffset
    <2>2. CASE num_tuples_ > 0
      <3>1. num_tuples_ \in 1..num_tuples_ BY <1>1, <2>2
      <3>2. tuple_info_[num_tuples_] \in Info BY Zenon, <3>1, PageSlots
      <3>3. SlotArrayEnd <= tuple_info_[num_tuples_].offset
        BY Zenon, <3>1 DEF TuplesInPage
      <3>4. HeaderSize + InfoSize <= SlotArrayEnd
        BY <1>1, <2>2, SlotArray, LayoutAssumption DEF SlotArrayEnd
      <3>5. SlotArrayEnd \in Nat BY <1>1, SlotArray, LayoutAssumption DEF SlotArrayEnd
      <3>6. tuple_info_[num_tuples_].offset <= PageSize
        BY <3>1, <3>2, LayoutAssumption DEF TuplesInPage, Info
      <3> QED BY <1>2, <2>2, <3>2, <3>3, <3>4, <3>5, <3>6, LayoutAssumption DEF SlotEndOffset, Info
    <2> QED BY <1>1, <2>1, <2>2
  <1>4. TupleOffset(len) = SlotEndOffset - len /\ SlotEndOffset - len \in 0..(U16 - 1)
    BY <1>2, <1>3, LayoutAssumption DEF TupleOffset, Wrap
  <1> QED BY <1>1, <1>2, <1>3, <1>4, SlotArray, LayoutAssumption DEF GetNextTupleOffset, OffsetSize, Wrap

(* A memcpy puts contents or slot entries in the bytes of the page. *)
LEMMA WrittenTyped ==
    ASSUME NEW first, NEW len, NEW what \in ByteKinds, NEW bytes \in [Bytes -> ByteKinds]
    PROVE  Written(first, len, what, bytes) \in [Bytes -> ByteKinds]
  BY Zenon DEF Written

(* InsertTuple keeps the layout: the new tuple ends where the last begins,  *)
(* and the longer slot array still ends below it.                           *)
LEMMA InsertKeeps ==
    ASSUME SmallTuples, TypeOK, TuplesInPage, NEW len \in Lengths,
           NEW contents \in Contents, NEW deleted \in BOOLEAN, InsertTuple(len, contents, deleted)
    PROVE  TypeOK' /\ TuplesInPage'
  <1> DEFINE n == num_tuples_
             t == [offset |-> SlotEndOffset - len, size |-> len, is_deleted |-> deleted]
  <1>1. /\ GetNextTupleOffset(len).fits
        /\ GetNextTupleOffset(len).offset = SlotEndOffset - len
        /\ SlotEndOffset - len \in 0..(U16 - 1)
        /\ HeaderSize + InfoSize * (n + 1) <= SlotEndOffset - len
        /\ SlotEndOffset \in Nat /\ SlotEndOffset <= PageSize
        /\ len \in 1..(U16 - 1)
    BY Zenon, OffsetExact DEF InsertTuple
  <1>2. t \in Info /\ tuple_info_' = Append(tuple_info_, t)
    BY Zenon, <1>1 DEF Info, InsertTuple
  <1>3. tuple_info_ \in Seq(Info) /\ n \in Nat BY Zenon, PageSlots
  <1>4. /\ num_tuples_' = n + 1 /\ tuple_info_'[n + 1] = t
        /\ \A i \in 1..n : tuple_info_'[i] = tuple_info_[i]
    BY <1>2, <1>3 DEF num_tuples_
  <1>5. TypeOK'
    <2>1. tuple_info_' \in Seq(Info) BY <1>2, <1>3
    <2>2. stored' \in Seq(Contents) /\ Len(stored') = num_tuples_'
      <3>1. stored \in Seq(Contents) /\ Len(stored) = n BY Zenon DEF TypeOK
      <3>2. stored' = Append(stored, contents) BY Zenon DEF InsertTuple
      <3> HIDE DEF n
      <3> QED BY <1>4, <3>1, <3>2
    <2>3. page_start_' \in [Bytes -> ByteKinds]
      BY Zenon, WrittenTyped DEF TypeOK, InsertTuple, EntryWritten, ByteKinds
    <2> QED BY Zenon, <2>1, <2>2, <2>3 DEF TypeOK, Info, InsertTuple, ByteKinds
  <1>6. SlotArrayEnd' = HeaderSize + InfoSize * (n + 1) BY Zenon, <1>4 DEF SlotArrayEnd
  <1>7. TuplesInPage'
    <2> SUFFICES ASSUME NEW i \in 1..(n + 1)
                 PROVE  /\ HeaderSize + InfoSize * (n + 1) <= tuple_info_'[i].offset
                        /\ tuple_info_'[i].offset + tuple_info_'[i].size <= PageSize
                        /\ \A j \in 1..(i - 1) : tuple_info_'[i].offset + tuple_info_'[i].size <= tuple_info_'[j].offset
      BY Zenon, <1>4, <1>6 DEF TuplesInPage
    <2> HIDE DEF n
    <2>0. \A j \in 1..n : tuple_info_[j] \in Info BY <1>3 DEF n, num_tuples_
    <2>a. InfoSize * (n + 1) \in Nat /\ HeaderSize \in Nat /\ PageSize \in Nat
      BY <1>3, SlotArray, LayoutAssumption
    <2>b. \A j \in 1..n : /\ SlotEndOffset <= tuple_info_[j].offset
                          /\ tuple_info_[j].offset \in Nat /\ tuple_info_[j].size \in Nat
      <3> SUFFICES ASSUME NEW j \in 1..n
                   PROVE  /\ SlotEndOffset <= tuple_info_[j].offset
                          /\ tuple_info_[j].offset \in Nat /\ tuple_info_[j].size \in Nat
        BY Zenon
      <3>1. tuple_info_[j] \in Info /\ tuple_info_[n] \in Info BY <1>3, <2>0
      <3>2. tuple_info_[j].offset \in Nat /\ tuple_info_[j].size \in Nat
            /\ tuple_info_[n].offset \in Nat /\ tuple_info_[n].size \in Nat
        BY <3>1, LayoutAssumption DEF Info
      <3>3. SlotEndOffset = tuple_info_[n].offset BY <1>3 DEF SlotEndOffset, n
      <3>4. CASE j = n BY <3>2, <3>3, <3>4
      <3>5. CASE j < n
        <4>1. n \in 1..n /\ j \in 1..(n - 1) BY <1>3, <3>5
        <4>2. tuple_info_[n].offset + tuple_info_[n].size <= tuple_info_[j].offset
          BY Zenon, <4>1 DEF TuplesInPage, n
        <4> QED BY <3>2, <3>3, <4>2
      <3> QED BY <1>3, <3>4, <3>5
    <2>1. CASE i = n + 1
      <3>1. tuple_info_'[i] = t BY Zenon, <1>4, <2>1 DEF n
      <3>2. t.offset + t.size = SlotEndOffset /\ t.offset = SlotEndOffset - len BY <1>1
      <3>3. \A j \in 1..n : tuple_info_'[j] = tuple_info_[j] BY Zenon, <1>4 DEF n
      <3>4. \A j \in 1..n : SlotEndOffset <= tuple_info_'[j].offset BY Zenon, <2>b, <3>3
      <3>5. i - 1 = n BY <1>3, <2>1
      <3> HIDE DEF t
      <3> QED BY Zenon, <1>1, <2>a, <3>1, <3>2, <3>4, <3>5 DEF n
    <2>2. CASE i \in 1..n
      <3>1. tuple_info_'[i] = tuple_info_[i] BY Zenon, <1>4, <2>2 DEF n
      <3>2. \A j \in 1..(i - 1) : tuple_info_'[j] = tuple_info_[j] BY <1>3, <1>4, <2>2 DEF n
      <3>3. /\ tuple_info_[i].offset + tuple_info_[i].size <= PageSize
            /\ \A j \in 1..(i - 1) : tuple_info_[i].offset + tuple_info_[i].size <= tuple_info_[j].offset
        BY Zenon, <2>2 DEF TuplesInPage, n
      <3>4. HeaderSize + InfoSize * (n + 1) <= tuple_info_[i].offset
        BY <1>1, <2>2, <2>a, <2>b DEF n
      <3> QED BY Zenon, <3>1, <3>2, <3>3, <3>4
    <2> QED BY <1>3, <2>1, <2>2
  <1> QED BY Zenon, <1>5, <1>7

(* The two updates change no offset and no size, and the counter of deleted *)
(* tuples wraps within its width.                                           *)
LEMMA UpdateKeeps ==
    ASSUME TypeOK, NEW slot \in 1..num_tuples_, NEW deleted \in BOOLEAN, CountDeleted(slot, deleted),
           tuple_info_' = [tuple_info_ EXCEPT ![slot].is_deleted = deleted]
    PROVE  /\ tuple_info_' \in Seq(Info) /\ num_deleted_tuples_' \in 0..(U16 - 1)
           /\ num_tuples_' = num_tuples_
           /\ \A i \in 1..num_tuples_ : /\ tuple_info_'[i].offset = tuple_info_[i].offset
                                        /\ tuple_info_'[i].size = tuple_info_[i].size
  <1>1. /\ tuple_info_ \in Seq(Info) /\ num_tuples_ \in Nat
        /\ DOMAIN tuple_info_ = 1..num_tuples_
        /\ \A i \in 1..num_tuples_ : tuple_info_[i] \in Info
    BY Zenon, PageSlots
  <1>2. [tuple_info_[slot] EXCEPT !.is_deleted = deleted] \in Info BY Zenon, <1>1 DEF Info
  <1>3. tuple_info_' \in Seq(Info) /\ num_tuples_' = num_tuples_
    BY <1>1, <1>2 DEF num_tuples_
  <1>4. \A i \in 1..num_tuples_ : /\ tuple_info_'[i].offset = tuple_info_[i].offset
                                  /\ tuple_info_'[i].size = tuple_info_[i].size
    BY Zenon, <1>1 DEF Info
  <1>5. num_deleted_tuples_' \in 0..(U16 - 1)
    <2>0. num_deleted_tuples_ \in 0..(U16 - 1) BY Zenon DEF TypeOK
    <2>1. num_deleted_tuples_ \in Nat /\ U16 \in Nat /\ U16 > 0 BY <2>0, LayoutAssumption
    <2>2. Wrap(num_deleted_tuples_ + 1, U16) \in 0..(U16 - 1)
      <3>1. \A k, m \in Nat : m > 0 => k % m \in 0..(m - 1) OBVIOUS
      <3>2. num_deleted_tuples_ + 1 \in Nat BY <2>1
      <3> QED BY Zenon, <2>1, <3>1, <3>2 DEF Wrap
    <2> QED BY Zenon, <2>2 DEF CountDeleted, TypeOK
  <1> QED BY Zenon, <1>3, <1>4, <1>5

(* every tuple's bytes hold what was stored in its slot, and the slot array *)
(* only slot entries                                                        *)
TupleBytes(i) == {b \in Bytes : tuple_info_[i].offset <= b /\ b < tuple_info_[i].offset + tuple_info_[i].size}
SlotBytes == {b \in Bytes : HeaderSize <= b /\ b < SlotArrayEnd}

Intact ==
    /\ \A i \in 1..num_tuples_ : \A b \in TupleBytes(i) : page_start_[b] = stored[i]
    /\ \A b \in SlotBytes : page_start_[b] = "slot entry"

(* tuples and slot array are disjoint, and the entries of the array fill it *)
Apart ==
    /\ \A i, j \in 1..num_tuples_ : i # j => TupleBytes(i) \cap TupleBytes(j) = {}
    /\ \A i \in 1..num_tuples_ : TupleBytes(i) \cap SlotBytes = {}
    /\ \A i \in 1..num_tuples_ : \A b \in Bytes :
          /\ HeaderSize + InfoSize * (i - 1) <= b
          /\ b < HeaderSize + InfoSize * (i - 1) + InfoSize
          => b \in SlotBytes

(* A page that is laid out keeps its tuples and its slot array apart.       *)
LEMMA BytesApart == TypeOK /\ TuplesInPage => Apart
  <1> SUFFICES ASSUME TypeOK, TuplesInPage PROVE Apart BY Zenon
  <1>1. /\ num_tuples_ \in Nat /\ PageSize \in Nat /\ HeaderSize \in Nat /\ InfoSize \in Nat
        /\ \A i \in 1..num_tuples_ : tuple_info_[i].offset \in Nat /\ tuple_info_[i].size \in Nat
    <2>1. num_tuples_ \in Nat /\ \A i \in 1..num_tuples_ : tuple_info_[i] \in Info BY Zenon, PageSlots
    <2> QED BY <2>1, LayoutAssumption DEF Info
  <1>2. SlotArrayEnd \in Nat BY <1>1, SlotArray DEF SlotArrayEnd
  <1>3. ASSUME NEW i \in 1..num_tuples_, NEW j \in 1..(i - 1)
        PROVE  TupleBytes(i) \cap TupleBytes(j) = {}
    <2>1. tuple_info_[i].offset + tuple_info_[i].size <= tuple_info_[j].offset BY Zenon, <1>3 DEF TuplesInPage
    <2>2. j \in 1..num_tuples_ BY <1>1, <1>3
    <2> QED BY <1>1, <1>3, <2>1, <2>2 DEF TupleBytes, Bytes
  <1>4. \A i, j \in 1..num_tuples_ : i # j => j \in 1..(i - 1) \/ i \in 1..(j - 1) BY <1>1
  <1>5. \A i, j \in 1..num_tuples_ : i # j => TupleBytes(i) \cap TupleBytes(j) = {} BY Zenon, <1>3, <1>4
  <1>6. ASSUME NEW i \in 1..num_tuples_ PROVE TupleBytes(i) \cap SlotBytes = {}
    <2>1. SlotArrayEnd <= tuple_info_[i].offset BY Zenon, <1>6 DEF TuplesInPage
    <2> QED BY <1>1, <1>2, <1>6, <2>1 DEF TupleBytes, SlotBytes, Bytes
  <1>7. ASSUME NEW i \in 1..num_tuples_, NEW b \in Bytes, HeaderSize + InfoSize * (i - 1) <= b,
               b < HeaderSize + InfoSize * (i - 1) + InfoSize
        PROVE  b \in SlotBytes
    <2>1. i - 1 \in Nat /\ i \in Nat /\ (i - 1) + 1 = i BY <1>1
    <2>2. InfoSize * (i - 1) \in Nat /\ InfoSize * i = InfoSize * (i - 1) + InfoSize BY <2>1, SlotArray
    <2>3. PICK rest \in Nat : num_tuples_ = i + rest
      <3>1. num_tuples_ - i \in Nat /\ num_tuples_ = i + (num_tuples_ - i) BY <1>1
      <3> QED BY Zenon, <3>1
    <2>4. InfoSize * (i + rest) = InfoSize * i + InfoSize * rest /\ InfoSize * rest \in Nat
      <3>1. InfoSize \in Nat BY Zenon, <1>1
      <3> QED BY <2>1, <3>1
    <2>5. InfoSize * num_tuples_ = InfoSize * i + InfoSize * rest BY Zenon, <2>3, <2>4
    <2>6. b \in Nat BY LayoutAssumption DEF Bytes
    <2> QED BY <1>1, <1>7, <2>2, <2>4, <2>5, <2>6 DEF SlotBytes, SlotArrayEnd
  <1> QED BY Zenon, <1>5, <1>6, <1>7 DEF Apart

(* ... after a step too.                                                    *)
LEMMA BytesApartNext == TypeOK' /\ TuplesInPage' => Apart'
  BY BytesApart, PTL

(* Rewriting a slot entry, and then the bytes of that slot's tuple or none, *)
(* leaves every other tuple alone.                                          *)
LEMMA UpdateKeepsBytes ==
    ASSUME TypeOK, TuplesInPage, Intact, NEW slot \in 1..num_tuples_,
           \/ page_start_' = EntryWritten(slot) /\ UNCHANGED stored
           \/ \E contents \in Contents :
                 /\ page_start_' = Written(tuple_info_[slot].offset, tuple_info_[slot].size, contents, EntryWritten(slot))
                 /\ stored' = [stored EXCEPT ![slot] = contents]
    PROVE  /\ page_start_' \in [Bytes -> ByteKinds] /\ stored' \in Seq(Contents)
           /\ Len(stored') = num_tuples_
           /\ \A i \in 1..num_tuples_ : \A b \in TupleBytes(i) : page_start_'[b] = stored'[i]
           /\ \A b \in SlotBytes : page_start_'[b] = "slot entry"
  <1>1. /\ stored \in Seq(Contents) /\ Len(stored) = num_tuples_ /\ page_start_ \in [Bytes -> ByteKinds]
        /\ DOMAIN stored = 1..num_tuples_
    <2>1. stored \in Seq(Contents) /\ Len(stored) = num_tuples_ /\ page_start_ \in [Bytes -> ByteKinds]
      BY Zenon DEF TypeOK, ByteKinds
    <2> QED BY <2>1
  <1>2. EntryWritten(slot) \in [Bytes -> ByteKinds] BY Zenon, <1>1, WrittenTyped DEF EntryWritten, ByteKinds
  <1>3. /\ \A i \in 1..num_tuples_ : \A b \in TupleBytes(i) : EntryWritten(slot)[b] = stored[i]
        /\ \A b \in SlotBytes : EntryWritten(slot)[b] = "slot entry"
    <2>1. \A b \in Bytes : \/ b \in SlotBytes /\ EntryWritten(slot)[b] = "slot entry"
                          \/ EntryWritten(slot)[b] = page_start_[b]
      BY Zenon, BytesApart DEF Apart, EntryWritten, Written
    <2>2. \A i \in 1..num_tuples_ : \A b \in TupleBytes(i) : b \in Bytes /\ b \notin SlotBytes
      BY Zenon, BytesApart DEF Apart, TupleBytes
    <2>3. \A b \in SlotBytes : b \in Bytes BY Zenon DEF SlotBytes
    <2> QED BY Zenon, <2>1, <2>2, <2>3 DEF Intact
  <1>4. CASE page_start_' = EntryWritten(slot) /\ UNCHANGED stored
    BY Zenon, <1>1, <1>2, <1>3, <1>4
  <1>5. ASSUME NEW contents \in Contents, stored' = [stored EXCEPT ![slot] = contents],
               page_start_' = Written(tuple_info_[slot].offset, tuple_info_[slot].size, contents, EntryWritten(slot))
        PROVE  /\ page_start_' \in [Bytes -> ByteKinds] /\ stored' \in Seq(Contents)
               /\ Len(stored') = num_tuples_
               /\ \A i \in 1..num_tuples_ : \A b \in TupleBytes(i) : page_start_'[b] = stored'[i]
               /\ \A b \in SlotBytes : page_start_'[b] = "slot entry"
    <2>1. page_start_' \in [Bytes -> ByteKinds] BY Zenon, <1>2, <1>5, WrittenTyped DEF ByteKinds
    <2>2. stored' \in Seq(Contents) /\ Len(stored') = num_tuples_ BY <1>1, <1>5
    <2>3. \A b \in Bytes : page_start_'[b] = IF b \in TupleBytes(slot) THEN contents ELSE EntryWritten(slot)[b]
      BY Zenon, <1>5 DEF Written, TupleBytes
    <2>4. \A i \in 1..num_tuples_ : stored'[i] = IF i = slot THEN contents ELSE stored[i] BY Zenon, <1>1, <1>5
    <2>5. \A i \in 1..num_tuples_ : \A b \in TupleBytes(i) :
            b \in Bytes /\ b \notin SlotBytes /\ (i # slot => b \notin TupleBytes(slot))
      BY Zenon, BytesApart DEF Apart, TupleBytes
    <2>6. \A b \in SlotBytes : b \in Bytes /\ b \notin TupleBytes(slot) BY Zenon, BytesApart DEF Apart, SlotBytes
    <2>7. ASSUME NEW i \in 1..num_tuples_, NEW b \in TupleBytes(i) PROVE page_start_'[b] = stored'[i]
      <3>1. CASE i = slot BY Zenon, <2>3, <2>4, <2>5, <3>1
      <3>2. CASE i # slot
        <4>1. page_start_'[b] = EntryWritten(slot)[b] BY Zenon, <2>3, <2>5, <3>2
        <4> QED BY Zenon, <1>3, <2>4, <3>2, <4>1
      <3> QED BY Zenon, <3>1, <3>2
    <2>8. \A b \in SlotBytes : page_start_'[b] = "slot entry" BY Zenon, <1>3, <2>3, <2>6
    <2> QED BY Zenon, <2>1, <2>2, <2>7, <2>8
  <1> QED BY Zenon, <1>4, <1>5

(* The new tuple and its slot entry are written in free bytes.              *)
LEMMA InsertKeepsBytes ==
    ASSUME SmallTuples, TypeOK, TuplesInPage, Intact, NEW len \in Lengths,
           NEW contents \in Contents, NEW deleted \in BOOLEAN, InsertTuple(len, contents, deleted)
    PROVE  Intact'
  <1> PICK n \in Nat : n = num_tuples_ BY Zenon, PageSlots
  <1> PICK first : first = GetNextTupleOffset(len).offset BY Zenon
  <1>1. TypeOK' /\ TuplesInPage' BY Zenon, InsertKeeps
  <1>2. /\ num_tuples_' = n + 1 /\ tuple_info_'[n + 1] = [offset |-> first, size |-> len, is_deleted |-> deleted]
        /\ \A i \in 1..n : tuple_info_'[i] = tuple_info_[i]
    <2>1. tuple_info_ \in Seq(Info) /\ n = num_tuples_ BY Zenon, PageSlots
    <2>2. tuple_info_' = Append(tuple_info_, [offset |-> first, size |-> len, is_deleted |-> deleted])
      BY Zenon DEF InsertTuple
    <2> QED BY <2>1, <2>2 DEF num_tuples_
  <1>3. /\ stored'[n + 1] = contents
        /\ \A i \in 1..n : stored'[i] = stored[i]
    <2>1. stored \in Seq(Contents) /\ Len(stored) = n BY Zenon DEF TypeOK
    <2>2. stored' = Append(stored, contents) BY Zenon DEF InsertTuple
    <2>3. n + 1 \in Nat OBVIOUS
    <2> QED BY <2>1, <2>2, <2>3
  <1>4. /\ \A i \in 1..(n + 1) : i \in 1..n \/ i = n + 1
        /\ \A i \in 1..n : i \in 1..(n + 1) /\ i # n + 1
        /\ n + 1 \in 1..(n + 1) /\ (n + 1) - 1 = n
    OBVIOUS
  <1>5. TupleBytes(n + 1)' = {b \in Bytes : first <= b /\ b < first + len}
    <2>1. tuple_info_'[n + 1].offset = first /\ tuple_info_'[n + 1].size = len BY <1>2
    <2> QED BY Zenon, <2>1 DEF TupleBytes
  <1>6. \A i \in 1..n : TupleBytes(i)' = TupleBytes(i) BY Zenon, <1>2 DEF TupleBytes
  <1>7. \A b \in Bytes : page_start_'[b] = IF b \in TupleBytes(n + 1)' THEN contents ELSE EntryWritten(n + 1)[b]
    BY Zenon, <1>5 DEF InsertTuple, Written
  <1>8. /\ \A i \in 1..n : TupleBytes(i)' \cap TupleBytes(n + 1)' = {}
        /\ \A i \in 1..(n + 1) : TupleBytes(i)' \cap SlotBytes' = {}
        /\ \A b \in Bytes : HeaderSize + InfoSize * n <= b /\ b < HeaderSize + InfoSize * n + InfoSize => b \in SlotBytes'
    <2>1. /\ \A i, j \in 1..(n + 1) : i # j => TupleBytes(i)' \cap TupleBytes(j)' = {}
          /\ \A i \in 1..(n + 1) : TupleBytes(i)' \cap SlotBytes' = {}
          /\ \A i \in 1..(n + 1) : \A b \in Bytes :
                  /\ HeaderSize + InfoSize * (i - 1) <= b
                  /\ b < HeaderSize + InfoSize * (i - 1) + InfoSize
                  => b \in SlotBytes'
      BY Zenon, <1>1, <1>2, BytesApartNext DEF Apart
    <2> QED BY Zenon, <2>1, <1>4
  <1>9. \A b \in Bytes : EntryWritten(n + 1)[b] =
          IF HeaderSize + InfoSize * n <= b /\ b < HeaderSize + InfoSize * n + InfoSize THEN "slot entry" ELSE page_start_[b]
    BY Zenon, <1>4 DEF EntryWritten, Written
  <1>10. ASSUME NEW i \in 1..n, NEW b \in TupleBytes(i)' PROVE page_start_'[b] = stored'[i]
    <2>1. b \in Bytes BY Zenon, <1>10 DEF TupleBytes
    <2>2. b \notin TupleBytes(n + 1)' /\ b \notin SlotBytes' BY Zenon, <1>4, <1>8, <1>10
    <2>3. page_start_'[b] = page_start_[b] BY Zenon, <1>7, <1>8, <1>9, <2>1, <2>2
    <2> QED BY Zenon, <1>3, <1>6, <1>10, <2>3 DEF Intact
  <1>11. ASSUME NEW b \in SlotBytes' PROVE page_start_'[b] = "slot entry"
    <2>1. b \in Bytes BY Zenon, <1>11 DEF SlotBytes
    <2>2. b \notin TupleBytes(n + 1)' BY Zenon, <1>4, <1>8, <1>11
    <2>3. page_start_'[b] = EntryWritten(n + 1)[b] BY Zenon, <1>7, <2>1, <2>2
    <2>4. SlotArrayEnd = HeaderSize + InfoSize * n /\ HeaderSize <= b /\ b < HeaderSize + InfoSize * (n + 1)
      BY Zenon, <1>2, <1>11 DEF SlotBytes, SlotArrayEnd
    <2>5. b \in Nat /\ HeaderSize \in Nat /\ InfoSize \in Nat BY <2>1, LayoutAssumption DEF Bytes
    <2>6. b < SlotArrayEnd \/ (HeaderSize + InfoSize * n <= b /\ b < HeaderSize + InfoSize * n + InfoSize)
      BY <2>4, <2>5, SlotArray
    <2>7. b < SlotArrayEnd => page_start_[b] = "slot entry" BY Zenon, <2>1, <2>4 DEF Intact, SlotBytes
    <2> QED BY Zenon, <1>9, <2>1, <2>3, <2>6, <2>7
  <1>12. \A b \in TupleBytes(n + 1)' : page_start_'[b] = stored'[n + 1]
    BY Zenon, <1>3, <1>7 DEF TupleBytes
  <1>13. \A i \in 1..num_tuples_' : \A b \in TupleBytes(i)' : page_start_'[b] = stored'[i]
    BY Zenon, <1>2, <1>4, <1>10, <1>12
  <1> QED BY Zenon, <1>11, <1>13 DEF Intact

(* Every step keeps the types, the layout and the contents.                 *)
LEMMA PageStep ==
    ASSUME SmallTuples, TypeOK, TuplesInPage, Intact, [Next]_vars
    PROVE  TypeOK' /\ TuplesInPage' /\ Intact'
  <1>0. num_tuples_ \in Nat BY Zenon, PageSlots
  <1>1. ASSUME NEW len \in Lengths, NEW contents \in Contents, NEW deleted \in BOOLEAN,
               InsertTuple(len, contents, deleted)
        PROVE  TypeOK' /\ TuplesInPage' /\ Intact'
    BY Zenon, <1>1, InsertKeeps, InsertKeepsBytes
  <1>2. ASSUME NEW slot \in 1..num_tuples_, NEW deleted \in BOOLEAN, CountDeleted(slot, deleted),
               tuple_info_' = [tuple_info_ EXCEPT ![slot].is_deleted = deleted],
               \/ page_start_' = EntryWritten(slot) /\ UNCHANGED stored
               \/ \E contents \in Contents :
                     /\ page_start_' = Written(tuple_info_[slot].offset, tuple_info_[slot].size, contents, EntryWritten(slot))
                     /\ stored' = [stored EXCEPT ![slot] = contents]
        PROVE  TypeOK' /\ TuplesInPage' /\ Intact'
    <2>1. /\ tuple_info_' \in Seq(Info) /\ num_deleted_tuples_' \in 0..(U16 - 1)
          /\ num_tuples_' = num_tuples_
          /\ \A i \in 1..num_tuples_ : /\ tuple_info_'[i].offset = tuple_info_[i].offset
                                       /\ tuple_info_'[i].size = tuple_info_[i].size
      BY Zenon, <1>2, UpdateKeeps
    <2>2. SlotArrayEnd' = SlotArrayEnd BY Zenon, <2>1 DEF SlotArrayEnd
    <2>3. \A i \in 1..num_tuples_ : \A j \in 1..(i - 1) : j \in 1..num_tuples_ BY <1>0
    <2>4. TuplesInPage' BY Zenon, <2>1, <2>2, <2>3 DEF TuplesInPage
    <2>5. /\ page_start_' \in [Bytes -> ByteKinds] /\ stored' \in Seq(Contents)
          /\ Len(stored') = num_tuples_
          /\ \A i \in 1..num_tuples_ : \A b \in TupleBytes(i) : page_start_'[b] = stored'[i]
          /\ \A b \in SlotBytes : page_start_'[b] = "slot entry"
      BY Zenon, <1>2, UpdateKeepsBytes
    <2>6. TypeOK' BY Zenon, <2>1, <2>5 DEF TypeOK, Info, ByteKinds
    <2>7. SlotBytes' = SlotBytes /\ \A i \in 1..num_tuples_ : TupleBytes(i)' = TupleBytes(i)
      BY Zenon, <2>1, <2>2 DEF SlotBytes, TupleBytes
    <2> QED BY Zenon, <2>1, <2>4, <2>5, <2>6, <2>7 DEF Intact
  <1>3. CASE UNCHANGED vars
    BY Zenon, <1>3 DEF vars, TypeOK, TuplesInPage, Intact, TupleBytes, SlotBytes, num_tuples_, SlotArrayEnd
  <1> QED BY Zenon, <1>1, <1>2, <1>3 DEF Next, UpdateTupleMeta, UpdateTupleInPlaceUnsafe

(* A page starts empty: nothing to lay out.                                 *)
LEMMA PageInit == Init => TypeOK /\ TuplesInPage /\ Intact
  <1> SUFFICES ASSUME Init PROVE TypeOK /\ TuplesInPage /\ Intact BY Zenon
  <1>1. tuple_info_ \in Seq(Info) /\ num_tuples_ = 0 /\ stored \in Seq(Contents) /\ Len(stored) = 0
    BY DEF Init, num_tuples_
  <1>2. num_deleted_tuples_ \in 0..(U16 - 1) BY LayoutAssumption DEF Init
  <1>3. TypeOK BY Zenon, <1>1, <1>2 DEF TypeOK, Info, Init
  <1>4. 1..0 = {} /\ SlotArrayEnd = HeaderSize BY <1>1, LayoutAssumption DEF SlotArrayEnd
  <1>5. SlotBytes = {} BY <1>4, LayoutAssumption DEF SlotBytes, Bytes
  <1> QED BY Zenon, <1>1, <1>3, <1>4, <1>5 DEF TuplesInPage, Intact

(* What the bytes of a tuple hold is what GetTuple returns.                 *)
LEMMA IntactReads == ASSUME TypeOK, TuplesInPage, Intact PROVE TuplesReadBack
  <1>1. ASSUME NEW i \in 1..num_tuples_, NEW b \in 0..(tuple_info_[i].size - 1)
        PROVE  tuple_info_[i].offset + b \in TupleBytes(i)
    <2>1. tuple_info_[i] \in Info BY Zenon, <1>1, PageSlots
    <2>2. tuple_info_[i].offset + tuple_info_[i].size <= PageSize BY Zenon, <1>1 DEF TuplesInPage
    <2>3. tuple_info_[i].offset \in Nat /\ tuple_info_[i].size \in Nat BY <2>1, LayoutAssumption DEF Info
    <2> QED BY <1>1, <2>2, <2>3, LayoutAssumption DEF TupleBytes, Bytes
  <1>2. \A i \in 1..num_tuples_ : GetTuple(i) = [b \in 0..(tuple_info_[i].size - 1) |-> stored[i]]
    BY Zenon, <1>1 DEF GetTuple, Intact
  <1>3. ASSUME NEW b \in HeaderSize..(SlotArrayEnd - 1) PROVE page_start_[b] = "slot entry"
    <2>1. num_tuples_ \in Nat BY Zenon, PageSlots
    <2>2. CASE num_tuples_ = 0
      <3>1. SlotArrayEnd = HeaderSize BY <2>2, LayoutAssumption DEF SlotArrayEnd
      <3>2. FALSE BY <1>3, <3>1, LayoutAssumption
      <3> QED BY Zenon, <3>2
    <2>3. CASE num_tuples_ > 0
      <3>1. 1 \in 1..num_tuples_ BY <2>1, <2>3
      <3>2. tuple_info_[1] \in Info /\ SlotArrayEnd <= tuple_info_[1].offset
            /\ tuple_info_[1].offset + tuple_info_[1].size <= PageSize
        BY Zenon, <3>1, PageSlots DEF TuplesInPage
      <3>3. tuple_info_[1].offset \in Nat /\ tuple_info_[1].size \in Nat BY <3>2, LayoutAssumption DEF Info
      <3>4. SlotArrayEnd \in Nat BY <2>1, SlotArray, LayoutAssumption DEF SlotArrayEnd
      <3>5. b \in SlotBytes BY <1>3, <3>2, <3>3, <3>4, LayoutAssumption DEF SlotBytes, Bytes
      <3> QED BY Zenon, <3>5 DEF Intact
    <2>4. num_tuples_ = 0 \/ num_tuples_ > 0 BY <2>1
    <2> QED BY Zenon, <2>2, <2>3, <2>4
  <1> QED BY Zenon, <1>2, <1>3 DEF TuplesReadBack

(* TuplesFit: as long as no tuple is longer than the header and one slot    *)
(* entry, InsertTuple and the updates of table_page.cpp keep every tuple    *)
(* inside the page, above the slot array and apart from the others.         *)
THEOREM TuplesFit == ASSUME SmallTuples PROVE Spec => []TuplesInPage
  <1>1. TypeOK /\ TuplesInPage /\ Intact /\ [Next]_vars => TypeOK' /\ TuplesInPage' /\ Intact' BY Zenon, PageStep
  <1> QED BY PageInit, <1>1, PTL DEF Spec

(* TuplesAlwaysReadBack: under the same condition GetTuple of a slot        *)
(* returns what InsertTuple or UpdateTupleInPlaceUnsafe last stored there.  *)
THEOREM TuplesAlwaysReadBack == ASSUME SmallTuples PROVE Spec => []TuplesReadBack
  <1>1. TypeOK /\ TuplesInPage /\ Intact /\ [Next]_vars => TypeOK' /\ TuplesInPage' /\ Intact' BY Zenon, PageStep
  <1>2. TypeOK /\ TuplesInPage /\ Intact => TuplesReadBack BY Zenon, IntactReads
  <1> QED BY PageInit, <1>1, <1>2, PTL DEF Spec

-----------------------------------------------------------------------------
(***************************************************************************)
(* The version chains of a table page, for any number of threads, slots    *)
(* and versions.  A chain is whole because a writer holds the page latch   *)
(* from its check to the new link, and what it installs is either a fresh  *)
(* version whose undo log holds what the check found (UpdateTuple after    *)
(* AppendUndoLog), or the undo log of its own version.  The invariant says *)
(* who holds which latch (Locked), that tuple, link and undo logs follow   *)
(* the history (Chains, Links), and what a thread between two steps knows  *)
(* (Reading, Writing).                                                     *)
(***************************************************************************)
CONSTANTS Threads, Slots, MaxVersions
VARIABLES
    tuple, has_info, prev_link_, undo_logs_, ver_next, page_w, page_r, info_w, info_r, mutex_,
    pc, rid, seen, new, own, stack

V == INSTANCE VersionLinks WITH next <- ver_next

Getting == {"get_info", "get_lock", "get_link"}
Putting == {"put_info", "put_lock", "put_link"}
Labels == {"idle", "have", "update", "installed"} \cup Getting \cup Putting
Pairs == [tuple : 0..MaxVersions, link : 0..MaxVersions]

(* version i of a slot, counted from the one it was inserted with *)
VersionAt(s, i) == IF i = 0 THEN V!First ELSE stack[s][i]

(* every variable has its type *)
Typed ==
  /\ tuple \in [Slots -> 0..MaxVersions] /\ prev_link_ \in [Slots -> 0..MaxVersions]
  /\ has_info \in BOOLEAN /\ ver_next \in 1..(MaxVersions + 1)
  /\ undo_logs_ \in [V!Versions -> Pairs]
  /\ rid \in [Threads -> Slots] /\ own \in [Threads -> 0..MaxVersions]
  /\ seen \in [Threads -> Pairs]
  /\ new \in [Threads -> Pairs]
  /\ pc \in [Threads -> Labels]
  /\ stack \in [Slots -> Seq(V!Versions)]

(* who holds the latches; readers and a writer exclude each other *)
Locked ==
  /\ \A t \in Threads :
       /\ page_w = t <=> pc[t] \in Putting
       /\ t \in page_r <=> pc[t] \in Getting
       /\ info_w = t <=> pc[t] = "put_lock"
       /\ t \in info_r <=> pc[t] = "get_lock"
       /\ mutex_ = t <=> pc[t] \in {"get_link", "put_link"}
  /\ page_w # V!NoThread => page_r = {}

(* the history of a slot is its tuple and the undo logs behind it *)
Chains == \A s \in Slots :
  /\ tuple[s] = VersionAt(s, Len(stack[s]))
  /\ \A i \in 1..Len(stack[s]) :
       stack[s][i] < ver_next /\ undo_logs_[stack[s][i]] = V!Pair(VersionAt(s, i - 1), VersionAt(s, i - 1))

(* a link is its tuple's but where a writer is between the two *)
Links ==
  /\ \A s \in Slots : \/ prev_link_[s] = tuple[s]
                      \/ \E t \in Threads : pc[t] \in Putting /\ rid[t] = s
  /\ ~has_info => \A s \in Slots : prev_link_[s] = V!NoLink
  /\ \A t \in Threads : pc[t] \in {"put_lock", "put_link"} => has_info
  /\ \A v \in V!Versions : V!Matching(undo_logs_[v])

(* what a reader has copied so far is what is in the page *)
Reading(t) ==
  /\ pc[t] \in Getting => seen[t].tuple = tuple[rid[t]]
  /\ pc[t] = "get_info" => seen[t].link = V!NoLink
  /\ pc[t] = "have" => V!Matching(seen[t])

(* what a writer will install, or has installed, belongs together *)
Writing(t) ==
  /\ own[t] < ver_next
  /\ pc[t] \in Getting \cup {"idle", "have"} => own[t] = V!First
  /\ pc[t] = "installed" => own[t] # V!First
  /\ pc[t] \in Putting \cup {"update"} => V!Matching(new[t])
  /\ pc[t] \in Putting \cup {"update"} /\ own[t] = V!First => new[t].tuple # V!First /\ new[t].tuple < ver_next
  /\ pc[t] = "update" /\ own[t] = V!First => undo_logs_[new[t].tuple] = seen[t] /\ V!Matching(seen[t])
  /\ pc[t] = "update" /\ own[t] # V!First => undo_logs_[own[t]] = new[t] /\ seen[t].tuple = own[t]
  /\ pc[t] \in Putting => new[t].tuple = tuple[rid[t]]

VersionInv ==
  /\ Typed /\ Locked /\ Chains /\ Links
  /\ \A t \in Threads : Reading(t) /\ Writing(t)

(* What a step of a thread may change, and which step changes it. *)
Frame(t) ==
    /\ \A u \in Threads \ {t} : UNCHANGED <<pc[u], rid[u], seen[u], new[u], own[u]>>
    /\ UNCHANGED <<tuple, stack>> \/ V!UpdateTuple(t)
    /\ UNCHANGED <<undo_logs_, ver_next>> \/ V!AppendUndoLog(t)
    /\ UNCHANGED prev_link_ \/ V!PutLink(t)
    /\ UNCHANGED has_info \/ has_info' = TRUE
    /\ pc[t] \in Putting => V!PutLink(t) \/ (pc'[t] \in Putting /\ rid'[t] = rid[t])
    /\ pc'[t] \in {"put_lock", "put_link"} => has_info' \/ pc[t] = "put_lock"

LEMMA StepFrame ==
  ASSUME Typed, NEW t \in Threads, V!Step(t)
  PROVE  Frame(t)
<1>0. /\ pc \in [Threads -> Labels]
      /\ DOMAIN rid = Threads /\ DOMAIN seen = Threads /\ DOMAIN new = Threads /\ DOMAIN own = Threads
  BY Zenon DEF Typed
<1>1. ASSUME NEW s \in Slots, V!GetTuple(t, s) PROVE Frame(t)
  BY Zenon, <1>0, <1>1 DEF V!GetTuple, V!Goto, Frame, Putting
<1>2. CASE V!GetNoInfo(t) BY Zenon, <1>0, <1>2 DEF V!GetNoInfo, V!Goto, Frame, Putting
<1>3. CASE V!GetInfo(t) BY Zenon, <1>0, <1>3 DEF V!GetInfo, V!Goto, Frame, Putting
<1>4. CASE V!GetLock(t) BY Zenon, <1>0, <1>4 DEF V!GetLock, V!Goto, Frame, Putting
<1>5. CASE V!GetLink(t) BY Zenon, <1>0, <1>5 DEF V!GetLink, V!Goto, Frame, Putting
<1>6. CASE V!Drop(t) BY Zenon, <1>0, <1>6 DEF V!Drop, V!Goto, Frame, Putting
<1>7. CASE V!AppendUndoLog(t) BY Zenon, <1>0, <1>7 DEF V!AppendUndoLog, V!Goto, Frame, Putting
<1>8. CASE V!Undo(t) BY Zenon, <1>0, <1>8 DEF V!Undo, V!Goto, Frame, Putting
<1>9. CASE V!Finish(t) BY Zenon, <1>0, <1>9 DEF V!Finish, V!Leave, V!Goto, Frame, Putting
<1>10. CASE V!UpdateRefused(t) BY Zenon, <1>0, <1>10 DEF V!UpdateRefused, V!Leave, V!Goto, Frame, Putting
<1>11. CASE V!UpdateTuple(t) BY Zenon, <1>0, <1>11 DEF V!UpdateTuple, V!Goto, Frame, Putting
<1>12. CASE V!PutInfo(t) BY Zenon, <1>0, <1>12 DEF V!PutInfo, V!Goto, Frame, Putting
<1>13. CASE V!PutLock(t) BY Zenon, <1>0, <1>13 DEF V!PutLock, V!Goto, Frame, Putting
<1>14. CASE V!PutLink(t) BY Zenon, <1>0, <1>14 DEF V!PutLink, V!Leave, V!Goto, Frame, Putting
<1> QED BY Zenon, <1>1, <1>2, <1>3, <1>4, <1>5, <1>6, <1>7, <1>8, <1>9, <1>10, <1>11, <1>12, <1>13,
    <1>14 DEF V!Step

(* The slot and the pair a thread falls back to. *)
LEMMA Anywhere ==
  ASSUME V!VersionAssumption
  PROVE  (CHOOSE s \in Slots : TRUE) \in Slots /\ V!NoPair \in Pairs
BY DEF V!VersionAssumption, V!NoPair, V!Pair, V!First, V!NoLink, Pairs

(* A thread that leaves is reset to values of the right types. *)
LEMMA LeaveTyped ==
  ASSUME V!VersionAssumption, Typed, NEW t \in Threads, V!Leave(t)
  PROVE  /\ seen' \in [Threads -> Pairs]
         /\ new' \in [Threads -> Pairs]
         /\ own' \in [Threads -> 0..MaxVersions] /\ rid' \in [Threads -> Slots]
         /\ pc' \in [Threads -> Labels]
<1>1. MaxVersions \in Nat /\ (CHOOSE s \in Slots : TRUE) \in Slots /\ V!NoPair \in Pairs
  BY Zenon, Anywhere DEF V!VersionAssumption
<1>2. seen \in [Threads -> Pairs] /\ new \in [Threads -> Pairs] BY Zenon DEF Typed
<1>3. seen' \in [Threads -> Pairs] /\ new' \in [Threads -> Pairs] BY Zenon, <1>1, <1>2 DEF V!Leave
<1>4. own' \in [Threads -> 0..MaxVersions] BY <1>1 DEF V!Leave, Typed, V!First
<1>5. rid' \in [Threads -> Slots] BY Zenon, <1>1 DEF V!Leave, Typed
<1>6. pc' \in [Threads -> Labels]
  BY Zenon DEF V!Leave, V!Goto, Typed, Labels
<1> QED BY Zenon, <1>3, <1>4, <1>5, <1>6

(* Every variable keeps its type. *)
LEMMA TypedKept ==
  ASSUME V!VersionAssumption, VersionInv, NEW t \in Threads, V!Step(t)
  PROVE  Typed'
<1>0. Typed /\ MaxVersions \in Nat /\ (CHOOSE s \in Slots : TRUE) \in Slots /\ V!NoPair \in Pairs
  BY Zenon, Anywhere DEF VersionInv, V!VersionAssumption
<1> USE DEF Getting, Putting, Labels, Typed
<1>1. ASSUME NEW s \in Slots, V!GetTuple(t, s) PROVE Typed'
  <2>1. V!Pair(tuple[s], V!NoLink) \in Pairs BY <1>0 DEF V!Pair, Pairs, V!NoLink
  <2> QED BY Zenon, <1>0, <1>1, <2>1 DEF V!GetTuple, V!Goto
<1>2. CASE V!GetNoInfo(t) BY Zenon, <1>0, <1>2 DEF V!GetNoInfo, V!Goto
<1>3. CASE V!GetInfo(t) BY Zenon, <1>0, <1>3 DEF V!GetInfo, V!Goto
<1>4. CASE V!GetLock(t) BY Zenon, <1>0, <1>4 DEF V!GetLock, V!Goto
<1>5. CASE V!GetLink(t)
  <2>1. prev_link_[rid[t]] \in 0..MaxVersions BY Zenon, <1>0
  <2>2. seen' \in [Threads -> Pairs] BY <1>0, <1>5, <2>1, Zenon DEF V!GetLink, Pairs
  <2> QED BY Zenon, <1>0, <1>5, <2>2 DEF V!GetLink, V!Goto
<1>6. CASE V!Drop(t) BY Zenon, <1>0, <1>6 DEF V!Drop, V!Goto
<1>7. CASE V!AppendUndoLog(t)
  <2>1. ver_next \in V!Versions /\ V!Pair(ver_next, ver_next) \in Pairs
    BY <1>0, <1>7 DEF V!AppendUndoLog, V!Pair, Pairs, V!Versions
  <2>2. seen[t] \in Pairs BY Zenon, <1>0
  <2>3. undo_logs_' \in [V!Versions -> Pairs] /\ new' \in [Threads -> Pairs]
    BY Zenon, <1>0, <1>7, <2>1, <2>2 DEF V!AppendUndoLog
  <2>4. ver_next' \in 1..(MaxVersions + 1) BY <1>0, <1>7 DEF V!AppendUndoLog
  <2> QED BY Zenon, <1>0, <1>7, <2>3, <2>4 DEF V!AppendUndoLog, V!Goto
<1>8. CASE V!Undo(t)
  <2>1. own[t] \in V!Versions BY <1>0, <1>8 DEF V!Undo, V!First, V!Versions
  <2>2. V!GetUndoLog(own[t]) \in Pairs /\ V!Pair(own[t], own[t]) \in Pairs
    BY Zenon, <1>0, <2>1 DEF V!GetUndoLog, V!Pair, Pairs
  <2>3. seen' \in [Threads -> Pairs] /\ new' \in [Threads -> Pairs] BY Zenon, <1>0, <1>8, <2>2 DEF V!Undo
  <2> QED BY Zenon, <1>0, <1>8, <2>3 DEF V!Undo, V!Goto
<1>9. CASE V!Finish(t) BY <1>0, <1>9, LeaveTyped, Zenon DEF V!Finish
<1>10. CASE V!UpdateRefused(t) BY <1>0, <1>10, LeaveTyped, Zenon DEF V!UpdateRefused
<1>11. CASE V!UpdateTuple(t)
  <2>1. rid[t] \in Slots /\ new[t].tuple \in 0..MaxVersions /\ stack[rid[t]] \in Seq(V!Versions)
    BY Zenon, <1>0 DEF Pairs
  <2>2. ~V!Undoing(t) => new[t].tuple \in V!Versions
    BY <1>11, <2>1 DEF VersionInv, Writing, V!UpdateTuple, V!Undoing, V!First, V!Versions
  <2>3. SubSeq(stack[rid[t]], 1, Len(stack[rid[t]]) - 1) \in Seq(V!Versions)
    BY <2>1
  <2>4. ~V!Undoing(t) => Append(stack[rid[t]], new[t].tuple) \in Seq(V!Versions) BY <2>1, <2>2
  <2>5. stack' \in [Slots -> Seq(V!Versions)]
    <3>1. CASE V!Undoing(t) BY Zenon, <1>0, <1>11, <2>3, <3>1 DEF V!UpdateTuple
    <3>2. CASE ~V!Undoing(t) BY Zenon, <1>0, <1>11, <2>4, <3>2 DEF V!UpdateTuple
    <3> QED BY Zenon, <3>1, <3>2
  <2>6. tuple' \in [Slots -> 0..MaxVersions] BY Zenon, <1>0, <1>11, <2>1 DEF V!UpdateTuple
  <2> QED BY Zenon, <1>0, <1>11, <2>5, <2>6 DEF V!UpdateTuple, V!Goto
<1>12. CASE V!PutInfo(t) BY Zenon, <1>0, <1>12 DEF V!PutInfo, V!Goto
<1>13. CASE V!PutLock(t) BY Zenon, <1>0, <1>13 DEF V!PutLock, V!Goto
<1>14. CASE V!PutLink(t)
  <2>1. rid[t] \in Slots /\ new[t].tuple \in 0..MaxVersions /\ new[t].link \in 0..MaxVersions
    BY Zenon, <1>0 DEF Pairs
  <2>2. prev_link_' \in [Slots -> 0..MaxVersions] BY Zenon, <1>0, <1>14, <2>1 DEF V!PutLink, V!LinkAfter
  <2>3. CASE V!Undoing(t) BY Zenon, <1>0, <1>14, <2>2, <2>3, LeaveTyped DEF V!PutLink
  <2>4. CASE ~V!Undoing(t)
    <3>1. seen' \in [Threads -> Pairs] /\ new' \in [Threads -> Pairs]
      BY <1>0, <1>14, <2>4, Zenon DEF V!PutLink
    <3>2. own' \in [Threads -> 0..MaxVersions] BY <1>0, <1>14, <2>1, <2>4, Zenon DEF V!PutLink
    <3>3. pc' \in [Threads -> Labels] BY <1>0, <1>14, <2>4, Zenon DEF V!PutLink, V!Goto
    <3> QED BY Zenon, <1>0, <1>14, <2>2, <2>4, <3>1, <3>2, <3>3 DEF V!PutLink
  <2> QED BY Zenon, <2>3, <2>4
<1> QED BY Zenon, <1>1, <1>2, <1>3, <1>4, <1>5, <1>6, <1>7, <1>8, <1>9, <1>10, <1>11, <1>12, <1>13,
    <1>14 DEF V!Step

(* Each lock is held by the threads that are where it is held. *)
LEMMA LockedKept ==
  ASSUME V!VersionAssumption, VersionInv, NEW t \in Threads, V!Step(t)
  PROVE  Locked'
<1>0. Locked /\ pc \in [Threads -> Labels] /\ V!NoThread \notin Threads
  BY Zenon DEF VersionInv, Typed, V!VersionAssumption
<1> USE DEF Getting, Putting, Locked
<1>1. ASSUME NEW s \in Slots, V!GetTuple(t, s) PROVE Locked'
  BY Zenon, <1>0, <1>1 DEF V!GetTuple, V!LockPageShared, V!Goto
<1>2. CASE V!GetNoInfo(t) BY Zenon, <1>0, <1>2 DEF V!GetNoInfo, V!Goto, V!locks
<1>3. CASE V!GetInfo(t) BY Zenon, <1>0, <1>3 DEF V!GetInfo, V!Goto, V!locks
<1>4. CASE V!GetLock(t) BY Zenon, <1>0, <1>4 DEF V!GetLock, V!Goto, V!locks
<1>5. CASE V!GetLink(t) BY Zenon, <1>0, <1>5 DEF V!GetLink, V!Goto, V!locks
<1>6. CASE V!Drop(t) BY Zenon, <1>0, <1>6 DEF V!Drop, V!Goto, V!locks
<1>7. CASE V!AppendUndoLog(t) BY Zenon, <1>0, <1>7 DEF V!AppendUndoLog, V!Goto, V!locks
<1>8. CASE V!Undo(t) BY Zenon, <1>0, <1>8 DEF V!Undo, V!GetUndoLog, V!Goto, V!locks
<1>9. CASE V!Finish(t) BY Zenon, <1>0, <1>9 DEF V!Finish, V!Leave, V!Goto, V!locks
<1>10. CASE V!UpdateRefused(t) BY Zenon, <1>0, <1>10 DEF V!UpdateRefused, V!Leave, V!Check, V!Goto, V!locks
<1>11. CASE V!UpdateTuple(t) BY Zenon, <1>0, <1>11 DEF V!UpdateTuple, V!LockPage, V!Check, V!Undoing,
    V!Goto, V!locks
<1>12. CASE V!PutInfo(t) BY Zenon, <1>0, <1>12 DEF V!PutInfo, V!Goto, V!locks
<1>13. CASE V!PutLock(t) BY Zenon, <1>0, <1>13 DEF V!PutLock, V!Goto, V!locks
<1>14. CASE V!PutLink(t) BY Zenon, <1>0, <1>14 DEF V!PutLink, V!Leave, V!LinkAfter, V!Undoing, V!Goto,
    V!locks
<1> QED BY Zenon, <1>1, <1>2, <1>3, <1>4, <1>5, <1>6, <1>7, <1>8, <1>9, <1>10, <1>11, <1>12, <1>13, <1>14
    DEF V!Step

(* The stack of a slot is what its undo logs spell. *)
LEMMA ChainsKept ==
  ASSUME V!VersionAssumption, VersionInv, NEW t \in Threads, V!Step(t)
  PROVE  Chains'
<1>1. Typed /\ Chains /\ Reading(t) /\ Writing(t) /\ MaxVersions \in Nat
  BY Zenon DEF VersionInv, V!VersionAssumption
<1>2. /\ stack \in [Slots -> Seq(V!Versions)] /\ rid[t] \in Slots /\ ver_next \in Nat
      /\ undo_logs_ \in [V!Versions -> Pairs] /\ seen[t] \in Pairs /\ new[t] \in Pairs /\ own[t] \in 0..MaxVersions
      /\ tuple \in [Slots -> 0..MaxVersions]
  BY <1>1 DEF Typed
<1>3. CASE UNCHANGED <<tuple, stack, undo_logs_, ver_next>>
  BY Zenon, <1>1, <1>3 DEF Chains, VersionAt
<1>4. CASE V!AppendUndoLog(t)
  <2>1. UNCHANGED <<tuple, stack>> /\ ver_next' = ver_next + 1 BY Zenon, <1>4 DEF V!AppendUndoLog
  <2>2. \A v \in V!Versions : v < ver_next => undo_logs_'[v] = undo_logs_[v]
    BY <1>2, <1>4 DEF V!AppendUndoLog
  <2>3. ASSUME NEW s \in Slots, NEW i \in 1..Len(stack[s])
        PROVE  stack[s][i] < ver_next' /\ undo_logs_'[stack[s][i]] = V!Pair(VersionAt(s, i - 1), VersionAt(s, i - 1))
    <3>1. stack[s][i] \in V!Versions /\ stack[s] \in Seq(V!Versions) BY <1>2
    <3>2. stack[s][i] < ver_next /\ undo_logs_[stack[s][i]] = V!Pair(VersionAt(s, i - 1), VersionAt(s, i - 1))
      BY Zenon, <1>1 DEF Chains
    <3>3. stack[s][i] \in Nat BY <3>1 DEF V!Versions
    <3>4. undo_logs_'[stack[s][i]] = undo_logs_[stack[s][i]] BY Zenon, <2>2, <3>1, <3>2
    <3>5. stack[s][i] < ver_next' BY <1>2, <2>1, <3>2, <3>3
    <3> QED BY Zenon, <3>2, <3>4, <3>5
  <2> QED BY Zenon, <1>1, <2>1, <2>3 DEF Chains, VersionAt
<1>5. CASE V!UpdateTuple(t)
  <2> DEFINE r == rid[t]
             n == Len(stack[r])
  <2>1. /\ UNCHANGED <<undo_logs_, ver_next>> /\ tuple[r] = seen[t].tuple /\ pc[t] = "update"
        /\ tuple' = [tuple EXCEPT ![r] = new[t].tuple]
        /\ stack' = [stack EXCEPT ![r] = IF own[t] # V!First THEN SubSeq(@, 1, Len(@) - 1)
                                         ELSE Append(@, new[t].tuple)]
    BY <1>5, Zenon DEF V!UpdateTuple, V!Check, V!Undoing
  <2>2. tuple[r] = VersionAt(r, n) /\ n \in Nat /\ stack[r] \in Seq(V!Versions)
    BY <1>1, <1>2 DEF Chains
  <2>3. \A s \in Slots : s # r => tuple'[s] = tuple[s] /\ stack'[s] = stack[s] BY Zenon, <1>2, <2>1
  <2>4. tuple'[r] = new[t].tuple BY Zenon, <1>2, <2>1
  <2>5. ASSUME NEW s \in Slots, s # r
        PROVE  /\ tuple'[s] = (IF Len(stack'[s]) = 0 THEN V!First ELSE stack'[s][Len(stack'[s])])
               /\ \A i \in 1..Len(stack'[s]) :
                    /\ stack'[s][i] < ver_next
                    /\ undo_logs_[stack'[s][i]] = V!Pair(IF i - 1 = 0 THEN V!First ELSE stack'[s][i - 1],
                                                       IF i - 1 = 0 THEN V!First ELSE stack'[s][i - 1])
    BY <1>1, <2>3, <2>5 DEF Chains, VersionAt
  <2>6. /\ tuple'[r] = (IF Len(stack'[r]) = 0 THEN V!First ELSE stack'[r][Len(stack'[r])])
        /\ \A i \in 1..Len(stack'[r]) :
             /\ stack'[r][i] < ver_next
             /\ undo_logs_[stack'[r][i]] = V!Pair(IF i - 1 = 0 THEN V!First ELSE stack'[r][i - 1],
                                                IF i - 1 = 0 THEN V!First ELSE stack'[r][i - 1])
    <3>1. \A i \in 1..n : /\ stack[r][i] < ver_next
                          /\ undo_logs_[stack[r][i]] = V!Pair(IF i - 1 = 0 THEN V!First ELSE stack[r][i - 1],
                                                            IF i - 1 = 0 THEN V!First ELSE stack[r][i - 1])
      BY <1>1, <1>2, Zenon DEF Chains, VersionAt
    <3> DEFINE q == stack[r]
               top == IF n = 0 THEN V!First ELSE q[n]
    <3>2. tuple[r] = top BY Zenon, <2>2 DEF VersionAt
    <3>3. CASE own[t] = V!First
      <4>1. stack'[r] = Append(q, new[t].tuple) BY Zenon, <1>2, <2>1, <3>3
      <4>2. new[t].tuple < ver_next /\ undo_logs_[new[t].tuple] = seen[t] /\ seen[t].link = seen[t].tuple
        BY Zenon, <1>1, <2>1, <3>3 DEF Writing, V!Matching
      <4>3. undo_logs_[new[t].tuple] = V!Pair(top, top) BY <1>2, <2>1, <3>2, <4>2, Zenon DEF V!Pair, Pairs
      <4> HIDE DEF q, r
      <4>4. /\ Len(Append(q, new[t].tuple)) = n + 1 /\ Append(q, new[t].tuple)[n + 1] = new[t].tuple
            /\ \A i \in 1..n : Append(q, new[t].tuple)[i] = q[i]
        BY <2>2 DEF q
      <4> QED BY <2>2, <2>4, <3>1, <4>1, <4>2, <4>3, <4>4 DEF q
    <3>4. CASE own[t] # V!First
      <4>1. stack'[r] = SubSeq(q, 1, n - 1) BY Zenon, <1>2, <2>1, <3>4
      <4>2. undo_logs_[own[t]] = new[t] /\ tuple[r] = own[t] BY Zenon, <1>1, <2>1, <3>4 DEF Writing
      <4>3. n # 0 /\ q[n] = own[t] BY Zenon, <3>2, <3>4, <4>2
      <4> DEFINE below == IF n - 1 = 0 THEN V!First ELSE q[n - 1]
                 p == stack'[r]
      <4>4. undo_logs_[q[n]] = V!Pair(below, below)
        <5> HIDE DEF n
        <5>1. n \in 1..n BY <2>2, <4>3
        <5> QED BY Zenon, <3>1, <5>1
      <4>5. new[t].tuple = below
        <5> HIDE DEF below, q
        <5> QED BY <4>2, <4>3, <4>4 DEF V!Pair
      <4>6. Len(p) = n - 1 /\ \A i \in 1..(n - 1) : p[i] = q[i]
        <5> HIDE DEF q, p, r
        <5> QED BY <2>2, <4>1, <4>3 DEF q, p
      <4>7. tuple'[r] = (IF Len(p) = 0 THEN V!First ELSE p[Len(p)])
        <5>1. tuple'[r] = below BY Zenon, <2>4, <4>5
        <5> HIDE DEF q, p, r, n
        <5>2. CASE n - 1 = 0 BY Zenon, <4>6, <5>1, <5>2
        <5>3. CASE n - 1 # 0
          <6>1. n - 1 \in 1..(n - 1) BY <2>2, <4>3, <5>3
          <6> QED BY Zenon, <4>6, <5>1, <5>3, <6>1
        <5> QED BY Zenon, <5>2, <5>3
      <4>8. ASSUME NEW i \in 1..Len(p)
            PROVE  /\ p[i] < ver_next
                   /\ undo_logs_[p[i]] = V!Pair(IF i - 1 = 0 THEN V!First ELSE p[i - 1], IF i - 1 = 0 THEN V!First ELSE p[i - 1])
        <5>1. i \in 1..n /\ p[i] = q[i] /\ (i - 1 # 0 => p[i - 1] = q[i - 1])
          <6> HIDE DEF q, p, r, n
          <6> QED BY <2>2, <4>3, <4>6
        <5> HIDE DEF p, r, n
        <5> QED BY Zenon, <3>1, <5>1 DEF q
      <4> QED BY Zenon, <4>7, <4>8
    <3> QED BY Zenon, <3>3, <3>4
  <2>7. ASSUME NEW s \in Slots
        PROVE  /\ tuple'[s] = (IF Len(stack'[s]) = 0 THEN V!First ELSE stack'[s][Len(stack'[s])])
               /\ \A i \in 1..Len(stack'[s]) :
                    /\ stack'[s][i] < ver_next
                    /\ undo_logs_[stack'[s][i]] = V!Pair(IF i - 1 = 0 THEN V!First ELSE stack'[s][i - 1],
                                                       IF i - 1 = 0 THEN V!First ELSE stack'[s][i - 1])
    <3> HIDE DEF r
    <3> QED BY Zenon, <2>5, <2>6
  <2> QED BY <2>1, <2>7, Zenon DEF Chains, VersionAt
<1>6. \/ UNCHANGED <<tuple, stack, undo_logs_, ver_next>> \/ V!AppendUndoLog(t) \/ V!UpdateTuple(t)
  BY <1>1, StepFrame, Zenon DEF Frame
<1> QED BY Zenon, <1>3, <1>4, <1>5, <1>6

(* A link belongs to the tuple's version, but in the slot being written. *)
LEMMA LinksKept ==
  ASSUME V!VersionAssumption, VersionInv, NEW t \in Threads, V!Step(t)
  PROVE  Links'
<1> DEFINE Linked(s) == prev_link_[s] = tuple[s] \/ \E u \in Threads : pc[u] \in Putting /\ rid[u] = s
<1>1. Typed /\ Locked /\ Links /\ Reading(t) /\ Writing(t) BY Zenon DEF VersionInv
<1>2. /\ pc \in [Threads -> Labels]
      /\ rid \in [Threads -> Slots] /\ tuple \in [Slots -> 0..MaxVersions] /\ prev_link_ \in [Slots -> 0..MaxVersions]
  BY Zenon, <1>1 DEF Typed
<1>3. \A u \in Threads \ {t} : pc'[u] = pc[u] /\ rid'[u] = rid[u]
  BY <1>1, StepFrame, Zenon DEF Frame
<1>4. \A s \in Slots : Linked(s)'
  <2> SUFFICES ASSUME NEW s \in Slots PROVE Linked(s)' BY Zenon
  <2>1. Linked(s) BY Zenon, <1>1 DEF Links
  <2>2. CASE V!PutLink(t)
    <3>1. pc[t] = "put_link" /\ tuple' = tuple /\ prev_link_' = [prev_link_ EXCEPT ![rid[t]] = new[t].link]
      BY Zenon, <2>2 DEF V!PutLink, V!LinkAfter
    <3>2. CASE s = rid[t]
      <4>1. new[t].link = new[t].tuple /\ new[t].tuple = tuple[rid[t]]
        BY Zenon, <1>1, <3>1 DEF Writing, V!Matching, Putting
      <4>2. prev_link_'[s] = new[t].link BY <1>2, <3>1, <3>2, Zenon
      <4> QED BY <3>1, <3>2, <4>1, <4>2, Zenon
    <3>3. CASE s # rid[t]
      <4>1. \A u \in Threads : pc[u] \in Putting => u = t
        BY Zenon, <1>1, <3>1 DEF Locked, Putting
      <4>2. prev_link_[s] = tuple[s] BY Zenon, <2>1, <3>3, <4>1
      <4> QED BY Zenon, <1>2, <3>1, <3>3, <4>2
    <3> QED BY Zenon, <3>2, <3>3
  <2>3. CASE V!UpdateTuple(t)
    <3>1. pc[t] = "update" /\ prev_link_' = prev_link_ /\ tuple' = [tuple EXCEPT ![rid[t]] = new[t].tuple]
          /\ rid' = rid /\ pc'[t] = "put_info"
      BY Zenon, <1>2, <2>3 DEF V!UpdateTuple, V!Goto
    <3>2. CASE s = rid[t] BY Zenon, <3>1, <3>2 DEF Putting
    <3>3. CASE s # rid[t] BY Zenon, <1>2, <1>3, <2>1, <3>1, <3>3 DEF Putting, Getting
    <3> QED BY Zenon, <3>2, <3>3
  <2>4. CASE /\ UNCHANGED <<tuple, prev_link_>>
             /\ pc[t] \in Putting => pc'[t] \in Putting /\ rid'[t] = rid[t]
    BY Zenon, <1>3, <2>1, <2>4
  <2>5. \/ V!PutLink(t) \/ V!UpdateTuple(t)
        \/ /\ UNCHANGED <<tuple, prev_link_>>
           /\ pc[t] \in Putting => pc'[t] \in Putting /\ rid'[t] = rid[t]
    BY <1>1, StepFrame, Zenon DEF Frame
  <2> QED BY Zenon, <2>2, <2>3, <2>4, <2>5
<1>5. /\ ~has_info' => \A s \in Slots : prev_link_'[s] = V!NoLink
      /\ \A u \in Threads : pc'[u] \in {"put_lock", "put_link"} => has_info'
  <2>1. (has_info' = has_info \/ has_info') /\ (prev_link_' = prev_link_ \/ has_info)
        /\ (pc'[t] \in {"put_lock", "put_link"} => has_info')
    BY <1>1, StepFrame, Zenon DEF Frame, V!PutLink, Links, Typed
  <2> QED BY <1>1, <1>3, <2>1, SMTT(30) DEF Links
<1>6. \A v \in V!Versions : V!Matching(undo_logs_[v])'
  <2>1. CASE V!AppendUndoLog(t)
    <3>1. undo_logs_ \in [V!Versions -> Pairs] BY Zenon, <1>1 DEF Typed
    <3>2. undo_logs_' = [undo_logs_ EXCEPT ![ver_next] = seen[t]] /\ V!Matching(seen[t])
      BY Zenon, <1>1, <2>1 DEF V!AppendUndoLog, Reading
    <3> QED BY Zenon, <1>1, <3>1, <3>2 DEF Links, V!Matching
  <2>2. UNCHANGED undo_logs_ \/ V!AppendUndoLog(t)
    BY <1>1, StepFrame, Zenon DEF Frame
  <2> QED BY Zenon, <1>1, <2>1, <2>2 DEF Links, V!Matching
<1> QED BY Zenon, <1>4, <1>5, <1>6 DEF Links

(* A step of one thread disturbs nothing another has read or is about to write. *)
LEMMA OthersKept ==
  ASSUME V!VersionAssumption, VersionInv, NEW t \in Threads, V!Step(t), NEW u \in Threads, u # t
  PROVE  Reading(u)' /\ Writing(u)'
<1>1. Typed /\ Locked /\ Reading(u) /\ Writing(u) BY Zenon DEF VersionInv
<1>2. UNCHANGED <<pc[u], rid[u], seen[u], new[u], own[u]>>
  BY <1>1, StepFrame, Zenon DEF Frame
<1>3. CASE UNCHANGED <<tuple, undo_logs_, ver_next>>
  BY <1>1, <1>2, <1>3, Zenon DEF Reading, Writing, V!Matching
<1>4. CASE V!AppendUndoLog(t)
  <2>1. tuple' = tuple /\ ver_next' = ver_next + 1 /\ ver_next \in Nat /\ own[u] \in Nat /\ new[u].tuple \in 0..MaxVersions
    BY <1>1, <1>4 DEF V!AppendUndoLog, Typed, Pairs
  <2>2. \A v \in V!Versions : v # ver_next => undo_logs_'[v] = undo_logs_[v]
    BY Zenon, <1>1, <1>4 DEF V!AppendUndoLog, Typed
  <2>3. Reading(u)' BY <1>1, <1>2, <2>1, Zenon DEF Reading, V!Matching
  <2>4. /\ own[u] < ver_next' /\ own[u] # ver_next
        /\ own[u] # V!First => own[u] \in V!Versions
    <3>1. own[u] < ver_next /\ own[u] \in 0..MaxVersions /\ MaxVersions \in Nat
      BY Zenon, <1>1 DEF Writing, Typed, V!VersionAssumption
    <3> QED BY <3>1, <2>1 DEF V!Versions, V!First
  <2>5. new[u].tuple < ver_next => new[u].tuple < ver_next' /\ new[u].tuple # ver_next BY <2>1
  <2>6. new[u].tuple # V!First => new[u].tuple \in V!Versions BY <2>1 DEF V!First, V!Versions
  <2>7. pc[u] = "update" /\ own[u] = V!First => undo_logs_'[new[u].tuple] = seen[u]
    BY Zenon, <1>1, <2>2, <2>5, <2>6 DEF Writing, Putting
  <2>8. pc[u] = "update" /\ own[u] # V!First => undo_logs_'[own[u]] = new[u]
    BY Zenon, <1>1, <2>2, <2>4 DEF Writing
  <2>9. Writing(u)' BY <1>1, <1>2, <2>1, <2>4, <2>5, <2>7, <2>8, Zenon DEF Writing, V!Matching
  <2> QED BY Zenon, <2>3, <2>9
<1>5. CASE V!UpdateTuple(t)
  <2>1. page_w = V!NoThread /\ page_r = {} /\ UNCHANGED <<undo_logs_, ver_next>>
    BY <1>5, Zenon DEF V!UpdateTuple, V!LockPage
  <2>2. pc[u] \notin Getting /\ pc[u] \notin Putting BY Zenon, <1>1, <2>1 DEF Locked, V!VersionAssumption
  <2> QED BY <1>1, <1>2, <2>1, <2>2, Zenon DEF Reading, Writing, V!Matching
<1>6. \/ UNCHANGED <<tuple, undo_logs_, ver_next>> \/ V!AppendUndoLog(t) \/ V!UpdateTuple(t)
  BY <1>1, StepFrame, Zenon DEF Frame
<1> QED BY Zenon, <1>3, <1>4, <1>5, <1>6

(* What GetTupleAndUndoLink gives belongs together. *)
LEMMA ReadingKept ==
  ASSUME V!VersionAssumption, VersionInv, NEW t \in Threads, V!Step(t)
  PROVE  Reading(t)'
<1>1. Typed /\ Locked /\ Links /\ Reading(t) BY Zenon DEF VersionInv
<1>2. /\ pc \in [Threads -> Labels]
      /\ rid \in [Threads -> Slots] /\ seen \in [Threads -> Pairs]
  BY Zenon, <1>1 DEF Typed
(* while a thread reads, nobody writes the page *)
<1>3. ASSUME pc[t] \in Getting PROVE prev_link_[rid[t]] = tuple[rid[t]]
  <2>1. page_w = V!NoThread BY Zenon, <1>1, <1>3 DEF Locked
  <2>2. \A u \in Threads : pc[u] \notin Putting BY Zenon, <1>1, <2>1 DEF Locked, V!VersionAssumption
  <2> QED BY Zenon, <1>1, <1>2, <2>2 DEF Links
<1>4. ASSUME NEW s \in Slots, V!GetTuple(t, s) PROVE Reading(t)'
  <2>1. pc'[t] = "get_info" /\ rid'[t] = s /\ seen'[t] = V!Pair(tuple[s], V!NoLink) /\ tuple' = tuple
    BY Zenon, <1>2, <1>4 DEF V!GetTuple, V!Goto
  <2> QED BY <2>1 DEF Reading, V!Pair, Getting
<1>5. CASE V!GetNoInfo(t)
  <2>1. pc'[t] = "have" /\ pc[t] = "get_info" /\ ~has_info /\ seen' = seen
    BY Zenon, <1>2, <1>5 DEF V!GetNoInfo, V!Goto
  <2>2. prev_link_[rid[t]] = V!NoLink BY Zenon, <1>1, <1>2, <2>1 DEF Links
  <2>3. seen[t].tuple = tuple[rid[t]] /\ seen[t].link = V!NoLink BY Zenon, <1>1, <2>1 DEF Reading, Getting
  <2>4. V!Matching(seen[t]) BY Zenon, <1>3, <2>1, <2>2, <2>3 DEF Getting, V!Matching
  <2> QED BY Zenon, <2>1, <2>4 DEF Reading, Getting, V!Matching
<1>6. CASE V!GetInfo(t) \/ V!GetLock(t)
  <2>1. pc[t] \in Getting /\ pc'[t] \in {"get_lock", "get_link"} /\ UNCHANGED <<tuple, rid, seen>>
    BY Zenon, <1>2, <1>6 DEF V!GetInfo, V!GetLock, V!Goto, Getting
  <2> QED BY Zenon, <1>1, <2>1 DEF Reading
<1>7. CASE V!GetLink(t)
  <2>1. pc[t] = "get_link" /\ pc'[t] = "have" /\ seen' = [seen EXCEPT ![t].link = prev_link_[rid[t]]]
    BY Zenon, <1>2, <1>7 DEF V!GetLink, V!Goto
  <2>2. seen[t].tuple = tuple[rid[t]] BY Zenon, <1>1, <2>1 DEF Reading, Getting
  <2>3. seen'[t].tuple = seen[t].tuple /\ seen'[t].link = prev_link_[rid[t]] BY <1>2, <2>1
  <2>4. prev_link_[rid[t]] = tuple[rid[t]] BY Zenon, <1>3, <2>1 DEF Getting
  <2>5. seen'[t].link = seen'[t].tuple BY Zenon, <2>2, <2>3, <2>4
  <2> QED BY Zenon, <2>1, <2>5 DEF Reading, Getting, V!Matching
<1>8. CASE pc'[t] \notin Getting \cup {"have"}
  BY Zenon, <1>8 DEF Reading, Getting
<1>9. \/ \E s \in Slots : V!GetTuple(t, s)
      \/ V!GetNoInfo(t) \/ V!GetInfo(t) \/ V!GetLock(t) \/ V!GetLink(t) \/ pc'[t] \notin Getting \cup {"have"}
  BY Zenon, <1>2 DEF V!Step, V!Drop, V!AppendUndoLog, V!Undo, V!Finish, V!UpdateRefused, V!UpdateTuple,
      V!PutInfo, V!PutLock, V!PutLink,
              V!Leave, V!Goto, Getting
<1> QED BY Zenon, <1>4, <1>5, <1>6, <1>7, <1>8, <1>9

(* What a thread installs is the version it made, or the one its own replaced. *)
LEMMA WritingKept ==
  ASSUME V!VersionAssumption, VersionInv, NEW t \in Threads, V!Step(t)
  PROVE  Writing(t)'
<1>1. Typed /\ Links /\ Reading(t) /\ Writing(t) BY Zenon DEF VersionInv
<1>2. /\ pc \in [Threads -> Labels]
      /\ rid \in [Threads -> Slots] /\ seen \in [Threads -> Pairs] /\ new \in [Threads -> Pairs]
      /\ own \in [Threads -> 0..MaxVersions] /\ ver_next \in 1..(MaxVersions + 1) /\ MaxVersions \in Nat
      /\ tuple \in [Slots -> 0..MaxVersions] /\ undo_logs_ \in [V!Versions -> Pairs]
  BY Zenon, <1>1 DEF Typed, V!VersionAssumption
<1>3. CASE /\ UNCHANGED <<own, ver_next>>
           /\ pc[t] \in Getting \cup {"idle", "have"} /\ pc'[t] \in Getting \cup {"idle", "have"}
  BY <1>1, <1>3, Zenon DEF Writing, Getting, Putting
<1>4. CASE V!AppendUndoLog(t)
  <2>1. pc[t] = "have" /\ pc'[t] = "update" /\ UNCHANGED <<own, seen>>
    BY Zenon, <1>2, <1>4 DEF V!AppendUndoLog, V!Goto
  <2>2. ver_next \in V!Versions /\ ver_next' = ver_next + 1
    BY <1>2, <1>4 DEF V!AppendUndoLog, V!Versions
  <2>3. undo_logs_'[ver_next] = seen[t] BY Zenon, <1>2, <1>4, <2>2 DEF V!AppendUndoLog
  <2>4. new'[t] = V!Pair(ver_next, ver_next) BY Zenon, <1>2, <1>4 DEF V!AppendUndoLog
  <2>5. new'[t].tuple = ver_next /\ new'[t].link = ver_next BY <2>4 DEF V!Pair
  <2>6. own[t] = V!First /\ V!Matching(seen[t]) BY <1>1, <2>1, Zenon DEF Writing, Reading
  <2>7. ver_next \in Nat /\ ver_next # 0 BY <2>2 DEF V!Versions
  <2>8. ver_next # V!First /\ ver_next < ver_next' /\ V!First < ver_next' BY <2>2, <2>7 DEF V!First
  <2> QED BY <2>1, <2>3, <2>5, <2>6, <2>8, Zenon DEF Writing, V!Matching, Getting, Putting
<1>5. CASE V!Undo(t)
  <2>1. /\ pc[t] = "installed" /\ own[t] # V!First /\ pc'[t] = "update" /\ UNCHANGED <<own, ver_next, undo_logs_>>
        /\ new'[t] = undo_logs_[own[t]] /\ seen'[t] = V!Pair(own[t], own[t])
    BY Zenon, <1>2, <1>5 DEF V!Undo, V!Goto, V!GetUndoLog
  <2>2. own[t] \in V!Versions BY <1>2, <2>1, SMTT(30) DEF V!First, V!Versions
  <2>3. V!Matching(undo_logs_[own[t]]) BY Zenon, <1>1, <2>2 DEF Links
  <2>4. seen'[t].tuple = own[t] BY <2>1 DEF V!Pair
  <2>5. own[t] < ver_next BY Zenon, <1>1 DEF Writing
  <2> QED BY Zenon, <2>1, <2>3, <2>4, <2>5 DEF Writing, V!Matching, Getting, Putting
<1>6. CASE V!Leave(t) /\ UNCHANGED ver_next
  <2>1. pc'[t] = "idle" /\ own'[t] = V!First BY Zenon, <1>2, <1>6 DEF V!Leave, V!Goto
  <2>2. V!First < ver_next BY <1>2 DEF V!First
  <2> QED BY Zenon, <1>6, <2>1, <2>2 DEF Writing, Getting, Putting
<1>7. CASE V!UpdateTuple(t)
  <2>1. /\ pc[t] = "update" /\ pc'[t] = "put_info" /\ UNCHANGED <<own, ver_next, new, rid>>
        /\ tuple'[rid[t]] = new[t].tuple
    BY Zenon, <1>2, <1>7 DEF V!UpdateTuple, V!Goto
  <2> QED BY <1>1, <2>1, Zenon DEF Writing, V!Matching, Getting, Putting
<1>8. CASE V!PutInfo(t) \/ V!PutLock(t)
  <2>1. pc[t] \in Putting /\ pc'[t] \in Putting /\ UNCHANGED <<own, ver_next, new, rid, tuple>>
    BY Zenon, <1>2, <1>8 DEF V!PutInfo, V!PutLock, V!Goto, Putting
  <2> QED BY <1>1, <2>1, Zenon DEF Writing, V!Matching, Getting, Putting
<1>9. CASE V!PutLink(t) /\ ~V!Undoing(t)
  <2>1. pc[t] = "put_link" /\ own[t] = V!First /\ pc'[t] = "installed" /\ own'[t] = new[t].tuple /\ ver_next' = ver_next
    BY Zenon, <1>2, <1>9 DEF V!PutLink, V!Goto, V!Undoing
  <2>2. new[t].tuple # V!First /\ new[t].tuple < ver_next BY <1>1, <2>1, Zenon DEF Writing, Putting
  <2> QED BY <2>1, <2>2, Zenon DEF Writing, Getting, Putting
<1>10. \/ /\ UNCHANGED <<own, ver_next>>
          /\ pc[t] \in Getting \cup {"idle", "have"} /\ pc'[t] \in Getting \cup {"idle", "have"}
       \/ V!AppendUndoLog(t) \/ V!Undo(t) \/ (V!Leave(t) /\ UNCHANGED ver_next) \/ V!UpdateTuple(t)
       \/ V!PutInfo(t) \/ V!PutLock(t) \/ (V!PutLink(t) /\ ~V!Undoing(t))
  BY Zenon, <1>2 DEF V!Step, V!GetTuple, V!GetNoInfo, V!GetInfo, V!GetLock, V!GetLink, V!Drop, V!Finish,
      V!UpdateRefused, V!PutLink, V!Goto, Getting
<1> QED BY <1>3, <1>4, <1>5, <1>6, <1>7, <1>8, <1>9, <1>10, Zenon

(* The chains of a page's tuples stay whole. *)
LEMMA VersionsKept ==
  ASSUME V!VersionAssumption
  PROVE  VersionInv /\ [V!Next]_(V!vars) => VersionInv'
<1> SUFFICES ASSUME VersionInv, [V!Next]_(V!vars) PROVE VersionInv' BY Zenon
<1>1. ASSUME NEW t \in Threads, V!Step(t) PROVE VersionInv'
  <2>1. \A u \in Threads : Reading(u)' /\ Writing(u)' BY Zenon, <1>1, OthersKept, ReadingKept, WritingKept
  <2> QED BY Zenon, <1>1, <2>1, TypedKept, LockedKept, ChainsKept, LinksKept DEF VersionInv
<1>2. CASE UNCHANGED V!vars
  <2> USE <1>2 DEF V!vars, V!locks, VersionInv
  <2>1. Typed' /\ Locked' BY Zenon DEF Typed, Locked
  <2>2. Chains' BY Zenon DEF Chains, VersionAt
  <2>3. Links' BY Zenon DEF Links, V!Matching
  <2>4. \A t \in Threads : Reading(t)' /\ Writing(t)' BY Zenon DEF Reading, Writing, V!Matching
  <2> QED BY Zenon, <2>1, <2>2, <2>3, <2>4
<1> QED BY Zenon, <1>1, <1>2 DEF V!Next

(* Before any version is made. *)
LEMMA VersionsStart ==
  ASSUME V!VersionAssumption
  PROVE  V!Init => VersionInv
<1> SUFFICES ASSUME V!Init PROVE VersionInv BY Zenon
<1>1. MaxVersions \in Nat /\ (CHOOSE s \in Slots : TRUE) \in Slots /\ V!NoPair \in Pairs /\ V!NoThread \notin Threads
  BY Zenon, Anywhere DEF V!VersionAssumption
<1>2. Typed
  <2>1. undo_logs_ \in [V!Versions -> Pairs] /\ seen \in [Threads -> Pairs] /\ new \in [Threads -> Pairs]
    BY Zenon, <1>1 DEF V!Init
  <2>2. stack \in [Slots -> Seq(V!Versions)] BY DEF V!Init
  <2>3. rid \in [Threads -> Slots]
    <3> DEFINE anywhere == CHOOSE s \in Slots : TRUE
    <3>1. rid = [t \in Threads |-> anywhere] /\ anywhere \in Slots BY Zenon, <1>1 DEF V!Init
    <3> HIDE DEF anywhere
    <3> QED BY Zenon, <3>1
  <2>4. /\ tuple \in [Slots -> 0..MaxVersions] /\ prev_link_ \in [Slots -> 0..MaxVersions]
        /\ has_info \in BOOLEAN /\ ver_next \in 1..(MaxVersions + 1) /\ own \in [Threads -> 0..MaxVersions]
        /\ pc \in [Threads -> Labels]
    <3>1. 0 \in 0..MaxVersions /\ 1 \in 1..(MaxVersions + 1) BY <1>1
    <3>2. "idle" \in Labels BY Zenon DEF Labels
    <3> QED BY <3>1, <3>2, Zenon DEF V!Init, V!First, V!NoLink
  <2> QED BY Zenon, <2>1, <2>2, <2>3, <2>4 DEF Typed
<1>3. Locked BY Zenon, <1>1 DEF V!Init, Locked, Getting, Putting
<1>4. Chains
  <2>1. \A s \in Slots : Len(stack[s]) = 0 /\ tuple[s] = V!First BY Zenon DEF V!Init
  <2>2. 1..0 = {} OBVIOUS
  <2> QED BY <2>1, <2>2, Zenon DEF Chains, VersionAt
<1>5. Links
  <2>1. V!Matching(V!NoPair) BY Zenon DEF V!Matching, V!NoPair, V!Pair, V!First, V!NoLink
  <2> QED BY Zenon, <2>1 DEF V!Init, Links, V!First, V!NoLink
<1>6. \A t \in Threads : Reading(t) /\ Writing(t)
  BY DEF V!Init, Reading, Writing, Getting, Putting, V!First
<1> QED BY Zenon, <1>2, <1>3, <1>4, <1>5, <1>6 DEF VersionInv

(***************************************************************************)
(* GetTupleAndUndoLink never returns the tuple of one version with the     *)
(* link of another, whatever the number of threads, slots and versions:    *)
(* the page latch it holds across both reads keeps UpdateTupleAndUndoLink  *)
(* out until both are done.                                                *)
(***************************************************************************)
THEOREM ReadsStayAtomic ==
  ASSUME V!VersionAssumption
  PROVE  V!Spec => []V!ReadsAtomic
<1>1. VersionInv => V!ReadsAtomic BY Zenon DEF VersionInv, Reading, V!ReadsAtomic
<1> QED BY <1>1, VersionsStart, VersionsKept, PTL DEF V!Spec

(***************************************************************************)
(* UpdateTupleAndUndoLink loses no version: whenever no update is on, the  *)
(* undo logs behind a tuple's link are the versions installed and not put  *)
(* back, newest first.  The check under the page latch is what carries it. *)
(***************************************************************************)
THEOREM ChainsStayComplete ==
  ASSUME V!VersionAssumption
  PROVE  V!Spec => []V!ChainComplete
<1>1. VersionInv => V!ChainComplete
  <2> SUFFICES ASSUME VersionInv, page_w = V!NoThread PROVE V!ChainComplete BY Zenon DEF V!ChainComplete
  <2>1. \A t \in Threads : pc[t] \notin Putting BY Zenon DEF VersionInv, Locked, V!VersionAssumption
  <2>2. \A s \in Slots : prev_link_[s] = tuple[s] BY Zenon, <2>1 DEF VersionInv, Links
  <2> QED BY <2>2 DEF VersionInv, Chains, VersionAt, V!ChainComplete
<1> QED BY <1>1, VersionsStart, VersionsKept, PTL DEF V!Spec

(***************************************************************************)
(* The latches of the page, of version_info_ and of PageVersionInfo are    *)
(* held by exactly the threads inside the parts of the code they guard.    *)
(***************************************************************************)
THEOREM LatchesGuard ==
  ASSUME V!VersionAssumption
  PROVE  V!Spec => []V!TypeOK
<1>1. VersionInv => V!TypeOK BY Zenon DEF VersionInv, Typed, Locked, V!TypeOK, Getting, Putting, Pairs
<1> QED BY <1>1, VersionsStart, VersionsKept, PTL DEF V!Spec
=============================================================================
