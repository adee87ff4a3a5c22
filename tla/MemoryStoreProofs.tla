------------------------- MODULE MemoryStoreProofs -------------------------
(* Proofs about the memory store, for any number of topics, texts, keys,      *)
(* operations, rows, writes and dreams.                                       *)
(*                                                                            *)
(* What makes the newest text the shown one is that the writer of a text      *)
(* always takes the key and lets go of any other (Taken): a row loses the     *)
(* pointer only to a row written after it.  Every other action leaves keys,   *)
(* pointers and stamps alone (Keeps), whatever it does to the status.         *)
EXTENDS MemoryStore, SequenceTheorems, TLAPS

ByNames == {"save", "approve", "govern", "sweep", "archive", "restore", "dream",
            "review"}

StampsSoFar == \A m \in Ids : rows[m].stamp <= writes

\* NewestTextIsShown, for rows of any status: a row that is hidden and inactive
\* may be restored.
NewestWins ==
    \A m \in Ids :
        ~ Shown(m) => rows[current[rows[m].key]].stamp > rows[m].stamp

\* The marker stands from the console's archive to the next change of status or
\* text, whatever is acknowledged in between.
MarkerMeansArchive ==
    \A m \in Ids : rows[m].marker # NoOp
                     => rows[m].status = "archived" /\ rows[m].by = "archive"

StoreInv ==
    TypeOK /\ PointerOwnsKey /\ StampsSoFar /\ NewestWins /\ MarkerMeansArchive

------------------------------------------------------------------------------
(* Rows.                                                                      *)

LEMMA FreshRow ==
    ASSUME TypeOK, Can, NEW t \in Topics, NEW x \in Texts, NEW by \in ByNames
    PROVE  /\ Fresh(t, x, by) \in Row
           /\ Fresh(t, x, by).key = KeyOf[t][x]
           /\ Fresh(t, x, by).stamp = writes + 1
           /\ Fresh(t, x, by).marker = NoOp
           /\ Fresh(t, x, by).by = by
           /\ Fresh(t, x, by).status = "active"
           /\ KeyOf[t][x] \in Keys \cup {NoKey}
BY KeyAssumption, BoundAssumption
   DEF TypeOK, Can, Fresh, Row, ByNames, Status

LEMMA RewrittenRow ==
    ASSUME StoreInv, Can, NEW m \in Ids, NEW t \in Topics, NEW x \in Texts,
           NEW by \in ByNames
    PROVE  /\ Rewritten(m, t, x, by) \in Row
           /\ Rewritten(m, t, x, by).key = KeyOf[t][x]
           /\ Rewritten(m, t, x, by).stamp = writes + 1
           /\ Rewritten(m, t, x, by).marker = NoOp
           /\ Rewritten(m, t, x, by).by = by
           /\ Rewritten(m, t, x, by).status = "active"
<1>1. rows[m] \in Row
  BY DEF StoreInv, TypeOK, Ids
<1>2. Marked(rows[m], "active") = NoOp
  BY DEF StoreInv, MarkerMeansArchive, Marked
<1>3. TypeOK
  BY DEF StoreInv
<1>4. Fresh(t, x, by) \in Row
  BY <1>3, FreshRow
<1>5. Rewritten(m, t, x, by) = Fresh(t, x, by)
  BY <1>2 DEF Rewritten, Fresh
<1> QED
  BY <1>3, <1>5, FreshRow

LEMMA TouchedRow ==
    ASSUME StoreInv, Can, NEW m \in Ids
    PROVE  /\ Touched(m) \in Row
           /\ Touched(m).key = rows[m].key
           /\ Touched(m).stamp = rows[m].stamp
           /\ Touched(m).by = rows[m].by
           /\ Touched(m).status = rows[m].status
           /\ Touched(m).marker = rows[m].marker
<1>1. rows[m] \in Row
  BY DEF StoreInv, TypeOK, Ids
<1>2. writes + 1 \in 1..MaxWrites
  BY BoundAssumption DEF StoreInv, TypeOK, Can
<1> QED
  BY <1>1, <1>2 DEF Touched, Row

LEMMA RestatedRow ==
    ASSUME StoreInv, Can, NEW m \in Ids, NEW status \in Status,
           NEW by \in ByNames
    PROVE  /\ Restated(m, status, by) \in Row
           /\ Restated(m, status, by).key = rows[m].key
           /\ Restated(m, status, by).stamp = rows[m].stamp
           /\ Restated(m, status, by).by = by
           /\ Restated(m, status, by).status = status
           /\ (status # "archived" \/ rows[m].status # "archived")
                => Restated(m, status, by).marker = NoOp
<1>1. rows[m] \in Row /\ Touched(m) \in Row
  BY TouchedRow DEF StoreInv, TypeOK, Ids
<1>2. Marked(rows[m], status) \in WebOps \cup {NoOp}
  BY <1>1 DEF Marked, Row
<1>3. (status # "archived" \/ rows[m].status # "archived")
        => Marked(rows[m], status) = NoOp
  BY DEF StoreInv, MarkerMeansArchive, Marked
<1>4. Touched(m).key = rows[m].key /\ Touched(m).stamp = rows[m].stamp
  BY TouchedRow
<1> QED
  BY <1>1, <1>2, <1>3, <1>4 DEF Restated, Row, ByNames

------------------------------------------------------------------------------
(* The two ways rows and keys change together.                                *)

\* rs is rows with at most n written anew, and everything else in its place.
Keeps(rs, n) ==
    /\ rs \in Seq(Row)
    /\ Len(rs) = Len(rows) \/ (n = Len(rows) + 1 /\ Len(rs) = n)
    /\ \A m \in Ids : m # n => /\ rs[m].key = rows[m].key
                               /\ rs[m].stamp = rows[m].stamp

\* The row n has the key k and no other.
Taken(k, n) ==
    [j \in Keys |-> IF j = k THEN n ELSE IF current[j] = n THEN 0 ELSE current[j]]

\* Every row is as before or has a marker that says the truth.
MarksTrue(rs) ==
    \A m \in DOMAIN rs :
        \/ m \in Ids /\ rs[m] = rows[m]
        \/ rs[m].marker # NoOp
             => rs[m].status = "archived" /\ rs[m].by = "archive"

LEMMA RestatingStep ==
    ASSUME StoreInv, NEW rs, Keeps(rs, 0), MarksTrue(rs), Write(rs, current)
    PROVE  /\ rows' \in Seq(Row) /\ Len(rows') <= MaxRows
           /\ current' \in [Keys -> 0..Len(rows')] /\ writes' \in 0..MaxWrites
           /\ PointerOwnsKey' /\ StampsSoFar' /\ NewestWins'
           /\ MarkerMeansArchive'
<1> DEFINE L == Len(rows)
<1>1. /\ rows' = rs /\ current' = current /\ writes' = writes + 1
      /\ Len(rs) <= MaxRows /\ Can
  BY DEF Write
<1>2. /\ rs \in Seq(Row) /\ rows \in Seq(Row) /\ L \in Nat
      /\ current \in [Keys -> 0..L] /\ writes \in 0..MaxWrites
  BY DEF Keeps, StoreInv, TypeOK
<1>3. Len(rs) = L
  BY <1>2 DEF Keeps
<1>4. Ids' = Ids /\ DOMAIN rs = Ids /\ Ids = 1..L
  BY <1>1, <1>2, <1>3 DEF Ids
<1>5. \A m \in Ids : /\ rs[m].key = rows[m].key
                     /\ rs[m].stamp = rows[m].stamp
                     /\ rows[m] \in Row
  BY <1>2, <1>4 DEF Keeps
<1>6. PointerOwnsKey'
  BY <1>1, <1>2, <1>4, <1>5 DEF PointerOwnsKey, StoreInv
<1>7. StampsSoFar'
  <2>1. \A m \in Ids : rows[m].stamp \in Nat /\ rows[m].stamp <= writes
    BY <1>5 DEF StoreInv, StampsSoFar, Row
  <2> QED
    BY <2>1, <1>1, <1>2, <1>4, <1>5 DEF StampsSoFar
<1>8. NewestWins'
  <2> SUFFICES ASSUME NEW m \in Ids, ~ Shown(m)'
               PROVE  (rows[current[rows[m].key]].stamp > rows[m].stamp)'
    BY <1>4 DEF NewestWins
  <2>1. ~ Shown(m)
    BY <1>1, <1>5 DEF Shown
  <2>2. rows[m].key \in Keys /\ current[rows[m].key] # 0
    BY <2>1, <1>5 DEF Shown, Row
  <2>3. current[rows[m].key] \in Ids
    BY <2>2, <1>2, <1>4
  <2>4. rows[current[rows[m].key]].stamp > rows[m].stamp
    BY <2>1 DEF NewestWins, StoreInv
  <2>5. rs[current[rows[m].key]].stamp > rs[m].stamp
    BY <2>3, <2>4, <1>5
  <2> QED
    BY <2>5, <1>1, <1>5
<1>9. MarkerMeansArchive'
  BY <1>1, <1>4 DEF MarkerMeansArchive, MarksTrue, StoreInv
<1>10. current \in [Keys -> 0..Len(rs)]
  BY <1>2, <1>3
<1> QED
  BY <1>1, <1>2, <1>6, <1>7, <1>8, <1>9, <1>10, BoundAssumption DEF Can

LEMMA WritingStep ==
    ASSUME StoreInv, NEW rs, NEW n, NEW k \in Keys \cup {NoKey},
           Keeps(rs, n), MarksTrue(rs), n \in DOMAIN rs,
           rs[n].key = k, rs[n].stamp = writes + 1, Write(rs, Taken(k, n))
    PROVE  /\ rows' \in Seq(Row) /\ Len(rows') <= MaxRows
           /\ current' \in [Keys -> 0..Len(rows')] /\ writes' \in 0..MaxWrites
           /\ PointerOwnsKey' /\ StampsSoFar' /\ NewestWins'
           /\ MarkerMeansArchive'
<1> DEFINE L == Len(rows)
<1>1. /\ rows' = rs /\ current' = Taken(k, n) /\ writes' = writes + 1
      /\ Len(rs) <= MaxRows /\ Can
  BY DEF Write
<1>2. /\ rs \in Seq(Row) /\ rows \in Seq(Row) /\ L \in Nat
      /\ current \in [Keys -> 0..L] /\ writes \in 0..MaxWrites
  BY DEF Keeps, StoreInv, TypeOK
<1>3. DOMAIN rs = 1..Len(rs) /\ Len(rs) \in Nat /\ Ids = 1..L
  BY <1>2 DEF Ids
<1>4. L <= Len(rs)
  BY <1>2 DEF Keeps
<1>5. Ids' = DOMAIN rs /\ Ids \subseteq DOMAIN rs /\ DOMAIN rs \subseteq Ids \cup {n}
  BY <1>1, <1>2, <1>3, <1>4 DEF Ids, Keeps
<1>6. \A m \in Ids : m # n => /\ rs[m].key = rows[m].key
                              /\ rs[m].stamp = rows[m].stamp
  BY DEF Keeps
<1>7. \A m \in Ids : rows[m] \in Row
  BY <1>2, <1>3
<1>8. \A m \in DOMAIN rs : rs[m] \in Row
  BY <1>2, <1>3
<1>9. \A m \in Ids : rows[m].stamp \in Nat /\ rows[m].stamp <= writes
  BY <1>7 DEF StoreInv, StampsSoFar, Row
<1>10. n \in 1..Len(rs) /\ n # 0
  BY <1>3
<1>11. Taken(k, n) \in [Keys -> 0..Len(rs)]
  BY <1>2, <1>3, <1>4, <1>10 DEF Taken
<1>12. PointerOwnsKey'
  <2> SUFFICES ASSUME NEW j \in Keys, Taken(k, n)[j] # 0
               PROVE  rs[Taken(k, n)[j]].key = j
    BY <1>1 DEF PointerOwnsKey
  <2>1. CASE j = k
    BY <2>1 DEF Taken
  <2>2. CASE j # k
    <3>1. Taken(k, n)[j] = current[j] /\ current[j] # n /\ current[j] # 0
      BY <2>2, <1>10 DEF Taken
    <3>2. current[j] \in Ids /\ rows[current[j]].key = j
      BY <3>1, <1>2, <1>3 DEF StoreInv, PointerOwnsKey
    <3> QED
      BY <3>1, <3>2, <1>6
  <2> QED
    BY <2>1, <2>2
<1>13. StampsSoFar'
  <2> SUFFICES ASSUME NEW m \in DOMAIN rs
               PROVE  rs[m].stamp <= writes + 1
    BY <1>1, <1>5 DEF StampsSoFar
  <2>1. CASE m = n
    BY <2>1, <1>2
  <2>2. CASE m # n
    BY <2>2, <1>2, <1>5, <1>6, <1>9
  <2> QED
    BY <2>1, <2>2
<1>14. NewestWins'
  <2> DEFINE cur == Taken(k, n)
  <2> SUFFICES ASSUME NEW m \in DOMAIN rs, rs[m].key # NoKey,
                      cur[rs[m].key] # 0, cur[rs[m].key] # m
               PROVE  rs[cur[rs[m].key]].stamp > rs[m].stamp
    BY <1>1, <1>5 DEF NewestWins, Shown
  <2>1. rs[m].key \in Keys
    BY <1>8 DEF Row
  <2>2. m # n
    BY <2>1 DEF Taken
  <2>3. m \in Ids /\ rs[m].key = rows[m].key /\ rs[m].stamp = rows[m].stamp
    BY <2>2, <1>5, <1>6
  <2>4. CASE rs[m].key = k
    <3>1. cur[rs[m].key] = n
      BY <2>4, <2>1 DEF Taken
    <3> QED
      BY <3>1, <2>3, <1>9, <1>2
  <2>5. CASE rs[m].key # k
    <3>1. /\ cur[rs[m].key] = current[rows[m].key]
          /\ current[rows[m].key] # n
      BY <2>5, <2>1, <2>3 DEF Taken
    <3>2. current[rows[m].key] \in Ids
      BY <3>1, <2>1, <2>3, <1>2, <1>3
    <3>3. ~ Shown(m)
      BY <3>1, <2>3 DEF Shown
    <3>4. rows[current[rows[m].key]].stamp > rows[m].stamp
      BY <3>3, <2>3 DEF StoreInv, NewestWins
    <3> QED
      BY <3>1, <3>2, <3>4, <2>3, <1>6
  <2> QED
    BY <2>4, <2>5
<1>15. MarkerMeansArchive'
  BY <1>1, <1>5 DEF MarkerMeansArchive, MarksTrue, StoreInv
<1> QED
  BY <1>1, <1>2, <1>11, <1>12, <1>13, <1>14, <1>15, BoundAssumption DEF Can

------------------------------------------------------------------------------
(* What the operators that build the new rows return.                         *)

LEMMA ExceptShape ==
    ASSUME StoreInv, NEW m \in Ids, NEW r \in Row
    PROVE  /\ [rows EXCEPT ![m] = r] \in Seq(Row)
           /\ Len([rows EXCEPT ![m] = r]) = Len(rows)
           /\ DOMAIN [rows EXCEPT ![m] = r] = Ids
           /\ [rows EXCEPT ![m] = r][m] = r
           /\ \A i \in Ids \ {m} : [rows EXCEPT ![m] = r][i] = rows[i]
<1>1. rows \in Seq(Row) /\ Len(rows) \in Nat /\ DOMAIN rows = Ids
  BY DEF StoreInv, TypeOK, Ids
<1>2. [rows EXCEPT ![m] = r] \in Seq(Row)
      /\ Len([rows EXCEPT ![m] = r]) = Len(rows)
  BY <1>1, ExceptSeq DEF Ids
<1> QED
  BY <1>1, <1>2

LEMMA AppendShape ==
    ASSUME NEW rs \in Seq(Row), NEW r \in Row
    PROVE  /\ Append(rs, r) \in Seq(Row)
           /\ Len(Append(rs, r)) = Len(rs) + 1
           /\ DOMAIN Append(rs, r) = 1..(Len(rs) + 1)
           /\ Append(rs, r)[Len(rs) + 1] = r
           /\ \A i \in 1..Len(rs) : Append(rs, r)[i] = rs[i]
OBVIOUS

\* new is rs with the rows of S turned stale, their keys and stamps as in rows.
Staled(new, rs, S, by) ==
    /\ new \in Seq(Row)
    /\ Len(new) = Len(rs)
    /\ DOMAIN new = DOMAIN rs
    /\ \A i \in DOMAIN rs \ S : new[i] = rs[i]
    /\ \A i \in S : /\ new[i].key = rows[i].key
                   /\ new[i].stamp = rows[i].stamp
                   /\ new[i].marker = NoOp
                   /\ new[i].by = by
                   /\ new[i].status = "stale"

LEMMA SupersededShape ==
    ASSUME StoreInv, Can, NEW rs \in Seq(Row), Len(rows) <= Len(rs),
           NEW S \in SUBSET Ids, NEW by \in ByNames
    PROVE  Staled(Superseded(rs, S, by), rs, S, by)
<1>1. Len(rs) \in Nat /\ DOMAIN rs = 1..Len(rs) /\ Len(rows) \in Nat
  BY DEF StoreInv, TypeOK
<1>2. S \subseteq DOMAIN rs
  BY <1>1 DEF Ids
<1>3. \A i \in S : /\ Restated(i, "stale", by) \in Row
                  /\ Restated(i, "stale", by).key = rows[i].key
                  /\ Restated(i, "stale", by).stamp = rows[i].stamp
                  /\ Restated(i, "stale", by).marker = NoOp
                  /\ Restated(i, "stale", by).by = by
                  /\ Restated(i, "stale", by).status = "stale"
  BY RestatedRow DEF Status
<1>4. \A i \in DOMAIN rs : rs[i] \in Row
  BY <1>1
<1>5. Superseded(rs, S, by) \in [1..Len(rs) -> Row]
  BY <1>1, <1>3, <1>4 DEF Superseded
<1>6. Superseded(rs, S, by) \in Seq(Row) /\ Len(Superseded(rs, S, by)) = Len(rs)
  BY <1>1, <1>5
<1>7. /\ DOMAIN Superseded(rs, S, by) = DOMAIN rs
      /\ \A i \in DOMAIN rs \ S : Superseded(rs, S, by)[i] = rs[i]
      /\ \A i \in S : Superseded(rs, S, by)[i] = Restated(i, "stale", by)
  BY <1>2 DEF Superseded
<1> QED
  BY <1>3, <1>6, <1>7 DEF Staled

\* The id of the row an upsert writes.
Target(m) == IF m # 0 THEN m ELSE Len(rows) + 1

\* rs is rows with n, one of them or the next, written anew.
Wrote(rs, n, k, by) ==
    /\ rs \in Seq(Row)
    /\ n \in DOMAIN rs
    /\ DOMAIN rs = Ids \cup {n}
    /\ Len(rows) <= Len(rs)
    /\ Len(rs) = Len(rows) \/ (n = Len(rows) + 1 /\ Len(rs) = n)
    /\ rs[n].key = k
    /\ rs[n].stamp = writes + 1
    /\ rs[n].marker = NoOp
    /\ rs[n].by = by
    /\ \A i \in Ids \ {n} : rs[i] = rows[i]

LEMMA UpsertShape ==
    ASSUME StoreInv, Can, NEW m \in Ids \cup {0}, NEW t \in Topics,
           NEW x \in Texts, NEW by \in ByNames
    PROVE  Wrote(Upsert(m, t, x, by), Target(m), KeyOf[t][x], by)
<1> DEFINE n == Target(m)
<1>1. /\ rows \in Seq(Row) /\ Len(rows) \in Nat /\ Ids = 1..Len(rows)
      /\ current \in [Keys -> 0..Len(rows)]
  BY DEF StoreInv, TypeOK, Ids
<1>2. TypeOK
  BY DEF StoreInv
<1>4. CASE m # 0
  <2>1. m \in Ids /\ n = m
    BY <1>4 DEF Target
  <2>2. /\ Rewritten(m, t, x, by) \in Row
        /\ Rewritten(m, t, x, by).key = KeyOf[t][x]
        /\ Rewritten(m, t, x, by).stamp = writes + 1
        /\ Rewritten(m, t, x, by).marker = NoOp
        /\ Rewritten(m, t, x, by).by = by
    BY <2>1, RewrittenRow
  <2>3. Upsert(m, t, x, by) = [rows EXCEPT ![m] = Rewritten(m, t, x, by)]
    BY <1>4 DEF Upsert
  <2>5. /\ Upsert(m, t, x, by) \in Seq(Row)
        /\ Len(Upsert(m, t, x, by)) = Len(rows)
        /\ DOMAIN Upsert(m, t, x, by) = Ids
        /\ Upsert(m, t, x, by)[m] = Rewritten(m, t, x, by)
        /\ \A i \in Ids \ {m} : Upsert(m, t, x, by)[i] = rows[i]
    BY ONLY StoreInv, <2>1, <2>2, <2>3, ExceptShape
  <2>6. Ids = Ids \cup {n}
    BY <2>1
  <2> QED
    BY <2>1, <2>2, <2>5, <2>6, <1>1 DEF Wrote
<1>5. CASE m = 0
  <2>1. n = Len(rows) + 1
    BY <1>5 DEF Target
  <2>2. Upsert(m, t, x, by) = Append(rows, Fresh(t, x, by))
    BY <1>5 DEF Upsert
  <2>4. /\ Fresh(t, x, by) \in Row
        /\ Fresh(t, x, by).key = KeyOf[t][x]
        /\ Fresh(t, x, by).stamp = writes + 1
        /\ Fresh(t, x, by).marker = NoOp
        /\ Fresh(t, x, by).by = by
    BY <1>2, FreshRow
  <2> QED
    <3>1. /\ Upsert(m, t, x, by) \in Seq(Row)
          /\ Len(Upsert(m, t, x, by)) = n
          /\ DOMAIN Upsert(m, t, x, by) = 1..n
          /\ Upsert(m, t, x, by)[n] = Fresh(t, x, by)
          /\ \A i \in Ids : Upsert(m, t, x, by)[i] = rows[i]
      BY <2>1, <2>2, <2>4, <1>1, AppendShape
    <3>2. 1..n = Ids \cup {n} /\ n \in 1..n /\ Len(rows) <= n
      BY <2>1, <1>1
    <3> QED
      BY <2>1, <2>4, <3>1, <3>2 DEF Wrote
<1> QED
  BY <1>4, <1>5

LEMMA UpsertTakes ==
    ASSUME StoreInv, NEW m \in Ids \cup {0}, NEW t \in Topics, NEW x \in Texts
    PROVE  UpsertLinks(m, t, x) = Taken(KeyOf[t][x], Target(m))
<1> DEFINE n == Target(m)
           k == KeyOf[t][x]
<1>1. /\ Len(rows) \in Nat /\ Ids = 1..Len(rows)
      /\ current \in [Keys -> 0..Len(rows)]
  BY DEF StoreInv, TypeOK, Ids
<1>2. NoKey \notin Keys /\ k \in Keys \cup {NoKey}
  BY KeyAssumption
<1>3. CASE m # 0
  <2>1. n = m
    BY <1>3 DEF Target
  <2>2. UpsertLinks(m, t, x) = Cleared(Attached(k, m), m, k)
    BY <1>3 DEF UpsertLinks
  <2>3. \A j \in Keys : Attached(k, m)[j] = IF j = k THEN m ELSE current[j]
    BY <1>1, <1>2 DEF Attached
  <2>4. Cleared(Attached(k, m), m, k) = Taken(k, n)
    BY <2>1, <2>3 DEF Cleared, Taken
  <2> QED
    BY <2>2, <2>4
<1>4. CASE m = 0
  <2>1. n = Len(rows) + 1
    BY <1>4 DEF Target
  <2>2. UpsertLinks(m, t, x) = Attached(k, n)
    BY <1>4, <2>1 DEF UpsertLinks
  <2>3. \A j \in Keys : current[j] # n
    BY <1>1, <2>1
  <2>4. Attached(k, n) = Taken(k, n)
    BY <1>1, <1>2, <2>3 DEF Attached, Taken
  <2> QED
    BY <2>2, <2>4
<1> QED
  BY <1>3, <1>4

LEMMA MatchRange ==
    ASSUME StoreInv, NEW t \in Topics, NEW x \in Texts
    PROVE  Match(t, x) \subseteq Ids \cup {0}
BY DEF Match, ByTopic, Active

------------------------------------------------------------------------------
(* The properties of a single step.                                           *)

RestOK ==
    /\ ledger \in [WebOps -> [id : 0..MaxRows,
                              action : {"none", "archive", "restore"}]]
    /\ \A c \in dreams \cup proposals : c \subseteq Snapshots
    /\ now \in 0..MaxNow

MergeStep ==
    \A m \in Ids :
        Changes(m) /\ rows'[m].by \in {"dream", "review"}
          => \E c \in dreams \cup proposals : Seen(m) \in c

RestoreStep ==
    \A m \in Ids :
        Changes(m) /\ rows'[m].by = "restore"
          => rows[m].by = "archive"

ReviewStep ==
    \A m \in DOMAIN rows' \ Ids :
        rows'[m].by \in {"approve", "review"} /\ rows'[m].key # NoKey
          => \A n \in Ids : rows'[n].key = rows'[m].key
                             => rows'[n].status # "active"

StepOK == StoreInv' /\ MergeStep /\ RestoreStep /\ ReviewStep

LEMMA RestTyped ==
    ASSUME StoreInv
    PROVE  RestOK
BY DEF StoreInv, TypeOK, RestOK

LEMMA InvParts ==
    ASSUME rows' \in Seq(Row), Len(rows') <= MaxRows,
           current' \in [Keys -> 0..Len(rows')], writes' \in 0..MaxWrites,
           PointerOwnsKey', StampsSoFar', NewestWins', MarkerMeansArchive',
           RestOK'
    PROVE  StoreInv'
BY DEF StoreInv, TypeOK, RestOK

\* A step that writes no row.
LEMMA QuietStep ==
    ASSUME StoreInv, UNCHANGED <<rows, current, writes>>, RestOK'
    PROVE  StepOK
<1>1. TypeOK'
  BY DEF StoreInv, TypeOK, RestOK
<1>2. Ids' = Ids
  BY DEF Ids
<1>3. PointerOwnsKey' /\ StampsSoFar' /\ NewestWins' /\ MarkerMeansArchive'
  BY <1>2 DEF StoreInv, PointerOwnsKey, StampsSoFar, NewestWins,
              MarkerMeansArchive, Shown
<1>4. DOMAIN rows' \ Ids = {}
  BY DEF StoreInv, TypeOK, Ids
<1> QED
  BY <1>1, <1>3, <1>4
  DEF StepOK, StoreInv, MergeStep, RestoreStep, ReviewStep, Changes

\* A step that restates one row.
LEMMA OneRowStep ==
    ASSUME StoreInv, NEW m \in Ids, NEW r \in Row,
           r.key = rows[m].key, r.stamp = rows[m].stamp,
           r.marker # NoOp => r.status = "archived" /\ r.by = "archive",
           r.status # rows[m].status => r.by \notin {"dream", "review"},
           r.status # rows[m].status /\ r.by = "restore"
             => rows[m].by = "archive",
           Write([rows EXCEPT ![m] = r], current), RestOK'
    PROVE  StepOK
<1> DEFINE rs == [rows EXCEPT ![m] = r]
<1>1. /\ rs \in Seq(Row) /\ Len(rs) = Len(rows) /\ DOMAIN rs = Ids
      /\ rs[m] = r /\ \A i \in Ids \ {m} : rs[i] = rows[i]
  BY ExceptShape
<1>2. rows' = rs /\ Write(rs, current)
  BY DEF Write
<1> HIDE DEF rs
<1>3. Keeps(rs, 0) /\ MarksTrue(rs)
  BY <1>1 DEF Keeps, MarksTrue
<1>4. StoreInv'
  BY <1>2, <1>3, RestatingStep, InvParts
<1>5. MergeStep /\ RestoreStep /\ ReviewStep
  BY <1>1, <1>2 DEF MergeStep, RestoreStep, ReviewStep, Changes
<1> QED
  BY <1>4, <1>5 DEF StepOK

LEMMA SaveNoopStep ==
    ASSUME StoreInv, NEW t \in Topics, NEW x \in Texts, SaveNoop(t, x)
    PROVE  StepOK
<1> PICK m \in Match(t, x) \cap Active :
        Write([rows EXCEPT ![m] = Touched(m)], current)
  BY DEF SaveNoop
<1>1. m \in Ids /\ Can
  BY DEF Active, Write
<1>2. RestOK'
  BY RestTyped DEF SaveNoop, RestOK
<1>3. rows[m].marker # NoOp
        => rows[m].status = "archived" /\ rows[m].by = "archive"
  BY <1>1 DEF StoreInv, MarkerMeansArchive
<1> QED
  BY <1>1, <1>2, <1>3, TouchedRow, OneRowStep

LEMMA AcknowledgeStep ==
    ASSUME StoreInv, NEW m \in Ids, Acknowledge(m)
    PROVE  StepOK
<1> DEFINE r == [Touched(m) EXCEPT !.updated = now]
<1>1. Write([rows EXCEPT ![m] = r], current) /\ Can
  BY DEF Acknowledge, Write
<1>2. RestOK'
  BY RestTyped DEF Acknowledge, RestOK
<1>3. /\ Touched(m) \in Row
      /\ Touched(m).key = rows[m].key
      /\ Touched(m).stamp = rows[m].stamp
      /\ Touched(m).by = rows[m].by
      /\ Touched(m).status = rows[m].status
      /\ Touched(m).marker = rows[m].marker
  BY <1>1, TouchedRow
<1>4. /\ r \in Row /\ r.key = rows[m].key /\ r.stamp = rows[m].stamp
      /\ r.by = rows[m].by /\ r.status = rows[m].status
      /\ r.marker = rows[m].marker
  BY <1>3 DEF Row, StoreInv, TypeOK
<1>5. rows[m].marker # NoOp
        => rows[m].status = "archived" /\ rows[m].by = "archive"
  BY DEF StoreInv, MarkerMeansArchive
<1> HIDE DEF r
<1> QED
  BY <1>1, <1>2, <1>4, <1>5, OneRowStep

LEMMA GovernStep ==
    ASSUME StoreInv, NEW m \in Ids, NEW status \in {"deleted", "stale"},
           Govern(m, status)
    PROVE  StepOK
<1> DEFINE r == [Restated(m, status, "govern") EXCEPT !.updated = now]
<1>1. Write([rows EXCEPT ![m] = r], current) /\ Can
  BY DEF Govern, Write
<1>2. RestOK'
  BY RestTyped DEF Govern, RestOK
<1>3. /\ Restated(m, status, "govern") \in Row
      /\ Restated(m, status, "govern").key = rows[m].key
      /\ Restated(m, status, "govern").stamp = rows[m].stamp
      /\ Restated(m, status, "govern").by = "govern"
      /\ Restated(m, status, "govern").marker = NoOp
  BY <1>1, RestatedRow DEF Status, ByNames
<1>4. /\ r \in Row /\ r.key = rows[m].key /\ r.stamp = rows[m].stamp
      /\ r.by = "govern" /\ r.marker = NoOp
  BY <1>3 DEF Row, StoreInv, TypeOK
<1> QED
  BY <1>1, <1>2, <1>4, OneRowStep

LEMMA WebArchiveStep ==
    ASSUME StoreInv, NEW o \in WebOps, NEW m \in Ids, WebArchive(o, m)
    PROVE  StepOK
<1> DEFINE r == [Restated(m, "archived", "archive")
                   EXCEPT !.updated = now, !.marker = o]
<1>1. Write([rows EXCEPT ![m] = r], current) /\ Can
  BY DEF WebArchive, Write
<1>2. RestOK'
  <2>1. RestOK /\ m \in 0..MaxRows
    BY RestTyped, BoundAssumption DEF StoreInv, TypeOK, Ids
  <2> QED
    BY <2>1 DEF WebArchive, RestOK, Used
<1>3. /\ Restated(m, "archived", "archive") \in Row
      /\ Restated(m, "archived", "archive").key = rows[m].key
      /\ Restated(m, "archived", "archive").stamp = rows[m].stamp
      /\ Restated(m, "archived", "archive").by = "archive"
      /\ Restated(m, "archived", "archive").status = "archived"
  BY <1>1, RestatedRow DEF Status, ByNames
<1>4. /\ r \in Row /\ r.key = rows[m].key /\ r.stamp = rows[m].stamp
      /\ r.by = "archive" /\ r.status = "archived"
  BY <1>3 DEF Row, StoreInv, TypeOK
<1> QED
  BY <1>1, <1>2, <1>4, OneRowStep

LEMMA WebRestoreStep ==
    ASSUME StoreInv, NEW o \in WebOps, NEW m \in Ids, WebRestore(o, m)
    PROVE  StepOK
<1> DEFINE r == [Restated(m, "active", "restore") EXCEPT !.updated = now]
<1>1. Write([rows EXCEPT ![m] = r], current) /\ Can
  BY DEF WebRestore, Write
<1>2. RestOK'
  <2>1. RestOK /\ m \in 0..MaxRows
    BY RestTyped, BoundAssumption DEF StoreInv, TypeOK, Ids
  <2> QED
    BY <2>1 DEF WebRestore, RestOK, Used
<1>3. /\ Restated(m, "active", "restore") \in Row
      /\ Restated(m, "active", "restore").key = rows[m].key
      /\ Restated(m, "active", "restore").stamp = rows[m].stamp
      /\ Restated(m, "active", "restore").by = "restore"
      /\ Restated(m, "active", "restore").marker = NoOp
  BY <1>1, RestatedRow DEF Status, ByNames
<1>4. /\ r \in Row /\ r.key = rows[m].key /\ r.stamp = rows[m].stamp
      /\ r.by = "restore" /\ r.marker = NoOp
  BY <1>3 DEF Row, StoreInv, TypeOK
<1>5. rows[m].by = "archive"
  BY DEF WebRestore, Recoverable, StoreInv, MarkerMeansArchive
<1> QED
  BY <1>1, <1>2, <1>4, <1>5, OneRowStep

LEMMA ArchiveStaleStep ==
    ASSUME StoreInv, ArchiveStale
    PROVE  StepOK
<1> DEFINE old == {m \in Ids : rows[m].status = "stale" /\ rows[m].updated < now}
           rs == [m \in Ids |-> IF m \in old THEN Restated(m, "archived", "sweep")
                                              ELSE rows[m]]
<1>1. Write(rs, current) /\ Can /\ rows' = rs
  BY DEF ArchiveStale, Write
<1>2. RestOK'
  BY RestTyped DEF ArchiveStale, RestOK
<1>3. \A m \in Ids : rows[m] \in Row
  BY DEF StoreInv, TypeOK, Ids
<1>4. \A m \in old : /\ Restated(m, "archived", "sweep") \in Row
                      /\ Restated(m, "archived", "sweep").key = rows[m].key
                      /\ Restated(m, "archived", "sweep").stamp = rows[m].stamp
                      /\ Restated(m, "archived", "sweep").by = "sweep"
                      /\ Restated(m, "archived", "sweep").marker = NoOp
  BY <1>1, RestatedRow DEF Status, ByNames
<1>5. rs \in [1..Len(rows) -> Row] /\ Len(rows) \in Nat
  BY <1>3, <1>4 DEF Ids, StoreInv, TypeOK
<1>6. rs \in Seq(Row) /\ Len(rs) = Len(rows) /\ DOMAIN rs = Ids
  BY <1>5 DEF Ids
<1>7. Keeps(rs, 0) /\ MarksTrue(rs)
  BY <1>4, <1>6 DEF Keeps, MarksTrue
<1>8. \A m \in Ids : rs[m] # rows[m] => rs[m].by = "sweep"
  BY <1>4
<1> HIDE DEF rs
<1>9. StoreInv'
  BY <1>1, <1>2, <1>7, RestatingStep, InvParts
<1>10. MergeStep /\ RestoreStep /\ ReviewStep
  BY <1>1, <1>6, <1>8 DEF MergeStep, RestoreStep, ReviewStep, Changes
<1> QED
  BY <1>9, <1>10 DEF StepOK

------------------------------------------------------------------------------
(* Steps that write a text.                                                   *)

LEMMA SaveTextStep ==
    ASSUME StoreInv, NEW t \in Topics, NEW x \in Texts, SaveText(t, x)
    PROVE  StepOK
<1> PICK m \in Match(t, x) :
        Write(Upsert(m, t, x, "save"), UpsertLinks(m, t, x))
  BY DEF SaveText
<1> DEFINE n == Target(m)
           rs == Upsert(m, t, x, "save")
           k == KeyOf[t][x]
<1>1. m \in Ids \cup {0} /\ Can
  BY MatchRange DEF Write
<1>2. RestOK'
  BY RestTyped DEF SaveText, RestOK
<1>3. "save" \in ByNames /\ k \in Keys \cup {NoKey}
  BY KeyAssumption DEF ByNames
<1>4. Wrote(rs, n, k, "save")
  BY <1>1, <1>3, UpsertShape
<1>0. UpsertLinks(m, t, x) = Taken(k, n)
  BY <1>1, UpsertTakes
<1>5. rows' = rs /\ Write(rs, Taken(k, n))
  BY <1>0 DEF Write
<1> HIDE DEF rs, n, k
<1>6. Keeps(rs, n) /\ MarksTrue(rs)
  BY <1>4 DEF Keeps, MarksTrue, Wrote
<1>7. StoreInv'
  BY <1>2, <1>3, <1>4, <1>5, <1>6, WritingStep, InvParts DEF Wrote
<1>8. MergeStep /\ RestoreStep /\ ReviewStep
  BY <1>4, <1>5 DEF Wrote, MergeStep, RestoreStep, ReviewStep, Changes
<1> QED
  BY <1>7, <1>8 DEF StepOK

\* The rows of a cluster that has not moved are rows it has seen.
LEMMA UnmovedSeen ==
    ASSUME NEW c, Unmoved(c), NEW S \in SUBSET Members(c)
    PROVE  S \subseteq Ids /\ \A i \in S : Seen(i) \in c
BY DEF Unmoved, Members, Active

LEMMA DreamMergeStep ==
    ASSUME StoreInv, NEW c \in dreams, NEW t \in Topics, NEW x \in Texts,
           NEW S \in SUBSET Members(c), DreamMerge(c, t, x, S)
    PROVE  StepOK
<1> PICK m \in Match(t, x) \cap (S \cup {0}) :
        Write(Superseded(Upsert(m, t, x, "dream"), S \ {m}, "dream"),
              UpsertLinks(m, t, x))
  BY DEF DreamMerge
<1> DEFINE n == Target(m)
           up == Upsert(m, t, x, "dream")
           rs == Superseded(up, S \ {m}, "dream")
           k == KeyOf[t][x]
<1>1. m \in Ids \cup {0} /\ Can
  BY MatchRange DEF Write
<1>2. RestOK'
  BY RestTyped DEF DreamMerge, RestOK
<1>3. "dream" \in ByNames /\ k \in Keys \cup {NoKey}
  BY KeyAssumption DEF ByNames
<1>4. Wrote(up, n, k, "dream")
  BY <1>1, <1>3, UpsertShape
<1>0. UpsertLinks(m, t, x) = Taken(k, n)
  BY <1>1, UpsertTakes
<1>5. S \subseteq Ids /\ \A i \in S : Seen(i) \in c
  BY UnmovedSeen DEF DreamMerge
<1>6. n \notin S \ {m} /\ (n \in Ids => n \in S)
  BY <1>5 DEF Ids, StoreInv, TypeOK, Target
<1> HIDE DEF up
<1>7. Staled(rs, up, S \ {m}, "dream")
  <2>1. S \ {m} \in SUBSET Ids /\ up \in Seq(Row) /\ Len(rows) <= Len(up)
    BY <1>4, <1>5 DEF Wrote
  <2> QED
    BY <1>1, <1>3, <2>1, SupersededShape
<1>9. rows' = rs /\ Write(rs, Taken(k, n))
  BY <1>0 DEF Write, up
<1> HIDE DEF rs, n, k
<1>10. Keeps(rs, n)
  BY <1>4, <1>6, <1>7 DEF Keeps, Wrote, Staled
<1>11. MarksTrue(rs)
  BY <1>4, <1>6, <1>7 DEF MarksTrue, Wrote, Staled
<1>12. n \in DOMAIN rs /\ rs[n].key = k /\ rs[n].stamp = writes + 1
      /\ rs[n].by = "dream"
  BY <1>4, <1>6, <1>7 DEF Wrote, Staled
<1>13. StoreInv'
  BY <1>2, <1>3, <1>9, <1>10, <1>11, <1>12, WritingStep, InvParts
<1>14. \A i \in Ids : rs[i] # rows[i] => i \in S /\ rs[i].by = "dream"
  BY <1>4, <1>6, <1>7, <1>12 DEF Wrote, Staled
<1>15. \A i \in DOMAIN rs \ Ids : rs[i].by = "dream"
  BY <1>4, <1>7, <1>12 DEF Wrote, Staled
<1>16. MergeStep /\ RestoreStep /\ ReviewStep
  BY <1>5, <1>9, <1>14, <1>15 DEF MergeStep, RestoreStep, ReviewStep, Changes
<1> QED
  BY <1>13, <1>16 DEF StepOK

\* What a promotion writes.
Promoted(n, k, S, by) ==
    /\ DOMAIN rows' = Ids \cup {n}
    /\ n \notin Ids
    /\ rows'[n].key = k
    /\ rows'[n].by = by
    /\ \A i \in Ids \ S : rows'[i] = rows[i]
    /\ \A i \in S : rows'[i].by = by /\ rows'[i].status = "stale"

LEMMA PromoteShape ==
    ASSUME StoreInv, NEW t \in Topics, NEW x \in Texts, NEW by \in ByNames,
           NEW S \in SUBSET Ids, Promote(t, x, S, by), RestOK'
    PROVE  StoreInv' /\ Promoted(Target(0), KeyOf[t][x], S, by)
<1> DEFINE n == Len(rows) + 1
           old == Superseded(rows, S, by)
           rs == Append(old, Fresh(t, x, by))
           k == KeyOf[t][x]
<1>1. Write(rs, Attached(k, n)) /\ Can
  BY DEF Promote, Write
<1>2. /\ rows \in Seq(Row) /\ Len(rows) \in Nat /\ Ids = 1..Len(rows)
      /\ current \in [Keys -> 0..Len(rows)] /\ TypeOK
      /\ Len(rows) <= Len(rows) /\ DOMAIN rows = Ids
  BY DEF StoreInv, TypeOK, Ids
<1>3. k \in Keys \cup {NoKey} /\ NoKey \notin Keys
  BY KeyAssumption
<1>4. /\ Fresh(t, x, by) \in Row /\ Fresh(t, x, by).key = k
      /\ Fresh(t, x, by).stamp = writes + 1
      /\ Fresh(t, x, by).marker = NoOp /\ Fresh(t, x, by).by = by
  BY <1>1, <1>2, FreshRow
<1>5. Staled(old, rows, S, by)
  BY <1>1, <1>2, SupersededShape
<1>7. Attached(k, n) = Taken(k, n)
  <2>1. \A j \in Keys : current[j] # n
    BY <1>2
  <2> QED
    BY <1>2, <1>3, <2>1 DEF Attached, Taken
<1> HIDE DEF old, k
<1>8. /\ rs \in Seq(Row) /\ Len(rs) = n /\ DOMAIN rs = 1..n
      /\ rs[n] = Fresh(t, x, by) /\ \A i \in Ids : rs[i] = old[i]
  <2>1. old \in Seq(Row) /\ Len(old) = Len(rows)
    BY <1>5 DEF Staled
  <2> QED
    BY <1>2, <1>4, <2>1, AppendShape
<1>9. DOMAIN rs = Ids \cup {n} /\ n \notin Ids /\ n \in DOMAIN rs
  BY <1>2, <1>8
<1>10. rows' = rs /\ Write(rs, Taken(k, n))
  BY <1>1, <1>7 DEF Write
<1>11. n = Target(0)
  BY DEF Target
<1>12. \A i \in Ids \ S : rs[i] = rows[i]
  BY <1>2, <1>5, <1>8 DEF Staled
<1>13. \A i \in S : /\ rs[i].key = rows[i].key
                   /\ rs[i].stamp = rows[i].stamp
                   /\ rs[i].marker = NoOp
                   /\ rs[i].by = by
                   /\ rs[i].status = "stale"
  BY <1>5, <1>8 DEF Staled
<1>14. Len(rs) = Len(rows) + 1
  BY <1>8
<1> HIDE DEF rs, n
<1>15. Keeps(rs, n)
  BY <1>8, <1>9, <1>12, <1>13, <1>14 DEF Keeps
<1>16. MarksTrue(rs)
  BY <1>4, <1>8, <1>9, <1>12, <1>13 DEF MarksTrue
<1>17. StoreInv'
  BY <1>3, <1>4, <1>8, <1>9, <1>10, <1>15, <1>16, WritingStep, InvParts
<1>18. Promoted(n, k, S, by)
  BY <1>4, <1>8, <1>9, <1>10, <1>12, <1>13 DEF Promoted
<1> QED
  BY <1>11, <1>17, <1>18 DEF k

\* A promotion that replaces at least what it discovers leaves its row alone
\* under its key.
LEMMA PromoteAlone ==
    ASSUME StoreInv, NEW t \in Topics, NEW x \in Texts,
           NEW by \in {"approve", "review"}, NEW S \in SUBSET Ids,
           Promote(t, x, S, by), RestOK', Discovered(t, x) \subseteq S
    PROVE  ReviewStep /\ StoreInv'
<1> DEFINE n == Target(0)
           k == KeyOf[t][x]
<1>0. by \in ByNames
  BY DEF ByNames
<1>1. StoreInv' /\ Promoted(n, k, S, by)
  BY <1>0, PromoteShape
<1> HIDE DEF n
<1>2. ASSUME NEW i \in Ids, rows'[i].key = k, k # NoKey
      PROVE  rows'[i].status # "active"
  <2>1. CASE i \in S
    BY <2>1, <1>1 DEF Promoted
  <2>2. CASE i \notin S
    <3>1. rows'[i] = rows[i]
      BY <2>2, <1>1 DEF Promoted
    <3>2. ASSUME rows[i].status = "active" PROVE FALSE
      <4>1. i \in OfKey(k)
        BY <3>1, <3>2, <1>2 DEF OfKey, Active
      <4>2. i \in Discovered(t, x)
        BY <4>1 DEF Discovered
      <4> QED
        BY <4>2, <2>2
    <3> QED
      BY <3>1, <3>2
  <2> QED
    BY <2>1, <2>2
<1> QED
  BY <1>1, <1>2 DEF ReviewStep, Promoted

LEMMA ApproveStep ==
    ASSUME StoreInv, NEW t \in Topics, NEW x \in Texts, Approve(t, x)
    PROVE  StepOK
<1> DEFINE S == Discovered(t, x)
<1>1. S \subseteq Ids
  BY DEF Discovered, OfKey, Active
<1>2. RestOK'
  BY RestTyped DEF Approve, RestOK
<1>3. Promote(t, x, S, "approve")
  BY DEF Approve
<1> HIDE DEF S
<1>4. ReviewStep /\ StoreInv'
  BY <1>1, <1>2, <1>3, PromoteAlone DEF S
<1>5. "approve" \in ByNames
  BY DEF ByNames
<1>6. \A i \in Ids : rows'[i] # rows[i] => rows'[i].by = "approve"
  <2>1. Promoted(Target(0), KeyOf[t][x], S, "approve")
    BY <1>1, <1>2, <1>3, <1>5, PromoteShape
  <2> QED
    BY <1>1, <2>1 DEF Promoted
<1> QED
  BY <1>4, <1>6 DEF StepOK, MergeStep, RestoreStep, Changes

LEMMA DreamApproveStep ==
    ASSUME StoreInv, NEW c \in proposals, NEW t \in Topics, NEW x \in Texts,
           NEW S \in SUBSET Members(c), DreamApprove(c, t, x, S)
    PROVE  StepOK
<1>1. S \subseteq Ids /\ \A i \in S : Seen(i) \in c
  BY UnmovedSeen DEF DreamApprove
<1>2. RestOK'
  BY RestTyped DEF DreamApprove, RestOK
<1>3. Promote(t, x, S, "review") /\ Discovered(t, x) \subseteq S
  BY DEF DreamApprove
<1>4. ReviewStep /\ StoreInv'
  BY <1>1, <1>2, <1>3, PromoteAlone
<1>5. "review" \in ByNames
  BY DEF ByNames
<1>6. \A i \in Ids : rows'[i] # rows[i] => i \in S /\ rows'[i].by = "review"
  <2>1. Promoted(Target(0), KeyOf[t][x], S, "review")
    BY <1>1, <1>2, <1>3, <1>5, PromoteShape
  <2> QED
    BY <1>1, <2>1 DEF Promoted
<1>7. MergeStep /\ RestoreStep
  BY <1>1, <1>6 DEF MergeStep, RestoreStep, Changes
<1> QED
  BY <1>4, <1>7 DEF StepOK

------------------------------------------------------------------------------
(* Steps that write no row, and all steps together.                           *)

LEMMA DreamReadStep ==
    ASSUME StoreInv, NEW g, DreamRead(g)
    PROVE  StepOK
<1> DEFINE cluster == {Seen(m) : m \in Eligible(g)}
<1>1. /\ dreams' = dreams \cup {cluster}
      /\ UNCHANGED <<rows, current, ledger, proposals, now, writes>>
  BY DEF DreamRead
<1>2. cluster \subseteq Snapshots
  <2> SUFFICES ASSUME NEW m \in Ids PROVE Seen(m) \in Snapshots
    BY DEF Eligible, Active
  <2>1. rows[m] \in Row /\ m \in 1..MaxRows
    BY BoundAssumption DEF StoreInv, TypeOK, Ids
  <2> QED
    BY <2>1 DEF Seen, Snapshots, Row
<1>3. RestOK
  BY RestTyped
<1> HIDE DEF cluster
<1>4. RestOK'
  BY <1>1, <1>2, <1>3 DEF RestOK
<1> QED
  BY <1>1, <1>4, QuietStep

LEMMA DreamEndStep ==
    ASSUME StoreInv, NEW c,
           \/ c \in dreams /\ (DreamQuarantine(c) \/ DreamKeep(c) \/ DreamDrop(c))
           \/ c \in proposals /\ DreamDiscard(c)
    PROVE  StepOK
<1>1. /\ dreams' \cup proposals' \subseteq dreams \cup proposals
      /\ UNCHANGED <<rows, current, ledger, now, writes>>
  BY DEF DreamQuarantine, DreamKeep, DreamDrop, DreamDiscard
<1>2. RestOK'
  BY <1>1, RestTyped DEF RestOK
<1> QED
  BY <1>1, <1>2, QuietStep

LEMMA TickStep ==
    ASSUME StoreInv, Tick
    PROVE  StepOK
<1>1. RestOK'
  BY RestTyped, BoundAssumption DEF Tick, RestOK
<1> QED
  BY <1>1, QuietStep DEF Tick

LEMMA StutterStep ==
    ASSUME StoreInv, UNCHANGED vars
    PROVE  StepOK
<1>1. RestOK'
  BY RestTyped DEF vars, RestOK
<1> QED
  BY <1>1, QuietStep DEF vars

LEMMA InitInv == Init => StoreInv
<1> SUFFICES ASSUME Init PROVE StoreInv
  OBVIOUS
<1>1. rows = <<>> /\ Len(rows) = 0 /\ Ids = {}
  BY DEF Init, Ids
<1>2. TypeOK
  BY <1>1, BoundAssumption DEF Init, TypeOK
<1>3. PointerOwnsKey
  BY DEF Init, PointerOwnsKey
<1> QED
  BY <1>1, <1>2, <1>3
  DEF StoreInv, StampsSoFar, NewestWins, MarkerMeansArchive

LEMMA InvStep == StoreInv /\ [Next]_vars => StepOK
<1> SUFFICES ASSUME StoreInv, [Next]_vars PROVE StepOK
  OBVIOUS
<1>1. ASSUME NEW t \in Topics, NEW x \in Texts,
             SaveNoop(t, x) \/ SaveText(t, x) \/ Approve(t, x)
      PROVE  StepOK
  BY <1>1, SaveNoopStep, SaveTextStep, ApproveStep
<1>2. ASSUME NEW m \in Ids, NEW s \in {"deleted", "stale"}, Govern(m, s)
      PROVE  StepOK
  BY <1>2, GovernStep
<1>11. ASSUME NEW m \in Ids, Acknowledge(m) PROVE StepOK
  BY <1>11, AcknowledgeStep
<1>3. CASE ArchiveStale
  BY <1>3, ArchiveStaleStep
<1>4. ASSUME NEW o \in WebOps, NEW m \in Ids,
             WebArchive(o, m) \/ WebRestore(o, m)
      PROVE  StepOK
  BY <1>4, WebArchiveStep, WebRestoreStep
<1>5. ASSUME NEW t \in Topics, DreamRead(GroupOf[t]) PROVE StepOK
  BY <1>5, DreamReadStep
<1>6. ASSUME NEW c,
             \/ c \in dreams /\ (DreamQuarantine(c) \/ DreamKeep(c) \/ DreamDrop(c))
             \/ c \in proposals /\ DreamDiscard(c)
      PROVE  StepOK
  BY <1>6, DreamEndStep
<1>7. ASSUME NEW t \in Topics, NEW x \in Texts, NEW c \in dreams,
             NEW S \in SUBSET Members(c), DreamMerge(c, t, x, S)
      PROVE  StepOK
  BY <1>7, DreamMergeStep
<1>8. ASSUME NEW t \in Topics, NEW x \in Texts, NEW c \in proposals,
             NEW S \in SUBSET Members(c), DreamApprove(c, t, x, S)
      PROVE  StepOK
  BY <1>8, DreamApproveStep
<1>9. CASE Tick
  BY <1>9, TickStep
<1>10. CASE UNCHANGED vars
  BY <1>10, StutterStep
<1> QED
  BY <1>1, <1>2, <1>3, <1>4, <1>5, <1>6, <1>7, <1>8, <1>9, <1>10,
     <1>11 DEF Next

LEMMA StoreInvariant == Spec => []StoreInv
<1>1. StoreInv /\ [Next]_vars => StoreInv'
  BY InvStep DEF StepOK
<1> QED
  BY InitInv, <1>1, PTL DEF Spec

------------------------------------------------------------------------------
(* Theorems.                                                                  *)

\* Rows, keys, ledger and snapshots keep their shape: a key never points past
\* the rows there are, whatever is saved, replaced, archived or merged.
THEOREM TypesKept == Spec => []TypeOK
BY StoreInvariant, PTL DEF StoreInv

\* A row that is rewritten under another key is let go of by the old one
\* (clear_obsolete_state_key_links).
THEOREM PointerOwned == Spec => []PointerOwnsKey
BY StoreInvariant, PTL DEF StoreInv

\* No reading leaves out a text unless a later one of the same key was written
\* (upsert_state_key, memory_state_key_current_filter_sql), for any number of
\* writers, restores and dreams.
THEOREM NewestShown == Spec => []NewestTextIsShown
<1>1. StoreInv => NewestTextIsShown
  BY DEF StoreInv, NewestWins, NewestTextIsShown, Active
<1> QED
  BY <1>1, StoreInvariant, PTL

\* A dream's answer, or a reviewer's approval of it, replaces only rows the
\* model was shown as they still are (validate_cluster_snapshot).
THEOREM MergeSaw == Spec => MergeSawWhatItReplaces
<1>1. StoreInv /\ [Next]_vars => [MergeStep]_vars
  BY InvStep DEF StepOK
<1>2. Spec => [][MergeStep]_vars
  BY <1>1, StoreInvariant, PTL DEF Spec
<1> QED
  BY <1>2 DEF MergeStep, MergeSawWhatItReplaces

\* The console restores only what the console's own archive took away, with no
\* other change of status or text between, however often the row's pattern is
\* acknowledged (current_web_archive_provenance_is_valid and the trigger that
\* clears the marker).
THEOREM RestoreExact == Spec => RestoreReturnsTheArchived
<1>1. StoreInv /\ [Next]_vars => [RestoreStep]_vars
  BY InvStep DEF StepOK
<1>2. Spec => [][RestoreStep]_vars
  BY <1>1, StoreInvariant, PTL DEF Spec
<1> QED
  BY <1>2 DEF RestoreStep, RestoreReturnsTheArchived

\* A promotion, from a candidate or a reviewed merge, leaves the only active
\* row of its key (active_memory_ids, RequireExact).
THEOREM ReviewAlone == Spec => ReviewLeavesOne
<1>1. StoreInv /\ [Next]_vars => [ReviewStep]_vars
  BY InvStep DEF StepOK
<1>2. Spec => [][ReviewStep]_vars
  BY <1>1, StoreInvariant, PTL DEF Spec
<1> QED
  BY <1>2 DEF ReviewStep, ReviewLeavesOne
==============================================================================
