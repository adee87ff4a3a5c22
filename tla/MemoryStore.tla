---------------------------- MODULE MemoryStore ----------------------------
(* The curated memory rows of one project, one owner and one memory type:     *)
(* memories, memory_state_keys, the idempotency ledger of the console         *)
(* (api_mutation_requests) and what the dream process holds between reading a *)
(* cluster and applying the model's answer.                                   *)
(*                                                                            *)
(* A text stands for title and content; that it may read like an instruction  *)
(* is not told apart.  KeyOf is derive_state_key: a topic with a stable key   *)
(* always has the same one (Stable), any other takes its key from the words   *)
(* of the text, or has none.  The types with further matching rules           *)
(* (preference, lesson), expiry and suppression are left out.                 *)
(*                                                                            *)
(* Two fields of a row are histories: stamp is the write that set its text,   *)
(* by the operation that last set its text or its status.                     *)
EXTENDS Integers, Sequences, FiniteSets

CONSTANTS
    Topics, Texts, Keys, NoKey,
    KeyOf,          \* [Topics -> [Texts -> Keys \cup {NoKey}]]
    Stable,         \* topics whose key may be the target of a direct upsert
    GroupOf,        \* [Topics -> groups]: the topic prefix dreams cluster by
    WebOps, NoOp,   \* idempotency keys of the console
    MaxRows, MaxWrites, MaxNow, MaxDreams

ASSUME KeyAssumption ==
    /\ NoKey \notin Keys
    /\ KeyOf \in [Topics -> [Texts -> Keys \cup {NoKey}]]
    /\ Stable \subseteq Topics
    /\ \A t \in Stable, x \in Texts : KeyOf[t][x] # NoKey
    /\ NoOp \notin WebOps

ASSUME BoundAssumption ==
    MaxRows \in Nat /\ MaxWrites \in Nat /\ MaxNow \in Nat /\ MaxDreams \in Nat

VARIABLES
    rows,       \* memories, in the order of their ids
    current,    \* memory_state_keys.current_memory_id, 0 for NULL
    ledger,     \* api_mutation_requests: what an operation was used for
    dreams,     \* clusters read by a dream and not yet decided
    proposals,  \* clusters whose quarantined merge waits for a reviewer
    now,        \* the second on the clock
    writes      \* transactions that wrote rows so far

vars == <<rows, current, ledger, dreams, proposals, now, writes>>

Status == {"active", "stale", "archived", "deleted"}
Ids == 1..Len(rows)

------------------------------------------------------------------------------
(* Reading.                                                                   *)

Active == {m \in Ids : rows[m].status = "active"}
ByTopic(t) == {m \in Ids : rows[m].topic = t}

\* What every list, search and context query adds: the row's key points
\* nowhere or at the row itself.
Shown(m) == rows[m].key = NoKey \/ current[rows[m].key] \in {0, m}

\* ORDER BY active first, updated DESC, id DESC
Before(m, n) ==
    LET rank(i) == IF i \in Active THEN 0 ELSE 1
    IN  \/ rank(m) < rank(n)
        \/ rank(m) = rank(n) /\ rows[m].updated > rows[n].updated
        \/ rank(m) = rank(n) /\ rows[m].updated = rows[n].updated /\ m >= n

\* The one row a save writes over, 0 when it adds a row.
Match(t, x) ==
    IF ByTopic(t) # {}
      THEN {m \in ByTopic(t) : \A n \in ByTopic(t) : Before(m, n)}
      ELSE IF t \in Stable /\ current[KeyOf[t][x]] \in Active
             THEN {current[KeyOf[t][x]]}
             ELSE {0}

\* The rows an approved candidate would replace: those of its key, all of
\* them, and only if there is none those of its topic.
WrongOfKeyCurrentOnly(k) == {m \in Active : k # NoKey /\ current[k] = m}
OfKey(k) == {m \in Active : k # NoKey /\ rows[m].key = k}
Discovered(t, x) ==
    IF OfKey(KeyOf[t][x]) # {} THEN OfKey(KeyOf[t][x])
                               ELSE Active \cap ByTopic(t)

------------------------------------------------------------------------------
(* Writing.  Every update of a row moves its version (the trigger             *)
(* memories_web_version); the version is the number of the write, which the   *)
(* code compares for equality only.                                           *)

Can == writes < MaxWrites

Fresh(t, x, by) ==
    [topic |-> t, text |-> x, key |-> KeyOf[t][x], status |-> "active",
     version |-> writes + 1, updated |-> now, marker |-> NoOp,
     by |-> by, stamp |-> writes + 1]

WrongMarkedForEver(r, status) == r.marker

\* An update that leaves text and status as they are.
Touched(m) == [rows[m] EXCEPT !.version = writes + 1]

\* A change of status clears the archive marker (trigger).
Marked(r, status) == IF r.status = status THEN r.marker ELSE NoOp

Rewritten(m, t, x, by) ==
    [Fresh(t, x, by) EXCEPT !.marker = Marked(rows[m], "active")]

Restated(m, status, by) ==
    [Touched(m) EXCEPT !.status = status, !.by = by,
                       !.marker = Marked(rows[m], status)]

WrongAttachedIfFree(k, m) ==
    IF k = NoKey \/ current[k] # 0 THEN current ELSE [current EXCEPT ![k] = m]

\* attach_current_memory: under one clock the newer writer takes the key.
Attached(k, m) == IF k = NoKey THEN current ELSE [current EXCEPT ![k] = m]

WrongClearedNever(cur, m, k) == cur

\* clear_obsolete_state_key_links: no other key still points at the row.
Cleared(cur, m, k) ==
    [j \in Keys |-> IF j # k /\ cur[j] = m THEN 0 ELSE cur[j]]

\* soft_supersede: the replaced rows turn stale, updated_at stays.
Superseded(rs, S, by) ==
    [m \in DOMAIN rs |-> IF m \in S THEN Restated(m, "stale", by) ELSE rs[m]]

\* insert_memory_full: over the row that matches, or a new one.
Upsert(m, t, x, by) ==
    IF m # 0 THEN [rows EXCEPT ![m] = Rewritten(m, t, x, by)]
             ELSE Append(rows, Fresh(t, x, by))

WrongUpsertLinksNext(m, t, x) ==
    LET k == KeyOf[t][x]
    IN  IF m # 0 THEN Cleared(Attached(k, Len(rows) + 1), m, k)
                 ELSE Attached(k, Len(rows) + 1)

UpsertLinks(m, t, x) ==
    LET k == KeyOf[t][x]
    IN  IF m # 0 THEN Cleared(Attached(k, m), m, k)
                 ELSE Attached(k, Len(rows) + 1)

Write(rs, cur) ==
    /\ Can
    /\ Len(rs) <= MaxRows
    /\ rows' = rs
    /\ current' = cur
    /\ writes' = writes + 1

------------------------------------------------------------------------------
(* Direct saves, candidate reviews, governance, cleanup.                      *)

\* save_memory answers Noop for the text, the files and the branch the matching
\* active row has already; marking the row's trust class moves its version all
\* the same.
SaveNoop(t, x) ==
    \E m \in Match(t, x) \cap Active :
        /\ rows[m].text = x
        /\ Write([rows EXCEPT ![m] = Touched(m)], current)
        /\ UNCHANGED <<ledger, dreams, proposals, now>>

\* Any other save writes the matching row over, also one that repeats its text
\* with other files.
SaveText(t, x) ==
    \E m \in Match(t, x) :
        /\ Write(Upsert(m, t, x, "save"), UpsertLinks(m, t, x))
        /\ UNCHANGED <<ledger, dreams, proposals, now>>

\* promote_candidate_to_memory: a new row that replaces what it discovered.
\* A candidate whose text is there already changes no row.
Promote(t, x, S, by) ==
    LET new == Append(Superseded(rows, S, by), Fresh(t, x, by))
    IN  Write(new, Attached(KeyOf[t][x], Len(rows) + 1))

Approve(t, x) ==
    /\ \A m \in Discovered(t, x) : rows[m].text # x
    /\ Promote(t, x, Discovered(t, x), "approve")
    /\ UNCHANGED <<ledger, dreams, proposals, now>>

\* govern_memories: delete, or mark stale, whatever the row's status.
Govern(m, status) ==
    /\ Write([rows EXCEPT ![m] = [Restated(m, status, "govern")
                                   EXCEPT !.updated = now]], current)
    /\ UNCHANGED <<ledger, dreams, proposals, now>>

\* govern_memories, acknowledging the instruction pattern a text matches: the
\* row keeps its status, whichever that is, and with it the archive marker.
Acknowledge(m) ==
    /\ Write([rows EXCEPT ![m] = [Touched(m) EXCEPT !.updated = now]], current)
    /\ UNCHANGED <<ledger, dreams, proposals, now>>

\* archive_stale_memories: the cutoff is the second that has just passed.
ArchiveStale ==
    LET old == {m \in Ids : rows[m].status = "stale" /\ rows[m].updated < now}
    IN  /\ old # {}
        /\ Write([m \in Ids |-> IF m \in old
                                  THEN Restated(m, "archived", "sweep")
                                  ELSE rows[m]], current)
        /\ UNCHANGED <<ledger, dreams, proposals, now>>

\* The console's archive and restore: one immediate transaction that looks the
\* operation up, changes the row and records the answer.  A replayed or
\* conflicting operation, a version that has moved on, a row in another status
\* change nothing.
Used(o, m, action) == [ledger EXCEPT ![o] = [id |-> m, action |-> action]]
Unused(o) == ledger[o].action = "none"

WebArchive(o, m) ==
    /\ Unused(o)
    /\ rows[m].status = "active"
    /\ Write([rows EXCEPT ![m] = [Restated(m, "archived", "archive")
                                   EXCEPT !.updated = now, !.marker = o]],
             current)
    /\ ledger' = Used(o, m, "archive")
    /\ UNCHANGED <<dreams, proposals, now>>

\* current_web_archive_provenance_is_valid
Recoverable(m) ==
    /\ rows[m].status = "archived"
    /\ rows[m].marker # NoOp
    /\ ledger[rows[m].marker] = [id |-> m, action |-> "archive"]

WebRestore(o, m) ==
    /\ Unused(o)
    /\ Recoverable(m)
    /\ Write([rows EXCEPT ![m] = [Restated(m, "active", "restore")
                                   EXCEPT !.updated = now]], current)
    /\ ledger' = Used(o, m, "restore")
    /\ UNCHANGED <<dreams, proposals, now>>

------------------------------------------------------------------------------
(* Dreams: a cluster is read, the model is asked (no transaction, no lock),   *)
(* and the answer is applied in a transaction that first compares the rows    *)
(* with what was read.                                                        *)

Seen(m) == [id |-> m, version |-> rows[m].version, text |-> rows[m].text]

Eligible(g) ==
    {m \in Active : /\ Shown(m)
                    /\ GroupOf[rows[m].topic] = g
                    /\ rows[m].updated < now}    \* the recency guard

DreamRead(g) ==
    LET cluster == {Seen(m) : m \in Eligible(g)}
    IN  /\ Cardinality(cluster) >= 2
        /\ Cardinality(dreams) < MaxDreams
        /\ dreams' = dreams \cup {cluster}
        /\ UNCHANGED <<rows, current, ledger, proposals, now, writes>>

WrongUnmovedStillActive(c) == \A s \in c : s.id \in Active /\ Shown(s.id)

\* validate_cluster_snapshot
Unmoved(c) ==
    \A s \in c : s.id \in Active /\ Shown(s.id) /\ Seen(s.id) = s

Members(c) == {s.id : s \in c}

\* A merge: the result goes where a save would go, provided that is a row the
\* merge replaces or a new one; the others it replaces turn stale.
DreamMerge(c, t, x, S) ==
    /\ Unmoved(c)
    /\ \E m \in Match(t, x) \cap (S \cup {0}) :
          Write(Superseded(Upsert(m, t, x, "dream"), S \ {m}, "dream"),
                UpsertLinks(m, t, x))
    /\ dreams' = dreams \ {c}
    /\ UNCHANGED <<ledger, proposals, now>>

\* A merge whose text looks like an instruction waits for a reviewer instead,
\* in the place of what was proposed for the same cluster before.  What it
\* proposes is read by nobody before the approval, which chooses it here.
DreamQuarantine(c) ==
    /\ Unmoved(c)
    /\ dreams' = dreams \ {c}
    /\ proposals' = proposals \cup {c}
    /\ UNCHANGED <<rows, current, ledger, now, writes>>

\* A clean decision to leave the cluster alone ends what was proposed for it.
DreamKeep(c) ==
    /\ Unmoved(c)
    /\ dreams' = dreams \ {c}
    /\ proposals' = proposals \ {c}
    /\ UNCHANGED <<rows, current, ledger, now, writes>>

\* The model fails, the answer is refused, the process dies.
DreamDrop(c) ==
    /\ dreams' = dreams \ {c}
    /\ UNCHANGED <<rows, current, ledger, proposals, now, writes>>

\* The reviewer's approval replaces exactly the proposed rows, and is refused
\* when the new row would collide with a current row outside of them.
DreamApprove(c, t, x, S) ==
    /\ Unmoved(c)
    /\ Discovered(t, x) \subseteq S
    /\ Promote(t, x, S, "review")
    /\ proposals' = proposals \ {c}
    /\ UNCHANGED <<ledger, dreams, now>>

DreamDiscard(c) ==
    /\ proposals' = proposals \ {c}
    /\ UNCHANGED <<rows, current, ledger, dreams, now, writes>>

Tick ==
    /\ now < MaxNow
    /\ now' = now + 1
    /\ UNCHANGED <<rows, current, ledger, dreams, proposals, writes>>

------------------------------------------------------------------------------
Init ==
    /\ rows = <<>>
    /\ current = [k \in Keys |-> 0]
    /\ ledger = [o \in WebOps |-> [id |-> 0, action |-> "none"]]
    /\ dreams = {}
    /\ proposals = {}
    /\ now = 0
    /\ writes = 0

Next ==
    \/ \E t \in Topics, x \in Texts :
          SaveNoop(t, x) \/ SaveText(t, x) \/ Approve(t, x)
    \/ \E m \in Ids, s \in {"deleted", "stale"} : Govern(m, s)
    \/ \E m \in Ids : Acknowledge(m)
    \/ ArchiveStale
    \/ \E o \in WebOps, m \in Ids : WebArchive(o, m) \/ WebRestore(o, m)
    \/ \E t \in Topics : DreamRead(GroupOf[t])
    \/ \E c \in dreams : DreamQuarantine(c) \/ DreamKeep(c) \/ DreamDrop(c)
    \/ \E c \in proposals : DreamDiscard(c)
    \/ \E t \in Topics, x \in Texts, c \in dreams \cup proposals :
          \E S \in SUBSET Members(c) \ {{}} :
             \/ c \in dreams /\ DreamMerge(c, t, x, S)
             \/ c \in proposals /\ DreamApprove(c, t, x, S)
    \/ Tick

Spec == Init /\ [][Next]_vars

------------------------------------------------------------------------------
(* Properties.                                                                *)

Snapshots ==
    [id : 1..MaxRows, version : 1..MaxWrites, text : Texts]

Row ==
    [topic : Topics, text : Texts, key : Keys \cup {NoKey}, status : Status,
     version : 1..MaxWrites, updated : 0..MaxNow, marker : WebOps \cup {NoOp},
     by : {"save", "approve", "govern", "sweep", "archive", "restore", "dream",
           "review"},
     stamp : 1..MaxWrites]

\* The shape of the store: keys point at rows, snapshots are of rows.
TypeOK ==
    /\ rows \in Seq(Row)
    /\ Len(rows) <= MaxRows
    /\ current \in [Keys -> 0..Len(rows)]
    /\ ledger \in [WebOps -> [id : 0..MaxRows,
                              action : {"none", "archive", "restore"}]]
    /\ \A c \in dreams \cup proposals : c \subseteq Snapshots
    /\ now \in 0..MaxNow
    /\ writes \in 0..MaxWrites

\* A state key points at a row that carries this key: a row that is rewritten
\* under another key, or under none, leaves no pointer behind
\* (clear_obsolete_state_key_links).
PointerOwnsKey ==
    \A k \in Keys : current[k] # 0 => rows[current[k]].key = k

\* A text is hidden only behind a later one: an active row the lists and the
\* context leave out shares its key with a row whose text was written after
\* it, however saves, approvals, dreams and restores interleave
\* (upsert_state_key, memory_state_key_current_filter_sql).
NewestTextIsShown ==
    \A m \in Active :
        ~ Shown(m) => rows[current[rows[m].key]].stamp > rows[m].stamp

\* The step sets the row's text or its status.
Changes(m) ==
    rows'[m].stamp # rows[m].stamp \/ rows'[m].status # rows[m].status

\* The answer of a dream, applied after any amount of other work, replaces only
\* rows that still are, version and text, what the model was shown
\* (validate_cluster_snapshot, TargetResolutionGuard, RequireExact).
MergeSawWhatItReplaces ==
    [][\A m \in Ids :
          Changes(m) /\ rows'[m].by \in {"dream", "review"}
             => \E c \in dreams \cup proposals : Seen(m) \in c]_vars

\* A restore from the console brings back a row that nothing but the console's
\* own archive has taken away: its text and its status are what that archive
\* left, and no revival, deletion, staleness or sweep came in between.  An
\* acknowledged pattern may: it moves the version and keeps the marker
\* (web_archive_operation_id and its trigger).
RestoreReturnsTheArchived ==
    [][\A m \in Ids :
          Changes(m) /\ rows'[m].by = "restore"
             => rows[m].by = "archive"]_vars

\* A promotion under a state key leaves its row the only active one of the
\* key, whatever saves and restores have left side by side before
\* (active_memory_ids, RequireExact).
ReviewLeavesOne ==
    [][\A m \in DOMAIN rows' \ Ids :
          rows'[m].by \in {"approve", "review"} /\ rows'[m].key # NoKey
             => \A n \in Ids : rows'[n].key = rows'[m].key
                                 => rows'[n].status # "active"]_vars
==============================================================================
