------------------------------ MODULE Medallion -----------------------------
(***************************************************************************)
(* One silver table from the landing container to its rows.  The ingest    *)
(* jobs land files; an update of the bronze pipeline appends the records   *)
(* of the files it has not read, a micro-batch at a time and in any order, *)
(* all records of a micro-batch with one ingest time; an update of the     *)
(* silver pipeline streams the bronze rows it has not read through the     *)
(* staging view into the target table: apply_changes keeps one row per     *)
(* key, the one with the greatest sequence; a log appends.                 *)
(*                                                                         *)
(* A record is what a file says of one object: its tenant, the columns the *)
(* silver table looks at, and the time the object was last modified.  Each *)
(* file holds one record; a stage that is retried lands its record again.  *)
(***************************************************************************)
EXTENDS Naturals, FiniteSets, SequencesExt, BronzeStreams, SilverTables

CONSTANTS
    Tables,         \* the silver tables to explore
    Tenants,
    Deep,           \* those of them explored with the full number of files
    MaxLanded,      \* bound: files landed
    MaxRefreshes    \* bound: full refreshes of the two pipelines

ASSUME MediumAssumption ==
    /\ Tables \subseteq SilverTables
    /\ Deep \subseteq Tables
    /\ MaxLanded \in Nat
    /\ MaxRefreshes \in Nat

VARIABLES
    table,      \* the silver table this behaviour is about
    now,        \* ingest times given so far
    landed,     \* the records in the landing container
    bronze,     \* the rows of the bronze table: a record and its ingest time
    done,       \* the last ingest time silver has read
    rows,       \* the rows of the silver table
    refreshes

vars == <<table, now, landed, bronze, done, rows, refreshes>>

-----------------------------------------------------------------------------
(* Records *)

NoValue == "null"

Columns(t) == ToSet(t.key) \cup t.needs

\* Column values that matter: all set, another object in one key column, or
\* one column missing.
FullIds(t) == [c \in Columns(t) |-> "x"]
Ids(t) == {FullIds(t)}
            \cup {[FullIds(t) EXCEPT ![c] = "y"] : c \in ToSet(t.key)}
            \cup {[FullIds(t) EXCEPT ![c] = NoValue] : c \in Columns(t)}

\* Files the load path of the table's bronze stream brings up.
Candidates(t) == {f \in LandingEntities : Loaded(StreamOf[t.from], f)}

\* Other entities land one plain record each.
IsOwn(t, f) == f.entity = t.from

\* What a job may read of an object of the table, or of another entity.
Readings(t, f) ==
    IF IsOwn(t, f)
    THEN [tenant : Tenants, ids : Ids(t),
          modified : IF t.sequence = "modified" THEN 0..now ELSE {now},
          stamped : IF t.sequence = "modified" THEN BOOLEAN ELSE {FALSE}]
    ELSE [tenant : Tenants, ids : {FullIds(t)},
          modified : {now}, stamped : {FALSE}]

\* The records a job may land for a table.
Records(t) ==
    [n : 1..MaxLanded, file : LandingEntities, tenant : Tenants,
     ids : Ids(t), modified : Nat, stamped : BOOLEAN]

-----------------------------------------------------------------------------
(* Staging *)

\* concat_ws: the values in order, NULLs are skipped.
ConcatWs(values) ==
    LET joined[i \in 0..Len(values)] ==
          IF i = 0 THEN <<>>
          ELSE IF values[i] = NoValue THEN joined[i - 1]
               ELSE Append(joined[i - 1], values[i])
    IN joined[Len(values)]

KeyValues(t, r) == [i \in 1..Len(t.key) |-> r.ids[t.key[i]]]

\* Mutant: ids are taken to be unique across tenants.
KeyWithoutTenant(t, r) == ConcatWs(KeyValues(t, r))

\* concat_ws("_", source_key, key columns).
KeyOf(t, r) == <<r.tenant>> \o ConcatWs(KeyValues(t, r))

\* The expectations and filters of the staging view.
Kept(t, r) == \A c \in t.needs : r.ids[c] # NoValue

\* Mutant: the time of the source is not used.
IngestSequence(t, b) == 2 * b.at

\* last_updated_at.  Ingest times and modification times are instants of one
\* clock: a modification seen after ingest time k and before k + 1 lies
\* between them.
Sequence(t, b) ==
    IF t.sequence = "modified" /\ b.rec.stamped THEN 2 * b.rec.modified + 1 ELSE 2 * b.at

\* apply_changes, SCD type 1: of the candidates for a key one of greatest
\* sequence stays; nothing says which one when several have it.
SameKey(t, b, c) == KeyOf(t, b.rec) = KeyOf(t, c.rec)
IsLatest(t, new, all) ==
    /\ new \subseteq all
    /\ \A c \in all : \E b \in new : SameKey(t, b, c)
    /\ \A b \in new : \A c \in all :
          SameKey(t, b, c) => /\ Sequence(t, c) <= Sequence(t, b)
                              /\ c \in new => c = b

-----------------------------------------------------------------------------
(* Behaviour *)

Init ==
    /\ table \in Tables
    /\ now = 0
    /\ landed = {}
    /\ bronze = {}
    /\ done = 0
    /\ rows = {}
    /\ refreshes = 0

SameObject(r, s) == r.file = s.file /\ r.tenant = s.tenant /\ r.ids = s.ids

File(n, f, x) == [n |-> n, file |-> f, tenant |-> x.tenant, ids |-> x.ids,
                  modified |-> x.modified, stamped |-> x.stamped]

\* A job lands what it read of an object: as modified since the last read, or
\* unchanged (a retried chunk, another run).  A source never goes back.
Land(f, x) ==
    /\ Cardinality(landed) < IF table \in Deep THEN MaxLanded ELSE MaxLanded - 1
    /\ LET r == File(Cardinality(landed) + 1, f, x) IN
       /\ \A s \in landed : SameObject(r, s) => s.modified <= r.modified
       /\ landed' = landed \cup {r}
    /\ UNCHANGED <<table, now, bronze, done, rows, refreshes>>

Unread == {r \in landed : /\ Reads(StreamOf[table.from], r.file)
                          /\ \A b \in bronze : b.rec # r}

\* A micro-batch of the bronze stream: Auto Loader lists files in no order.
BronzeBatch(files) ==
    /\ files # {}
    /\ now' = now + 1
    /\ bronze' = bronze \cup {[rec |-> r, at |-> now + 1] : r \in files}
    /\ UNCHANGED <<table, landed, done, rows, refreshes>>

\* Mutant: the last ingest time is taken as read already.
BatchBefore(upto) == {b \in bronze : done < b.at /\ b.at < upto /\ Kept(table, b.rec)}

\* The bronze rows a silver micro-batch reads, and those the staging keeps.
Batch(upto) == {b \in bronze : done < b.at /\ b.at <= upto /\ Kept(table, b.rec)}

\* Mutant: the rows of the target are replaced without comparing sequences.
SilverBatchOverwriting(upto) ==
    /\ done' = upto
    /\ \E new \in SUBSET Batch(upto) :
          /\ IsLog(table) => new = Batch(upto)
          /\ ~IsLog(table) => IsLatest(table, new, Batch(upto))
          /\ rows' = new \cup {r \in rows : IsLog(table) \/ \A b \in new : ~SameKey(table, r, b)}
    /\ UNCHANGED <<table, now, landed, bronze, refreshes>>

\* A micro-batch of the silver stream.
SilverBatch(upto) ==
    /\ done' = upto
    /\ IF IsLog(table)
       THEN rows' = rows \cup Batch(upto)
       ELSE \E new \in SUBSET (rows \cup Batch(upto)) :
               /\ IsLatest(table, new, rows \cup Batch(upto))
               /\ rows' = new
    /\ UNCHANGED <<table, now, landed, bronze, refreshes>>

\* full_refresh = true of both pipelines: tables and checkpoints start afresh,
\* the landing container still holds every file.
FullRefresh ==
    /\ refreshes < MaxRefreshes
    /\ bronze # {}
    /\ refreshes' = refreshes + 1
    /\ bronze' = {}
    /\ rows' = {}
    /\ done' = now
    /\ UNCHANGED <<table, now, landed>>

SomeLand == \E f \in Candidates(table) : \E x \in Readings(table, f) : Land(f, x)
SomeBronzeBatch == \E files \in SUBSET Unread : BronzeBatch(files)
SomeSilverBatch == \E upto \in (done + 1)..now : SilverBatch(upto)

Next == SomeLand \/ SomeBronzeBatch \/ SomeSilverBatch \/ FullRefresh

Spec == Init /\ [][Next]_vars

\* The pipelines are triggered again and again.
FairSpec == Spec /\ WF_vars(SomeBronzeBatch) /\ WF_vars(SomeSilverBatch)

-----------------------------------------------------------------------------
(* Properties *)

\* What silver has read and its staging view has kept.
Applied == {b \in bronze : b.at <= done /\ Kept(table, b.rec)}

(* The variables have their types, and every row of a silver table is one  *)
(* of a record in bronze.                                                  *)
TypeOK ==
    /\ table \in Tables
    /\ now \in Nat /\ done \in 0..now /\ refreshes \in 0..MaxRefreshes
    /\ landed \subseteq Records(table)
    /\ \A b \in bronze : b.rec \in landed /\ b.at \in 1..now
    /\ rows \subseteq bronze

(* The rows of an upserted table are, of everything silver has applied, the *)
(* newest record of each key, however it was cut into micro-batches.       *)
NewestKept == ~IsLog(table) => IsLatest(table, rows, Applied)

(* Every object that was applied with its key columns has exactly one row: *)
(* a retried chunk adds none, two tenants never share one.                 *)
OneRowPerObject ==
    ~IsLog(table) =>
        \A b \in Applied :
            (\A c \in ToSet(table.key) : b.rec.ids[c] # NoValue) =>
                Cardinality({r \in rows :
                    /\ r.rec.tenant = b.rec.tenant
                    /\ \A c \in ToSet(table.key) : r.rec.ids[c] = b.rec.ids[c]}) = 1

(* In a table sequenced by the time of the source the last modification    *)
(* wins in whatever order its files are ingested, also after a full        *)
(* refresh, as long as every record of the object bears its time.          *)
LastModifiedWins ==
    table.sequence = "modified" =>
        \A r \in rows :
            (\A b \in Applied : SameKey(table, r, b) => b.rec.stamped) =>
                \A b \in Applied :
                    SameKey(table, r, b) => b.rec.modified <= r.rec.modified

(* A log holds every event silver has applied, none is dropped between     *)
(* micro-batches.                                                          *)
LogIsComplete == IsLog(table) => rows = Applied

\* What was applied and the rows, as SilverView has them.
View == INSTANCE SilverView WITH applied <- Applied

(* A silver table is a view of what was applied to it: however the records *)
(* are cut into micro-batches it shows all of them, or the newest of each  *)
(* key, a row that was replaced never comes back, and only a full refresh  *)
(* takes rows away (apply_changes and the append of a log).                *)
SilverIsAView == View!Viewing

(* No landing file is read by two bronze tables: the depth guard keeps the *)
(* files of the children out of the table of the root entity.              *)
ReadOnce == \A r \in landed : Cardinality(Readers[r.file]) <= 1

(* Whatever lands and is kept has a row of its key in the end, across full *)
(* refreshes: silver catches up with the landing container again and again. *)
CaughtUp ==
    \A r \in landed :
        Reads(StreamOf[table.from], r.file) /\ Kept(table, r) =>
            \E row \in rows : /\ KeyOf(table, row.rec) = KeyOf(table, r)
                              /\ IsLog(table) => row.rec = r
LandedIsApplied == []<>CaughtUp
=============================================================================
