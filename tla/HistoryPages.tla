----------------------------- MODULE HistoryPages -----------------------------
(***************************************************************************)
(* The history endpoints of the REST API: a client walks the readings, or  *)
(* the anomalies, of a device newest first, one page per request, handing  *)
(* back the id the server gave it, while ingestion keeps inserting.  The   *)
(* order is by time and then id, the cursor by id alone, so a wall clock   *)
(* that steps back separates the two.                                      *)
(*                                                                         *)
(* A request reads in one transaction.  Table are never deleted.            *)
(***************************************************************************)
EXTENDS Integers, Sequences, FiniteSets, SequencesExt

CONSTANTS
    Sources,       \* the devices
    Times,         \* what the wall clock may show
    Queries,       \* what clients ask for: endpoint, device, limit, since, until
    MaxLimit,      \* MAX_PAGE_LIMIT
    MaxReadings,   \* bound: readings stored
    MaxPages       \* bound: pages of one walk

\* Each is a table.
Endpoints == {"telemetry", "anomalies"}

\* Of a query only its endpoint is not checked by the code: the path names it.
ASSUME PagesAssumption ==
    /\ Times \subseteq Nat
    /\ {MaxLimit, MaxReadings, MaxPages} \subseteq Nat
    /\ \A q \in Queries : q.endpoint \in Endpoints /\ q.limit \in Int

VARIABLES
    tables,     \* the telemetry and the anomalies table: rows in the order of ids
    steady,     \* history: the clock has never stepped back
    query,      \* the client's query
    reader,     \* "idle", "walking", "done" or "refused"
    cursor,     \* next_before_id of the last page, 0: none yet
    pages,      \* history: the pages delivered, as sequences of ids
    wanted      \* history: the ids that matched when the first page was read

pageVars == <<tables, steady, query, reader, cursor, pages, wanted>>

\* No since, no until.
Unbounded == -1

PagesTypeOK ==
    /\ \A name \in Endpoints : \A id \in DOMAIN tables[name] :
          /\ tables[name][id].device \in Sources
          /\ tables[name][id].at \in Times
    /\ steady \in BOOLEAN
    /\ query \in Queries
    /\ reader \in {"idle", "walking", "done", "refused"}
    /\ cursor \in Nat
    /\ \A i \in DOMAIN pages : pages[i] \in Seq(Nat)
    /\ wanted \subseteq Nat

PagesInit ==
    /\ tables = [name \in Endpoints |-> <<>>]
    /\ steady = TRUE
    /\ query \in Queries
    /\ reader = "idle"
    /\ cursor = 0
    /\ pages = <<>>
    /\ wanted = {}

LastTime(rows) == IF rows = <<>> THEN 0 ELSE Last(rows).at

Commits(name, row) ==
    /\ tables' = [tables EXCEPT ![name] = Append(@, row)]
    /\ steady' = (steady /\ row.at >= LastTime(tables[name]))
    /\ UNCHANGED <<query, reader, cursor, pages, wanted>>

\* A reading is committed.
InsertReading(device, at) ==
    /\ Len(tables["telemetry"]) < MaxReadings
    /\ Commits("telemetry", [device |-> device, at |-> at])

\* The verdict about the newest reading is committed, in a second transaction.
InsertAnomaly(at) ==
    LET id == Len(tables["telemetry"])
        device == tables["telemetry"][id].device
    IN /\ id > 0
       /\ \A i \in DOMAIN tables["anomalies"] : tables["anomalies"][i].telemetry # id
       /\ Commits("anomalies", [device |-> device, at |-> at, telemetry |-> id])

Table == tables[query.endpoint]

\* The ids that match the device and the window of the query.
Matching ==
    {id \in DOMAIN Table :
        /\ Table[id].device = query.device
        /\ query.since # Unbounded => Table[id].at >= query.since
        /\ query.until # Unbounded => Table[id].at < query.until}

\* Newest first: by time, then by id.
Newer(a, b) == Table[a].at > Table[b].at \/ (Table[a].at = Table[b].at /\ a > b)

Clamped(limit) == IF limit < MaxLimit THEN limit ELSE MaxLimit

\* MUTANT: the cursor is inclusive.
OlderOrSame(before) == {id \in Matching : before = 0 \/ id <= before}

Older(before) == {id \in Matching : before = 0 \/ id < before}

\* The rows in the order of the query: one sequence, since ids differ.
Listings(ids) ==
    {list \in [1 .. Cardinality(ids) -> ids] :
        \A i, j \in DOMAIN list : i < j => Newer(list[i], list[j])}

\* One row more than the page is read; it proves that there is a next page.
PageOf(found) ==
    LET limit == Clamped(query.limit)
        more == Len(found) > limit
        items == IF more THEN SubSeq(found, 1, limit) ELSE found
    IN [items |-> items, next |-> IF more THEN Last(items) ELSE 0]

\* A query the API refuses before it reads anything.
Invalid ==
    \/ query.limit \notin 1 .. MaxLimit
    \/ query.since # Unbounded /\ query.until # Unbounded /\ query.until <= query.since

Refused ==
    Invalid \/ \A i \in DOMAIN tables["telemetry"] : tables["telemetry"][i].device # query.device

RefuseRequest ==
    /\ reader = "idle" /\ Refused
    /\ reader' = "refused"
    /\ UNCHANGED <<tables, steady, query, cursor, pages, wanted>>

NextPage ==
    /\ reader = "walking" \/ (reader = "idle" /\ ~Refused)
    /\ Len(pages) < MaxPages
    /\ \E found \in Listings(Older(cursor)) :
          /\ pages' = Append(pages, PageOf(found).items)
          /\ cursor' = PageOf(found).next
          /\ reader' = IF cursor' = 0 THEN "done" ELSE "walking"
    /\ wanted' = IF reader = "idle" THEN Matching ELSE wanted
    /\ UNCHANGED <<tables, steady, query>>

PagesNext ==
    \/ \E at \in Times : InsertAnomaly(at) \/ \E device \in Sources : InsertReading(device, at)
    \/ RefuseRequest \/ NextPage

PagesSpec == PagesInit /\ [][PagesNext]_pageVars

-------------------------------------------------------------------------------
(* Properties *)

\* As long as the clock has not stepped back, a walk over the pages delivers
\* every row that matched when it began, each once, newest first, nothing that
\* was inserted meanwhile, and no page that turns out empty.  After a step back
\* rows are skipped and repeated: the cursor compares ids in an order of times.
\* (repositories.py:273; repositories.py:354 "only advertise a next page when
\* one is proven".)
PagedOnce ==
    steady =>
        /\ \A p, q \in DOMAIN pages : \A i \in DOMAIN pages[p], j \in DOMAIN pages[q] :
              p < q \/ (p = q /\ i < j) => pages[p][i] > pages[q][j]
        /\ reader = "done" => UNION {ToSet(pages[p]) : p \in DOMAIN pages} = wanted
        /\ \A p \in 2 .. Len(pages) : pages[p] # <<>>
===============================================================================
