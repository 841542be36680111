--------------------------- MODULE DashboardStream ---------------------------
(***************************************************************************)
(* The live view of one device in the dashboard: a history page seeds it,  *)
(* a WebSocket feeds it, and on every opening it is reconciled against the *)
(* history, page by page, from the newest row it can prove contiguous.     *)
(*                                                                         *)
(* A browser runs one callback at a time: a step is one callback, a call   *)
(* of the operator, or an answer being computed.  A row is its id, and     *)
(* receive times are in the order of ids.  A retired socket has lost its   *)
(* handlers before it is closed, so it is simply gone.  Retry now can be   *)
(* pressed where ConnectionBanner offers it, and nowhere else.             *)
(*                                                                         *)
(* External: the backend, which commits a row, then publishes it to the    *)
(* sockets that are open (a lost publication is the subject of Delivery),  *)
(* subscribes before it accepts, and answers a history request with the    *)
(* newest matching rows (HistoryPages), some time or with an error.        *)
(***************************************************************************)
EXTENDS Integers, FiniteSets, FiniteSetsExt

CONSTANTS
    Limit,       \* rows of a page
    MaxPoints,   \* rows the view retains
    MaxRows,     \* bound: rows committed
    MaxDrops     \* bound: failures of the network and of the backend

\* A page asks for Math.max(1, limit) rows, and a view retains some.
ASSUME StreamAssumption ==
    Limit \in Nat \ {0} /\ MaxPoints \in Nat \ {0} /\ MaxRows \in Nat /\ MaxDrops \in Nat

VARIABLES
    committed, published,   \* rows in the table; rows broadcast
  (* the socket *)
    sock,        \* none, connecting, reconnecting or open
    delivered,   \* the last row published that this socket need not deliver
    backoff,     \* the timer of the next attempt is armed
    manual,      \* manualAttemptInFlight
    stopped,     \* a permanent close code ended the live connection
  (* the view *)
    seed,        \* loading, ready or failed
    series,      \* held: the rows shown; anchor: the newest proven row, or 0
    contiguous,
    queued,      \* frames held back during a catch-up
    attempt,     \* the catch-up: from, before, pages and collected
    request,     \* what became of the request in flight
    retryTimer,  \* the timer of the next catch-up is armed
    catchUp,     \* idle, running, complete, truncated or failed
    historyIncomplete,
    left,        \* the view was closed, or shows another device
    drops

table == <<committed, published>>
socket == <<sock, delivered, backoff, manual, stopped>>
rows == <<series, contiguous, queued>>
fetching == <<attempt, request, retryTimer, catchUp>>
streamVars == <<table, socket, seed, rows, fetching, historyIncomplete, left, drops>>

Ids == 1 .. MaxRows
NoRow == 0

\* The states of a request: none, asked, answered and failed.
Request(state) == [state |-> state, items |-> {}, more |-> FALSE]
NoAttempt == [from |-> NoRow, before |-> NoRow, pages |-> 0, collected |-> {}]

\* max(2, ceil(maxPoints / limit) + 1)
MaxPages == Max({2, (MaxPoints + Limit - 1) \div Limit + 1})

\* A row, or none.
Maybe == Ids \cup {NoRow}

StreamTypeOK ==
    /\ committed \in 0 .. MaxRows /\ published \in 0 .. committed
    /\ committed - published \in {0, 1}
    /\ sock \in {"none", "connecting", "reconnecting", "open"}
    /\ delivered \in 0 .. published
    /\ {backoff, manual, stopped, contiguous, retryTimer, historyIncomplete, left} \subseteq BOOLEAN
    /\ seed \in {"loading", "ready", "failed"}
    /\ series \in [held : SUBSET Ids, anchor : Maybe] /\ queued \in SUBSET Ids
    /\ Cardinality(series.held) <= MaxPoints /\ Cardinality(queued) <= MaxPoints
    /\ attempt \in [from : Maybe, before : Maybe, pages : 0 .. MaxPages - 1, collected : SUBSET Ids]
    /\ request \in [state : {"none", "asked", "answered", "failed"},
                     items : SUBSET Ids, more : BOOLEAN]
    /\ catchUp \in {"idle", "running", "complete", "truncated", "failed"}
    /\ drops \in 0 .. MaxDrops

\* The effect of a mounted view: the seed has been asked for.
StreamInit ==
    /\ committed \in 0 .. MaxRows /\ published = committed
    /\ sock = "none" /\ delivered = published
    /\ backoff = FALSE /\ manual = FALSE /\ stopped = FALSE
    /\ seed = "loading"
    /\ series = [held |-> {}, anchor |-> NoRow] /\ contiguous = FALSE /\ queued = {}
    /\ attempt = NoAttempt /\ request = Request("asked") /\ retryTimer = FALSE
    /\ catchUp = "idle" /\ historyIncomplete = FALSE
    /\ left = FALSE
    /\ drops = 0

Drop == drops < MaxDrops /\ drops' = drops + 1

\* MUTANT: whoever answers late is still listened to.
CurrentAlways == TRUE

\* Every callback of a view that was left finds itself stale.
Current == ~left

-------------------------------------------------------------------------------
(* The backend *)

\* One worker commits a row and publishes it before it takes the next.
CommitRow ==
    /\ committed < MaxRows /\ published = committed
    /\ committed' = committed + 1
    /\ UNCHANGED <<published, socket, seed, rows, fetching, historyIncomplete, left, drops>>

Publish ==
    /\ published < committed
    /\ published' = published + 1
    \* without an open socket there is nobody to deliver it to
    /\ delivered' = IF sock = "open" THEN delivered ELSE published + 1
    /\ UNCHANGED <<committed, sock, backoff, manual, stopped>>
    /\ UNCHANGED <<seed, rows, fetching, historyIncomplete, left, drops>>

Newest(ids, n) == {i \in ids : Cardinality({j \in ids : j > i}) < n}

\* The rows from a time on and older than a cursor, newest first.
PageOf(from, before) ==
    LET matching == {i \in 1 .. committed : i >= from /\ (before # NoRow => i < before)}
    IN [state |-> "answered", items |-> Newest(matching, Limit), more |-> Cardinality(matching) > Limit]

\* The answer is computed now and read by the browser some time later.
Answer ==
    /\ request.state = "asked"
    /\ \/ request' = PageOf(attempt.from, attempt.before) /\ UNCHANGED drops
       \/ request' = Request("failed") /\ Drop
    /\ UNCHANGED <<table, socket, seed, rows, attempt, retryTimer, catchUp>>
    /\ UNCHANGED <<historyIncomplete, left>>

Answered == request.state \in {"answered", "failed"}

-------------------------------------------------------------------------------
(* The series and the catch-up *)

Reconciling == catchUp = "running"

\* MUTANT: the view grows with every row.
AbsorbedAll(view, incoming, proven) ==
    LET held == view.held \cup incoming
    IN IF incoming \subseteq view.held THEN view
       ELSE [held |-> held, anchor |-> IF proven THEN Max(held) ELSE view.anchor]

\* absorb(): rows already held change nothing; the anchor moves on proof.
Absorbed(view, incoming, proven) ==
    LET held == Newest(view.held \cup incoming, MaxPoints)
    IN IF incoming \subseteq view.held THEN view
       ELSE [held |-> held, anchor |-> IF proven THEN Max(held) ELSE view.anchor]

\* A catch-up starts from the anchor.
Reconcile ==
    /\ catchUp' = "running"
    /\ attempt' = [NoAttempt EXCEPT !.from = series.anchor]
    /\ request' = Request("asked")
    /\ retryTimer' = FALSE

\* What a page that arrived proves about the rows since the anchor; "open"
\* when the next page must be asked for.
Proof(page, collected) ==
    LET from == attempt.from
        full == Cardinality(collected) >= MaxPoints
    IN IF from # NoRow /\ \E i \in page.items : i <= from THEN "complete"
       ELSE IF from = NoRow /\ (~page.more \/ full)       THEN "complete"
       ELSE IF ~page.more                                 THEN "failed"
       ELSE IF full                                       THEN "truncated"
       ELSE IF attempt.pages + 1 = MaxPages               THEN "failed"
       ELSE "open"

\* MUTANT: a catch-up that failed is not tried again.
RearmsNever(proven) == FALSE

\* Only a failure is retried.
Rearms(proven) == ~proven

\* The end of a catch-up: what it collected, then the frames held back.
Concludes(proof, collected) ==
    LET proven == proof # "failed"
        view == Absorbed(series, collected, proven)
    IN /\ contiguous' = proven
       /\ series' = Absorbed(view, queued, proven)
       /\ queued' = {}
       /\ retryTimer' = Rearms(proven)
       /\ seed' = IF proven /\ attempt.from = NoRow /\ collected # {} THEN "ready" ELSE seed
       /\ catchUp' = proof
       /\ historyIncomplete' = (proof # "complete")
       /\ request' = Request("none") /\ attempt' = NoAttempt

PageArrives ==
    /\ Current /\ Reconciling /\ Answered
    /\ IF request.state = "failed" THEN Concludes("failed", attempt.collected)
       ELSE LET collected == attempt.collected \cup request.items
                proof == Proof(request, collected)
            IN IF proof # "open" THEN Concludes(proof, collected)
               ELSE /\ attempt' = [attempt EXCEPT !.before = Min(request.items),
                                     !.pages = @ + 1, !.collected = collected]
                    /\ request' = Request("asked")
                    /\ UNCHANGED <<rows, seed, retryTimer, catchUp, historyIncomplete>>
    /\ UNCHANGED <<table, socket, left, drops>>

\* The timer of a failed catch-up.  Every other start has cancelled it, so that
\* none is running when it fires.
CatchUpTimer ==
    /\ retryTimer
    /\ Reconcile
    /\ UNCHANGED <<table, socket, seed, rows, historyIncomplete, left, drops>>

\* The seed arrives, or does not: the socket is started either way.
SeedArrives ==
    /\ Current /\ seed = "loading" /\ ~Reconciling /\ Answered
    /\ IF request.state = "failed" THEN seed' = "failed" /\ UNCHANGED <<series, contiguous>>
       ELSE LET held == Newest(series.held \cup request.items, MaxPoints)
            IN /\ seed' = "ready" /\ contiguous' = TRUE
               /\ series' = [held |-> held, anchor |-> IF held = {} THEN NoRow ELSE Max(held)]
    /\ request' = Request("none")
    /\ sock' = "connecting"
    /\ UNCHANGED <<table, delivered, backoff, manual, stopped, queued, attempt, retryTimer, catchUp>>
    /\ UNCHANGED <<historyIncomplete, left, drops>>

\* An answer nobody waits for.
LateAnswer ==
    /\ ~Current /\ Answered
    /\ request' = Request("none")
    /\ UNCHANGED <<table, socket, seed, rows, attempt, retryTimer, catchUp>>
    /\ UNCHANGED <<historyIncomplete, left, drops>>

-------------------------------------------------------------------------------
(* The socket *)

\* MUTANT: a catch-up that is running is left to finish.
ReconcilesUnlessRunning ==
    IF Reconciling THEN UNCHANGED fetching ELSE Reconcile

\* A new subscription invalidates a snapshot that may be older than it.
Supersedes == Reconcile

Opens ==
    /\ sock \in {"connecting", "reconnecting"}
    /\ sock' = "open" /\ manual' = FALSE
    /\ delivered' = published
    /\ Supersedes
    /\ UNCHANGED <<table, backoff, stopped, seed, rows, historyIncomplete, left, drops>>

\* A frame; during a catch-up it waits.
Frame ==
    /\ sock = "open" /\ delivered < published
    /\ delivered' = delivered + 1
    /\ IF Reconciling
         THEN queued' = Newest(queued \cup {delivered + 1}, MaxPoints) /\ UNCHANGED series
         ELSE series' = Absorbed(series, {delivered + 1}, contiguous) /\ UNCHANGED queued
    /\ UNCHANGED <<table, sock, backoff, manual, stopped, seed, contiguous, fetching>>
    /\ UNCHANGED <<historyIncomplete, left, drops>>

\* The connection is refused, lost, or closed by the backend, and with it the
\* frames under way.  A permanent code ends the live connection for good.
SocketCloses ==
    /\ sock # "none" /\ Drop
    /\ sock' = "none" /\ manual' = FALSE
    /\ delivered' = published
    /\ \/ stopped' = TRUE /\ UNCHANGED backoff
       \/ backoff' = TRUE /\ UNCHANGED stopped
    /\ UNCHANGED <<table, seed, rows, fetching, historyIncomplete, left>>

SocketTimer ==
    /\ backoff
    /\ backoff' = FALSE
    /\ sock' = "reconnecting"
    /\ UNCHANGED <<table, delivered, manual, stopped, seed, rows, fetching, historyIncomplete, left, drops>>

\* The pending timer is cleared and the socket that is connecting is replaced.
TakesOver == sock' = "reconnecting" /\ manual' = TRUE /\ backoff' = FALSE

\* Is there a button to press?
RetryOffered ==
    /\ ~left
    /\ catchUp = "failed" \/ (~stopped /\ (sock = "reconnecting" \/ backoff))

\* The operator presses retry now: at most one manual attempt for the socket,
\* and a catch-up of its own for a socket that will not reopen.
RetryNow ==
    /\ RetryOffered
    /\ IF stopped \/ sock = "open" \/ manual THEN UNCHANGED <<sock, manual, backoff>>
       ELSE TakesOver
    /\ IF Reconciling THEN UNCHANGED fetching ELSE Reconcile
    /\ UNCHANGED <<table, delivered, stopped, seed, rows, historyIncomplete, left, drops>>

\* The view is closed or shows another device.
Leave ==
    /\ ~left
    /\ left' = TRUE
    /\ retryTimer' = FALSE
    /\ sock' = "none" /\ manual' = FALSE /\ backoff' = FALSE /\ delivered' = published
    /\ UNCHANGED <<table, stopped, seed, rows, attempt, request, catchUp, historyIncomplete, drops>>

Browser ==
    \/ PageArrives \/ CatchUpTimer \/ SeedArrives \/ LateAnswer
    \/ Opens \/ Frame \/ SocketTimer

StreamNext == Browser \/ CommitRow \/ Publish \/ Answer \/ SocketCloses \/ RetryNow \/ Leave

StreamSpec == StreamInit /\ [][StreamNext]_streamVars

\* The browser runs every callback that stays due, the backend publishes what
\* it committed and answers every request: a fetch has no timeout of its own.
StreamFairness ==
    /\ WF_streamVars(PageArrives)
    /\ WF_streamVars(CatchUpTimer)
    /\ WF_streamVars(SeedArrives)
    /\ WF_streamVars(Opens)
    /\ WF_streamVars(Frame)
    /\ WF_streamVars(SocketTimer)
    /\ WF_streamVars(Answer)
    /\ WF_streamVars(Publish)

-------------------------------------------------------------------------------
(* Properties *)

Oldest == Min(series.held)

\* What cannot be proven is said out loud.  A chart with a hole in it always
\* carries the warning; and while the socket is open and the last catch-up
\* was not a failure, no row since the oldest one shown is missing, except
\* those still on their way.  A connection may be lost and replaced, by a timer
\* or by hand, at any point of a catch-up, and a row be committed between any
\* two pages.  (useDeviceStream.ts:11 "Three rules make the result honest".)
HistoryHonest ==
    LET shown == series.held
        current == sock = "open" /\ catchUp \in {"complete", "truncated"}
    IN /\ shown # {} /\ ~(Oldest .. Max(shown) \subseteq shown) => historyIncomplete
       /\ current => IF shown = {} THEN delivered = 0 ELSE Oldest .. delivered \subseteq shown

\* A stream has at most one owner: a socket or the timer of its next attempt,
\* never both; a catch-up runs or waits for its timer; and a view that was left
\* has none of them, even if the answer that would start them is read later.
\* (socket.ts:12 "At most one socket and one timer exist at a time".)
OneOwner ==
    /\ ~(sock # "none" /\ backoff)
    /\ ~(Reconciling /\ retryTimer)
    /\ left => sock = "none" /\ ~backoff /\ ~retryTimer

\* The view shows the newest rows, every one since its oldest.
UpToDate ==
    /\ sock = "open" /\ catchUp \in {"complete", "truncated"}
    /\ committed # 0 => series.held # {} /\ Oldest .. committed \subseteq series.held

\* Once nothing fails any more the view catches up and stays so, unless it was
\* left or the backend refused the device for good: no loss of the socket, of a
\* page or of the seed leaves it waiting for something nobody will do.
\* (useDeviceStream.ts:19 "A failed catch-up retries on its own timer".)
CatchesUp == <>[](left \/ stopped \/ UpToDate)
===============================================================================
