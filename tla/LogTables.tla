------------------------------- MODULE LogTables -------------------------------
(***************************************************************************)
(* The two log tables: the system log (SystemLogs.tsx) and the audit log   *)
(* (useAuditLogs.ts, AuditLogsPage.tsx).  Each loads its entries again     *)
(* whenever its filters change, and applies the answers as they come.      *)
(*                                                                         *)
(* The system log loads at every change of the search text and may refresh *)
(* itself in the background; the audit log waits for a pause in typing and *)
(* shows one page of the result.  The server lists that page and counts    *)
(* the result in two queries without a transaction: an entry may be        *)
(* recorded, or an old one deleted, between them.                          *)
(***************************************************************************)
EXTENDS Naturals

CONSTANTS
    Queries,       \* search texts
    Empty,         \* the empty text
    Facets,        \* level and limit; source and outcome
    AllEntries,    \* the facet a table opens with
    PageSize,      \* AUDIT_PAGE_SIZE, 50 in the code
    MaxTotal,      \* entries on the server
    Boot,          \* what the server may hold when the table is opened
    Never,         \* no interval
    MaxInputs,     \* changes and clicks of the user
    MaxTicks,      \* background refreshes
    MaxTrouble     \* failed requests, changes on the server

ASSUME TablesAssumption ==
    /\ Empty \in Queries
    /\ AllEntries \in Facets
    /\ PageSize \in Nat \ {0}
    /\ MaxTotal \in Nat \ {0}
    /\ Boot \subseteq [[query: Queries, facet: Facets] -> 0..MaxTotal]

VARIABLES
    table,         \* which of the two tables this is
    queryInput,    \* text in the search box
    debounce,      \* is the typing timer of the audit log running
    args,          \* committed filters and page
    ticker,        \* filters the refresh interval was started with, or Never
    requests,      \* on their way
    issued,        \* requests so far
    entries,       \* the answer on screen
    loading, error,
    totals,        \* matching entries on the server
    steady,        \* history: answers in order, none failed, no total shrank
    budget         \* what is left of the bounds

tableVars == <<table, queryInput, debounce, args, ticker, requests, issued, entries,
               loading, error, totals, steady, budget>>

-----------------------------------------------------------------------------
Filter == [query: Queries, facet: Facets]

LastPage == (MaxTotal - 1) \div PageSize

Args == [query: Queries, facet: Facets, page: 0..LastPage]

FilterOf(a) == [query |-> a.query, facet |-> a.facet]

MaxIssued == 1 + MaxInputs + MaxTicks + 1

\* What the server answers: the rows of the page and the total it counted.
\* listed is the total when the rows were listed (a history field).
Answer == [rows: 0..PageSize, total: 0..MaxTotal, listed: 0..MaxTotal]
NoAnswer == [rows |-> 0, total |-> 0, listed |-> 0]

Request == [n: 1..MaxIssued, args: Args, silent: BOOLEAN,
            state: {"sent", "listed", "served", "failed"}, answer: Answer]

TablesTypeOK ==
    /\ table \in {"system", "audit"}
    /\ queryInput \in Queries /\ debounce \in BOOLEAN
    /\ args \in Args
    /\ ticker \in Args \cup {Never}
    /\ requests \subseteq Request
    /\ issued \in 1..MaxIssued
    /\ entries \in [n: 0..MaxIssued, args: Args, answer: Answer]
    /\ loading \in BOOLEAN /\ error \in BOOLEAN
    /\ totals \in [Filter -> 0..MaxTotal]
    /\ steady \in BOOLEAN
    /\ budget \in [inputs: 0..MaxInputs, ticks: 0..MaxTicks, trouble: 0..MaxTrouble]

Charge(kind) == budget[kind] > 0 /\ budget' = [budget EXCEPT ![kind] = @ - 1]

\* fetchLogs, or the refresh in the background, up to the await.
Fetch(a, silent) ==
    /\ issued' = issued + 1
    /\ requests' = requests \cup {[n |-> issued', args |-> a, silent |-> silent,
                                   state |-> "sent", answer |-> NoAnswer]}
    /\ loading' = (loading \/ ~silent)
    /\ error' = (error /\ silent)
    /\ steady' = (steady /\ requests = {})

\* The interval effect: a running interval is restarted with the new filters.
Restarted(a) == IF ticker = Never THEN Never ELSE a

\* A render with new filters runs the effects; one with the same does not.
Commit(a) ==
    /\ args' = a
    /\ IF a = args
       THEN UNCHANGED <<ticker, requests, issued, loading, error, steady>>
       ELSE ticker' = Restarted(a) /\ Fetch(a, FALSE)

-----------------------------------------------------------------------------
\* Typing: the system log commits at once, the audit log restarts its timer.
TypeQuery(q) ==
    /\ q # queryInput
    /\ Charge("inputs")
    /\ queryInput' = q
    /\ IF table = "system"
       THEN Commit([args EXCEPT !.query = q]) /\ UNCHANGED debounce
       ELSE /\ debounce' = TRUE
            /\ UNCHANGED <<args, ticker, requests, issued, loading, error, steady>>
    /\ UNCHANGED <<table, entries, totals>>

\* The pause is over: query and page are set together.
DebounceFires ==
    /\ debounce
    /\ debounce' = FALSE
    /\ Commit([args EXCEPT !.query = queryInput, !.page = 0])
    /\ UNCHANGED <<table, queryInput, entries, totals, budget>>

\* Mutant: a change of filter stays on the page.
RefilteredSamePage(f) == [args EXCEPT !.facet = f]

\* updateSource and updateOutcome; the system log has no pages.
Refiltered(f) == [args EXCEPT !.facet = f, !.page = 0]

PickFacet(f) ==
    /\ f # args.facet
    /\ Charge("inputs")
    /\ Commit(Refiltered(f))
    /\ UNCHANGED <<table, queryInput, debounce, entries, totals>>

\* Pages of the result on screen.
Pages == IF entries.answer.total = 0 THEN 1
         ELSE (entries.answer.total + PageSize - 1) \div PageSize

\* Rows the pager announces: "rangeStart-rangeEnd of total", or no entries.
Announced ==
    LET total == entries.answer.total
        rangeEnd == IF total < (args.page + 1) * PageSize THEN total ELSE (args.page + 1) * PageSize
    IN  IF total = 0 THEN 0 ELSE rangeEnd - args.page * PageSize

NextEnabled == args.page + 1 < Pages /\ ~loading

PrevEnabled == args.page > 0 /\ ~loading

TurnPage ==
    /\ table = "audit"
    /\ Charge("inputs")
    /\ \/ NextEnabled /\ Commit([args EXCEPT !.page = @ + 1])
       \/ PrevEnabled /\ Commit([args EXCEPT !.page = @ - 1])
    /\ UNCHANGED <<table, queryInput, debounce, entries, totals>>

\* The refresh button.
RefreshTable ==
    /\ ~loading
    /\ Charge("inputs")
    /\ Fetch(args, FALSE)
    /\ UNCHANGED <<table, queryInput, debounce, args, ticker, entries, totals>>

\* The automatic refresh is switched on or off.
SwitchAuto ==
    /\ table = "system"
    /\ Charge("inputs")
    /\ ticker' = IF ticker = Never THEN args ELSE Never
    /\ UNCHANGED <<table, queryInput, debounce, args, requests, issued, entries, loading,
                   error, totals, steady>>

\* The interval fires; a refresh in the background does not show as loading.
RefreshTick ==
    /\ ticker # Never
    /\ Charge("ticks")
    /\ Fetch(ticker, TRUE)
    /\ UNCHANGED <<table, queryInput, debounce, args, ticker, entries, totals>>

-----------------------------------------------------------------------------
\* Rows of a page of the result: LIMIT and OFFSET of the list query.
PageOf(total, page) ==
    LET offset == page * PageSize
    IN  IF total <= offset THEN 0
        ELSE IF total - offset < PageSize THEN total - offset ELSE PageSize

Answered(r, s, answer) ==
    /\ requests' = (requests \ {r}) \cup {[r EXCEPT !.state = s, !.answer = answer]}
    /\ UNCHANGED <<table, queryInput, debounce, args, ticker, issued, entries, loading, error>>

\* The rows are read.  GetSystemLogs reads them from the buffer and is done;
\* ListAuditLogs goes on to count.
ListRows(r) ==
    /\ r.state = "sent"
    /\ LET there == totals[FilterOf(r.args)]
       IN  Answered(r, IF table = "system" THEN "served" ELSE "listed",
                    [rows |-> PageOf(there, r.args.page), total |-> 0, listed |-> there])
    /\ UNCHANGED <<totals, steady, budget>>

\* The second query of ListAuditLogs.
CountRows(r) ==
    /\ r.state = "listed"
    /\ Answered(r, "served", [r.answer EXCEPT !.total = totals[FilterOf(r.args)]])
    /\ UNCHANGED <<totals, steady, budget>>

\* Either query fails, or the request does.
FailTable(r) ==
    /\ r.state \in {"sent", "listed"}
    /\ Charge("trouble")
    /\ Answered(r, "failed", NoAnswer)
    /\ steady' = FALSE
    /\ UNCHANGED totals

\* An entry is recorded, or an old one deleted.
ServerChanges ==
    /\ Charge("trouble")
    /\ \E f \in Filter, n \in 0..MaxTotal :
          /\ n + 1 = totals[f] \/ n = totals[f] + 1
          /\ totals' = [totals EXCEPT ![f] = n]
          /\ steady' = (steady /\ n >= totals[f])
    /\ UNCHANGED <<table, queryInput, debounce, args, ticker, requests, issued, entries,
                   loading, error>>

\* Mutant: loading ends with a success only.
LoadingAfterSuccess(r) == loading /\ (r.silent \/ r.state = "failed")

\* The finally block; a refresh in the background has none.
LoadingAfter(r) == loading /\ r.silent

LandTable(r) ==
    /\ r.state \in {"served", "failed"}
    /\ requests' = requests \ {r}
    /\ entries' = IF r.state = "served"
                  THEN [n |-> r.n, args |-> r.args, answer |-> r.answer] ELSE entries
    /\ loading' = LoadingAfter(r)
    /\ error' = (error \/ (r.state = "failed" /\ ~r.silent))
    /\ UNCHANGED <<table, queryInput, debounce, args, ticker, issued, totals, steady, budget>>

-----------------------------------------------------------------------------
\* The mounting effects have run: the first request is on its way, and the
\* timer of the search box or the refresh interval is running.
TablesInit ==
    LET first == [query |-> Empty, facet |-> AllEntries, page |-> 0]
    IN  /\ table \in {"system", "audit"}
        /\ queryInput = Empty /\ debounce = (table = "audit")
        /\ args = first
        /\ ticker = IF table = "system" THEN first ELSE Never
        /\ requests = {[n |-> 1, args |-> first, silent |-> FALSE,
                        state |-> "sent", answer |-> NoAnswer]}
        /\ issued = 1
        /\ entries = [n |-> 0, args |-> first, answer |-> NoAnswer]
        /\ loading = TRUE /\ error = FALSE
        /\ totals \in Boot
        /\ steady = TRUE
        /\ budget = [inputs |-> MaxInputs, ticks |-> MaxTicks, trouble |-> MaxTrouble]

TablesNext ==
    \/ \E q \in Queries : TypeQuery(q)
    \/ \E f \in Facets : PickFacet(f)
    \/ DebounceFires \/ TurnPage \/ RefreshTable \/ SwitchAuto \/ RefreshTick \/ ServerChanges
    \/ \E r \in requests : ListRows(r) \/ CountRows(r) \/ FailTable(r) \/ LandTable(r)

TablesSpec == TablesInit /\ [][TablesNext]_tableVars

-----------------------------------------------------------------------------
(* Properties.                                                             *)

\* Every change of what is asked for loads again, and the refresh in the
\* background asks for the same: when the newest request is the one on screen,
\* the table shows the filters and the page that are selected.  If it arrived
\* in order and nothing was deleted meanwhile, the audit log's pager points
\* into the result: the page exists, also after turning pages while entries are
\* recorded, and the range it announces covers every row of the table and goes
\* beyond them by no more than what was recorded between the list and the count
\* of ListAuditLogs (admin/service.go:536,541).
FreshIsCurrent ==
    entries.n = issued =>
        /\ entries.args = args
        /\ table = "audit" /\ steady =>
              /\ args.page < Pages
              /\ entries.answer.rows <= Announced
              /\ Announced + entries.answer.listed
                     <= entries.answer.rows + entries.answer.total
=============================================================================
