--------------------------------- MODULE Rows ---------------------------------
(***************************************************************************)
(* The two live tables as the page shows them: polled while their tab is    *)
(* open, turned page by page, and a row of the first opened to show the     *)
(* logs of its transaction, which are asked for once and then kept.         *)
(***************************************************************************)
EXTENDS Naturals, Sequences, Tables

CONSTANTS
    Txs,                        \* bound: transactions
    MaxFetches,                 \* bound: requests for a transaction's logs at a time
    PageSize                    \* USEROPS_PAGE_SIZE, ENTRYPOINT_OPS_PAGE_SIZE

ASSUME RowsAssumption ==
    MaxFetches \in Nat /\ PageSize \in Nat \ {0} /\ "none" \notin Txs

VARIABLES
    rows,                       \* the component's state: tab; the polls awaited (due);
                                \* each list, and whether it is an error's; the number
                                \* of the page set; the row that is expanded, the one
                                \* that is loading, and the answers about logs (cache)
    fetches,                    \* requests for logs in flight
    turned,                     \* history: the page of each table the operator turned to
    shrunk,                     \* history: a list was too short for the page set
    wanted,                     \* history: the row the operator's clicks should leave open
    crossedClicks               \* history: a row was clicked while another was loading

rowsVars == <<rows, fetches, turned, shrunk, wanted, crossedClicks>>

RowsInit ==
    /\ rows = [tab |-> "live-metrics", due |-> {},
               list |-> [k \in Kinds |-> <<>>], error |-> [k \in Kinds |-> FALSE],
               number |-> [k \in Kinds |-> 1],
               expanded |-> "none", loading |-> "none", cache |-> [t \in Txs |-> "none"]]
    /\ fetches = [t \in Txs |-> 0]
    /\ turned = [k \in Kinds |-> 1] /\ shrunk = [k \in Kinds |-> FALSE]
    /\ wanted = "none" /\ crossedClicks = FALSE

-----------------------------------------------------------------------------
(* Polling *)

\* The tables' keys are null while another tab is open.
OpenTab(t) ==
    /\ rows.tab # t /\ rows' = [rows EXCEPT !.tab = t]
    /\ UNCHANGED <<fetches, turned, shrunk, wanted, crossedClicks>>

\* By the clock, or the button that refreshes both.
PollRows(kinds) ==
    /\ rows.tab = "live-metrics" /\ kinds \cap rows.due = {}
    /\ rows' = [rows EXCEPT !.due = @ \cup kinds]
    /\ UNCHANGED <<fetches, turned, shrunk, wanted, crossedClicks>>

TotalPages(list) ==
    IF list = <<>> THEN 1 ELSE (Len(list) + PageSize - 1) \div PageSize

\* The page that is shown.
Clamped(k) ==
    IF rows.number[k] < TotalPages(rows.list[k]) THEN rows.number[k] ELSE TotalPages(rows.list[k])

Paginated(k) ==
    SubSeq(rows.list[k], (Clamped(k) - 1) * PageSize + 1,
           IF Clamped(k) * PageSize < Len(rows.list[k]) THEN Clamped(k) * PageSize
           ELSE Len(rows.list[k]))

Shows(k) == {Paginated(k)[i] : i \in DOMAIN Paginated(k)}

Listed(k, list, error) ==
    /\ k \in rows.due
    /\ rows' = [rows EXCEPT !.due = @ \ {k}, !.list[k] = list, !.error[k] = error]
    /\ shrunk' = [shrunk EXCEPT ![k] = @ \/ rows.number[k] > TotalPages(list)]
    /\ UNCHANGED <<fetches, turned, wanted, crossedClicks>>

\* Refused, or no answer: the rows stay as they are, and nothing tells.
PollFails(k) ==
    /\ k \in rows.due
    /\ rows' = [rows EXCEPT !.due = @ \ {k}]
    /\ UNCHANGED <<fetches, turned, shrunk, wanted, crossedClicks>>

-----------------------------------------------------------------------------
(* Turning pages *)

Turn(k, number, shown) ==
    /\ rows.tab = "live-metrics" /\ ~rows.error[k] /\ TotalPages(rows.list[k]) > 1
    /\ rows' = [rows EXCEPT !.number[k] = number]
    /\ turned' = [turned EXCEPT ![k] = shown]
    /\ UNCHANGED <<fetches, shrunk, wanted, crossedClicks>>

\* From the number that is set, which may be past the last page.
Previous(k) ==
    /\ Clamped(k) > 1
    /\ Turn(k, rows.number[k] - 1, Clamped(k) - 1)

NextPage(k) ==
    /\ Clamped(k) < TotalPages(rows.list[k])
    /\ Turn(k, rows.number[k] + 1, Clamped(k) + 1)

-----------------------------------------------------------------------------
(* The logs of a row *)

\* Variant with a mistake: the button stays on while its logs are on their way.
AlwaysClickable(tx) ==
    rows.tab = "live-metrics" /\ ~rows.error["userops"] /\ tx \in Shows("userops")

Clickable(tx) ==
    /\ rows.tab = "live-metrics" /\ ~rows.error["userops"]
    /\ tx \in Shows("userops")
    /\ rows.loading # tx

\* onLogsClick: close it, open it from what is kept, or ask.
Click(tx) ==
    /\ Clickable(tx)
    /\ \/ /\ rows.expanded = tx
          /\ rows' = [rows EXCEPT !.expanded = "none"] /\ UNCHANGED fetches
       \/ /\ rows.expanded # tx /\ rows.cache[tx] # "none"
          /\ rows' = [rows EXCEPT !.expanded = tx] /\ UNCHANGED fetches
       \/ /\ rows.expanded # tx /\ rows.cache[tx] = "none" /\ fetches[tx] < MaxFetches
          /\ rows' = [rows EXCEPT !.loading = tx]
          /\ fetches' = [fetches EXCEPT ![tx] = @ + 1]
    /\ wanted' = IF wanted = tx THEN "none" ELSE tx
    /\ crossedClicks' = (crossedClicks \/ \E t \in Txs \ {tx} : fetches[t] > 0)
    /\ UNCHANGED <<turned, shrunk>>

\* What the server makes of the transaction's receipt, events it does not know
\* included; an error of the node, or of its own.
DecodeTransactionLogs == {"logs", "error"}

\* An error is kept like an answer, and not asked for again.
LogsAnswered(tx, answer) ==
    /\ fetches[tx] > 0
    /\ fetches' = [fetches EXCEPT ![tx] = @ - 1]
    /\ rows' = [rows EXCEPT !.cache[tx] = answer, !.expanded = tx, !.loading = "none"]
    /\ UNCHANGED <<turned, shrunk, wanted, crossedClicks>>

\* What is under a row that is open.
OpenRow(tx) ==
    IF rows.loading = tx THEN "loading"
    ELSE IF rows.cache[tx] = "none" THEN "no-logs" ELSE rows.cache[tx]

RowsStep ==
    \/ \E t \in {"live-metrics", "control-plane"} : OpenTab(t)
    \/ \E tx \in Txs : Click(tx) \/ \E answer \in DecodeTransactionLogs : LogsAnswered(tx, answer)

\* The tables of these kinds are polled and turned.
TableRowsStep(kinds, lists) ==
    \/ \E some \in SUBSET kinds \ {{}} : PollRows(some)
    \/ \E k \in kinds :
           \/ \E list \in lists : Listed(k, list, FALSE)
           \/ Listed(k, <<>>, TRUE)
           \/ PollFails(k) \/ Previous(k) \/ NextPage(k)

-----------------------------------------------------------------------------
(* Properties *)

\* Once the logs asked for have come, the row that is open is the one the clicks
\* should leave open; and the same logs are not asked for twice at a time.  Both
\* hold unless a row was clicked while another one's logs were on their way: there
\* is one place for the row that is loading, and the last answer opens its row.  But
\* never does an open row say that there are no logs when none were asked for.
RowsFollowClicks ==
    /\ ~crossedClicks => /\ \A t \in Txs : fetches[t] <= 1
                         /\ (\A t \in Txs : fetches[t] = 0) => rows.expanded = wanted
    /\ rows.expanded # "none" => OpenRow(rows.expanded) # "no-logs"

\* A table shows the page the operator turned to, and rows if there are any, unless
\* the list was once too short for it.
PagesTurn ==
    \A k \in Kinds : /\ ~shrunk[k] => Clamped(k) = turned[k]
                     /\ rows.list[k] # <<>> => Paginated(k) # <<>>

RowsExplained == RowsFollowClicks /\ PagesTurn

=============================================================================
