-------------------------------- MODULE Tables --------------------------------
(***************************************************************************)
(* The two live tables of the dashboard: the operations the paymaster       *)
(* charged, from its own events, and those the EntryPoint handled for it.   *)
(* Each is asked for by itself, of its own paymaster and at its own time,   *)
(* while blocks are added; an operation's block is where its log is.        *)
(***************************************************************************)
EXTENDS Naturals, FiniteSets, Places

CONSTANTS
    Ops,                        \* operations
    BlockRange,                 \* DASHBOARD_USEROPS_BLOCK_RANGE
    Limit,                      \* the rows a table is asked for
    MaxBlock                    \* bound: the last block

ASSUME TablesAssumption == {BlockRange, MaxBlock} \subseteq Nat /\ Limit \in Nat \ {0} /\ IsFiniteSet(Ops)

Kinds == {"userops", "entrypoint"}

VARIABLES
    head,                       \* the newest block
    handled,                    \* block (0: none yet), paymaster and event of an operation
    table                       \* of each kind: at; the paymaster and the newest block
                                \* it is about; its rows; whether the page has it

tablesVars == <<head, handled, table>>

NoTable == [at |-> "idle", of |-> "none", upTo |-> 0, rows |-> {}, ok |-> FALSE]

TablesInit ==
    /\ head = 1
    /\ handled = [o \in Ops |-> [block |-> 0, paymaster |-> "none", event |-> "none"]]
    /\ table = [k \in Kinds |-> NoTable]

-----------------------------------------------------------------------------
(* The chain *)

\* What postOp emits: nothing if it reverts, and then the EntryPoint's own event
\* is all there is.
Events == {"GasCharged", "GasChargedWithReferral", "none"}

\* A block with some of the operations, or none.
Block(ops) ==
    /\ head < MaxBlock
    /\ head' = head + 1
    /\ \E paymaster \in [ops -> Paymasters], event \in [ops -> Events] :
           handled' = [o \in Ops |->
               IF o \in ops THEN [block |-> head + 1, paymaster |-> paymaster[o],
                                  event |-> event[o]]
               ELSE handled[o]]
    /\ UNCHANGED table

Unhandled == {o \in Ops : handled[o].block = 0}

-----------------------------------------------------------------------------
(* A request for a table *)

Address(k) ==
    IF k = "userops" THEN AddressForUserOps ELSE AddressForEntryPointOps

\* An error leaves the table empty.
Error(k) == table' = [table EXCEPT ![k] = NoTable]

Poll(k) ==
    /\ table[k].at = "idle"
    /\ IF Address(k) = "none" THEN Error(k)
       ELSE table' = [table EXCEPT ![k] = [NoTable EXCEPT !.at = "block", !.of = Address(k)]]
    /\ UNCHANGED <<head, handled>>

ReadBlockNumber(k) ==
    /\ table[k].at = "block"
    /\ table' = [table EXCEPT ![k].at = "logs", ![k].upTo = head]
    /\ UNCHANGED <<head, handled>>

InRange(k, o) ==
    /\ handled[o].block > 0
    /\ handled[o].block <= table[k].upTo /\ table[k].upTo <= handled[o].block + BlockRange

\* Variant with a mistake: a charge with a referral is not looked for.
LogsWithoutReferral(k) ==
    {o \in Ops : /\ InRange(k, o) /\ handled[o].paymaster = table[k].of
                 /\ k = "userops" => handled[o].event = "GasCharged"}

\* The logs that tell of an operation in this table.
Logs(k) ==
    {o \in Ops : /\ InRange(k, o) /\ handled[o].paymaster = table[k].of
                 /\ k = "userops" => handled[o].event # "none"}

\* The newest rows, as many as were asked for; of one block in any order.
Newest(logs) ==
    IF Cardinality(logs) <= Limit THEN {logs}
    ELSE {rows \in SUBSET logs :
              /\ Cardinality(rows) = Limit
              /\ \A in \in rows, out \in logs \ rows : handled[in].block >= handled[out].block}

ReadLogs(k) ==
    /\ table[k].at = "logs"
    /\ \E rows \in Newest(Logs(k)) :
           table' = [table EXCEPT ![k].at = "idle", ![k].rows = rows, ![k].ok = TRUE]
    /\ UNCHANGED <<head, handled>>

\* Redis or the node does not answer.
TableFails(k) ==
    /\ table[k].at # "idle" /\ Error(k)
    /\ UNCHANGED <<head, handled>>

TablesStep == \E k \in Kinds : Poll(k) \/ ReadBlockNumber(k) \/ ReadLogs(k) \/ TableFails(k)

-----------------------------------------------------------------------------
(* Properties *)

Shown(k) == table[k].at = "idle" /\ table[k].ok

\* A table is full of operations at least as new as this one.
FullOfNewer(some, o) ==
    Cardinality(some) = Limit /\ \A p \in some : handled[p].block >= handled[o].block

\* An operation can be on the page in one table and not in the other only if it
\* was never charged, or is outside what the other was made of, or the other is
\* full of operations at least as new; or if the two are of different paymasters.
TablesAgree ==
    Shown("userops") /\ Shown("entrypoint") /\ table["userops"].of = table["entrypoint"].of =>
        \A k, l \in Kinds : \A o \in table[k].rows \ table[l].rows :
            \/ l = "userops" /\ handled[o].event = "none"
            \/ ~InRange(l, o)
            \/ FullOfNewer(table[l].rows, o)

=============================================================================
