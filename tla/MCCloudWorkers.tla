--------------------------- MODULE MCCloudWorkers ---------------------------
(***************************************************************************)
(* Scenarios for the inventory worker, and the streams of OLAP: each with  *)
(* two forwarders, and stock moves with one and a backfill job besides.    *)
(***************************************************************************)
EXTENDS CloudWorkers

MCEvent == {"e1", "e2", "e3", "e4"}
MCItem == {"soup", "bowl", "sauce", "stock", "stew"}
One(item, n) == [component |-> item, amount |-> n]
\* A bowl of soup is one unit of soup, sauce is made of stock, and was of soup once, stew
\* of stew.
MCVersion == [i \in MCItem |-> IF i = "sauce" THEN <<One("stock", 2)>> ELSE <<>>]
MCLegacy ==
    [soup |-> <<>>, bowl |-> <<One("soup", 1)>>, sauce |-> <<One("soup", 3)>>,
     stock |-> <<>>, stew |-> <<One("stew", 1)>>]

Of(type, at, item, quantity) ==
    [type |-> type, at |-> at, item |-> item,
     warehouse |-> IF type \in DocumentEvent THEN 1 ELSE 0,
     line |-> "none", quantity |-> quantity, cost |-> 0, linked |-> "none",
     supersedes |-> "none", disposition |-> "none", scope |-> "order_line"]
Serve(at, item, supersedes) ==
    [Of("ItemServed", at, item, 2) EXCEPT !.line = "line", !.supersedes = supersedes]
Close(at, item, n) ==
    [Of("CheckClosed", at, item, n) EXCEPT !.line = "line", !.linked = "sauce"]
Receipt(at, item, n, cost) ==
    [Of("StockReceiptCaptured", at, item, n) EXCEPT !.cost = cost]
Operation(at, disposition, scope) ==
    [Of("FinancialOperation", at, "bowl", 1)
        EXCEPT !.disposition = disposition, !.scope = scope]
Block(at) ==
    [Of("StopListUpdated", at, "soup", 0)
        EXCEPT !.disposition = "edge_overlay_until_next_publication"]
May(calls, answers, stops) == [calls |-> calls, answers |-> answers, stops |-> stops]

TheServes ==
    [e1 |-> Serve(1, "bowl", "none"), e2 |-> Serve(2, "bowl", "e1"),
     e3 |-> Serve(3, "bowl", "e2"), e4 |-> Close(4, "bowl", 3)]
TheRecalls ==
    [e1 |-> Serve(1, "bowl", "none"), e2 |-> Serve(2, "bowl", "e1"),
     e3 |-> Serve(3, "bowl", "e2"), e4 |-> Serve(4, "bowl", "e3")]
Stored ==
    [e1 |-> Receipt(1, "stock", 4, 5), e2 |-> Receipt(3, "stock", 2, 7),
     e3 |-> Of("ProductionCompleted", 2, "sauce", 1),
     e4 |-> Of("StockWriteOffCaptured", 4, "stock", 1)]
Counted ==
    [e1 |-> Receipt(2, "stew", 3, 5), e2 |-> Of("InventoryCountCaptured", 3, "stew", 1),
     e3 |-> Of("StockWriteOffCaptured", 1, "stew", 1),
     e4 |-> Of("StockWriteOffCaptured", 4, "stew", 0)]
Returned ==
    [e1 |-> Operation(1, "manual_review", "order_line"),
     e2 |-> Operation(2, "return_to_stock", "order_line"),
     e3 |-> Operation(3, "return_to_stock", "payment"), e4 |-> Block(4)]
\* As many operations nobody can decide as a batch takes, before what could be processed.
Undecided ==
    [Returned EXCEPT !.e2 = Operation(2, "manual_review", "order_line"),
                     !.e3 = Operation(3, "return_to_stock", "order_line"),
                     !.e4 = Receipt(4, "stock", 1, 5)]

\* A line that is served three times before its check, and one served four times;
\* documents that come late, and what nobody can decide.
MCScenarios ==
    {[facts |-> TheServes, faults |-> May(2, 1, 0)],
     [facts |-> TheRecalls, faults |-> May(1, 1, 0)],
     [facts |-> Undecided, faults |-> May(1, 0, 0)],
     [facts |-> Stored, faults |-> May(1, 0, 1)],
     [facts |-> Counted, faults |-> May(0, 1, 1)],
     [facts |-> Returned, faults |-> May(1, 1, 1)]}

MCEntry == {1, 2}
MCForwarder == {"first", "second"}
Exports(name, forwarders) ==
    [stream |-> name, forwarders |-> forwarders, commands |-> {"retry"},
     ranges |-> {}, costings |-> 0]
Backfilled ==
    [stream |-> "stock_moves", forwarders |-> {"first"}, commands |-> {},
     ranges |-> {MCEntry}, costings |-> 1]
MCScenes ==
    {Exports("raw_business_events", MCForwarder), Exports("stock_moves", MCForwarder),
     Backfilled}
=============================================================================
