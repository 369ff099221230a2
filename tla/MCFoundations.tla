--------------------------- MODULE MCFoundations ----------------------------
(***************************************************************************)
(* What the processes of the platform share, whatever they serve: how a    *)
(* database is brought to its version, how the modules of a licence are    *)
(* checked, how a receipt is made of its template.  A behaviour is about   *)
(* one of the three, chosen at the start.                                  *)
(*                                                                         *)
(* Three processes, one of the version before, and a migration that is     *)
(* changed and one that is added by the new one; two checks of a licence;  *)
(* templates of three short lines, and receipts of none to two of a kind.  *)
(***************************************************************************)
EXTENDS Upgrade, Licence, Receipts

VARIABLE area

vars == <<area, upgradeVars, licenceVars, receiptVars>>

\* What varies in an area is chosen only in a behaviour that is about it.  One of
\* before there were versions is a database of SQLite, and has marks without checksums.
Init ==
    /\ area \in {"upgrade", "licence", "receipts"}
    /\ UpgradeInit /\ LicenceInit /\ ReceiptsInit
    /\ area # "upgrade" => engine = "sqlite" /\ versioned = FALSE /\ extent = Empty
    /\ extent # Empty /\ recorded = 0 => marks # Empty /\ engine = "sqlite"
    /\ area # "licence" => terms = CHOOSE t \in Terms : TRUE

InUpgrade(action) == area = "upgrade" /\ action /\ UNCHANGED <<area, licenceVars, receiptVars>>
InLicence(action) == area = "licence" /\ action /\ UNCHANGED <<area, upgradeVars, receiptVars>>
InReceipts(action) == area = "receipts" /\ action /\ UNCHANGED <<area, upgradeVars, licenceVars>>

Next == InUpgrade(UpgradeNext) \/ InLicence(LicenceNext) \/ InReceipts(ReceiptsNext)

\* A process whose start has begun goes on; one of the latest version is started again
\* whenever it stops ("restart: unless-stopped").
Fairness ==
    /\ \A p \in Instance : WF_vars(InUpgrade((Latest(p) \/ ~At(p, "down")) /\ Startup(p)))
    /\ WF_vars(InUpgrade(PassSecond))

Spec == Init /\ [][Next]_vars /\ Fairness

-----------------------------------------------------------------------------
(* The instance.                                                           *)

MCInstance == {"old", "new", "twin"}
MCVersionOf == [p \in MCInstance |-> IF p = "old" THEN 1 ELSE 2]
MCRevision == <<<<1, 0>>, <<2, 1>>>>

MCServerIds == <<"edge", "cloud">>
Of(id, version, active, granted) ==
    [server |-> id, version |-> version, active |-> active, granted |-> granted,
     expires |-> 1]
Put(offers, operators, requests) ==
    [offers |-> offers, operators |-> operators, requests |-> requests]
Revoked == {Of("edge", 1, TRUE, TRUE), Of("edge", 2, FALSE, TRUE)}
\* A snapshot is revoked; one appears beside a fallback's; two operators revoke one.
MCTerms ==
    {Put(Revoked, {"ann"}, {"r1", "r2"}),
     Put({Of("edge", 1, TRUE, FALSE), Of("cloud", 1, TRUE, TRUE)}, {"ann"}, {"r1", "r2"}),
     Put(Revoked, {"ann", "bob"}, {"r1"})}

Open(kind, field) == [is |-> "open", kind |-> kind, field |-> field]
Shut(kind) == [is |-> "close", kind |-> kind, field |-> "none"]
Show(field) == [is |-> "text", kind |-> "none", field |-> field]
MCPiece ==
    {Open("if", "mods"), Open("each", "lines"), Open("each", "mods"),
     Shut("if"), Shut("each"), Show("name")}
MCLine == UNION {[1..n -> MCPiece] : n \in 0..2}

Value(text) == [is |-> "text", text |-> text]
Items(items) == [is |-> "list", items |-> items]
Named(name) == [name |-> Value(name)]
Extra == [name |-> Value("soup"), mods |-> Items(<<Named("salt"), [size |-> Value("big")]>>)]
Plain == [name |-> Value(""), mods |-> Items(<<>>)]
MCPrints ==
    {[name |-> Value("bar"), lines |-> Items(lined)] :
        lined \in {<<>>, <<Plain, Extra>>, <<Extra, [size |-> Value("big")]>>}}
    \cup {[name |-> Value("bar"), mods |-> Items(<<Named("salt")>>)]}

MCColumns == UNION {[1..n -> 0..3] : n \in 1..3}
=============================================================================
