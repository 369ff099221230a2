------------------------------- MODULE Ingest -------------------------------
(***************************************************************************)
(* The Edge takes a message of master data (mastersync/service.go): the    *)
(* package of one stream, or the rows of many in one snapshot, over HTTP   *)
(* (api/router.go) or from an exchange.  Messages come in any order, older *)
(* ones and repeated ones too; this service compares no versions.          *)
(*                                                                         *)
(* A row is its key, the keys it names, the restaurant it is of ("" when   *)
(* left out) and whether it is sound, that is, passes the validation of    *)
(* its table once trimmed.  Unique names are left out.                     *)
(***************************************************************************)
EXTENDS Integers, Sequences, Functions, TLC

CONSTANT Talks      \* sequences of messages; a behaviour hears messages of one of them

-----------------------------------------------------------------------------
(* The streams and their tables.                                           *)

Supported ==
    {"restaurants", "devices", "staff", "restaurant_sections", "floor", "catalog",
     "menu", "pricing", "recipes", "inventory", "proposal_feedback",
     "receipt_templates", "printers", "sales_points"}

CatalogTables ==
    {"folders", "folder_parameters", "tags", "catalog_items", "item_tags",
     "modifier_groups", "modifier_options", "modifier_bindings"}
PricingTables == {"tax_profiles", "tax_rules", "service_charge_rules", "pricing_policies"}
RecipeTables == {"recipe_versions", "recipe_lines"}
InventoryTables == {"warehouses", "stop_lists"}
FeedbackTables == {"catalog_suggestions", "recipe_suggestions"}

TablesOf(stream) ==
    CASE stream = "staff" -> {"roles", "employees"}
      [] stream = "floor" -> {"halls", "tables"}
      [] stream = "catalog" -> CatalogTables
      [] stream = "menu" -> {"menu_items"}
      [] stream = "pricing" -> PricingTables
      [] stream = "recipes" -> RecipeTables
      [] stream = "inventory" -> InventoryTables
      [] stream = "proposal_feedback" -> FeedbackTables
      [] OTHER -> {stream}
Links == "menu_item_modifier_groups"

\* The tables in the order they are written: the streams as streamsToApply has them, and
\* the tables of each as applyStream has them.  The groups of menu items come with the
\* menu or, if the message has no menu items, with the catalog just before it.
WriteOrder ==
    <<"restaurants", "devices", "roles", "employees", "restaurant_sections", "halls",
      "tables", "folders", "folder_parameters", "tags", "catalog_items", "item_tags",
      "modifier_groups", "modifier_options", "modifier_bindings", "menu_items", Links,
      "tax_profiles", "tax_rules", "service_charge_rules", "pricing_policies",
      "recipe_versions", "recipe_lines", "warehouses", "stop_lists",
      "catalog_suggestions", "recipe_suggestions", "receipt_templates", "printers",
      "sales_points">>
MasterTable == Range(WriteOrder)
PlaceOf(table) == CHOOSE n \in DOMAIN WriteOrder : WriteOrder[n] = table

-----------------------------------------------------------------------------
(* Messages.                                                               *)

MasterRow ==
    [table : MasterTable, id : STRING, names : SUBSET (MasterTable \X STRING),
     restaurant : STRING, sound : BOOLEAN]
MasterMessage ==
    [stream : STRING, mode : STRING, reason : STRING, version : Int, restaurant : STRING,
     rows : Seq(MasterRow)]

ASSUME TalksAssumption == Talks \in Seq(Seq(MasterMessage))

VARIABLES
    talk,           \* which messages this behaviour hears
    copy,           \* the rows of the Edge's master data
    suspended,      \* ids of its employees who are not active
    routed,         \* ids of the printers its print routes name
    states,         \* cloud_master_sync_state, by stream
    heard,          \* history: which messages were taken, in order
    answer          \* the last message, and what came of it

ingestVars == <<talk, copy, suspended, routed, states, heard, answer>>

Has(m, table) == \E i \in DOMAIN m.rows : m.rows[i].table = table

\* streamsToApply: the stream the message is for, or every stream it has rows of.
StreamsToApply(m) ==
    IF m.stream # "" THEN {m.stream} \cap Supported
    ELSE {s \in Supported : \/ \E table \in TablesOf(s) : Has(m, table)
                            \/ s = "catalog" /\ Has(m, Links)}

\* shouldApplyMenuItemModifierGroupsInCatalog, and InMenu
LinksAreWritten(m) == m.stream \in {"", "catalog", "menu"}

\* The rows of a message that applyStream writes, and which of two it writes first.
Written(m) ==
    LET streams == StreamsToApply(m) IN
    {i \in DOMAIN m.rows :
        \/ \E s \in streams : m.rows[i].table \in TablesOf(s)
        \/ m.rows[i].table = Links /\ LinksAreWritten(m)}
\* Mutant: the rows are written as they come, the tags of an item before the item.
PrecedesAsSent(m, i, j) == i < j
Precedes(m, i, j) ==
    LET first == PlaceOf(m.rows[i].table)
        second == PlaceOf(m.rows[j].table)
    IN  first < second \/ (first = second /\ i < j)

\* normalizeReceiptPrinter, normalizeWarehouseReference, normalizeStopListEntry: a row
\* that does not say so is of the message's restaurant.
Normalized(row, m) ==
    IF row.table \in {"printers", "warehouses", "stop_lists"} /\ row.restaurant = ""
    THEN [row EXCEPT !.restaurant = m.restaurant] ELSE row

-----------------------------------------------------------------------------
(* What a message must be.                                                 *)

\* normalizeFullSnapshotReason
Reasons == {"terminal_restaurant_changed", "node_role_changed"}

\* payloadRowCount: sections and sales points do not count, and what menu items are linked
\* with counts for the catalog only.
Counts(m) ==
    \E s \in StreamsToApply(m) \ {"restaurant_sections", "sales_points"} :
        \/ \E table \in TablesOf(s) : Has(m, table)
        \/ s = "catalog" /\ Has(m, Links)

\* validatePayload, before anything is written.
Sound(m) == \A i \in Written(m) : m.rows[i].sound

Fits(m) ==
    /\ m.version >= 0
    /\ \/ m.mode = "full_snapshot" /\ m.reason \in Reasons /\ Counts(m)
       \/ m.mode = "incremental" /\ m.reason = ""
    /\ StreamsToApply(m) # {}
    /\ Sound(m)

-----------------------------------------------------------------------------
(* The database.                                                           *)

Key(row) == <<row.table, row.id>>
Keys(set) == {Key(row) : row \in set}

\* The names the schema checks, at once.
References ==
    ({"devices", "employees", "halls", "tables", "service_charge_rules",
      "pricing_policies"} \X {"restaurants"})
    \cup {<<"employees", "roles">>, <<"tables", "halls">>,
          <<"tables", "restaurant_sections">>, <<"restaurant_sections", "halls">>,
          <<"sales_points", "tables">>, <<"folders", "folders">>,
          <<"folder_parameters", "folders">>, <<"item_tags", "catalog_items">>,
          <<"item_tags", "tags">>, <<"modifier_options", "modifier_groups">>,
          <<"modifier_bindings", "modifier_groups">>, <<Links, "menu_items">>,
          <<Links, "modifier_groups">>, <<"menu_items", "catalog_items">>,
          <<"menu_items", "tax_profiles">>, <<"tax_rules", "tax_profiles">>,
          <<"recipe_versions", "catalog_items">>, <<"recipe_lines", "recipe_versions">>,
          <<"recipe_lines", "catalog_items">>}
Checked(row) == {key \in row.names : <<row.table, key[1]>> \in References}

\* ReplaceMasterReceiptTemplates clears the table, ReplaceMasterReceiptPrinters what is
\* of the message's restaurant; both insert, all others upsert.
Cleared(m) ==
    {row \in copy :
        \/ row.table = "receipt_templates" /\ "receipt_templates" \in StreamsToApply(m)
        \/ row.table = "printers" /\ row.restaurant = m.restaurant
           /\ "printers" \in StreamsToApply(m)}
Inserted(row) == row.table \in {"receipt_templates", "printers"}

\* Each row names itself or what is there already: what the copy keeps, and the rows that
\* are written before it.
InOrder(m) ==
    LET kept == Keys(copy \ Cleared(m))
        written == Written(m)
    IN  \A i \in written :
            LET row == m.rows[i]
                before == kept \cup
                    {Key(m.rows[j]) : j \in {k \in written : Precedes(m, k, i)}}
            IN  /\ Checked(row) \subseteq before \cup {Key(row)}
                /\ Inserted(row) => Key(row) \notin before
\* A printer that a route names cannot be cleared, though it would come back at once.
Clearable(row) == row.table = "printers" => row.id \notin routed

\* Every write of the transaction is let through.
Lands(m) == (\A row \in Cleared(m) : Clearable(row)) /\ InOrder(m)

\* The last row of each key is what stays of the message; proposals are only marked
\* (Kitchen).
Lasting(m) ==
    {i \in Written(m) :
        /\ m.rows[i].table \notin FeedbackTables
        /\ \A j \in Written(m) : Key(m.rows[j]) = Key(m.rows[i]) => ~Precedes(m, i, j)}
Upserted(m) ==
    LET written == {Normalized(m.rows[i], m) : i \in Lasting(m)}
    IN  {row \in copy \ Cleared(m) : Key(row) \notin Keys(written)} \cup written

\* DeactivateMissingMasterEmployees, before the rows of the staff: whoever the message
\* leaves out of its restaurant's staff is suspended.
Suspended(m) ==
    IF "staff" \notin StreamsToApply(m) THEN suspended
    ELSE LET named == {m.rows[i].id : i \in {k \in DOMAIN m.rows :
                                                m.rows[k].table = "employees"}}
             missing == {row.id : row \in {e \in copy :
                            e.table = "employees" /\ e.restaurant = m.restaurant}}
         IN  (suspended \cup missing) \ named

-----------------------------------------------------------------------------
(* ApplyMasterData.                                                        *)

\* buildAppliedState and UpsertMasterDataSyncState, for each stream of the message.
Recorded(m) ==
    [s \in StreamsToApply(m) |-> [version |-> m.version, mode |-> m.mode]] @@ states

Answered(n, outcome) == answer' = [message |-> n, outcome |-> outcome] /\ UNCHANGED talk
NothingWritten == UNCHANGED <<copy, suspended, routed, states, heard>>

Take(n) ==
    LET m == Talks[talk][n] IN
    /\ Fits(m) /\ Lands(m)
    /\ copy' = Upserted(m)
    /\ suspended' = Suspended(m)
    /\ states' = Recorded(m)
    /\ heard' = Append(heard, n)
    /\ Answered(n, "taken") /\ UNCHANGED routed

\* A message that is not valid, or a transaction the database rolls back.
Refuse(n) ==
    LET m == Talks[talk][n] IN
    /\ ~(Fits(m) /\ Lands(m))
    /\ Answered(n, "refused") /\ NothingWritten

\* backupBeforeFullSnapshot fails.
BackUpInVain(n) ==
    LET m == Talks[talk][n] IN
    /\ m.mode = "full_snapshot" /\ Fits(m)
    /\ Answered(n, "no_backup") /\ NothingWritten

\* validatePrintRoute: a printer of the restaurant the route is for; what else the route is
\* about, a sales point or a section, is left out.
Routable(row, restaurant) == row.table = "printers" /\ row.restaurant = restaurant
\* CreatePrintRoute: an operator of a restaurant names a printer.  Routes are switched off,
\* never deleted.
CreatePrintRoute ==
    /\ \E row \in copy :
          /\ \E r \in copy : r.table = "restaurants" /\ Routable(row, r.id)
          /\ routed' = routed \cup {row.id} /\ row.id \notin routed
    /\ UNCHANGED <<talk, copy, suspended, states, heard, answer>>

IngestInit ==
    /\ talk \in DOMAIN Talks
    /\ copy = {} /\ suspended = {} /\ routed = {}
    /\ states = [s \in {} |-> [version |-> 0, mode |-> ""]]
    /\ heard = <<>>
    /\ answer = [outcome |-> "none"]

IngestNext ==
    \/ CreatePrintRoute
    \/ \E n \in DOMAIN Talks[talk] : Take(n) \/ Refuse(n) \/ BackUpInVain(n)

-----------------------------------------------------------------------------
(* Properties.                                                             *)

\* The rows a message is about: all of them, or those of its stream.
IsAbout(m, row) ==
    \/ m.stream = ""
    \/ row.table \in TablesOf(m.stream)
    \/ row.table = Links /\ m.stream \in {"catalog", "menu"}
About(m) == {row \in Range(m.rows) : IsAbout(m, row)}

\* Nothing it names is unknown, every row is sound, and it says what it is.
Proper(m) ==
    /\ m.version >= 0 /\ (m.stream = "" \/ m.stream \in Supported)
    /\ m.stream = "" => m.rows # <<>>
    /\ IF m.mode = "full_snapshot" THEN m.reason \in Reasons /\ About(m) # {}
       ELSE m.mode = "incremental" /\ m.reason = ""
    /\ \A row \in About(m) :
          row.sound /\ Checked(row) \subseteq Keys(copy) \cup Keys(About(m))

\* What the order of the streams does not bear: the hall of a section, or the tax profile
\* of a menu item, that comes with it for the first time; or that of the message: a folder
\* that comes after one in it.
ComesTooEarly(m) ==
    \E i, j \in DOMAIN m.rows :
        LET row == m.rows[i]
            key == Key(m.rows[j])
        IN  /\ {row, m.rows[j]} \subseteq About(m)
            /\ key \in row.names \ Keys(copy)
            /\ \/ <<row.table, key[1]>> \in
                     {<<"restaurant_sections", "halls">>, <<"menu_items", "tax_profiles">>}
               \/ <<row.table, key[1]>> = <<"folders", "folders">> /\ i < j
\* A snapshot of nothing but sections and sales points, or of what menu items are linked
\* with, is taken for an empty one.
CountsAsEmpty(m) ==
    /\ m.mode = "full_snapshot"
    /\ \A row \in About(m) :
          \/ row.table \in {"restaurant_sections", "sales_points"}
          \/ row.table = Links /\ m.stream = "menu"
\* A printer's id is taken by one the message does not replace.
PrinterElsewhere(m) ==
    \E row \in About(m), other \in copy :
        /\ row.table = "printers" /\ Key(other) = Key(row)
        /\ other.restaurant # m.restaurant
\* A printer or a template is in the message twice.
ComesTwice(m) ==
    \E i, j \in DOMAIN m.rows :
        /\ i < j /\ Key(m.rows[i]) = Key(m.rows[j]) /\ IsAbout(m, m.rows[i])
        /\ m.rows[i].table \in {"printers", "receipt_templates"}

\* A printer it would replace is named by a route.
PrinterInUse(m) ==
    /\ m.stream = "printers" \/ \E row \in About(m) : row.table = "printers"
    /\ \E row \in copy : row.restaurant = m.restaurant /\ ~Clearable(row)

\* A proper message is taken, and so is one that was taken before, whatever came between.
ProperMessagesAreTaken ==
    answer.outcome = "refused" =>
        LET m == Talks[talk][answer.message] IN
        \/ ~Proper(m) /\ answer.message \notin Range(heard)
        \/ ComesTooEarly(m)
        \/ CountsAsEmpty(m)
        \/ PrinterElsewhere(m)
        \/ ComesTwice(m)
        \/ PrinterInUse(m)

\* Every row of a message that was taken is there, and whatever a row names.
TakenRowsAreThere ==
    /\ answer.outcome = "taken" =>
          \A row \in About(Talks[talk][answer.message]) :
              row.table \in FeedbackTables \/ Key(row) \in Keys(copy)
    /\ \A row \in copy : Checked(row) \subseteq Keys(copy)

\* An employee who is active was named by the last message about his restaurant's staff,
\* or by one after it.
LeftOutAreSuspended ==
    LET Taken(n) == Talks[talk][heard[n]] IN
    \A e \in copy :
        e.table = "employees" /\ e.id \notin suspended =>
            \A n \in DOMAIN heard :
                Taken(n).restaurant = e.restaurant /\
                (\E row \in About(Taken(n)) : row.table \in {"roles", "employees"}) =>
                    \E k \in n..Len(heard) : Key(e) \in Keys(About(Taken(k)))

\* Whatever messages of master data come to an Edge, in whatever order and again: those
\* that are whole are taken, whole, and leave no one active whom they leave out.
MessagesAreTaken == ProperMessagesAreTaken /\ TakenRowsAreThere /\ LeftOutAreSuspended
=============================================================================
