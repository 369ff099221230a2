---------------------------- MODULE CloudFloor ----------------------------
(***************************************************************************)
(* The floor of a restaurant in the Cloud: halls, sections, tables and the *)
(* sales points whose default table takes the orders no guest sits at      *)
(* (masterdata/app/service.go), and what the Edge asks of them.            *)
(***************************************************************************)
EXTENDS CloudTenant

CONSTANTS Hall, Section, Table, Point, FirstSection, FirstTable
\* FirstSection and FirstTable are the rows the restaurant is created with.

ASSUME CloudFloorAssumption == FirstSection \in Section /\ FirstTable \in Table

VARIABLES
    halls,          \* cloud_halls
    sections,       \* cloud_restaurant_sections
    tables,         \* cloud_tables
    points,         \* cloud_sales_points
    floorCalls      \* the commands between their check and their write

floor == <<halls, sections, tables, points, floorCalls>>

FloorInit ==
    /\ halls = [h \in Hall |-> "none"]
    /\ sections = [s \in Section |-> None]
    /\ tables = [t \in Table |-> None]
    /\ points = [p \in Point |-> None]
    /\ floorCalls = {}

\* cloud_restaurant_sections_hall_mode_check, which looks at the row alone
StoredSection(row) ==
    IF row.mode = "hall_section" THEN ~row.routed ELSE row.hall = "none"

\* The command has read and checked: this row is what it is going to write.
Settle(table, id, row) ==
    /\ Cardinality(floorCalls) < Overlap
    /\ floorCalls' = floorCalls \cup {Intent(table, id, row)}
    /\ UNCHANGED <<restaurants, halls, sections, tables, points>>
SettleSection(s, row) == StoredSection(row) /\ Settle("sections", s, row)

\* The repository writes the row in a transaction of its own, an UPDATE of every column
\* that asks for the id only, or an INSERT, whatever others have written meanwhile.
WriteFloor(call) ==
    /\ floorCalls' = LeftBehind(floorCalls, call)
    /\ \/ /\ call.table = "halls" /\ halls' = [halls EXCEPT ![call.id] = call.row]
          /\ UNCHANGED <<sections, tables, points>>
       \/ /\ call.table = "sections" /\ sections' = [sections EXCEPT ![call.id] = call.row]
          /\ UNCHANGED <<halls, tables, points>>
       \/ /\ call.table = "tables" /\ tables' = [tables EXCEPT ![call.id] = call.row]
          /\ UNCHANGED <<halls, sections, points>>
       \/ /\ call.table = "points" /\ points' = [points EXCEPT ![call.id] = call.row]
          /\ UNCHANGED <<halls, sections, tables>>
    /\ UNCHANGED tenant

\* CreateRestaurant with bootstrapDefaultSectionAndTable: three transactions, of which
\* the later ones may fail; nothing repeats them.
CreateRestaurant ==
    /\ Command("floor")
    /\ restaurants[Place] = "none"
    /\ restaurants' = [restaurants EXCEPT ![Place] = "active"]
    /\ \E written \in 0..2 :
          /\ sections' = IF written = 0 THEN sections ELSE [sections EXCEPT ![FirstSection] =
                [status |-> "kept", mode |-> "hall_section", hall |-> "none",
                 routed |-> FALSE, default |-> TRUE, active |-> TRUE]]
          /\ tables' = IF written < 2 THEN tables ELSE [tables EXCEPT ![FirstTable] =
                [status |-> "published", hall |-> "none", section |-> FirstSection,
                 default |-> TRUE]]
    /\ UNCHANGED <<halls, points, floorCalls>>

CreateHall ==
    /\ Command("floor") /\ Open(Place)
    /\ \E h \in Hall :
          /\ halls[h] = "none" /\ FreshId(floorCalls, "halls", h)
          /\ Settle("halls", h, "published")

UpdateHall ==
    /\ Command("floor")
    /\ \E h \in Hall, status \in Status :
          halls[h] # "none" /\ Settle("halls", h, status)

\* A hall a table or a section may be put into.
OfferedHalls == {h \in Hall : halls[h] \in {"draft", "published"}}
\* A section a table may be put into.
OfferedSections ==
    {s \in Section : /\ Exists(sections[s]) /\ sections[s].active
                     /\ sections[s].mode = "hall_section"}

CreateTable ==
    /\ Command("floor") /\ Open(Place)
    /\ \E t \in Table \ {FirstTable}, h \in OfferedHalls \cup {"none"},
          s \in OfferedSections :
          /\ ~Exists(tables[t]) /\ FreshId(floorCalls, "tables", t)
          /\ Settle("tables", t, [status |-> "published", hall |-> h, section |-> s,
                                  default |-> FALSE])

ActivePoints == {p \in Point : Exists(points[p]) /\ points[p].active}

\* tableUsedBySalesPoint
TableUsedBySalesPoint(t) == \E p \in ActivePoints : points[p].table = t

\* UpdateTable: only the archive is guarded.
UpdateTable ==
    /\ Command("floor")
    /\ \E t \in Table :
          /\ Exists(tables[t])
          /\ \E h \in OfferedHalls \cup {tables[t].hall},
                s \in OfferedSections \cup {tables[t].section}, status \in Status :
                /\ status = "archived" /\ status # tables[t].status =>
                      ~tables[t].default /\ ~TableUsedBySalesPoint(t)
                /\ Settle("tables", t, [tables[t] EXCEPT !.hall = h, !.section = s,
                                                         !.status = status])

CreateRestaurantSection ==
    /\ Command("floor") /\ Open(Place)
    /\ \E s \in Section \ {FirstSection}, mode \in {"hall_section", "kitchen_workshop"},
          h \in OfferedHalls \cup {"none"}, routed \in BOOLEAN :
          LET row == [status |-> "kept", mode |-> mode, hall |-> h, routed |-> routed,
                      default |-> FALSE, active |-> FALSE]
          IN  /\ ~Exists(sections[s]) /\ FreshId(floorCalls, "sections", s)
              /\ SettleSection(s, row)

\* sectionUsedBySalesPoint
SectionUsedBySalesPoint(s) ==
    \E p \in ActivePoints : tables[points[p].table].section = s
\* sectionHasActiveTable
SectionHasActiveTable(s) ==
    \E t \in Table : tables[t].status = "published" /\ tables[t].section = s

\* UpdateRestaurantSection; active is left out of the command or given anew.
UpdateRestaurantSection ==
    /\ Command("floor")
    /\ \E s \in Section :
          /\ Exists(sections[s])
          /\ \E mode \in {"hall_section", "kitchen_workshop"},
                h \in OfferedHalls \cup {"none", sections[s].hall}, routed \in BOOLEAN,
                given \in {<<>>, <<TRUE>>, <<FALSE>>} :
                LET row == [sections[s] EXCEPT !.mode = mode, !.hall = h,
                               !.routed = routed,
                               !.active = IF given = <<>> THEN @ ELSE given[1]]
                IN  /\ given = <<FALSE>> =>
                          ~row.default /\ ~SectionUsedBySalesPoint(s)
                    /\ given = <<TRUE>> /\ mode = "hall_section" =>
                          SectionHasActiveTable(s)
                    /\ SettleSection(s, row)

\* validateSalesPointDefaultTable
OfferedTables ==
    {t \in Table : tables[t].status = "published" /\ tables[t].section \in OfferedSections}

\* CreateSalesPoint with the default table of the restaurant when none is given, which
\* defaultTable finds only while it is published.
CreateSalesPoint ==
    /\ Command("floor") /\ Open(Place)
    /\ \E p \in Point, t \in OfferedTables :
          /\ ~Exists(points[p]) /\ FreshId(floorCalls, "points", p)
          /\ Settle("points", p, [status |-> "kept", table |-> t, active |-> TRUE])

\* Mutant: the count includes the points that are not active.
UpdateSalesPointCounted ==
    /\ Command("floor")
    /\ \E p \in Point :
          /\ Exists(points[p])
          /\ \E t \in OfferedTables \cup {points[p].table}, active \in BOOLEAN :
                /\ points[p].active /\ ~active =>
                      Cardinality({q \in Point : Exists(points[q])}) > 1
                /\ Settle("points", p, [points[p] EXCEPT !.table = t, !.active = active])
\* UpdateSalesPoint: the table is looked at only when the command names it.
UpdateSalesPoint ==
    /\ Command("floor")
    /\ \E p \in Point :
          /\ Exists(points[p])
          /\ \E t \in OfferedTables \cup {points[p].table}, active \in BOOLEAN :
                /\ points[p].active /\ ~active => Cardinality(ActivePoints) > 1
                /\ Settle("points", p, [points[p] EXCEPT !.table = t, !.active = active])

FloorNext ==
    \/ CreateRestaurant
    \/ UpdateRestaurant("floor") /\ UNCHANGED floor
    \/ CreateHall \/ UpdateHall
    \/ CreateTable \/ UpdateTable
    \/ CreateRestaurantSection \/ UpdateRestaurantSection
    \/ CreateSalesPoint \/ UpdateSalesPoint
    \/ \E call \in floorCalls : WriteFloor(call)

-----------------------------------------------------------------------------
(* What the Edge asks of the streams floor, restaurant_sections and        *)
(* sales_points: the validate functions of mastersync/service.go.          *)

ValidSections ==
    \A s \in Section : Exists(sections[s]) =>
        CASE sections[s].mode = "hall_section" -> ~sections[s].routed
          [] sections[s].mode = "kitchen_workshop" -> sections[s].hall = "none"
ValidTables == \A t \in Table : Exists(tables[t]) => tables[t].section \in Section
ValidPoints == \A p \in Point : Exists(points[p]) => points[p].table \in Table

-----------------------------------------------------------------------------
(* Properties.                                                             *)

\* Which points the call has not seen the newest row of.
MissedPoints(call) == {p \in Point : <<"points", p>> \in call.missed}

\* A restaurant that can sell goes on being able to: a command never leaves it without an
\* active sales point, which a cash session cannot be opened without, unless another
\* command wrote a sales point after this one had read them.
AlwaysAPlaceToSell ==
    [][ActivePoints # {} /\ ActivePoints' = {} =>
          \E call \in floorCalls : WriteFloor(call) /\ MissedPoints(call) # {}]_floor
=============================================================================
