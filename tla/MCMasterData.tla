---------------------------- MODULE MCMasterData ----------------------------
(***************************************************************************)
(* A small tenant for TLC: two restaurants, two managers, and a few rows   *)
(* of each kind.                                                           *)
(***************************************************************************)
EXTENDS MasterData

MCCommands ==
    [floor |-> 5, staff |-> 4, catalog |-> 3, recipes |-> 3, delivery |-> 2,
     print |-> 3, messages |-> 3]
MCStaffCommands == [staff |-> 5]

MCTickets ==
    {NoTicket} \cup
    [qr : {TRUE}, mode : {"business_date", "absolute_date"}, expires : {FALSE}]
MCAmount == {-1, 0, 1}

\* A dish with its recipe, two goods, and the item a kitchen proposes.
MCFirstItems ==
    [i \in Item |-> CASE i = "soup" -> "dish"
                      [] i \in {"flour", "milk"} -> "good"
                      [] OTHER -> "none"]

Line(component, quantity, loss) ==
    [component |-> component, quantity |-> quantity, loss |-> loss]
MCPortion ==
    {Line("flour", 1, 0), Line("flour", 2, 100), Line("flour", 1, 101),
     Line("milk", 1, 0), Line("soup", 1, 0)}

\* A recipe in use, a draft to replace it, and room for one more.
MCFirstVersions ==
    [v \in Version |->
        CASE v = "v1" -> [status |-> "active", owner |-> "soup", number |-> 1,
                          lines |-> {Line("flour", 1, 0)}]
          [] v = "v2" -> [status |-> "draft", owner |-> "soup", number |-> 2,
                          lines |-> {Line("milk", 1, 0)}]
          [] OTHER -> None]

MCAsks ==
    [r \in Review |->
        CASE r = "dish" -> [kind |-> "create", item |-> "stew"]
          [] r = "name" -> [kind |-> "update", item |-> "soup"]
          [] r = "change" -> [kind |-> "change", owner |-> "soup",
                changes |-> <<Line("flour", 1, 0), Line("milk", 1, 101)>>]
          [] r = "stop" -> [kind |-> "stop_list", item |-> "soup", active |-> TRUE,
                            quantity |-> 0]]

\* The floor has no licence; the menu is made of the catalog.
MCStreams == <<"floor", "catalog", "menu">>
MCRefers == [s \in Range(MCStreams) |-> IF s = "menu" THEN {"catalog"} ELSE {}]

\* A command names documents once, twice, none, or one the Cloud does not know.
MCLists ==
    {<<>>, <<"bill">>, <<"bill", "ticket">>, <<"bill", "bill">>, <<"fiscal">>}

\* Rows an Edge may be sent: of a floor, of a staff with its devices for print, and of a
\* menu with its catalog, its taxes and what goes with it.
Row(table, id, names) ==
    [table |-> table, id |-> id, names |-> names, restaurant |-> "here", sound |-> TRUE]
Of(row, restaurant) == [row EXCEPT !.restaurant = restaurant]
Here == <<"restaurants", "here">>

MCRestaurants == <<Row("restaurants", "here", {}), Row("restaurants", "there", {})>>
MCSections ==
    <<Row("restaurant_sections", "bar", {}),
      Row("restaurant_sections", "room", {<<"halls", "hall">>})>>
MCHalls == <<Row("halls", "hall", {Here})>>
MCFloor ==
    <<Row("tables", "t1", {Here, <<"halls", "hall">>, <<"restaurant_sections", "room">>})>>
      \o MCHalls
MCPoints == <<Row("sales_points", "till", {Here, <<"tables", "t1">>})>>

MCDevices == <<Row("devices", "edge", {Here})>>
MCRoles == <<Row("roles", "waiter", {})>>
MCEmployee(id, restaurant) ==
    Of(Row("employees", id, {<<"restaurants", restaurant>>, <<"roles", "waiter">>}),
       restaurant)
MCPrinter(id, restaurant) == Of(Row("printers", id, {}), restaurant)
MCTemplates == <<Row("receipt_templates", "bill", {})>>

MCCatalog ==
    <<Row("item_tags", "hot-soup", {<<"catalog_items", "soup">>, <<"tags", "hot">>}),
      Row("catalog_items", "soup", {<<"folders", "meals">>}), Row("tags", "hot", {}),
      Row("folders", "food", {}), Row("folders", "meals", {<<"folders", "food">>}),
      Row("folder_parameters", "p", {<<"folders", "meals">>}),
      Row("modifier_options", "spicy", {<<"modifier_groups", "taste">>}),
      Row("modifier_groups", "taste", {}),
      Row("modifier_bindings", "b",
          {<<"modifier_groups", "taste">>, <<"folders", "meals">>})>>
MCLinks ==
    <<Row("menu_item_modifier_groups", "soup-taste",
          {<<"menu_items", "m1">>, <<"modifier_groups", "taste">>})>>
MCMenu ==
    <<Row("menu_items", "m1", {<<"catalog_items", "soup">>, <<"tax_profiles", "vat">>})>>
MCPricing ==
    <<Row("tax_rules", "ten", {<<"tax_profiles", "vat">>}), Row("tax_profiles", "vat", {}),
      Row("service_charge_rules", "service", {Here}),
      Row("pricing_policies", "guest", {Here})>>
MCKitchen ==
    <<Row("recipe_lines", "l1", {<<"recipe_versions", "v1">>, <<"catalog_items", "soup">>}),
      Row("recipe_versions", "v1", {<<"catalog_items", "soup">>}),
      Of(Row("stop_lists", "soup", {<<"catalog_items", "soup">>}), ""),
      Row("warehouses", "cellar", {}), Row("catalog_suggestions", "dish", {}),
      Row("recipe_suggestions", "change", {})>>

Message(stream, restaurant, content) ==
    [stream |-> stream, mode |-> "incremental", reason |-> "", version |-> 1,
     restaurant |-> restaurant, rows |-> content]
Full(m) == [m EXCEPT !.mode = "full_snapshot", !.reason = "node_role_changed"]
Unsound(m) == [m EXCEPT !.rows[1].sound = FALSE]
\* A message of the base and every choice of the parts.
Mixtures(base, parts) ==
    [n \in 1..(2 ^ Len(parts)) |->
        Message("", "here", base \o FlattenSeq([k \in DOMAIN parts |->
            IF ((n - 1) \div 2 ^ (k - 1)) % 2 = 1 THEN parts[k] ELSE <<>>]))]

MCFloorTalk ==
    Mixtures(<<>>, <<MCRestaurants \o MCHalls, MCSections, MCFloor, MCPoints>>) \o
    <<Full(Message("", "here", MCSections \o MCPoints)),
      Full(Message("", "here", MCRestaurants \o MCSections)),
      [Message("", "here", MCRestaurants) EXCEPT !.reason = "node_role_changed"],
      [Message("", "here", MCRestaurants) EXCEPT !.version = -1],
      Message("floor", "here", MCFloor), Message("sales_points", "here", MCPoints),
      Message("restaurant_sections", "here", MCSections),
      Message("orders", "here", MCFloor), Unsound(Message("floor", "here", MCFloor))>>
MCStaffTalk ==
    LET base == MCRestaurants \o MCRoles
        ann == MCEmployee("ann", "here")
        bob == MCEmployee("bob", "here")
    IN  <<Message("", "here", base), Message("", "here", base \o <<ann, bob>>),
          Message("", "there", base \o <<MCEmployee("bob", "there")>>),
          Full(Message("", "here", base \o MCDevices \o <<bob>> \o MCTemplates)),
          Message("staff", "here", <<ann>>), Message("staff", "here", <<bob>>),
          Message("staff", "here", MCRoles), Message("staff", "there", <<ann>>),
          Message("devices", "here", MCDevices),
          Message("printers", "here", <<MCPrinter("p", "")>>),
          Message("printers", "here", <<MCPrinter("p", ""), MCPrinter("q", "there")>>),
          Message("printers", "there", <<MCPrinter("q", "")>>),
          Message("printers", "", <<MCPrinter("p", "here")>>),
          Message("printers", "here", <<>>),
          Message("printers", "there", <<MCPrinter("q", ""), MCPrinter("q", "there")>>),
          Message("", "here", MCTemplates \o <<MCPrinter("q", "here")>>),
          Message("receipt_templates", "here", <<>>)>>
MCMenuTalk ==
    Mixtures(MCRestaurants, <<MCCatalog, MCLinks, MCMenu, MCPricing>>) \o
    <<Message("", "here", MCCatalog \o MCKitchen),
      Message("catalog", "here", MCCatalog \o MCLinks),
      Message("menu", "here", MCMenu \o MCLinks),
      Message("pricing", "here", MCPricing), Message("recipes", "here", MCKitchen),
      Message("proposal_feedback", "here", MCKitchen),
      Full(Message("inventory", "here", MCKitchen)), Full(Message("", "here", MCLinks)),
      Full(Message("menu", "here", MCLinks)),
      Message("catalog", "here", <<MCCatalog[5], MCCatalog[4]>>)>>
MCTalks == <<MCFloorTalk, MCStaffTalk, MCMenuTalk>>
=============================================================================
