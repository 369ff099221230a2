--------------------------- MODULE CloudCatalog ---------------------------
(***************************************************************************)
(* The catalog, the menu and the prices in the Cloud                       *)
(* (masterdata/app/service.go), what of them is delivered to a restaurant, *)
(* and what the Edge asks of it.  Names, units, order and whether a dish  *)
(* is shown to the waiter just now are left out.                           *)
(***************************************************************************)
EXTENDS CloudTenant

CONSTANTS
    Item, Folder, Tag, Group, Option, Binding, Policy, MenuItem, Category, Parameter,
    Kinds,          \* bound: the kinds an item may be given
    Tickets,        \* bound: the QR configurations a command may name
    Amount,         \* bound: counts, prices and amounts a command may name
    FirstItems      \* the items that exist at the start

ASSUME CloudCatalogAssumption ==
    /\ Kinds \subseteq {"dish", "good", "semi_finished", "service"}
    /\ Amount \subseteq Int
    /\ FirstItems \in [Item -> {"none", "dish", "good", "semi_finished", "service"}]

VARIABLES
    items,          \* cloud_catalog_items
    shelf,          \* folders, their parameters, tags and menu categories: the status
    tagged,         \* cloud_catalog_item_tags
    groups, options, bindings,
    policies,       \* cloud_pricing_policies
    menu            \* cloud_menu_items

catalog == <<items, shelf, tagged, groups, options, bindings, policies, menu>>

NoTicket == [qr |-> FALSE, mode |-> "", expires |-> FALSE]

CatalogInit ==
    /\ items = [i \in Item |->
                  IF FirstItems[i] = "none" THEN None
                  ELSE [status |-> "published", kind |-> FirstItems[i], folder |-> "none",
                        ticket |-> NoTicket]]
    /\ shelf = [x \in Folder \cup Parameter \cup Tag \cup Category |-> "none"]
    /\ tagged = {}
    /\ groups = [g \in Group |-> None]
    /\ options = [o \in Option |-> None]
    /\ bindings = [b \in Binding |-> None]
    /\ policies = [p \in Policy |-> None]
    /\ menu = [m \in MenuItem |-> None]

\* The repository writes one row in a transaction of its own.
WriteItem(i, row) ==
    /\ items' = [items EXCEPT ![i] = row]
    /\ UNCHANGED <<restaurants, shelf, tagged, groups, options, bindings, policies, menu>>
WriteGroup(g, row) ==
    /\ groups' = [groups EXCEPT ![g] = row]
    /\ UNCHANGED <<restaurants, items, shelf, tagged, options, bindings, policies, menu>>
WriteOption(o, row) ==
    /\ options' = [options EXCEPT ![o] = row]
    /\ UNCHANGED <<restaurants, items, shelf, tagged, groups, bindings, policies, menu>>
WriteBinding(b, row) ==
    /\ bindings' = [bindings EXCEPT ![b] = row]
    /\ UNCHANGED <<restaurants, items, shelf, tagged, groups, options, policies, menu>>
WritePolicy(p, row) ==
    /\ policies' = [policies EXCEPT ![p] = row]
    /\ UNCHANGED <<restaurants, items, shelf, tagged, groups, options, bindings, menu>>
WriteMenuItem(m, row) ==
    /\ menu' = [menu EXCEPT ![m] = row]
    /\ UNCHANGED <<restaurants, items, shelf, tagged, groups, options, bindings, policies>>

\* validateQRConfig
ValidQRConfig(ticket) ==
    ticket.qr =>
        /\ ticket.mode \in {"cash_session", "business_date", "absolute_date"}
        /\ ticket.mode = "absolute_date" => ticket.expires

Kept(x) == shelf[x] # "none"
\* ensureCatalogItemAvailable
CatalogItemAvailable(i) == items[i].status \in {"draft", "published"}

CreateCatalogItem ==
    /\ Command("catalog")
    /\ \E i \in Item, kind \in Kinds, folder \in Folder \cup {"none"},
          ticket \in Tickets :
          /\ ~Exists(items[i]) /\ ValidQRConfig(ticket)
          /\ WriteItem(i, [status |-> "published", kind |-> kind, folder |-> folder,
                           ticket |-> ticket])

\* Mutant: the validity is looked at only when the command turns the QR on.
UpdateCatalogItemGiven ==
    /\ Command("catalog")
    /\ \E i \in Item, kind \in Kinds, status \in Status, folder \in Folder \cup {"none"},
          given \in Tickets :
          /\ Exists(items[i])
          /\ given.qr /\ ~items[i].ticket.qr => ValidQRConfig(given)
          /\ WriteItem(i, [status |-> status, kind |-> kind, folder |-> folder,
                           ticket |-> given])
\* UpdateCatalogItem: what is not given stays, and the merged row is looked at.
UpdateCatalogItem ==
    /\ Command("catalog")
    /\ \E i \in Item, kind \in Kinds, status \in Status, folder \in Folder \cup {"none"},
          ticket \in Tickets :
          /\ Exists(items[i]) /\ ValidQRConfig(ticket)
          /\ WriteItem(i, [status |-> status, kind |-> kind, folder |-> folder,
                           ticket |-> ticket])

\* ArchiveCatalogItem is an update of the status alone.
ArchiveCatalogItem(a) ==
    /\ Command(a)
    /\ \E i \in Item : Exists(items[i])
                     /\ WriteItem(i, [items[i] EXCEPT !.status = "archived"])

\* The rows of the shelf have nothing but their status; categories start as drafts.
Shelve(x, status) ==
    /\ shelf' = [shelf EXCEPT ![x] = status]
    /\ UNCHANGED <<restaurants, items, tagged, groups, options, bindings, policies, menu>>

CreateCatalogFolder ==
    Command("catalog") /\ \E f \in Folder : ~Kept(f) /\ Shelve(f, "published")
UpdateCatalogFolder ==
    Command("catalog") /\ \E f \in Folder, s \in Status : Kept(f) /\ Shelve(f, s)
\* The database asks for the folder of a parameter.
CreateFolderParameter ==
    /\ Command("catalog")
    /\ \E p \in Parameter, f \in Folder : Kept(f) /\ ~Kept(p) /\ Shelve(p, "published")
UpdateFolderParameter ==
    Command("catalog") /\ \E p \in Parameter, s \in Status : Kept(p) /\ Shelve(p, s)
CreateCatalogTag ==
    Command("catalog") /\ \E t \in Tag : ~Kept(t) /\ Shelve(t, "published")
UpdateCatalogTag ==
    Command("catalog") /\ \E t \in Tag, s \in Status : Kept(t) /\ Shelve(t, s)
CreateCategory ==
    Command("catalog") /\ Open(Place) /\ \E c \in Category : ~Kept(c) /\ Shelve(c, "draft")
UpdateCategory ==
    Command("catalog") /\ \E c \in Category, s \in Status : Kept(c) /\ Shelve(c, s)

AssignCatalogItemTag ==
    /\ Command("catalog")
    /\ \E i \in Item, t \in Tag :
          /\ CatalogItemAvailable(i) /\ Kept(t)
          /\ tagged' = tagged \cup {<<i, t>>}
    /\ UNCHANGED <<restaurants, items, shelf, groups, options, bindings, policies, menu>>

ValidCounts(min, max) == min >= 0 /\ max >= 0 /\ (max > 0 => min <= max)

CreateModifierGroup ==
    /\ Command("catalog")
    /\ \E g \in Group, min, max \in Amount :
          /\ ~Exists(groups[g]) /\ ValidCounts(min, max)
          /\ WriteGroup(g, [status |-> "published", min |-> min, max |-> max])

\* UpdateModifierGroup: either count may be given alone.
UpdateModifierGroup ==
    /\ Command("catalog")
    /\ \E g \in Group, min, max \in Amount, status \in Status :
          /\ Exists(groups[g]) /\ ValidCounts(min, max)
          /\ WriteGroup(g, [status |-> status, min |-> min, max |-> max])

\* validateLinkedModifierCatalogItem: the items an option may stand for.
Linkable == {i \in Item : CatalogItemAvailable(i)} \cup {"none"}

CreateModifierOption ==
    /\ Command("catalog")
    /\ \E o \in Option, g \in Group, i \in Linkable, price \in Amount :
          /\ ~Exists(options[o]) /\ Exists(groups[g]) /\ price >= 0
          /\ WriteOption(o, [status |-> "published", group |-> g, linked |-> i,
                             price |-> price])

UpdateModifierOption ==
    /\ Command("catalog")
    /\ \E o \in Option :
          /\ Exists(options[o])
          /\ \E i \in Linkable \cup {options[o].linked}, price \in Amount, s \in Status :
                /\ price >= 0
                /\ WriteOption(o, [options[o] EXCEPT !.status = s, !.linked = i,
                                                    !.price = price])

\* What a binding may name; nothing asks that it exists.
Targets == [type : {"menu_item"}, id : MenuItem] \cup [type : {"catalog_item"}, id : Item]
           \cup [type : {"folder"}, id : Folder] \cup [type : {"tag"}, id : Tag]

CreateModifierGroupBinding ==
    /\ Command("catalog")
    /\ \E b \in Binding, g \in Group, target \in Targets :
          /\ ~Exists(bindings[b]) /\ Exists(groups[g])
          /\ WriteBinding(b, [status |-> "published", group |-> g, target |-> target])

UpdateModifierGroupBinding ==
    /\ Command("catalog")
    /\ \E b \in Binding, status \in Status :
          /\ Exists(bindings[b])
          /\ WriteBinding(b, [bindings[b] EXCEPT !.status = status])

ValidPolicyScope(kind, scope) == kind = "surcharge" => scope = "order"
ValidPolicyAmount(amount, minor, points) ==
    IF amount = "fixed" THEN minor >= 0 /\ points = 0 ELSE points > 0 /\ minor = 0

\* What a pricing policy may look like after a command; a surcharge is made one of the order.
PolicyRows(kind) ==
    {p \in [status : Status, kind : {kind}, scope : {"line", "order"},
            amount : {"fixed", "percentage"}, minor : Amount, points : Amount,
            index : Amount] :
        /\ ValidPolicyScope(p.kind, p.scope)
        /\ ValidPolicyAmount(p.amount, p.minor, p.points)
        /\ p.index > 0}

CreatePricingPolicy ==
    /\ Command("catalog")
    /\ \E p \in Policy, kind \in {"discount", "surcharge"} :
          /\ ~Exists(policies[p])
          /\ \E row \in PolicyRows(kind) :
                /\ row.status = "published"
                /\ WritePolicy(p, row)

\* UpdatePricingPolicy: any part but the kind.
UpdatePricingPolicy ==
    /\ Command("catalog")
    /\ \E p \in Policy :
          /\ Exists(policies[p])
          /\ \E row \in PolicyRows(policies[p].kind) :
                WritePolicy(p, row)

CreateMenuItem ==
    /\ Command("catalog") /\ Open(Place)
    /\ \E m \in MenuItem, i \in Item, price \in Amount :
          /\ ~Exists(menu[m]) /\ CatalogItemAvailable(i) /\ price >= 0
          /\ WriteMenuItem(m, [status |-> "published", item |-> i, price |-> price])

\* UpdateMenuItem: a published row has an item that is available now; the rows of an item
\* archived later stay.
UpdateMenuItem ==
    /\ Command("catalog")
    /\ \E m \in MenuItem :
          /\ Exists(menu[m])
          /\ \E i \in Item, price \in Amount, s \in Status :
                /\ i # menu[m].item \/ s = "published" => CatalogItemAvailable(i)
                /\ price >= 0
                /\ WriteMenuItem(m, [status |-> s, item |-> i, price |-> price])

CatalogNext ==
    \/ UpdateRestaurant("catalog") /\ UNCHANGED catalog
    \/ CreateCatalogItem \/ UpdateCatalogItem \/ ArchiveCatalogItem("catalog")
    \/ CreateCatalogFolder \/ UpdateCatalogFolder
    \/ CreateFolderParameter \/ UpdateFolderParameter
    \/ CreateCatalogTag \/ UpdateCatalogTag \/ AssignCatalogItemTag
    \/ CreateModifierGroup \/ UpdateModifierGroup
    \/ CreateModifierOption \/ UpdateModifierOption
    \/ CreateModifierGroupBinding \/ UpdateModifierGroupBinding
    \/ CreatePricingPolicy \/ UpdatePricingPolicy
    \/ CreateCategory \/ UpdateCategory
    \/ CreateMenuItem \/ UpdateMenuItem

-----------------------------------------------------------------------------
(* What is delivered, and what the Edge asks of it: the validate functions *)
(* of mastersync/service.go.                                               *)

\* Does a binding concern an item of the menu?
Concerns(b, m) ==
    LET target == bindings[b].target
    IN  CASE target.type = "menu_item" -> target.id = m
          [] target.type = "catalog_item" -> target.id = menu[m].item
          [] target.type = "folder" -> items[menu[m].item].folder = target.id
          [] target.type = "tag" -> <<menu[m].item, target.id>> \in tagged

\* edgeMenuItemModifierGroups: the groups a waiter is asked about, by item of the menu.
MenuItemModifierGroups ==
    {asked \in MenuItem \X Group :
        LET m == asked[1]
            g == asked[2]
        IN  /\ Exists(menu[m]) /\ groups[g].status = "published"
            /\ \E b \in Binding : /\ bindings[b].status = "published"
                                  /\ bindings[b].group = g /\ Concerns(b, m)}

EdgeValidCatalogItem(i) ==
    items[i].ticket.qr =>
        \/ items[i].ticket.mode \in {"cash_session", "business_date"}
        \/ items[i].ticket.mode = "absolute_date" /\ items[i].ticket.expires
EdgeValidModifierGroup(g) ==
    groups[g].min >= 0 /\ groups[g].max >= 0
    /\ ~(groups[g].max > 0 /\ groups[g].max < groups[g].min)
EdgeValidModifierOption(o) == options[o].price >= 0
EdgeValidPricingPolicy(p) ==
    LET policy == policies[p]
    IN  /\ policy.index > 0 /\ policy.scope \in {"line", "order"}
        /\ policy.kind = "surcharge" => policy.scope = "order"
        /\ IF policy.amount = "percentage" THEN policy.points > 0 ELSE policy.minor >= 0
EdgeValidMenuItem(m) == menu[m].price >= 0

CatalogPackagesAreValid ==
    /\ \A i \in Item : Exists(items[i]) => EdgeValidCatalogItem(i)
    /\ \A g \in Group : Exists(groups[g]) => EdgeValidModifierGroup(g)
    /\ \A o \in Option : Exists(options[o]) => EdgeValidModifierOption(o)
    /\ \A p \in Policy : Exists(policies[p]) => EdgeValidPricingPolicy(p)
    /\ \A m \in MenuItem : Exists(menu[m]) => EdgeValidMenuItem(m)
    /\ \A link \in MenuItemModifierGroups :
          Exists(groups[link[2]]) /\ Exists(items[menu[link[1]].item])
=============================================================================
