----------------------------- MODULE CloudPrint -----------------------------
(***************************************************************************)
(* Printers and receipt templates in the Cloud (printer_service.go and     *)
(* receipt_template_service.go of masterdata/app), what of them a          *)
(* restaurant is sent, and the template its Edge then prints a document    *)
(* with.  Names, texts, code pages and widths are left out: both sides     *)
(* hold them to the same values.                                           *)
(***************************************************************************)
EXTENDS CloudTenant

CONSTANTS
    Printer, Template,
    Document,       \* document types the Cloud knows
    Lists           \* bound: the lists of document types a command may name

ASSUME CloudPrintAssumption == "" \notin Restaurant

VARIABLES
    printers,       \* cloud_printers; address and port tell whether one can dial them
    templates       \* cloud_receipt_templates; at is Tenant for those of no restaurant

print == <<printers, templates>>

Tenant == ""

PrintInit ==
    /\ printers = [p \in Printer |-> None]
    /\ templates = [t \in Template |-> None]

WritePrinter(p, row) ==
    printers' = [printers EXCEPT ![p] = row] /\ UNCHANGED <<restaurants, templates>>

\* cloud_receipt_templates_default_uq: one default of a type in a restaurant, and one of
\* the tenant.
OneDefault(rows) ==
    \A t, u \in Template :
        /\ t # u
        /\ rows[t].status = "active" /\ rows[t].default
        /\ rows[u].status = "active" /\ rows[u].default
        => <<rows[t].at, rows[t].document>> # <<rows[u].at, rows[u].document>>
WriteTemplate(t, row) ==
    /\ templates' = [templates EXCEPT ![t] = row]
    /\ OneDefault(templates')
    /\ UNCHANGED <<restaurants, printers>>

\* parsePrinterDocumentTypes
ProperList(list) == list # <<>> /\ IsInjective(list) /\ Range(list) \subseteq Document

\* A printer on USB keeps no address.
Wired(row) ==
    IF row.type = "usb" THEN [row EXCEPT !.address = FALSE, !.port = FALSE] ELSE row

CreatePrinter ==
    /\ Command("print")
    /\ \E p \in Printer, r \in Restaurant, type \in {"tcp", "usb"}, list \in Lists,
          address, port \in BOOLEAN :
          /\ ~Exists(printers[p]) /\ ProperList(list)
          /\ WritePrinter(p, Wired([status |-> "active", at |-> r, type |-> type,
                address |-> address, port |-> port, documents |-> list]))

\* What is not given stays; an empty list is one that is not given.
UpdatePrinter ==
    /\ Command("print")
    /\ \E p \in Printer, type \in {"tcp", "usb"}, list \in Lists :
          /\ Exists(printers[p])
          /\ list # <<>> => ProperList(list)
          /\ \E address, port \in BOOLEAN :
                WritePrinter(p, Wired([printers[p] EXCEPT
                    !.type = type, !.address = address, !.port = port,
                    !.documents = IF list = <<>> THEN @ ELSE list]))

DeactivatePrinter ==
    /\ Command("print")
    /\ \E p \in Printer : /\ printers[p].status = "active"
                          /\ WritePrinter(p, [printers[p] EXCEPT !.status = "off"])

\* No command asks whether the restaurant exists.
CreateReceiptTemplate ==
    /\ Command("print")
    /\ \E t \in Template, at \in Restaurant \cup {Tenant}, document \in Document,
          default \in BOOLEAN :
          /\ ~Exists(templates[t])
          /\ WriteTemplate(t, [status |-> "active", at |-> at, document |-> document,
                               default |-> default])

\* The one that is no longer active is changed all the same.
UpdateReceiptTemplate ==
    /\ Command("print")
    /\ \E t \in Template, document \in Document, default \in BOOLEAN :
          /\ Exists(templates[t])
          /\ WriteTemplate(t, [templates[t] EXCEPT !.document = document,
                                                   !.default = default])

DeactivateReceiptTemplate ==
    /\ Command("print")
    /\ \E t \in Template :
          /\ templates[t].status = "active"
          /\ WriteTemplate(t, [templates[t] EXCEPT !.status = "off", !.default = FALSE])

PrintNext ==
    \/ CreatePrinter \/ UpdatePrinter \/ DeactivatePrinter
    \/ CreateReceiptTemplate \/ UpdateReceiptTemplate \/ DeactivateReceiptTemplate

-----------------------------------------------------------------------------
(* What a restaurant is sent.                                              *)

\* ListActivePrintersForRestaurant
PrintersOf(r) == {p \in Printer : printers[p].status = "active" /\ printers[p].at = r}
\* ListActiveReceiptTemplatesForRestaurant
TemplatesOf(r) ==
    {t \in Template : templates[t].status = "active" /\ templates[t].at \in {r, Tenant}}

\* Mutant: a restaurant with a template of its own gets none of the tenant's.
CoveredAtAll(r, document) == \E t \in TemplatesOf(r) : templates[t].at = r
\* The types a restaurant has a template of its own for.
Covered(r, document) ==
    \E t \in TemplatesOf(r) : templates[t].at = r /\ templates[t].document = document

\* effectiveReceiptTemplates
EffectiveTemplates(r) ==
    {t \in TemplatesOf(r) : templates[t].at = Tenant => ~Covered(r, templates[t].document)}

-----------------------------------------------------------------------------
(* What the Edge does with it.                                             *)

\* Printer.Validate
EdgeTakesPrinter(row) ==
    /\ row.type = "tcp" => row.address /\ row.port
    /\ row.documents # <<>> /\ Range(row.documents) \subseteq Document

\* lookupTemplate: those of the rows sent to r that may be chosen for a document.  It
\* looks for defaults alone, and takes the first of the best kind.
Lookup(sent, r, document) ==
    LET defaults == {t \in sent : templates[t].default
                                /\ templates[t].document = document}
        own == {t \in defaults : templates[t].at = r}
        tenants == {t \in defaults : templates[t].at = Tenant}
    IN  IF own # {} THEN own ELSE IF tenants # {} THEN tenants ELSE defaults

-----------------------------------------------------------------------------
(* Properties.                                                             *)

\* The Cloud takes a TCP printer without an address or a port (and one that was on USB
\* until now has none), which the Edge refuses with all the others.
Unreachable(row) == row.type = "tcp" /\ ~(row.address /\ row.port)

\* Every other printer the Edge takes.
ValidPrinters ==
    \A r \in Restaurant : \A p \in PrintersOf(r) :
        Unreachable(printers[p]) \/ EdgeTakesPrinter(printers[p])

Defaults(at, document) ==
    {t \in Template : /\ templates[t].status = "active" /\ templates[t].default
                      /\ templates[t].at = at /\ templates[t].document = document}
\* A template of the restaurant's own that is no default hides the tenant's default, and
\* the Edge prints with defaults only: the document is not printed.
HidesTheDefault(r, document) ==
    /\ Defaults(r, document) = {}
    /\ \E t \in Template : /\ templates[t].status = "active" /\ templates[t].at = r
                           /\ templates[t].document = document

\* However templates are made, changed and switched off, an Edge prints a document with
\* the one template meant for it: the restaurant's own default, else the tenant's
\* (receiptTemplatesStream chooses what to send, lookupTemplate among what came).
DocumentsHaveTheirTemplate ==
    \A r \in Restaurant, document \in Document :
        ~HidesTheDefault(r, document) =>
            LET chosen == Lookup(EffectiveTemplates(r), r, document)
            IN  /\ chosen = IF Defaults(r, document) # {} THEN Defaults(r, document)
                            ELSE Defaults(Tenant, document)
                /\ Cardinality(chosen) <= 1
=============================================================================
