---------------------------- MODULE CloudStaff ----------------------------
(***************************************************************************)
(* The people of the tenant in the Cloud: roles, employees, the            *)
(* restaurants they belong to and their PINs (masterdata/app/service.go).  *)
(***************************************************************************)
EXTENDS CloudTenant

CONSTANTS
    Role, Employee,
    Pin

VARIABLES
    roles,          \* cloud_roles; manages: the role has organization.manage
    employees,      \* cloud_employees with their memberships
    staffCalls      \* the commands between their check and their write

staff == <<roles, employees, staffCalls>>

StaffInit ==
    /\ roles = [r \in Role |-> None]
    /\ employees = [e \in Employee |-> None]
    /\ staffCalls = {}

\* The command has read and checked: this row is what it is going to write.
SettleStaff(table, id, row) ==
    /\ Cardinality(staffCalls) < Overlap
    /\ staffCalls' = staffCalls \cup {Intent(table, id, row)}
    /\ UNCHANGED <<restaurants, roles, employees>>

\* The repository writes a role, or an employee with the memberships, in one transaction:
\* every column, whatever others have written meanwhile.
WriteStaff(call) ==
    /\ staffCalls' = LeftBehind(staffCalls, call)
    /\ \/ /\ call.table = "roles" /\ roles' = [roles EXCEPT ![call.id] = call.row]
          /\ UNCHANGED employees
       \/ /\ call.table = "employees"
          /\ employees' = [employees EXCEPT ![call.id] = call.row]
          /\ UNCHANGED roles
    /\ UNCHANGED tenant

\* CreateRole looks at nothing but the command.
CreateRole ==
    /\ Command("staff")
    /\ \E r \in Role, manages \in BOOLEAN :
          /\ ~Exists(roles[r])
          /\ roles' = [roles EXCEPT ![r] = [status |-> "active", manages |-> manages]]
    /\ UNCHANGED <<restaurants, employees, staffCalls>>

\* The employees of a role who have no restaurant of their own.
Unbound(r) ==
    {e \in Employee : /\ Exists(employees[e]) /\ employees[e].status # "archived"
                      /\ employees[e].role = r /\ employees[e].at = {}}

\* UpdateRole and ArchiveRole
UpdateRole ==
    /\ Command("staff")
    /\ \E r \in Role, status \in {"active", "archived"}, manages \in BOOLEAN :
          /\ Exists(roles[r])
          /\ manages \/ Unbound(r) = {}
          /\ SettleStaff("roles", r, [status |-> status, manages |-> manages])

\* ensurePINUnique: nobody else who is not archived has the PIN.
PINUnique(except, pin) ==
    \A e \in Employee \ except :
        Exists(employees[e]) /\ employees[e].status # "archived" => employees[e].pin # pin

\* normalizeEmployeeScope: the memberships an employee gets who asks for these.
Scopes(role, asked) ==
    IF roles[role].manages THEN {{}}
    ELSE {at \in {asked} : at # {} /\ \A r \in at : Open(r)}

CreateEmployee ==
    /\ Command("staff")
    /\ \E e \in Employee, role \in Role, asked \in SUBSET Restaurant, pin \in Pin :
          /\ ~Exists(employees[e]) /\ FreshId(staffCalls, "employees", e)
          /\ roles[role].status = "active"
          /\ PINUnique({}, pin)
          /\ \E at \in Scopes(role, asked) :
                SettleStaff("employees", e, [status |-> "active", role |-> role,
                                             at |-> at, pin |-> pin])

\* UpdateEmployee with Suspend-, Archive- and ActivateEmployee and AssignEmployeeRole: a
\* part that is not given stays, but the scope is settled again.
UpdateEmployee ==
    /\ Command("staff")
    /\ \E e \in Employee :
          /\ Exists(employees[e])
          /\ \E status \in {"active", "suspended", "archived"},
                role \in {r \in Role : roles[r].status = "active"} \cup {employees[e].role},
                asked \in (SUBSET Restaurant) \cup {employees[e].at} :
                \E at \in Scopes(role, asked) :
                    SettleStaff("employees", e,
                        [employees[e] EXCEPT !.status = status, !.role = role, !.at = at])

RotateEmployeePIN ==
    /\ Command("staff")
    /\ \E e \in Employee, pin \in Pin :
          /\ Exists(employees[e]) /\ PINUnique({e}, pin)
          /\ SettleStaff("employees", e, [employees[e] EXCEPT !.pin = pin])

StaffNext ==
    \/ UpdateRestaurant("staff") /\ UNCHANGED staff
    \/ CreateRole \/ UpdateRole
    \/ CreateEmployee \/ UpdateEmployee \/ RotateEmployeePIN
    \/ \E call \in staffCalls : WriteStaff(call)

\* The employees and, with them, the roles the staff package of a restaurant names.
EligibleEmployees(r) ==
    {e \in Employee :
        /\ Exists(employees[e]) /\ employees[e].status = "active"
        /\ roles[employees[e].role].status = "active"
        /\ roles[employees[e].role].manages \/ r \in employees[e].at}

-----------------------------------------------------------------------------
(* Properties.                                                             *)

\* Employees who are not archived, belong to no restaurant and have no role for all.
Stranded ==
    {e \in Employee : /\ Exists(employees[e]) /\ employees[e].status # "archived"
                      /\ employees[e].at = {} /\ ~roles[employees[e].role].manages}

\* Nobody is left working nowhere, whatever happens to the role meanwhile (UpdateRole
\* looks at the employees, UpdateEmployee at the role), unless the very row the command
\* relied on, of the employee or of the role, was written after the command had read it.
AlwaysAPlaceToWork ==
    [][\A e \in Stranded' \ Stranded : \E call \in staffCalls :
          /\ WriteStaff(call)
          /\ \/ <<"employees", e>> \in call.missed
             \/ <<"roles", employees'[e].role>> \in call.missed]_staff

\* "A PIN is unique in the tenant among the active and suspended employees"
\* (docs/backend/CLOUD-BACKEND-SPEC.md).
PinsAreUnique ==
    \A e, f \in Employee :
        /\ e # f /\ Exists(employees[e]) /\ Exists(employees[f])
        /\ employees[e].status # "archived" /\ employees[f].status # "archived"
        => employees[e].pin # employees[f].pin
=============================================================================
