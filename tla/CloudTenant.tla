---------------------------- MODULE CloudTenant ----------------------------
(***************************************************************************)
(* What the areas of the Cloud's master data share: the restaurants of the *)
(* tenant, the lifecycle of a row, and the commands of the managers.       *)
(*                                                                         *)
(* A command of service.go reads rows, checks them, and then writes one    *)
(* row, whole, in a transaction of its own: nothing is locked and nothing  *)
(* compared in between.  In the floor and the staff, whose checks are      *)
(* about other rows, the check and the write are two steps.  In the        *)
(* catalog, the recipes and the print area, where a row is checked by      *)
(* itself, a command is one step, so two managers never race on one row.   *)
(* A handler that writes several times is several steps.                   *)
(***************************************************************************)
EXTENDS Integers, FiniteSets, Sequences, SequencesExt, FiniteSetsExt

CONSTANTS
    Restaurant,     \* ids of restaurants
    Place,          \* the restaurant whose packages are looked at
    Commands,       \* bound: how many commands an area gets, by area
    Overlap         \* bound: how many of them are between check and write at once

ASSUME CloudTenantAssumption ==
    /\ Place \in Restaurant
    /\ Overlap \in Nat
    /\ \A a \in DOMAIN Commands : Commands[a] \in Nat

VARIABLES
    area,           \* the part of master data this behaviour is about
    left,           \* commands the managers may still give
    restaurants     \* cloud_restaurants.status, "none" before the row exists

tenant == <<area, left, restaurants>>

Status == {"draft", "published", "archived"}
\* A row of the database, or none yet.
None == [status |-> "none"]
Exists(row) == row.status # "none"

\* A manager's command to the area.
Command(a) ==
    /\ area = a /\ left > 0
    /\ left' = left - 1
    /\ UNCHANGED area

\* A command that has checked what it read, and the row it is going to write; missed tells
\* which rows others have written since it read.
Intent(table, id, row) == [table |-> table, id |-> id, row |-> row, missed |-> {}]
\* The commands that are left when one of them has written its row.
LeftBehind(pending, call) ==
    {[c EXCEPT !.missed = @ \cup {<<call.table, call.id>>}] : c \in pending \ {call}}
\* A new row has an id that no other command has given to its own.
FreshId(pending, table, id) == \A c \in pending : <<c.table, c.id>> # <<table, id>>

TenantInit ==
    /\ area \in DOMAIN Commands
    /\ left = Commands[area]
    /\ restaurants = [r \in Restaurant |->
                        IF area = "floor" /\ r = Place THEN "none" ELSE "active"]

\* ensureRestaurantActive and ensureActiveRestaurant
Open(r) == restaurants[r] = "active"

\* UpdateRestaurant: archived and back, at any time.
UpdateRestaurant(a) ==
    /\ Command(a)
    /\ \E r \in Restaurant, status \in {"active", "archived"} :
          /\ restaurants[r] # "none"
          /\ restaurants' = [restaurants EXCEPT ![r] = status]
=============================================================================
