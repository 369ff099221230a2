------------------------------- MODULE Access -------------------------------
(***************************************************************************)
(* Logging in at the Edge by PIN (pos/app/auth): the requests of one       *)
(* client device, the limiter in the memory of the service that counts its *)
(* failures, and the sessions it opens.                                    *)
(*                                                                         *)
(* A request reads the clock, asks the limiter, and then waits for the     *)
(* database, whose transactions run one at a time; requests that overlap   *)
(* have all been let in before the first of them fails.                    *)
(***************************************************************************)
EXTENDS Integers, Sequences, FiniteSets

CONSTANTS
    Request,        \* requests of the device that may overlap
    AttemptsLimit,  \* defaultPINAttemptsLimit
    AttemptsWindow, \* defaultPINAttemptsWindow
    LockoutWindow,  \* defaultPINLockoutWindow
    Patience,       \* bound: how long a request waits for the database at most
    LastMoment      \* bound: how far the clock goes

ASSUME AccessAssumption ==
    /\ AttemptsLimit \in Nat \ {0}
    /\ AttemptsWindow \in Nat \ {0} /\ LockoutWindow \in Nat \ {0}
    /\ Patience \in Nat
    /\ 2 * Patience <= AttemptsWindow /\ Patience <= LockoutWindow - AttemptsWindow
    /\ LastMoment \in Nat
    /\ IsFiniteSet(Request)

VARIABLES
    now,      \* the clock of the service
    limiter,  \* pinAttemptState of the device
    logins,   \* how far the requests are
    sessions, \* the sessions they opened
    failures  \* history: when the requests that failed since the last reset were let in

accessVars == <<now, limiter, logins, sessions, failures>>

Never == -1
NoState == [windowStart |-> Never, attempts |-> 0, lockedUntil |-> Never]
NoLogin == [phase |-> "none"]

AccessInit ==
    /\ now = 0
    /\ limiter = NoState
    /\ logins = [r \in Request |-> NoLogin]
    /\ sessions = [r \in Request |-> "none"]
    /\ failures = <<>>

-----------------------------------------------------------------------------
(* pinRateLimiter.                                                         *)

Locked(at) == limiter.lockedUntil # Never /\ at < limiter.lockedUntil

\* The window is over, or was never begun.
WindowIsOver(at) ==
    limiter.windowStart = Never \/ at - limiter.windowStart >= AttemptsWindow

\* Allow, for a request that it lets in: a state whose window is over is forgotten.
AllowState(at) == IF WindowIsOver(at) THEN NoState ELSE limiter

\* Mutant: a failure after the limit begins a new lockout, and a new count.
RecountFailure(at) ==
    LET counted == IF WindowIsOver(at) THEN 1 ELSE limiter.attempts + 1
    IN  [windowStart |-> IF WindowIsOver(at) THEN at ELSE limiter.windowStart,
         attempts |-> IF counted >= AttemptsLimit THEN 0 ELSE counted,
         lockedUntil |-> Never]

\* RecordFailure
RecordFailure(at) ==
    LET start == IF WindowIsOver(at) THEN at ELSE limiter.windowStart
        attempts == IF WindowIsOver(at) THEN 1 ELSE limiter.attempts + 1
        until == IF WindowIsOver(at) THEN Never ELSE limiter.lockedUntil
    IN  [windowStart |-> start, attempts |-> attempts,
         lockedUntil |->
            IF attempts >= AttemptsLimit THEN at + LockoutWindow ELSE until]

-----------------------------------------------------------------------------
(* The service.                                                            *)

Tick ==
    /\ now < LastMoment /\ now' = now + 1
    /\ \A r \in Request :
        logins[r].phase = "waiting" => now' - logins[r].at <= Patience
    /\ UNCHANGED <<limiter, logins, sessions, failures>>

\* PinLogin, up to the transaction.
BeginLogin(r) ==
    /\ logins[r] = NoLogin /\ sessions[r] = "none"
    /\ ~Locked(now)
    /\ limiter' = AllowState(now)
    /\ logins' = [logins EXCEPT ![r] = [phase |-> "waiting", at |-> now]]
    /\ UNCHANGED <<now, sessions, failures>>

\* The transaction: nobody has the PIN, or more than one, or one employee, whose role may
\* be archived.
FinishLogin(r) ==
    /\ logins[r].phase = "waiting"
    /\ \/ /\ limiter' = RecordFailure(logins[r].at)
          /\ failures' = Append(failures, logins[r].at)
          /\ UNCHANGED sessions
       \/ UNCHANGED <<limiter, failures, sessions>>
       \/ /\ limiter' = NoState /\ failures' = <<>>
          /\ sessions' \in {sessions, [sessions EXCEPT ![r] = "active"]}
    /\ logins' = [logins EXCEPT ![r] = NoLogin]
    /\ UNCHANGED now

\* Logout, which may be repeated.
Logout(r) ==
    /\ sessions[r] = "active" /\ sessions' = [sessions EXCEPT ![r] = "revoked"]
    /\ UNCHANGED <<now, limiter, logins, failures>>

\* The counts are in memory only.
RestartAccess ==
    /\ limiter' = NoState /\ failures' = <<>>
    /\ logins' = [r \in Request |-> NoLogin]
    /\ UNCHANGED <<now, sessions>>

AccessNext ==
    \/ Tick
    \/ \E r \in Request : BeginLogin(r) \/ FinishLogin(r) \/ Logout(r)
    \/ RestartAccess

-----------------------------------------------------------------------------
(* Properties.                                                             *)

\* How many of the failures were let in within a window's length from some moment.
FailuresFrom(from) ==
    Cardinality({i \in DOMAIN failures : failures[i] \in from..(from + AttemptsWindow - 1)})

\* The failures of a window that did not fill, but for the one it began with.
Remainder == IF AttemptsLimit > 2 THEN AttemptsLimit - 2 ELSE 0

\* The limiter counts in windows that begin with a failure, and forgets a window that is
\* over when it lets in the next request; a request let in before may then still fail and
\* begin a window in the past, which is over as much sooner.  So a span of a window's
\* length may see the rest of two windows that did not fill and one that does, with the
\* failures of the requests that were let in before it did.  However failures, lockouts,
\* forgotten windows and late answers are ordered, no span lets in more.  (A request that
\* waited longer could begin a window during a lockout, or move its end into the span.)
FailuresAreBounded ==
    \A from \in 0..LastMoment :
        FailuresFrom(from) <= 2 * Remainder + AttemptsLimit + (Cardinality(Request) - 1)
=============================================================================
