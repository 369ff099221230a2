------------------------------ MODULE Licence -------------------------------
(***************************************************************************)
(* Whether a request may use a licensed module: the snapshots of the       *)
(* licence server, which its operators replace (license/app/service.go),   *)
(* and the client every process keeps of it (licensegate.go).  Each check  *)
(* asks the authority: for the server's own snapshot, then for those of    *)
(* its fallbacks.  While it cannot be reached, the last answer is good     *)
(* until some time after its expiry.                                       *)
(*                                                                         *)
(* The checks of one process share the last answer and a flag that says    *)
(* whether it is used in place of an answer; they are modelled step by     *)
(* step.  One module is followed.                                          *)
(***************************************************************************)
EXTENDS Integers, Sequences, FiniteSetsExt

CONSTANTS
    ServerIds,      \* serverIDs of the client, its own and its fallbacks, in order
    Operator,       \* of the licence server
    Request,        \* requests of a process that ask at one time
    Grace,          \* LICENSE_STALE_GRACE_SECONDS
    Terms,          \* bound: what operators put, how many, and who asks, by behaviour
    MaxTime,        \* bound: the clock stops
    MaxFailures     \* bound: calls of the authority that fail

ASSUME LicenceAssumption ==
    /\ ServerIds \in Seq(STRING) \ {<<>>}
    /\ \A i, j \in DOMAIN ServerIds : ServerIds[i] = ServerIds[j] => i = j
    /\ \A t \in Terms : t.operators \subseteq Operator /\ t.requests \subseteq Request
    /\ Grace \in Nat /\ MaxTime \in Nat /\ MaxFailures \in Nat
    /\ \A t \in Terms : t.offers \subseteq
          [server : {ServerIds[i] : i \in DOMAIN ServerIds}, version : Nat \ {0},
           active : BOOLEAN, granted : BOOLEAN, expires : Nat]

VARIABLES
    authority,      \* entitlement_snapshots: server -> snapshot, or None
    terms,          \* those of this behaviour
    puts,           \* PutEntitlements between looking and saving
    cached,         \* Client.cached
    usingGrace,     \* Client.usingGrace
    checks,         \* Client.Require, by request
    clock,
    failures,
    newest,         \* history: the latest version of each server the client has taken
    late            \* history: it took an older one after that

licenceVars ==
    <<authority, terms, puts, cached, usingGrace, checks, clock, failures, newest, late>>

None == [server |-> "none", version |-> 0, active |-> FALSE, granted |-> FALSE, expires |-> 0]
ServerId == {ServerIds[i] : i \in DOMAIN ServerIds}

\* A check: the endpoint it is at, the snapshot it goes by, and what happened meanwhile.
Idle == [phase |-> "idle", endpoint |-> 0, snapshot |-> None, seen |-> {},
         failed |-> FALSE, shared |-> FALSE, lookedUp |-> 0, newest |-> 0, at |-> 0]

LicenceInit ==
    /\ authority = [s \in ServerId |-> None]
    /\ terms \in Terms /\ puts = [o \in Operator |-> None]
    /\ cached = None /\ usingGrace = FALSE
    /\ checks = [r \in Request |-> Idle]
    /\ clock = 0 /\ failures = 0
    /\ newest = [s \in ServerId |-> 0] /\ late = FALSE

-----------------------------------------------------------------------------
(* The licence server.                                                     *)

authorityVars == <<authority, terms, puts>>
clientVars == <<cached, usingGrace, newest, late>>

\* PutEntitlements compares the version with what is stored...
PutEntitlements(o, snapshot) ==
    /\ puts[o] = None
    /\ snapshot.version > authority[snapshot.server].version
    /\ puts' = [puts EXCEPT ![o] = snapshot]
    /\ UNCHANGED <<authority, terms, clientVars, checks, clock, failures>>

\* ...and SaveEntitlements writes whatever is stored by then.
SaveEntitlements(o) ==
    LET now == [authority EXCEPT ![puts[o].server] = puts[o]]
    IN  /\ puts[o] # None
        /\ authority' = now
        /\ puts' = [puts EXCEPT ![o] = None]
        /\ checks' = [r \in Request |->
              IF checks[r].phase \in {"idle", "allowed", "done"} THEN checks[r]
              ELSE [checks[r] EXCEPT !.seen = @ \cup {now}]]
        /\ UNCHANGED <<terms, clientVars, clock, failures>>

-----------------------------------------------------------------------------
(* The client: Current.                                                     *)

Is(r, phase) == checks[r].phase = phase
GoOn(r, phase) == checks' = [checks EXCEPT ![r].phase = phase]

Require(r) ==
    /\ checks[r].phase \in {"idle", "allowed", "done"}
    /\ checks' = [checks EXCEPT ![r] =
          [Idle EXCEPT !.phase = "ask", !.endpoint = 1, !.seen = {authority}]]
    /\ UNCHANGED <<authorityVars, clientVars, clock, failures>>

\* The next endpoint, or, behind the last one, the cache.
NextEndpoint(check) ==
    IF check.endpoint < Len(ServerIds)
    THEN [check EXCEPT !.phase = "ask", !.endpoint = @ + 1]
    ELSE [check EXCEPT !.phase = "lookUp", !.endpoint = Len(ServerIds) + 1]

\* getEntitlements answers with the snapshot, or with 404.
Ask(r) ==
    LET snapshot == authority[ServerIds[checks[r].endpoint]]
    IN  /\ Is(r, "ask")
        /\ checks' = [checks EXCEPT ![r] =
              IF snapshot = None THEN NextEndpoint(@)
              ELSE [@ EXCEPT !.phase = "answered", !.snapshot = snapshot]]
        /\ UNCHANGED <<authorityVars, clientVars, clock, failures>>

\* No answer, or none that can be read, is passed over.
LoseAnswer(r) ==
    /\ Is(r, "ask") /\ failures < MaxFailures
    /\ failures' = failures + 1
    /\ checks' = [checks EXCEPT ![r] = [NextEndpoint(@) EXCEPT !.failed = TRUE]]
    /\ UNCHANGED <<authorityVars, clientVars, clock>>

\* Another status asks the cache at once.
RefuseAnswer(r) ==
    /\ Is(r, "ask") /\ failures < MaxFailures
    /\ failures' = failures + 1
    /\ checks' = [checks EXCEPT ![r].phase = "lookUp", ![r].failed = TRUE]
    /\ UNCHANGED <<authorityVars, clientVars, clock>>

\* Mutant: an answer that grants nothing is not worth keeping.
KeptIfActive(snapshot) == IF snapshot.active THEN snapshot ELSE cached
Kept(snapshot) == snapshot

TakeAnswer(r) ==
    LET s == checks[r].snapshot
    IN  /\ Is(r, "answered")
        /\ cached' = Kept(s)
        /\ usingGrace' = FALSE
        /\ newest' = [newest EXCEPT ![s.server] = Max({@, s.version})]
        /\ late' = (late \/ s.version < newest[s.server])
        /\ GoOn(r, "decide")
        /\ UNCHANGED <<authorityVars, clock, failures>>

\* cachedGrace reads the cache under one lock...
LookUp(r) ==
    /\ Is(r, "lookUp")
    /\ cached.active /\ clock < cached.expires + Grace
    /\ checks' = [checks EXCEPT ![r].phase = "useCached", ![r].snapshot = cached,
                                ![r].lookedUp = clock,
                                ![r].newest = newest[cached.server]]
    /\ UNCHANGED <<authorityVars, clientVars, clock, failures>>

\* It is of no use; 401 and 403 end the round and look once more.
LookInVain(r) ==
    /\ Is(r, "lookUp")
    /\ ~(cached.active /\ clock < cached.expires + Grace)
    /\ IF checks[r].endpoint > Len(ServerIds)
       THEN checks' = [checks EXCEPT ![r].phase = "done", ![r].at = clock]
       ELSE \/ checks' = [checks EXCEPT ![r] = NextEndpoint(@)]
            \/ checks' = [checks EXCEPT ![r].endpoint = Len(ServerIds) + 1]
    /\ UNCHANGED <<authorityVars, clientVars, clock, failures>>

\* ...and sets the flag under another.  It is meant for this check and seen by all.
UseCached(r) ==
    /\ Is(r, "useCached")
    /\ usingGrace' = TRUE
    /\ checks' = [q \in Request |->
          IF q = r THEN [checks[q] EXCEPT !.phase = "decide"]
          ELSE IF checks[q].phase = "decide" THEN [checks[q] EXCEPT !.shared = TRUE]
          ELSE checks[q]]
    /\ UNCHANGED <<authorityVars, cached, newest, late, clock, failures>>

\* The rest of Require.
LetThrough(r) ==
    LET s == checks[r].snapshot
        allowed == s.active /\ s.granted /\ (usingGrace \/ clock < s.expires)
    IN  /\ Is(r, "decide")
        /\ checks' = [checks EXCEPT ![r].phase = IF allowed THEN "allowed" ELSE "done",
                                    ![r].at = clock]
        /\ UNCHANGED <<authorityVars, clientVars, clock, failures>>

Tick ==
    /\ clock < MaxTime
    /\ clock' = clock + 1
    /\ UNCHANGED <<authorityVars, clientVars, checks, failures>>

LicenceNext ==
    \/ \E o \in terms.operators :
          \/ SaveEntitlements(o) \/ \E s \in terms.offers : PutEntitlements(o, s)
    \/ \E r \in terms.requests :
          \/ Require(r) \/ Ask(r) \/ LoseAnswer(r) \/ RefuseAnswer(r)
          \/ TakeAnswer(r) \/ LookUp(r) \/ LookInVain(r) \/ UseCached(r) \/ LetThrough(r)
    \/ Tick

LicenceSpec == LicenceInit /\ [][LicenceNext]_licenceVars

-----------------------------------------------------------------------------
(* Properties.                                                             *)

Grants(s) == s.active /\ s.granted
Valid(s, time) == Grants(s) /\ time < s.expires

\* What the authority may say to a check: the snapshot of the first server that has one,
\* as it is when that server is asked; of any server, if the answer of one was lost.
Answers(check) ==
    UNION {{a[ServerIds[i]] : a \in check.seen} :
              i \in {i \in DOMAIN ServerIds :
                        check.failed \/ \A j \in 1..i - 1 :
                                          \E a \in check.seen : a[ServerIds[j]] = None}}
Unanswered(check) ==
    check.failed \/ \A id \in ServerId : \E a \in check.seen : a[id] = None

\* A check lets a request pass if the authority said so while it ran: by the snapshot of
\* the first server that has one, a fallback's only if that could not be asked.  Without
\* an answer it goes by the latest it knows, and not beyond the grace; a revocation it
\* has taken is never forgotten, unless an older answer came later.  (A check that has
\* its answer may overlook its expiry while another one turns to the cache.)  And a
\* request the authority granted all the time passes if it could be asked.
ChecksFollowTheAuthority ==
    \A r \in Request :
       LET check == checks[r]
           s == check.snapshot
       IN  /\ Is(r, "allowed") =>
                 \/ \E a \in Answers(check) :
                       Grants(a) /\ (check.shared \/ check.at < a.expires)
                 \/ /\ Unanswered(check)
                    /\ Grants(s) /\ check.lookedUp < s.expires + Grace
                    /\ s.version = check.newest \/ late
           /\ Is(r, "done") /\ ~check.failed =>
                 \E a \in Answers(check) : ~Valid(a, check.at)
=============================================================================
