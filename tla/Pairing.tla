------------------------------- MODULE Pairing ------------------------------
(***************************************************************************)
(* How an Edge becomes a node of a restaurant: it registers with the Cloud *)
(* (cloud-backend provisioning) and a manager assigns it, or a pairing     *)
(* code is found through the licence server and consumed; either way the   *)
(* Edge (pos/app/provisioning) saves what it was given, downloads the      *)
(* master data, and writes its identity.                                   *)
(*                                                                         *)
(* A flow is a handler of the Edge under way.  It holds the row of         *)
(* edge_provisioning_state it has read, and writes the whole row back.     *)
(* There is one restaurant and one Edge.                                   *)
(***************************************************************************)
EXTENDS Integers, FiniteSets

CONSTANTS
    Flow,      \* handlers that may overlap
    Worker,    \* the one among them that main.go repeats
    Code,      \* pairing codes the managers may generate
    MaxFaults  \* bound: crashes, lost requests and answers, and failures of a step

ASSUME PairingAssumption ==
    /\ Worker \in Flow /\ IsFiniteSet(Flow) /\ IsFiniteSet(Code)
    /\ MaxFaults \in Nat

NoToken == 0
Token == 1..(Cardinality(Code) + Cardinality(Flow))

VARIABLES
    waiting,    \* the Edge in cloud_unassigned_edge_nodes: none, pending or assigned
    assigned,   \* the node belongs to the restaurant: a cloud_edge_nodes row
    credential, \* the token whose hash that row keeps, or NoToken
    issued,     \* how many tokens the Cloud has made
    codes,      \* state of each pairing code
    directory,  \* the codes the licence server knows
    row,        \* the row of edge_provisioning_state: its status and its token
    paired,     \* edge_node_identity is written
    flows,      \* how far the handlers are, and the row they hold
    faults,     \* faults so far
    undelivered, \* history: the Cloud's latest token did not reach the Edge
    overlapped, \* history: two handlers were under way at once
    interrupted \* history: a handler stopped between saving its assignment and the identity

cloudVars == <<waiting, assigned, credential, issued, codes, directory>>
edgeVars == <<row, paired, flows>>
pairingHistory == <<undelivered, overlapped, interrupted>>
pairingVars == <<cloudVars, edgeVars, faults, pairingHistory>>

Resting == [phase |-> "resting"]
Row == [status : {"not_configured", "unpaired_registered", "assigned_downloading",
                  "paired", "error"},
        token : Token \cup {NoToken}]

PairingTypeOK ==
    /\ credential \in 0..issued /\ issued \in Token \cup {NoToken}
    /\ waiting \in {"none", "pending", "assigned"}
    /\ codes \in [Code -> {"none", "active", "revoked", "consumed"}]
    /\ directory \subseteq Code
    /\ row \in Row
    /\ faults \in 0..MaxFaults

PairingInit ==
    /\ waiting = "none" /\ assigned = FALSE
    /\ credential = NoToken /\ issued = 0
    /\ codes = [c \in Code |-> "none"] /\ directory = {}
    /\ row = [status |-> "not_configured", token |-> NoToken]
    /\ paired = FALSE
    /\ flows = [f \in Flow |-> Resting]
    /\ faults = 0
    /\ undelivered = FALSE /\ overlapped = FALSE /\ interrupted = FALSE

-----------------------------------------------------------------------------
(* The Cloud, as its managers use it.                                      *)

\* Mutant: assigning a node anew forgets its credentials.
OverwriteCredential(hash) == hash

\* UpsertEdgeNode: a node that exists keeps its credentials unless it is given new ones.
UpsertEdgeNode(hash) == IF hash = NoToken THEN credential ELSE hash

MarkUnassignedAssigned == IF waiting = "none" THEN "none" ELSE "assigned"

\* AuthenticateNodeToken, as every exchange asks it.
AuthenticateNodeToken(token) ==
    assigned /\ credential # NoToken /\ token = credential

\* AssignDevice, which may be repeated.
AssignDevice ==
    /\ assigned' = TRUE /\ credential' = UpsertEdgeNode(NoToken)
    /\ waiting' = MarkUnassignedAssigned
    /\ UNCHANGED <<issued, codes, directory>>

\* RevokeActivePairingCodes, CreatePairingCode, and Register of the licence server, which
\* may not be reached: the code is there all the same.
GeneratePairingCode ==
    /\ \E c \in Code : codes[c] = "none"
    /\ LET fresh == CHOOSE c \in Code : codes[c] = "none"
       IN  /\ codes' = [c \in Code |->
                            IF c = fresh THEN "active"
                            ELSE IF codes[c] = "active" THEN "revoked" ELSE codes[c]]
           /\ directory' \in {directory, directory \cup {fresh}}
    /\ UNCHANGED <<waiting, assigned, credential, issued>>

ManagerNext ==
    /\ AssignDevice \/ GeneratePairingCode
    /\ UNCHANGED <<edgeVars, faults, pairingHistory>>

-----------------------------------------------------------------------------
(* The Edge: how a handler begins.                                         *)

Enter(f, state) == flows' = [flows EXCEPT ![f] = state]
Go(f, phase) == Enter(f, [flows[f] EXCEPT !.phase = phase])

\* What a handler holds once it has read the row.
Holding(phase) == [phase |-> phase, copy |-> row, token |-> NoToken]

Begin(f, state) ==
    /\ flows[f] = Resting
    /\ Enter(f, state)
    /\ overlapped' = (overlapped \/ \E g \in Flow \ {f} : flows[g] # Resting)
    /\ UNCHANGED <<cloudVars, row, paired, faults, undelivered, interrupted>>

\* MaintainCloudProvisioning, every three seconds: GetStatus, and then by its status.
MaintainCloudProvisioning == Begin(Worker, Holding("maintain"))

\* getProvisioningStatus of the router; RefreshSyncExchangeState of the sender does the same.
RefreshStatus(f) == Begin(f, Holding("refresh"))

\* RegisterCloud on the operator's request, paired or not.
BeginRegister(f) == Begin(f, Holding("register"))

\* PairViaLicense: pairedView before anything else.
BeginPairing(f) ==
    /\ ~paired   \* a paired Edge is only told so
    /\ \E c \in Code :
        /\ codes[c] # "none"
        /\ Begin(f, [phase |-> "resolve", copy |-> row, token |-> NoToken, code |-> c])

OperatorNext ==
    \E f \in Flow \ {Worker} : RefreshStatus(f) \/ BeginRegister(f) \/ BeginPairing(f)

-----------------------------------------------------------------------------
(* The Edge: the steps of a handler.                                       *)

\* UpsertEdgeProvisioningState: the whole row, as the handler holds it.
UpsertState(f, status) == row' = [flows[f].copy EXCEPT !.status = status]

\* Mutant: the worker leaves an Edge alone whose last attempt failed.
RegistersOnce == {"not_configured"}

\* The statuses from which the worker registers, for the first time or again.
RegistersAgain == {"not_configured", "error"}

\* GetStatus of a paired Edge writes back the row it read; then the handlers part.
LookAtStatus(f) ==
    /\ flows[f].phase \in {"maintain", "refresh"}
    /\ IF paired
       THEN UpsertState(f, "paired") /\ Enter(f, Resting)
       ELSE /\ UNCHANGED row
            /\ LET status == flows[f].copy.status
               IN  Enter(f, IF status = "unpaired_registered" THEN Holding("poll")
                            ELSE IF flows[f].phase = "maintain"
                                    /\ status \in RegistersAgain
                            THEN Holding("register")
                            ELSE Resting)
    /\ UNCHANGED <<cloudVars, paired, faults, pairingHistory>>

\* RegisterDevice of the Cloud: a node it knows is told so.
RegisterDevice == IF assigned \/ waiting = "assigned" THEN waiting ELSE "pending"

\* RegisterCloud: RegisterDevice, and PollAssignment, which reads the row
\* that is written here.
RegisterCloud(f) ==
    /\ flows[f].phase = "register"
    /\ waiting' = RegisterDevice
    /\ UpsertState(f, "unpaired_registered")
    /\ Enter(f, [phase |-> "poll", copy |-> row', token |-> NoToken])
    /\ UNCHANGED <<assigned, credential, issued, codes, directory,
                   paired, faults, pairingHistory>>

\* PollAssignment: pairedView, and the first half of AssignmentStatus of the Cloud, which
\* makes a token for a node that has none.
PollAssignment(f) ==
    /\ flows[f].phase = "poll"
    /\ IF paired
       THEN /\ IF flows[f].copy.status = "paired" THEN UNCHANGED row
               ELSE UpsertState(f, "paired")
            /\ Enter(f, Resting)
       ELSE IF ~assigned
       THEN UpsertState(f, "unpaired_registered") /\ Enter(f, Resting)
       ELSE UNCHANGED row /\ Go(f, IF credential = NoToken THEN "issue" ELSE "answer")
    /\ UNCHANGED <<cloudVars, paired, faults, pairingHistory>>

\* A token is made, its hash written, and it is on its way to the handler.
Issue(f, phase) ==
    /\ issued < Cardinality(Token)
    /\ issued' = issued + 1 /\ credential' = UpsertEdgeNode(issued + 1)
    /\ Enter(f, [flows[f] EXCEPT !.phase = phase, !.token = issued + 1])
    /\ undelivered' = TRUE

\* AssignmentStatus, the second half.
IssueCredentials(f) ==
    /\ flows[f].phase = "issue"
    /\ Issue(f, "answer")
    /\ UNCHANGED <<waiting, assigned, codes, directory, row, paired, faults,
                   overlapped, interrupted>>

\* A step that fails is written into the row the handler holds.
FailWith(f) == UpsertState(f, "error") /\ Enter(f, Resting)

\* Resolve of the licence server: the code is unknown, or its time may have come.
Resolve(f) ==
    /\ flows[f].phase = "resolve"
    /\ \/ flows[f].code \in directory /\ Go(f, "consume") /\ UNCHANGED row
       \/ FailWith(f)
    /\ UNCHANGED <<cloudVars, paired, faults, pairingHistory>>

\* ConsumePairingCode of the Cloud, up to the node, which is assigned and given a token
\* before the code is known to be the handler's.
ConsumePairingCode(f) ==
    /\ flows[f].phase = "consume"
    /\ \/ /\ codes[flows[f].code] = "active"
          /\ assigned' = TRUE /\ Issue(f, "redeem") /\ UNCHANGED row
       \/ FailWith(f) /\ UNCHANGED <<assigned, credential, issued, undelivered>>
    /\ UNCHANGED <<waiting, codes, directory, paired, faults,
                   overlapped, interrupted>>

\* The code is consumed by one of the handlers that found it active.
RedeemCode(f) ==
    /\ flows[f].phase = "redeem"
    /\ IF codes[flows[f].code] = "active"
       THEN /\ codes' = [codes EXCEPT ![flows[f].code] = "consumed"]
            /\ waiting' = MarkUnassignedAssigned
            /\ Go(f, "answer") /\ UNCHANGED row
       ELSE FailWith(f) /\ UNCHANGED <<codes, waiting>>
    /\ UNCHANGED <<assigned, credential, issued, directory, paired,
                   faults, pairingHistory>>

\* finishAssigned: the assignment is saved, with the token if there is one.
SaveAssignment(f) ==
    /\ flows[f].phase = "answer"
    /\ LET token == IF flows[f].token = NoToken THEN flows[f].copy.token
                    ELSE flows[f].token
           saved == [status |-> "assigned_downloading", token |-> token]
       IN  /\ row' = saved
           /\ Enter(f, [phase |-> "download", copy |-> saved, token |-> NoToken])
           /\ undelivered' = (undelivered /\ token # credential)
    /\ UNCHANGED <<cloudVars, paired, faults, overlapped, interrupted>>

\* DownloadSnapshot, ApplyMasterData and PairEdgeNode.
WriteIdentity(f) ==
    /\ flows[f].phase = "download"
    /\ paired' = TRUE /\ Go(f, "finish")
    /\ UNCHANGED <<cloudVars, row, faults, pairingHistory>>

FinishPairing(f) ==
    /\ flows[f].phase = "finish"
    /\ UpsertState(f, "paired") /\ Enter(f, Resting)
    /\ UNCHANGED <<cloudVars, paired, faults, pairingHistory>>

FlowNext(f) ==
    \/ LookAtStatus(f) \/ RegisterCloud(f) \/ PollAssignment(f) \/ IssueCredentials(f)
    \/ Resolve(f) \/ ConsumePairingCode(f) \/ RedeemCode(f)
    \/ SaveAssignment(f) \/ WriteIdentity(f) \/ FinishPairing(f)

-----------------------------------------------------------------------------
(* What goes wrong.                                                        *)

Fault == faults < MaxFaults /\ faults' = faults + 1

\* A request or its answer is lost.  A poll is forgotten; the other calls leave an error.
LoseCall(f) ==
    /\ Fault
    /\ \/ /\ flows[f].phase \in {"poll", "issue"} \/
             (flows[f].phase = "answer" /\ "code" \notin DOMAIN flows[f])
          /\ Enter(f, Resting) /\ UNCHANGED row
       \/ /\ flows[f].phase \in {"register", "resolve", "consume", "redeem", "download"} \/
             (flows[f].phase = "answer" /\ "code" \in DOMAIN flows[f])
          /\ FailWith(f)
    /\ UNCHANGED <<cloudVars, paired, pairingHistory>>

\* ApplyMasterData refuses the snapshot: nothing is written of it.
RefuseSnapshot(f) ==
    /\ flows[f].phase = "download"
    /\ Fault
    /\ interrupted' = TRUE /\ Enter(f, Resting)
    /\ UNCHANGED <<cloudVars, row, paired, undelivered, overlapped>>

\* The Edge stops.  What has reached the Cloud stays.
PairingCrash ==
    /\ Fault
    /\ interrupted' = (interrupted \/ (row.status = "assigned_downloading" /\ ~paired))
    /\ flows' = [f \in Flow |-> Resting]
    /\ UNCHANGED <<cloudVars, row, paired, undelivered, overlapped>>

PairingFault == (\E f \in Flow : LoseCall(f) \/ RefuseSnapshot(f)) \/ PairingCrash

PairingNext ==
    \/ ManagerNext \/ MaintainCloudProvisioning \/ OperatorNext
    \/ \E f \in Flow : FlowNext(f)
    \/ PairingFault

-----------------------------------------------------------------------------
(* Properties.                                                             *)

\* An Edge at work is let in with the token it has, whatever order registering,
\* assigning, polling, pairing codes and their failures came in: a node's credentials are
\* shown once, and every later answer leaves them out.  Handlers that overlap may write
\* back a row without the token, and an answer that was lost is not repeated.
TokensAgree ==
    paired /\ (\A f \in Flow : flows[f] = Resting) /\ ~overlapped /\ ~undelivered
        => AuthenticateNodeToken(row.token)

\* A node that was assigned is paired in the end, even if its token has to be done
\* without, and whatever the operator's handlers write meanwhile; only an Edge stopped
\* between saving its assignment and its identity is not taken further by its worker.
AssignedEdgesPair == assigned ~> paired \/ interrupted
=============================================================================
