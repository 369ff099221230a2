--------------------------- MODULE PremisesProofs ---------------------------
(***************************************************************************)
(* Safety of the Edge on its premises: what the kitchen sends, what        *)
(* archiving deletes, how often a PIN may be guessed, and the token a      *)
(* paired Edge has; for any lines, sales, archives, requests, handlers,    *)
(* codes and bounds.                                                       *)
(*                                                                         *)
(* Each area has an inductive invariant of its own, and the steps of the   *)
(* other areas leave its variables alone.                                  *)
(***************************************************************************)
EXTENDS Premises, SequenceTheorems, FiniteSetTheorems, TLAPS

-----------------------------------------------------------------------------
(* The kitchen: its rows.                                                  *)

\* The rows of the outbox with their contents.
OutboxContent ==
    {"document", "catalog", "recipe"} \cup BOOLEAN
    \cup [event : Nat, from : TicketStatus, to : TicketStatus]
    \cup [event : Nat, sequence : Nat, supersedes : Nat]
OutboxMessage ==
    [command : Command, type : EventType, aggregate : Line \cup Suggestion \cup Nat,
     content : OutboxContent]

\* The positions of the served events of a line, and of the messages about them.
ServedIn(log, l) == {i \in DOMAIN log : log[i].ticket = l /\ log[i].to = "served"}
ServesIn(sent, l) ==
    {i \in DOMAIN sent : sent[i].type = "ItemServed" /\ sent[i].aggregate = l}

\* The chain of a line, and its end: the message about the last event.
Chained(sent, serves) ==
    /\ {sent[i].content.sequence : i \in serves} = 1..Cardinality(serves)
    /\ \A i \in serves :
          IF sent[i].content.sequence = 1 THEN sent[i].content.supersedes = 0
          ELSE \E j \in serves :
                  /\ j < i /\ sent[j].content.sequence = sent[i].content.sequence - 1
                  /\ sent[j].content.event = sent[i].content.supersedes
LastIsHeard(sent, serves, served) ==
    /\ Cardinality(serves) = Cardinality(served)
    /\ served # {} => Max(served) \in Nat /\
          \E i \in serves : /\ sent[i].content.sequence = Cardinality(serves)
                            /\ sent[i].content.event = Max(served)
ChainOf(sent, log, l) ==
    /\ Chained(sent, ServesIn(sent, l))
    /\ LastIsHeard(sent, ServesIn(sent, l), ServedIn(log, l))

\* A repeated command_id is of one pair of messages.
OnceEach(sent) ==
    \A i, j \in DOMAIN sent :
        i < j /\ sent[i].command = sent[j].command =>
            /\ sent[i].type = "KitchenTicketStatusChanged" /\ sent[j].type = "ItemServed"
            /\ sent[i].aggregate = sent[j].aggregate /\ j = i + 1

KitchenInv ==
    /\ KitchenTypeOK
    /\ outbox \in Seq(OutboxMessage)
    /\ \A l \in Line : ChainOf(outbox, changes, l)
    /\ OnceEach(outbox)

\* What the invariant says of the outbox.
LEMMA KitchenInvIsHeard == ASSUME KitchenInv PROVE OutboxTellsTheServes
  <1>1. ServesFormOneChain
    BY DEF KitchenInv, ServesFormOneChain, ChainOf, Chained, ServesIn
  <1>2. OneEffectPerCommand
    BY DEF KitchenInv, OneEffectPerCommand, OnceEach
  <1> QED
    BY <1>1, <1>2 DEF OutboxTellsTheServes

\* The queue is read from the statuses of the tickets alone.
LEMMA QueueIsRight == ASSUME KitchenTypeOK PROVE QueueShowsUnfinishedOrders
  <1> DEFINE unfinished == TicketStatus \ {"served", "cancelled"}
  <1>1. ASSUME NEW o \in Order
        PROVE  o \in OrderQueue <=> \E l \in Line : OrderOf[l] = o /\ status[l] \in unfinished
    <2> DEFINE T == TicketsOf(o)
               active == Having(T, TicketStatus \ {"cancelled"})
    <2>1. \A l \in T : l \in Line /\ OrderOf[l] = o /\ status[l] \in TicketStatus
      BY DEF TicketsOf, KitchenTypeOK
    <2>2. \A l \in Line : OrderOf[l] = o /\ status[l] \in unfinished => l \in T
      BY DEF TicketsOf, TicketStatus
    <2>3. \A l \in active : l \in T /\ status[l] \in TicketStatus \ {"cancelled"}
      BY DEF Having
    <2>4. CASE active = {}
      <3>1. OrderStatus(T) = "cancelled"
        BY <2>4 DEF OrderStatus
      <3>2. \A l \in T : status[l] \notin unfinished
        BY <2>1, <2>4 DEF Having
      <3> HIDE DEF unfinished
      <3> QED
        BY <3>1, <3>2, <2>2 DEF OrderQueue
    <2>5. CASE active # {} /\ Having(active, {"served"}) = active
      <3>1. OrderStatus(T) = "served"
        BY <2>5 DEF OrderStatus
      <3>2. \A l \in T : status[l] \notin unfinished
        BY <2>1, <2>5 DEF Having
      <3> HIDE DEF unfinished
      <3> QED
        BY <3>1, <3>2, <2>2 DEF OrderQueue
    <2>6. CASE active # {} /\ Having(active, {"served"}) # active
      <3>1. OrderStatus(T) \notin {"served", "cancelled"}
        BY <2>6 DEF OrderStatus
      <3>2. PICK l \in active : status[l] # "served"
        BY <2>6 DEF Having
      <3>3. l \in Line /\ OrderOf[l] = o /\ status[l] \in unfinished /\ T # {}
        BY <2>1, <2>3, <3>2
      <3> QED
        BY <3>1, <3>3 DEF OrderQueue
    <2> QED
      BY <2>4, <2>5, <2>6
  <1>2. OrderQueue \subseteq Order
    BY DEF OrderQueue
  <1>3. Having(Line, unfinished) = {l \in Line : status[l] \in unfinished}
    BY DEF Having
  <1> HIDE DEF unfinished
  <1>4. \A l \in Line : OrderOf[l] \in Order
    BY DEF Order
  <1>5. OrderQueue = {OrderOf[l] : l \in Having(Line, unfinished)}
    BY <1>1, <1>2, <1>3, <1>4
  <1> QED
    BY <1>5 DEF QueueShowsUnfinishedOrders, unfinished

-----------------------------------------------------------------------------
(* The kitchen: messages that are added.                                   *)

\* A command that was not used yet adds messages of its own.
LEMMA AppendOnce ==
    ASSUME NEW sent \in Seq(OutboxMessage), OnceEach(sent), NEW m \in OutboxMessage,
           \A i \in DOMAIN sent : sent[i].command # m.command
    PROVE  OnceEach(Append(sent, m))
  <1>1. /\ Len(sent) \in Nat /\ DOMAIN sent = 1..Len(sent)
        /\ DOMAIN Append(sent, m) = 1..(Len(sent) + 1)
        /\ \A i \in 1..Len(sent) : Append(sent, m)[i] = sent[i]
        /\ Append(sent, m)[Len(sent) + 1] = m
    BY AppendProperties, LenProperties
  <1> QED
    BY <1>1 DEF OnceEach

\* A message about anything else leaves the chain of a line alone.
LEMMA OtherMessage ==
    ASSUME NEW sent \in Seq(OutboxMessage), NEW m \in OutboxMessage, NEW l,
           m.type # "ItemServed" \/ m.aggregate # l
    PROVE  /\ ServesIn(Append(sent, m), l) = ServesIn(sent, l)
           /\ \A i \in ServesIn(sent, l) : i \in Nat /\ Append(sent, m)[i] = sent[i]
  <1>1. /\ Len(sent) \in Nat /\ DOMAIN sent = 1..Len(sent)
        /\ DOMAIN Append(sent, m) = 1..(Len(sent) + 1)
        /\ \A i \in 1..Len(sent) : Append(sent, m)[i] = sent[i]
        /\ Append(sent, m)[Len(sent) + 1] = m
    BY AppendProperties, LenProperties
  <1> QED
    BY <1>1 DEF ServesIn

\* The chain of a line does not change when the messages that form it do not.
LEMMA SameChain ==
    ASSUME NEW sent, NEW more, NEW serves, NEW served, Chained(sent, serves),
           LastIsHeard(sent, serves, served), \A i \in serves : more[i] = sent[i]
    PROVE  Chained(more, serves) /\ LastIsHeard(more, serves, served)
  <1>1. {more[i].content.sequence : i \in serves} = {sent[i].content.sequence : i \in serves}
    OBVIOUS
  <1>2. Chained(more, serves)
    BY <1>1 DEF Chained
  <1>3. LastIsHeard(more, serves, served)
    BY DEF LastIsHeard
  <1> QED
    BY <1>2, <1>3

\* The positions are finitely many.
LEMMA FinitelyMany ==
    ASSUME NEW S, NEW s \in Seq(S), NEW T, T \subseteq DOMAIN s
    PROVE  IsFiniteSet(T) /\ Cardinality(T) \in Nat
  <1>1. DOMAIN s = 1..Len(s) /\ Len(s) \in Nat
    BY LenProperties
  <1>2. IsFiniteSet(1..Len(s))
    BY <1>1, FS_Interval
  <1> QED
    BY <1>1, <1>2, FS_Subset, FS_CardinalityType

\* The latest is the one that is added at the end.
LEMMA LatestIsAdded ==
    ASSUME NEW S \in SUBSET Nat, NEW n \in Nat, \A i \in S : i < n
    PROVE  Max(S \cup {n}) = n
  <1>1. n \in S \cup {n} /\ \A y \in S \cup {n} : n >= y
    OBVIOUS
  <1>2. \A x \in S \cup {n} : (\A y \in S \cup {n} : x >= y) => x = n
    OBVIOUS
  <1> QED
    BY <1>1, <1>2 DEF Max

\* A ticket that is served adds the next link to its line's chain.
LEMMA NextLink ==
    ASSUME NEW sent \in Seq(OutboxMessage), NEW log \in Seq(Change), NEW l \in Line,
           ChainOf(sent, log, l), NEW m \in OutboxMessage, NEW e \in Change,
           m.type = "ItemServed", m.aggregate = l, e.ticket = l, e.to = "served",
           m.content.event = Len(log) + 1,
           m.content.sequence = Cardinality(ServedIn(log, l)) + 1,
           m.content.supersedes =
               IF ServedIn(log, l) = {} THEN 0 ELSE Max(ServedIn(log, l))
    PROVE  ChainOf(Append(sent, m), Append(log, e), l)
  <1> DEFINE R == ServesIn(sent, l)
             S == ServedIn(log, l)
             more == Append(sent, m)
             k == Len(sent) + 1
             n == Len(log) + 1
             c == Cardinality(R)
  <1>1. /\ Len(sent) \in Nat /\ DOMAIN sent = 1..Len(sent) /\ DOMAIN more = 1..k
        /\ \A i \in 1..Len(sent) : more[i] = sent[i]
        /\ more[k] = m
    BY AppendProperties, LenProperties
  <1>2. /\ Len(log) \in Nat /\ DOMAIN log = 1..Len(log) /\ DOMAIN Append(log, e) = 1..n
        /\ \A i \in 1..Len(log) : Append(log, e)[i] = log[i]
        /\ Append(log, e)[n] = e
    BY AppendProperties, LenProperties
  <1>3. ServesIn(more, l) = R \cup {k} /\ k \notin R /\ R \subseteq 1..Len(sent)
    BY <1>1 DEF ServesIn
  <1>4. ServedIn(Append(log, e), l) = S \cup {n} /\ n \notin S /\ S \subseteq 1..Len(log)
    BY <1>2 DEF ServedIn
  <1>5. /\ IsFiniteSet(R) /\ c \in Nat
        /\ IsFiniteSet(S) /\ Cardinality(S) = c
    <2>1. IsFiniteSet(R) /\ c \in Nat
      BY <1>1, <1>3, FinitelyMany
    <2>2. IsFiniteSet(S)
      BY <1>2, <1>4, FinitelyMany
    <2> QED
      BY <2>1, <2>2 DEF ChainOf, LastIsHeard
  <1>6. Cardinality(R \cup {k}) = c + 1 /\ Cardinality(S \cup {n}) = c + 1
    BY <1>3, <1>4, <1>5, FS_AddElement
  <1>7. Max(S \cup {n}) = n
    <2>1. S \in SUBSET Nat /\ n \in Nat /\ \A i \in S : i < n
      BY <1>2, <1>4
    <2> QED
      BY <2>1, LatestIsAdded
  <1>8. S = {} => c = 0 /\ R = {}
    BY <1>5, FS_EmptySet
  <1>9. Chained(sent, R) /\ LastIsHeard(sent, R, S)
    BY DEF ChainOf
  <1>10. m.content.sequence = c + 1
    BY <1>5
  <1> HIDE DEF R, S, more, k, n, c
  <1>11. {more[i].content.sequence : i \in R \cup {k}} = 1..(c + 1)
    <2>1. {sent[i].content.sequence : i \in R} = 1..c
      BY <1>9 DEF Chained, c
    <2>2. \A i \in R : more[i] = sent[i]
      BY <1>1, <1>3
    <2>3. {more[i].content.sequence : i \in R \cup {k}} =
              {sent[i].content.sequence : i \in R} \cup {c + 1}
      <3>1. more[k].content.sequence = c + 1
        BY <1>1, <1>10
      <3>2. \A i \in R : more[i].content.sequence = sent[i].content.sequence
        BY <2>2
      <3> QED
        BY <3>1, <3>2
    <2>4. 1..(c + 1) = (1..c) \cup {c + 1}
      BY <1>5
    <2> QED
      BY <2>1, <2>3, <2>4
  <1>12. ASSUME NEW i \in R \cup {k}
         PROVE  IF more[i].content.sequence = 1 THEN more[i].content.supersedes = 0
                ELSE \E j \in R \cup {k} :
                        /\ j < i
                        /\ more[j].content.sequence = more[i].content.sequence - 1
                        /\ more[j].content.event = more[i].content.supersedes
    <2>1. CASE i \in R
      <3>1. \A j \in R : more[j] = sent[j]
        BY <1>1, <1>3
      <3> QED
        BY <1>9, <2>1, <3>1 DEF Chained
    <2>2. CASE i = k /\ S = {}
      <3>1. more[i].content.sequence = 1 /\ more[i].content.supersedes = 0
        BY <1>1, <1>8, <1>10, <2>2 DEF S
      <3> QED
        BY <3>1
    <2>3. CASE i = k /\ S # {}
      <3>1. PICK j \in R : sent[j].content.sequence = c /\ sent[j].content.event = Max(S)
        BY <1>9, <2>3 DEF LastIsHeard, c
      <3>2. more[j] = sent[j] /\ j < k
        BY <1>1, <1>3, <3>1 DEF k
      <3>3. more[i].content.sequence = c + 1 /\ more[i].content.supersedes = Max(S)
        BY <1>1, <1>10, <2>3 DEF S
      <3>4. c # 0
        <4>1. c = 0 => S = {}
          BY <1>5, FS_EmptySet
        <4> QED
          BY <2>3, <4>1
      <3> QED
        BY <1>5, <2>3, <3>1, <3>2, <3>3, <3>4
    <2> QED
      BY <2>1, <2>2, <2>3
  <1>13. Chained(more, R \cup {k})
    BY <1>6, <1>11, <1>12 DEF Chained
  <1>14. LastIsHeard(more, R \cup {k}, S \cup {n})
    <2>1. Max(S \cup {n}) \in Nat
      BY <1>2, <1>7 DEF n
    <2>2. more[k].content.sequence = Cardinality(R \cup {k})
      BY <1>1, <1>6, <1>10
    <2>3. more[k].content.event = Max(S \cup {n})
      BY <1>1, <1>7 DEF n
    <2> QED
      BY <1>6, <2>1, <2>2, <2>3 DEF LastIsHeard
  <1> QED
    BY <1>3, <1>4, <1>13, <1>14 DEF ChainOf, more

-----------------------------------------------------------------------------
(* The kitchen: its steps.                                                 *)

\* What a command adds besides a change of a ticket.
LEMMA OtherChain ==
    ASSUME NEW sent \in Seq(OutboxMessage), NEW log, NEW l, ChainOf(sent, log, l),
           NEW m \in OutboxMessage, m.type # "ItemServed" \/ m.aggregate # l
    PROVE  ChainOf(Append(sent, m), log, l)
  <1>1. Chained(sent, ServesIn(sent, l)) /\ LastIsHeard(sent, ServesIn(sent, l), ServedIn(log, l))
    BY DEF ChainOf
  <1>2. /\ ServesIn(Append(sent, m), l) = ServesIn(sent, l)
        /\ \A i \in ServesIn(sent, l) : Append(sent, m)[i] = sent[i]
    BY OtherMessage
  <1>3. /\ Chained(Append(sent, m), ServesIn(sent, l))
        /\ LastIsHeard(Append(sent, m), ServesIn(sent, l), ServedIn(log, l))
    BY <1>1, <1>2, SameChain
  <1> QED
    BY <1>2, <1>3 DEF ChainOf

\* An event of another line, or that serves nothing, leaves the chain of a line alone.
LEMMA OtherEvent ==
    ASSUME NEW log \in Seq(Change), NEW e \in Change, NEW l,
           e.ticket # l \/ e.to # "served"
    PROVE  ServedIn(Append(log, e), l) = ServedIn(log, l)
  <1>1. /\ Len(log) \in Nat /\ DOMAIN log = 1..Len(log)
        /\ DOMAIN Append(log, e) = 1..(Len(log) + 1)
        /\ \A i \in 1..Len(log) : Append(log, e)[i] = log[i]
        /\ Append(log, e)[Len(log) + 1] = e
    BY AppendProperties, LenProperties
  <1> QED
    BY <1>1 DEF ServedIn

\* Used commands are those of the messages.
LEMMA UsedAreSent == \A c : Unprocessed(c) <=> \A i \in DOMAIN outbox : outbox[i].command # c
  BY DEF Unprocessed, Used

\* A message about anything but a ticket.
LEMMA MessageIsAdded ==
    ASSUME KitchenInv, NEW m \in OutboxMessage, m.type # "ItemServed",
           Unprocessed(m.command), outbox' = Append(outbox, m), UNCHANGED changes
    PROVE  /\ outbox' \in Seq(OutboxMessage)
           /\ \A i \in DOMAIN outbox' :
                 outbox'[i].command \in Command /\ outbox'[i].type \in EventType
           /\ \A l \in Line : ChainOf(outbox', changes', l)
           /\ OnceEach(outbox')
  <1>1. outbox \in Seq(OutboxMessage) /\ OnceEach(outbox)
    BY DEF KitchenInv
  <1>2. outbox' \in Seq(OutboxMessage)
    BY <1>1, AppendProperties
  <1>3. \A i \in DOMAIN outbox' :
           outbox'[i].command \in Command /\ outbox'[i].type \in EventType
    <2>1. \A i \in DOMAIN outbox' : outbox'[i] \in OutboxMessage
      BY <1>2, ElementOfSeq, LenProperties
    <2> QED
      BY <2>1 DEF OutboxMessage
  <1>4. \A l \in Line : ChainOf(outbox', changes, l)
    BY <1>1, OtherChain DEF KitchenInv
  <1>5. OnceEach(outbox')
    BY <1>1, UsedAreSent, AppendOnce
  <1> QED
    BY <1>2, <1>3, <1>4, <1>5

\* A document adds a row of its own.
LEMMA CaptureStep ==
    ASSUME KitchenInv, NEW c \in Command, NEW type \in StockEvent, Capture(c, type)
    PROVE  KitchenInv'
  <1> DEFINE m == OutboxRow(c, type, Len(outbox) + 1, "document")
  <1>1. Len(outbox) \in Nat
    BY LenProperties DEF KitchenInv
  <1>2. m \in OutboxMessage /\ m.type # "ItemServed" /\ m.command = c
    BY <1>1 DEF OutboxRow, OutboxMessage, OutboxContent, EventType, StockEvent
  <1>3. Unprocessed(c) /\ outbox' = Append(outbox, m) /\ UNCHANGED changes
    BY DEF Capture
  <1> HIDE DEF m
  <1> QED
    BY <1>2, <1>3, MessageIsAdded DEF KitchenInv, KitchenTypeOK, Capture

\* A change of the stop list adds a row and replaces the entry.
LEMMA StopListStep ==
    ASSUME KitchenInv, NEW c \in Command, NEW active \in BOOLEAN, UpdateStopList(c, active)
    PROVE  KitchenInv'
  <1> DEFINE m == OutboxRow(c, "StopListUpdated", Len(outbox) + 1, active)
  <1>1. Len(outbox) \in Nat
    BY LenProperties DEF KitchenInv
  <1>2. m \in OutboxMessage /\ m.type # "ItemServed" /\ m.command = c
    BY <1>1 DEF OutboxRow, OutboxMessage, OutboxContent, EventType
  <1>3. Unprocessed(c) /\ outbox' = Append(outbox, m) /\ UNCHANGED changes
    BY DEF UpdateStopList
  <1>4. stop' \in StopEntry
    BY DEF UpdateStopList, LocalEntry, StopEntry, KitchenInv, KitchenTypeOK
  <1> HIDE DEF m
  <1> QED
    BY <1>2, <1>3, <1>4, MessageIsAdded DEF KitchenInv, KitchenTypeOK, UpdateStopList

\* A suggestion adds a row, and one to kitchen_proposals.
LEMMA SuggestStep ==
    ASSUME KitchenInv, NEW c \in Command, NEW s \in Suggestion,
           NEW kind \in {"catalog", "recipe"},
           NEW type \in {"CatalogItemChangeSuggested", "RecipeChangeSuggested"},
           Suggest(c, s, kind, type)
    PROVE  KitchenInv'
  <1> DEFINE m == OutboxRow(c, type, s, kind)
  <1>2. m \in OutboxMessage /\ m.type # "ItemServed" /\ m.command = c
    BY DEF OutboxRow, OutboxMessage, OutboxContent, EventType
  <1>3. Unprocessed(c) /\ outbox' = Append(outbox, m) /\ UNCHANGED changes
    BY DEF Suggest, Unsuggested
  <1>4. proposals' \in [Suggestion ->
           [kind : {"none", "catalog", "recipe"},
            status : {"none", "pending_sync", "synced"} \cup (ReviewStatus \ {"pending"}),
            command : Command \cup {0}]]
    BY DEF Suggest, KitchenInv, KitchenTypeOK
  <1> HIDE DEF m
  <1> QED
    BY <1>2, <1>3, <1>4, MessageIsAdded DEF KitchenInv, KitchenTypeOK, Suggest

\* Two messages of one command: the change of a ticket, and that it was served.
LEMMA AppendTwice ==
    ASSUME NEW sent \in Seq(OutboxMessage), OnceEach(sent),
           NEW a \in OutboxMessage, NEW b \in OutboxMessage,
           \A i \in DOMAIN sent : sent[i].command # a.command,
           b.command = a.command, b.aggregate = a.aggregate,
           a.type = "KitchenTicketStatusChanged", b.type = "ItemServed"
    PROVE  OnceEach(Append(Append(sent, a), b))
  <1> DEFINE one == Append(sent, a)
             two == Append(one, b)
             n == Len(sent)
  <1>1. /\ n \in Nat /\ DOMAIN sent = 1..n /\ DOMAIN one = 1..(n + 1) /\ Len(one) = n + 1
        /\ one \in Seq(OutboxMessage)
        /\ \A i \in 1..n : one[i] = sent[i]
        /\ one[n + 1] = a
    BY AppendProperties, LenProperties
  <1>2. /\ DOMAIN two = 1..(n + 2)
        /\ \A i \in 1..(n + 1) : two[i] = one[i]
        /\ two[n + 2] = b
    <2> HIDE DEF one, n
    <2>1. /\ two \in Seq(OutboxMessage) /\ Len(two) = Len(one) + 1
          /\ \A i \in 1..Len(one) : two[i] = one[i] /\ two[Len(one) + 1] = b
      BY <1>1, AppendProperties
    <2> QED
      BY <1>1, <2>1, LenProperties
  <1>3. /\ \A i \in 1..n : two[i] = sent[i]
        /\ two[n + 1] = a /\ two[n + 2] = b
    BY <1>1, <1>2
  <1> HIDE DEF one, two, n
  <1>4. ASSUME NEW i \in 1..(n + 2), NEW j \in 1..(n + 2), i < j, two[i].command = two[j].command
        PROVE  /\ two[i].type = "KitchenTicketStatusChanged" /\ two[j].type = "ItemServed"
               /\ two[i].aggregate = two[j].aggregate /\ j = i + 1
    <2>1. CASE j \in 1..n
      BY <1>1, <1>3, <1>4, <2>1 DEF OnceEach
    <2>2. CASE i \in 1..n /\ j \in {n + 1, n + 2}
      BY <1>1, <1>3, <1>4, <2>2
    <2>3. CASE i = n + 1 /\ j = n + 2
      BY <1>1, <1>3, <2>3
    <2> QED
      BY <1>1, <1>4, <2>1, <2>2, <2>3
  <1> QED
    BY <1>2, <1>4 DEF OnceEach, two, one

\* Appending two messages is appending one after the other.
LEMMA TwoAtOnce ==
    ASSUME NEW sent \in Seq(OutboxMessage),
           NEW a \in OutboxMessage, NEW b \in OutboxMessage
    PROVE  sent \o <<a, b>> = Append(Append(sent, a), b)
  <1>1. <<a, b>> \in Seq(OutboxMessage)
    OBVIOUS
  <1> QED
    BY <1>1, SMT

\* A change of a ticket adds one row or, when it is served, two.
LEMMA TicketStep ==
    ASSUME KitchenInv, NEW c \in Command, NEW l \in Line, NEW action \in Action,
           ChangeTicketStatus(c, l, action)
    PROVE  KitchenInv'
  <1>1. PICK to \in TicketStatus :
           /\ <<status[l], action, to>> \in Transitions
           /\ MoveTicket(c, l, to)
    BY DEF ChangeTicketStatus
  <1> DEFINE e == [ticket |-> l, from |-> status[l], to |-> to, command |-> c]
             a == Changed(c, l, to)
             b == Served(c, l)
  <1>2. /\ outbox \in Seq(OutboxMessage) /\ OnceEach(outbox)
        /\ changes \in Seq(Change)
        /\ \A k \in Line : ChainOf(outbox, changes, k)
        /\ Len(outbox) \in Nat /\ Len(changes) \in Nat
    BY LenProperties DEF KitchenInv, KitchenTypeOK
  <1>3. status[l] \in TicketStatus
    BY <1>1 DEF Transitions, TicketStatus
  <1>4. e \in Change /\ e.ticket = l /\ e.to = to
    BY <1>3 DEF Change
  <1>5. /\ a \in OutboxMessage /\ a.command = c /\ a.aggregate = l
        /\ a.type = "KitchenTicketStatusChanged"
    BY <1>2, <1>3 DEF Changed, OutboxRow, OutboxMessage, OutboxContent, EventType
  <1>6. /\ IsFiniteSet(ServedIn(changes, l)) /\ CountServed(l) \in Nat
        /\ CountServed(l) = Cardinality(ServedIn(changes, l))
    BY <1>2, FinitelyMany DEF ServedIn, CountServed, ServedEvents
  <1>7. LatestServed(l) = IF ServedIn(changes, l) = {} THEN 0 ELSE Max(ServedIn(changes, l))
    BY DEF LatestServed, ServedIn, ServedEvents
  <1>8. LatestServed(l) \in Nat
    <2>1. CASE ServedIn(changes, l) = {}
      BY <1>7, <2>1
    <2>2. CASE ServedIn(changes, l) # {}
      BY <1>2, <1>7, <2>2 DEF ChainOf, LastIsHeard
    <2> QED
      BY <2>1, <2>2
  <1>9. /\ b \in OutboxMessage /\ b.command = c /\ b.aggregate = l /\ b.type = "ItemServed"
        /\ b.content = [event |-> Len(changes) + 1, sequence |-> CountServed(l) + 1,
                        supersedes |-> LatestServed(l)]
    BY <1>2, <1>6, <1>8 DEF Served, OutboxRow, OutboxMessage, OutboxContent, EventType
  <1>10. \A i \in DOMAIN outbox : outbox[i].command # c
    BY UsedAreSent DEF ChangeTicketStatus
  <1>11. changes' = Append(changes, e) /\ changes' \in Seq(Change)
    BY <1>1, <1>2, <1>4, AppendProperties DEF MoveTicket
  <1>12. status' \in [Line -> TicketStatus \cup {"none"}]
    BY <1>1 DEF MoveTicket, KitchenInv, KitchenTypeOK
  <1>13. /\ outbox' \in Seq(OutboxMessage) /\ OnceEach(outbox')
         /\ \A k \in Line : ChainOf(outbox', changes', k)
    <2> HIDE DEF a, b, e
    <2>1. Append(outbox, a) \in Seq(OutboxMessage)
      BY <1>2, <1>5, AppendProperties
    <2>2. CASE to # "served"
      <3>1. outbox' = Append(outbox, a)
        BY <1>1, <2>2 DEF MoveTicket, a
      <3>2. OnceEach(outbox')
        BY <1>2, <1>5, <1>10, <3>1, AppendOnce
      <3>3. ASSUME NEW k \in Line PROVE ChainOf(outbox', changes', k)
        <4>1. ChainOf(outbox', changes, k)
          BY <1>2, <1>5, <3>1, OtherChain
        <4>2. ServedIn(changes', k) = ServedIn(changes, k)
          BY <1>2, <1>4, <1>11, <2>2, OtherEvent
        <4> QED
          BY <4>1, <4>2 DEF ChainOf
      <3> QED
        BY <2>1, <3>1, <3>2, <3>3
    <2>3. CASE to = "served"
      <3>1. outbox' = outbox \o <<a, b>>
        BY <1>1, <2>3 DEF MoveTicket, a, b
      <3>2. outbox' = Append(Append(outbox, a), b)
        BY <1>2, <1>5, <1>9, <3>1, TwoAtOnce
      <3>3. OnceEach(outbox')
        BY <1>2, <1>5, <1>9, <1>10, <3>2, AppendTwice
      <3>4. ASSUME NEW k \in Line PROVE ChainOf(outbox', changes', k)
        <4>1. ChainOf(Append(outbox, a), changes, k)
          BY <1>2, <1>5, OtherChain
        <4>2. CASE k = l
          <5>1. /\ b.content.event = Len(changes) + 1
                /\ b.content.sequence = Cardinality(ServedIn(changes, l)) + 1
                /\ b.content.supersedes = IF ServedIn(changes, l) = {} THEN 0
                                          ELSE Max(ServedIn(changes, l))
            BY <1>6, <1>7, <1>9
          <5> QED
            BY <1>2, <1>4, <1>9, <1>11, <2>1, <2>3, <3>2, <4>1, <4>2, <5>1, NextLink
        <4>3. CASE k # l
          <5>1. ChainOf(outbox', changes, k)
            BY <1>9, <2>1, <3>2, <4>1, <4>3, OtherChain
          <5>2. ServedIn(changes', k) = ServedIn(changes, k)
            BY <1>2, <1>4, <1>11, <4>3, OtherEvent
          <5> QED
            BY <5>1, <5>2 DEF ChainOf
        <4> QED
          BY <4>2, <4>3
      <3>5. outbox' \in Seq(OutboxMessage)
        BY <1>9, <2>1, <3>2, AppendProperties
      <3> QED
        BY <3>3, <3>4, <3>5
    <2> QED
      BY <2>2, <2>3
  <1>14. \A i \in DOMAIN outbox' :
            outbox'[i].command \in Command /\ outbox'[i].type \in EventType
    <2>1. \A i \in DOMAIN outbox' : outbox'[i] \in OutboxMessage
      BY <1>13, ElementOfSeq, LenProperties
    <2> QED
      BY <2>1 DEF OutboxMessage
  <1> QED
    BY <1>11, <1>12, <1>13, <1>14 DEF KitchenInv, KitchenTypeOK, ChangeTicketStatus

\* A line that is ordered adds a ticket and sends nothing.
LEMMA AddLineStep == ASSUME KitchenInv, NEW l \in Line, AddOrderLine(l) PROVE KitchenInv'
  <1>1. status' \in [Line -> TicketStatus \cup {"none"}]
    BY DEF AddOrderLine, KitchenInv, KitchenTypeOK, TicketStatus
  <1> QED
    BY <1>1 DEF AddOrderLine, KitchenInv, KitchenTypeOK

\* Packages of the Cloud send nothing.
LEMMA PackageStep ==
    ASSUME KitchenInv,
           \/ \E active \in BOOLEAN : ApplyStopList(active)
           \/ \E s \in Suggestion, kind \in {"catalog", "recipe"}, review \in ReviewStatus :
                 ApplyFeedback(s, kind, review)
           \/ \E r \in References : ApplyReference(r)
    PROVE  KitchenInv'
  <1>1. ASSUME NEW active \in BOOLEAN, ApplyStopList(active) PROVE KitchenInv'
    BY <1>1 DEF ApplyStopList, KitchenInv, KitchenTypeOK, StopEntry
  <1>2. ASSUME NEW s \in Suggestion, NEW kind \in {"catalog", "recipe"},
               NEW review \in ReviewStatus, ApplyFeedback(s, kind, review)
        PROVE  KitchenInv'
    <2>1. FeedbackStatus(review) \in {"synced"} \cup (ReviewStatus \ {"pending"})
      BY DEF FeedbackStatus, ReviewStatus
    <2> DEFINE Statuses == {"none", "pending_sync", "synced"} \cup (ReviewStatus \ {"pending"})
               Proposal == [kind : {"none", "catalog", "recipe"}, status : Statuses,
                            command : Command \cup {0}]
               answer == IF proposals[s].kind = kind THEN FeedbackStatus(review)
                         ELSE proposals[s].status
    <2>2. proposals \in [Suggestion -> Proposal] /\ proposals[s] \in Proposal
      BY DEF KitchenInv, KitchenTypeOK
    <2>3. answer \in Statuses
      BY <2>1, <2>2
    <2>4. proposals' = [proposals EXCEPT ![s].status = answer]
      BY <1>2 DEF ApplyFeedback
    <2> HIDE DEF Statuses, answer
    <2>5. proposals' \in [Suggestion -> Proposal]
      BY <2>2, <2>3, <2>4
    <2>6. proposals' \in
             [Suggestion ->
                [kind : {"none", "catalog", "recipe"},
                 status : {"none", "pending_sync", "synced"} \cup (ReviewStatus \ {"pending"}),
                 command : Command \cup {0}]]
      BY <2>5 DEF Statuses
    <2> QED
      BY <1>2, <2>6 DEF ApplyFeedback, KitchenInv, KitchenTypeOK
  <1>3. ASSUME NEW r \in References, ApplyReference(r) PROVE KitchenInv'
    BY <1>3, KitchenAssumption DEF ApplyReference, KitchenInv, KitchenTypeOK
  <1> QED
    BY <1>1, <1>2, <1>3

\* Every step of the kitchen keeps the invariant.
LEMMA KitchenKeeps == ASSUME KitchenInv, KitchenNext PROVE KitchenInv'
  <1>1. ASSUME NEW c \in Command, CommandStep(c) PROVE KitchenInv'
    BY <1>1, TicketStep, CaptureStep, StopListStep, SuggestStep
    DEF CommandStep, CaptureStockReceipt, CaptureInventoryCount, CaptureStockWriteOff,
        CompleteProduction, CreateCatalogSuggestion, CreateRecipeSuggestion, StockEvent
  <1> QED
    BY <1>1, AddLineStep, PackageStep DEF KitchenNext

\* The invariant holds at the start.
LEMMA KitchenStarts == ASSUME KitchenInit PROVE KitchenInv
  <1>1. /\ changes = <<>> /\ outbox = <<>>
        /\ changes \in Seq(Change) /\ outbox \in Seq(OutboxMessage)
        /\ DOMAIN changes = {} /\ DOMAIN outbox = {}
    BY EmptySeq, LenProperties DEF KitchenInit
  <1>2. ASSUME NEW l \in Line PROVE ChainOf(outbox, changes, l)
    <2>1. ServesIn(outbox, l) = {} /\ ServedIn(changes, l) = {} /\ Cardinality({}) = 0
      BY <1>1, FS_EmptySet DEF ServesIn, ServedIn
    <2>2. 1..0 = {}
      OBVIOUS
    <2> QED
      BY <2>1, <2>2 DEF ChainOf, Chained, LastIsHeard
  <1>3. OnceEach(outbox)
    BY <1>1 DEF OnceEach
  <1>4. KitchenTypeOK
    BY <1>1, KitchenAssumption DEF KitchenTypeOK, KitchenInit, NoProposal, StopEntry
  <1> QED
    BY <1>1, <1>2, <1>3, <1>4 DEF KitchenInv

-----------------------------------------------------------------------------
(* Storage: what is true of the rows, of the files and of the plan.        *)

\* A file, and what an export and a plan may have reached.
ArchiveFile ==
    [file : {TRUE}, whole : BOOLEAN, manifest : BOOLEAN, cutoff : Cutoff,
     checks : SUBSET Check, operations : SUBSET Operation, events : SUBSET Aggregate,
     asOf : Day]
ExportState ==
    {Idle} \cup [phase : {"operations"}, cutoff : Cutoff, checks : SUBSET Check, asOf : Day]
    \cup [phase : {"events"}, cutoff : Cutoff, checks : SUBSET Check,
          operations : SUBSET Operation, asOf : Day]
    \cup [phase : {"manifest"}, archive : Archive]
PlanState ==
    {Idle} \cup [phase : {"evaluate"}, archive : Archive, cutoff : Cutoff, checks : Nat,
                 operations : Nat, seen : SUBSET Aggregate]
    \cup [phase : {"delete"}, archive : Archive, cutoff : Cutoff, seen : SUBSET Aggregate]

FilesAreFiles ==
    /\ archives \in [Archive -> {NoArchive} \cup ArchiveFile]
    /\ export \in ExportState /\ plan \in PlanState
    /\ export.phase = "manifest" => archives[export.archive] \in ArchiveFile
    /\ plan.phase \in {"evaluate", "delete"} => archives[plan.archive] \in ArchiveFile

\* The rows that are stored are finitely many and have events; the rows that are gone do
\* not come back; a command that was carried out is remembered, or its sale is gone.
Stored(rows) == {c \in Check : rows[c] # NoDay}
Deleted(deletions) == {g.row : g \in deletions}
RowsAreTold ==
    /\ IsFiniteSet(Stored(checks)) /\ IsFiniteSet(operations)
    /\ \A x \in Stored(checks) \cup operations : events[x] # "none"
    /\ Deleted(gone) \cap Stored(checks) = {}
    /\ \A o \in Operation :
          \/ effects[o] = 0
          \/ effects[o] = 1 /\ (events[o] # "none" \/ Target[o] \in Deleted(gone))

\* The checks of a file that was begun on a business day: it has all that were made before
\* that day, and those it has are in the database or gone.
HasChecks(file, rows, deletions, date) ==
    /\ file.asOf <= date /\ IsFiniteSet(file.checks)
    /\ \A c \in Stored(rows) : rows[c] < file.cutoff /\ rows[c] < file.asOf => c \in file.checks
    /\ \A c \in file.checks \ Deleted(deletions) : c \in Stored(rows) /\ rows[c] < file.cutoff

\* Whether the days before the cutoff of a file were over.
DaysWereOver(file) == file.cutoff <= file.asOf

\* Then its operations are of its checks, and are deleted with them only.
HasOperations(file, rows, recorded) ==
    /\ IsFiniteSet(file.operations)
    /\ DaysWereOver(file) =>
          \A o \in file.operations :
              Target[o] \in file.checks /\ (Target[o] \in Stored(rows) => o \in recorded)

FilesAreTrue ==
    /\ \A a \in Archive : archives[a] \in ArchiveFile /\ archives[a].whole =>
          /\ HasChecks(archives[a], checks, gone, businessDate)
          /\ HasOperations(archives[a], checks, operations)
    /\ export.phase \in {"operations", "events"} => HasChecks(export, checks, gone, businessDate)
    /\ export.phase = "events" => HasOperations(export, checks, operations)

\* The archive a plan is about fits it, and was written when its days were over.
Settled(file, cutoff) == file.whole /\ file.cutoff = cutoff /\ DaysWereOver(file)

\* What a plan has counted is still there, and what its archive has was counted; once the
\* counts were found equal, what was counted is what the archive has.
PlanIsTrue ==
    /\ plan.phase = "evaluate" =>
          /\ plan.checks = Cardinality(plan.seen \cap Check)
          /\ plan.operations = Cardinality(plan.seen \cap Operation)
          /\ plan.seen \cap Check \subseteq Stored(checks)
          /\ \A c \in plan.seen \cap Check : checks[c] < plan.cutoff
          /\ IsFiniteSet(plan.seen \cap Operation)
          /\ Settled(archives[plan.archive], plan.cutoff) =>
                \A o \in archives[plan.archive].operations :
                    Target[o] \in Stored(checks) => o \in plan.seen
    /\ plan.phase = "delete" =>
          /\ archives[plan.archive].whole /\ archives[plan.archive].cutoff = plan.cutoff
          /\ DaysWereOver(archives[plan.archive]) =>
                plan.seen \cap Operation \subseteq archives[plan.archive].operations

StorageInv ==
    /\ StorageTypeOK /\ effects \in [Operation -> Nat]
    /\ FilesAreFiles
    /\ RowsAreTold
    /\ FilesAreTrue
    /\ PlanIsTrue
    /\ NothingIsLost

\* How the steps move the rows: what was stored stays as it is or is gone; what is new is
\* of the business day, and was never there.
RowsMove ==
    /\ businessDate <= businessDate'
    /\ Deleted(gone) \subseteq Deleted(gone')
    /\ \A c \in Stored(checks') :
          \/ c \in Stored(checks) /\ checks'[c] = checks[c]
          \/ c \notin Stored(checks) \cup Deleted(gone) /\ checks'[c] = businessDate
    /\ \A c \in Stored(checks) :
          \/ c \in Stored(checks') /\ checks'[c] = checks[c]
          \/ c \in Deleted(gone')
    /\ \A o \in operations : o \in operations' \/ Target[o] \notin Stored(checks')

\* The checks of a file stay as true as they were.
LEMMA ChecksStay ==
    ASSUME StorageTypeOK, StorageTypeOK', RowsMove, NEW file, file.asOf \in Day,
           HasChecks(file, checks, gone, businessDate)
    PROVE  HasChecks(file, checks', gone', businessDate')
  <1>1. /\ businessDate \in Int /\ businessDate' \in Int /\ file.asOf \in Int
        /\ businessDate <= businessDate'
        /\ file.asOf <= businessDate /\ IsFiniteSet(file.checks)
    BY StorageAssumption DEF StorageTypeOK, Day, RowsMove, HasChecks
  <1>2. ASSUME NEW c \in Stored(checks'), checks'[c] < file.cutoff, checks'[c] < file.asOf
        PROVE  c \in file.checks
    <2>1. CASE c \in Stored(checks) /\ checks'[c] = checks[c]
      BY <1>2, <2>1 DEF HasChecks
    <2>2. CASE checks'[c] = businessDate
      BY <1>1, <1>2, <2>2
    <2> QED
      BY <2>1, <2>2 DEF RowsMove
  <1>3. ASSUME NEW c \in file.checks \ Deleted(gone')
        PROVE  c \in Stored(checks') /\ checks'[c] < file.cutoff
    <2>1. c \notin Deleted(gone)
      BY <1>3 DEF RowsMove
    <2>2. c \in Stored(checks) /\ checks[c] < file.cutoff
      BY <1>3, <2>1 DEF HasChecks
    <2> QED
      BY <1>3, <2>2 DEF RowsMove
  <1> QED
    BY <1>1, <1>2, <1>3 DEF HasChecks

\* So do its operations.
LEMMA OperationsStay ==
    ASSUME RowsMove, NEW file, HasChecks(file, checks, gone, businessDate),
           HasOperations(file, checks, operations)
    PROVE  HasOperations(file, checks', operations')
  <1>1. IsFiniteSet(file.operations)
    BY DEF HasOperations
  <1>2. ASSUME DaysWereOver(file), NEW o \in file.operations
        PROVE  Target[o] \in file.checks /\ (Target[o] \in Stored(checks') => o \in operations')
    <2>1. Target[o] \in file.checks /\ (Target[o] \in Stored(checks) => o \in operations)
      BY <1>2 DEF HasOperations
    <2>2. Target[o] \in Stored(checks) \cup Deleted(gone)
      BY <2>1 DEF HasChecks
    <2>3. ASSUME Target[o] \in Stored(checks') PROVE o \in operations'
      <3>1. Target[o] \in Stored(checks)
        BY <2>2, <2>3 DEF RowsMove
      <3> QED
        BY <2>1, <2>3, <3>1 DEF RowsMove
    <2> QED
      BY <2>1, <2>3
  <1> QED
    BY <1>1, <1>2 DEF HasOperations

\* So do all files, of those that were written and of the one that is being written.
LEMMA FilesStay ==
    ASSUME StorageInv, StorageTypeOK', RowsMove, UNCHANGED <<archives, export>>
    PROVE  FilesAreTrue'
  <1>1. StorageTypeOK /\ FilesAreTrue /\ FilesAreFiles
    BY DEF StorageInv
  <1>2. ASSUME NEW a \in Archive, archives[a] \in ArchiveFile, archives[a].whole
        PROVE  /\ HasChecks(archives[a], checks', gone', businessDate')
               /\ HasOperations(archives[a], checks', operations')
    <2>1. /\ HasChecks(archives[a], checks, gone, businessDate)
          /\ HasOperations(archives[a], checks, operations)
          /\ archives[a].asOf \in Day
      BY <1>1, <1>2 DEF FilesAreTrue, ArchiveFile
    <2> QED
      BY <1>1, <2>1, ChecksStay, OperationsStay
  <1>3. ASSUME export.phase \in {"operations", "events"}
        PROVE  HasChecks(export, checks', gone', businessDate')
    <2>1. HasChecks(export, checks, gone, businessDate) /\ export.asOf \in Day
      BY <1>1, <1>3 DEF FilesAreTrue, FilesAreFiles, ExportState, Idle
    <2> QED
      BY <1>1, <2>1, ChecksStay
  <1>4. ASSUME export.phase = "events" PROVE HasOperations(export, checks', operations')
    <2>1. /\ HasChecks(export, checks, gone, businessDate)
          /\ HasOperations(export, checks, operations)
      BY <1>1, <1>4 DEF FilesAreTrue
    <2> QED
      BY <2>1, OperationsStay
  <1> QED
    BY <1>2, <1>3, <1>4 DEF FilesAreTrue

\* A plan stays true as long as nothing is deleted.
LEMMA PlanStays ==
    ASSUME StorageInv, StorageTypeOK', RowsMove, UNCHANGED <<archives, plan, gone>>
    PROVE  PlanIsTrue'
  <1>1. StorageTypeOK /\ FilesAreTrue /\ FilesAreFiles /\ PlanIsTrue /\ RowsAreTold
    BY DEF StorageInv
  <1>2. \A c \in Stored(checks) : c \in Stored(checks') /\ checks'[c] = checks[c]
    BY <1>1 DEF RowsMove, RowsAreTold
  <1>3. ASSUME plan.phase = "evaluate", NEW c \in plan.seen \cap Check
        PROVE  c \in Stored(checks') /\ checks'[c] < plan.cutoff
    BY <1>1, <1>2, <1>3 DEF PlanIsTrue
  <1>4. ASSUME plan.phase = "evaluate", Settled(archives[plan.archive], plan.cutoff),
               NEW o \in archives[plan.archive].operations, Target[o] \in Stored(checks')
        PROVE  o \in plan.seen
    <2> DEFINE file == archives[plan.archive]
    <2>1. plan.archive \in Archive /\ file \in ArchiveFile /\ file.whole
      BY <1>1, <1>4 DEF FilesAreFiles, PlanState, Idle, Settled
    <2>2. /\ HasChecks(file, checks, gone, businessDate)
          /\ HasOperations(file, checks, operations)
      BY <1>1, <2>1 DEF FilesAreTrue
    <2>3. Target[o] \in file.checks
      BY <1>4, <2>2 DEF HasOperations, Settled
    <2>4. Target[o] \in Stored(checks)
      BY <1>4, <2>2, <2>3 DEF HasChecks, RowsMove
    <2> QED
      BY <1>1, <1>4, <2>4 DEF PlanIsTrue
  <1> QED
    BY <1>1, <1>3, <1>4 DEF PlanIsTrue

-----------------------------------------------------------------------------
(* Storage: the days and the tills.                                        *)

\* The days go on.
LEMMA DayStep == ASSUME StorageInv, BusinessDay PROVE StorageInv'
  <1>1. /\ StorageTypeOK /\ StorageTypeOK'
        /\ businessDate \in Int /\ businessDate <= businessDate'
    BY StorageAssumption DEF StorageInv, StorageTypeOK, BusinessDay, storageRows, Day
  <1>2. UNCHANGED <<checks, operations, events, effects, archives, export, plan, gone>>
    BY DEF BusinessDay, storageRows
  <1>3. RowsMove
    BY <1>1, <1>2 DEF RowsMove
  <1>4. FilesAreTrue' /\ PlanIsTrue'
    BY <1>1, <1>2, <1>3, FilesStay, PlanStays
  <1> QED
    BY <1>1, <1>2, <1>4 DEF StorageInv, FilesAreFiles, RowsAreTold, NothingIsLost

\* A shift begins or ends.
LEMMA ShiftStep ==
    ASSUME StorageInv, OpenShift \/ CloseShift,
           UNCHANGED <<today, businessDate, archives, export, plan, damages, gone>>
    PROVE  StorageInv'
  <1>1. /\ StorageTypeOK /\ StorageTypeOK' /\ businessDate \in Int
    BY StorageAssumption
    DEF StorageInv, StorageTypeOK, OpenShift, CloseShift, Day, NoDay
  <1>2. UNCHANGED <<checks, operations, events, effects>>
    BY DEF OpenShift, CloseShift
  <1>3. RowsMove
    BY <1>1, <1>2 DEF RowsMove
  <1>4. FilesAreTrue' /\ PlanIsTrue'
    BY <1>1, <1>2, <1>3, FilesStay, PlanStays
  <1> QED
    BY <1>1, <1>2, <1>4 DEF StorageInv, FilesAreFiles, RowsAreTold, NothingIsLost

\* A sale is of the business day, which no file was begun after.
LEMMA SellStep ==
    ASSUME StorageInv, NEW c \in Check, Sell(c),
           UNCHANGED <<today, businessDate, archives, export, plan, damages, gone>>
    PROVE  StorageInv'
  <1>1. /\ StorageTypeOK /\ RowsAreTold /\ businessDate \in Day /\ businessDate \in Int
        /\ businessDate # NoDay
    BY StorageAssumption DEF StorageInv, StorageTypeOK, Day, NoDay
  <1>2. /\ checks' \in [Check -> Day \cup {NoDay}] /\ checks'[c] = businessDate
        /\ \A x \in Check \ {c} : checks'[x] = checks[x]
    BY <1>1 DEF Sell, StorageTypeOK
  <1>3. /\ events' \in [Aggregate -> {"none", "pending", "sent"}] /\ events'[c] = "pending"
        /\ \A x \in Aggregate \ {c} : events'[x] = events[x]
    BY <1>1 DEF Sell, StorageTypeOK, Aggregate
  <1>4. StorageTypeOK' /\ UNCHANGED <<operations, effects>>
    BY <1>1, <1>2, <1>3 DEF Sell, StorageTypeOK
  <1>5. Stored(checks') = Stored(checks) \cup {c} /\ c \notin Stored(checks) \cup Deleted(gone)
    BY <1>1, <1>2 DEF Stored, Sell, Deleted
  <1>6. RowsMove
    BY <1>1, <1>2, <1>4, <1>5 DEF RowsMove, Stored
  <1>7. RowsAreTold'
    <2>1. IsFiniteSet(Stored(checks)) /\ IsFiniteSet(Stored(checks) \cup {c})
      BY <1>1, FS_AddElement DEF RowsAreTold
    <2>2. \A x \in Stored(checks') \cup operations' : events'[x] # "none"
      BY <1>1, <1>3, <1>4, <1>5 DEF RowsAreTold, Stored, StorageTypeOK, Aggregate
    <2>3. \A o \in Operation : events[o] # "none" => events'[o] # "none"
      BY <1>3 DEF Aggregate
    <2> QED
      BY <1>1, <1>4, <1>5, <2>1, <2>2, <2>3 DEF RowsAreTold
  <1>8. FilesAreTrue' /\ PlanIsTrue'
    BY <1>4, <1>6, FilesStay, PlanStays
  <1> QED
    BY <1>4, <1>7, <1>8 DEF StorageInv, FilesAreFiles, NothingIsLost

\* An operation is recorded when its command was not, or was forgotten with its sale.
LEMMA RecordStep ==
    ASSUME StorageInv, NEW o \in Operation, Record(o),
           UNCHANGED <<today, businessDate, archives, export, plan, damages, gone>>
    PROVE  StorageInv'
  <1>1. /\ StorageTypeOK /\ RowsAreTold /\ businessDate \in Int
        /\ effects \in [Operation -> Nat]
    BY StorageAssumption DEF StorageInv, StorageTypeOK, Day
  <1>2. /\ events' \in [Aggregate -> {"none", "pending", "sent"}] /\ events'[o] = "pending"
        /\ \A x \in Aggregate \ {o} : events'[x] = events[x]
    BY <1>1 DEF Record, StorageTypeOK, Aggregate
  <1>3. /\ StorageTypeOK' /\ checks' = checks /\ operations' = operations \cup {o}
        /\ effects' \in [Operation -> Nat]
    BY <1>1, <1>2 DEF Record, StorageTypeOK
  <1>4. RowsMove
    BY <1>1, <1>3 DEF RowsMove
  <1>5. RowsAreTold'
    <2>1. IsFiniteSet(operations \cup {o})
      BY <1>1, FS_AddElement DEF RowsAreTold
    <2>2. \A x \in Stored(checks') \cup operations' : events'[x] # "none"
      BY <1>1, <1>2, <1>3 DEF RowsAreTold, Stored, StorageTypeOK, Aggregate
    <2>3. Target[o] \in Check /\ Target[o] \in Stored(checks) /\ Target[o] \notin Deleted(gone)
      BY <1>1, StorageAssumption DEF Record, Stored, RowsAreTold
    <2>4. effects[o] = 0
      BY <1>1, <2>3 DEF Record, EnsureCommandNotProcessed, RowsAreTold
    <2>5. effects'[o] = 1 /\ \A p \in Operation \ {o} : effects'[p] = effects[p]
      BY <1>1, <2>4 DEF Record
    <2>6. ASSUME NEW p \in Operation
          PROVE  \/ effects'[p] = 0
                 \/ effects'[p] = 1 /\ (events'[p] # "none" \/ Target[p] \in Deleted(gone))
      BY <1>1, <1>2, <2>5 DEF RowsAreTold, Aggregate
    <2> QED
      BY <1>1, <1>3, <2>1, <2>2, <2>6 DEF RowsAreTold
  <1>6. FilesAreTrue' /\ PlanIsTrue'
    BY <1>3, <1>4, FilesStay, PlanStays
  <1> QED
    BY <1>3, <1>5, <1>6 DEF StorageInv, FilesAreFiles, NothingIsLost

\* An event that is sent is still an event.
LEMMA SendStep ==
    ASSUME StorageInv, NEW x \in Aggregate, Send(x),
           UNCHANGED <<today, businessDate, archives, export, plan, damages, gone>>
    PROVE  StorageInv'
  <1>1. /\ StorageTypeOK /\ RowsAreTold /\ businessDate \in Int
    BY StorageAssumption DEF StorageInv, StorageTypeOK, Day
  <1>2. /\ events' \in [Aggregate -> {"none", "pending", "sent"}]
        /\ \A y \in Aggregate : events[y] # "none" => events'[y] # "none"
    BY <1>1 DEF Send, StorageTypeOK, Aggregate
  <1>3. StorageTypeOK' /\ UNCHANGED <<checks, operations, effects>>
    BY <1>1, <1>2 DEF Send, StorageTypeOK
  <1>4. RowsMove
    BY <1>1, <1>3 DEF RowsMove
  <1>5. RowsAreTold'
    <2>1. Stored(checks) \cup operations \cup Operation \subseteq Aggregate
      BY <1>1 DEF Stored, StorageTypeOK, Aggregate
    <2> QED
      BY <1>1, <1>2, <1>3, <2>1 DEF RowsAreTold
  <1>6. FilesAreTrue' /\ PlanIsTrue'
    BY <1>3, <1>4, FilesStay, PlanStays
  <1> QED
    BY <1>3, <1>5, <1>6 DEF StorageInv, FilesAreFiles, NothingIsLost

-----------------------------------------------------------------------------
(* Storage: the export.                                                    *)

\* An export writes nothing but its files.
LEMMA RowsStay ==
    ASSUME StorageInv,
           UNCHANGED <<today, businessDate, storageRows, damages, gone>>
    PROVE  /\ StorageTypeOK' /\ (effects \in [Operation -> Nat])' /\ RowsAreTold'
           /\ NothingIsLost'
  BY DEF StorageInv, StorageTypeOK, RowsAreTold, NothingIsLost, storageRows

\* What an export reads first has all the checks there are.
LEMMA ExportChecksStep ==
    ASSUME StorageInv, NEW cutoff \in Cutoff, ExportChecks(cutoff),
           UNCHANGED <<today, businessDate, storageRows, plan, damages, gone>>
    PROVE  StorageInv'
  <1>1. /\ StorageTypeOK /\ RowsAreTold /\ FilesAreFiles /\ FilesAreTrue /\ PlanIsTrue
        /\ businessDate \in Int /\ businessDate \in Day
    BY StorageAssumption DEF StorageInv, StorageTypeOK, Day
  <1>2. /\ UNCHANGED <<archives, plan, checks, gone, businessDate, operations>>
        /\ export' = [phase |-> "operations", cutoff |-> cutoff,
                      checks |-> EligibleOrders(cutoff), asOf |-> businessDate]
    BY DEF ExportChecks, storageRows
  <1>3. FilesAreFiles'
    BY <1>1, <1>2 DEF FilesAreFiles, ExportState, EligibleOrders
  <1>4. EligibleOrders(cutoff) = {c \in Stored(checks) : checks[c] < cutoff}
    BY DEF EligibleOrders, Stored
  <1>5. IsFiniteSet(EligibleOrders(cutoff))
    BY <1>1, <1>4, FS_Subset DEF RowsAreTold
  <1>6. HasChecks(export', checks', gone', businessDate')
    BY <1>1, <1>2, <1>4, <1>5 DEF HasChecks
  <1>7. FilesAreTrue'
    BY <1>1, <1>2, <1>6 DEF FilesAreTrue
  <1>8. PlanIsTrue'
    BY <1>1, <1>2 DEF PlanIsTrue
  <1> QED
    BY <1>3, <1>7, <1>8, RowsStay DEF StorageInv

\* Then it has the operations of these checks.
LEMMA ExportOperationsStep ==
    ASSUME StorageInv, ExportOperations,
           UNCHANGED <<today, businessDate, storageRows, plan, damages, gone>>
    PROVE  StorageInv'
  <1>1. /\ StorageTypeOK /\ RowsAreTold /\ FilesAreFiles /\ FilesAreTrue /\ PlanIsTrue
    BY DEF StorageInv
  <1>2. /\ export \in [phase : {"operations"}, cutoff : Cutoff, checks : SUBSET Check, asOf : Day]
        /\ HasChecks(export, checks, gone, businessDate)
    BY <1>1 DEF ExportOperations, FilesAreFiles, ExportState, Idle, FilesAreTrue
  <1>3. /\ UNCHANGED <<archives, plan, checks, gone, businessDate, operations>>
        /\ export'.phase = "events" /\ export'.cutoff = export.cutoff
        /\ export'.checks = export.checks /\ export'.asOf = export.asOf
        /\ export'.operations = EligibleOperations(export.cutoff)
    BY DEF ExportOperations, storageRows
  <1>4. FilesAreFiles'
    <2>1. EligibleOperations(export.cutoff) \subseteq Operation
      BY <1>1 DEF EligibleOperations, StorageTypeOK
    <2>2. export' \in ExportState
      BY <1>2, <2>1 DEF ExportOperations, ExportState
    <2> QED
      BY <1>1, <1>3, <2>2 DEF FilesAreFiles
  <1>5. HasChecks(export', checks', gone', businessDate')
    BY <1>2, <1>3 DEF HasChecks
  <1>6. HasOperations(export', checks', operations')
    <2>1. EligibleOperations(export.cutoff) \subseteq operations
      BY DEF EligibleOperations
    <2>2. IsFiniteSet(export'.operations)
      BY <1>1, <1>3, <2>1, FS_Subset DEF RowsAreTold
    <2>3. ASSUME DaysWereOver(export'), NEW o \in export'.operations
          PROVE  Target[o] \in export'.checks
      <3>1. Target[o] \in Stored(checks) /\ checks[Target[o]] < export.cutoff
        BY <1>3, <2>3 DEF EligibleOperations, EligibleOrders, Stored
      <3>2. export.cutoff \in Int /\ export.asOf \in Int /\ export.cutoff <= export.asOf
        BY <1>2, <1>3, <2>3, StorageAssumption DEF DaysWereOver, Cutoff, Day
      <3>3. checks[Target[o]] \in Int
        BY <1>1, <3>1, StorageAssumption DEF Stored, StorageTypeOK, Day, NoDay
      <3>4. checks[Target[o]] < export.asOf
        BY <3>1, <3>2, <3>3
      <3> QED
        BY <1>2, <1>3, <3>1, <3>4 DEF HasChecks
    <2> QED
      BY <1>3, <2>1, <2>2, <2>3 DEF HasOperations
  <1>7. FilesAreTrue'
    BY <1>1, <1>3, <1>5, <1>6 DEF FilesAreTrue
  <1>8. PlanIsTrue'
    BY <1>1, <1>3 DEF PlanIsTrue
  <1> QED
    BY <1>4, <1>7, <1>8, RowsStay DEF StorageInv

\* The file is what the export has read.
LEMMA WriteArchiveStep ==
    ASSUME StorageInv, NEW a \in Archive, WriteArchive(a),
           UNCHANGED <<today, businessDate, storageRows, plan, damages, gone>>
    PROVE  StorageInv'
  <1> DEFINE file == [file |-> TRUE, whole |-> TRUE, manifest |-> FALSE, cutoff |-> export.cutoff,
                      checks |-> export.checks, operations |-> export.operations,
                      events |-> EligibleEvents(export.cutoff), asOf |-> export.asOf]
  <1>1. /\ StorageTypeOK /\ RowsAreTold /\ FilesAreFiles /\ FilesAreTrue /\ PlanIsTrue
    BY DEF StorageInv
  <1>2. /\ export \in [phase : {"events"}, cutoff : Cutoff, checks : SUBSET Check,
                       operations : SUBSET Operation, asOf : Day]
        /\ HasChecks(export, checks, gone, businessDate)
        /\ HasOperations(export, checks, operations)
    BY <1>1 DEF WriteArchive, FilesAreFiles, ExportState, Idle, FilesAreTrue
  <1>3. file \in ArchiveFile
    <2>1. EligibleEvents(export.cutoff) \subseteq Aggregate
      BY <1>1 DEF EligibleEvents, EligibleRefs, EligibleOrders, EligibleOperations,
                  StorageTypeOK, Aggregate
    <2> QED
      BY <1>2, <2>1 DEF ArchiveFile
  <1>4. /\ HasChecks(file, checks, gone, businessDate)
        /\ HasOperations(file, checks, operations)
    BY <1>2 DEF HasChecks, HasOperations, DaysWereOver
  <1>5. /\ UNCHANGED <<plan, checks, gone, businessDate, operations>>
        /\ archives[a] = NoArchive /\ archives' = [archives EXCEPT ![a] = file]
        /\ export' = [phase |-> "manifest", archive |-> a]
    BY DEF WriteArchive, storageRows
  <1> HIDE DEF file
  <1>6. /\ archives' \in [Archive -> {NoArchive} \cup ArchiveFile] /\ archives'[a] = file
        /\ \A b \in Archive \ {a} : archives'[b] = archives[b]
    BY <1>1, <1>3, <1>5 DEF FilesAreFiles
  <1>7. NoArchive \notin ArchiveFile
    BY DEF NoArchive, ArchiveFile
  <1>8. plan.phase \in {"evaluate", "delete"} =>
            plan.archive \in Archive /\ archives'[plan.archive] = archives[plan.archive]
    BY <1>1, <1>5, <1>6, <1>7 DEF FilesAreFiles, PlanState, Idle
  <1>9. FilesAreFiles'
    <2>1. export' \in ExportState /\ export'.phase = "manifest" /\ export'.archive = a
      BY <1>5 DEF ExportState
    <2> QED
      BY <1>1, <1>3, <1>5, <1>6, <1>8, <2>1 DEF FilesAreFiles
  <1>10. FilesAreTrue'
    BY <1>1, <1>4, <1>5, <1>6 DEF FilesAreTrue
  <1>11. PlanIsTrue'
    BY <1>1, <1>5, <1>8 DEF PlanIsTrue
  <1> QED
    BY <1>9, <1>10, <1>11, RowsStay DEF StorageInv

\* A file that has changed in nothing the invariant is about but its being whole.
LEMMA FileStays ==
    ASSUME StorageInv, NEW a \in Archive, archives[a] \in ArchiveFile, NEW file \in ArchiveFile,
           archives' = [archives EXCEPT ![a] = file],
           \/ ~file.whole /\ plan = Idle
           \/ /\ file.whole = archives[a].whole /\ file.cutoff = archives[a].cutoff
              /\ file.asOf = archives[a].asOf /\ file.checks = archives[a].checks
              /\ file.operations = archives[a].operations,
           export' \in {Idle, export},
           UNCHANGED <<plan, checks, operations, gone, businessDate>>
    PROVE  FilesAreFiles' /\ FilesAreTrue' /\ PlanIsTrue'
  <1>1. /\ FilesAreFiles /\ FilesAreTrue /\ PlanIsTrue
    BY DEF StorageInv
  <1>2. /\ archives' \in [Archive -> {NoArchive} \cup ArchiveFile] /\ archives'[a] = file
        /\ \A b \in Archive \ {a} : archives'[b] = archives[b]
    BY <1>1 DEF FilesAreFiles
  <1>3. FilesAreFiles'
    BY <1>1, <1>2 DEF FilesAreFiles, ExportState, PlanState, Idle
  <1>4. FilesAreTrue'
    <2>1. CASE export' = Idle
      BY <1>1, <1>2, <2>1 DEF FilesAreTrue, HasChecks, HasOperations, DaysWereOver, Idle
    <2>2. CASE export' = export
      BY <1>1, <1>2, <2>2 DEF FilesAreTrue, HasChecks, HasOperations, DaysWereOver
    <2> QED
      BY <2>1, <2>2
  <1>5. PlanIsTrue'
    <2>1. CASE plan = Idle
      BY <2>1 DEF PlanIsTrue, Idle
    <2>2. CASE plan # Idle
      <3>1. plan.archive \in Archive
        BY <1>1, <2>2 DEF FilesAreFiles, PlanState
      <3>2. \A k : Settled(archives'[plan.archive], k) = Settled(archives[plan.archive], k)
        BY <1>2, <2>2, <3>1 DEF Settled, DaysWereOver
      <3> QED
        BY <1>1, <1>2, <2>2, <3>1, <3>2 DEF PlanIsTrue, DaysWereOver
    <2> QED
      BY <2>1, <2>2
  <1> QED
    BY <1>3, <1>4, <1>5

\* The manifest changes nothing of that.
LEMMA WriteManifestStep ==
    ASSUME StorageInv, WriteManifest,
           UNCHANGED <<today, businessDate, storageRows, plan, damages, gone>>
    PROVE  StorageInv'
  <1> DEFINE a == export.archive
             file == [archives[a] EXCEPT !.manifest = TRUE]
  <1>1. a \in Archive /\ archives[a] \in ArchiveFile
    BY DEF StorageInv, FilesAreFiles, ExportState, Idle, WriteManifest
  <1>2. /\ file \in ArchiveFile
        /\ file.whole = archives[a].whole /\ file.cutoff = archives[a].cutoff
        /\ file.asOf = archives[a].asOf /\ file.checks = archives[a].checks
        /\ file.operations = archives[a].operations
    BY <1>1 DEF ArchiveFile
  <1>3. archives' = [archives EXCEPT ![a] = file] /\ export' = Idle
    BY DEF WriteManifest
  <1>4. UNCHANGED <<plan, checks, operations, gone, businessDate>>
    BY DEF storageRows
  <1> HIDE DEF a, file
  <1>5. FilesAreFiles' /\ FilesAreTrue' /\ PlanIsTrue'
    BY <1>1, <1>2, <1>3, <1>4, FileStays
  <1> QED
    BY <1>5, RowsStay DEF StorageInv

-----------------------------------------------------------------------------
(* Storage: the plan and the deletion.                                     *)

\* What is eligible.
LEMMA Eligible ==
    ASSUME StorageInv, NEW cutoff \in Cutoff
    PROVE  /\ EligibleOrders(cutoff) = {c \in Stored(checks) : checks[c] < cutoff}
           /\ EligibleOperations(cutoff) = {o \in operations : Target[o] \in EligibleOrders(cutoff)}
           /\ EligibleRefs(cutoff) \cap Check = EligibleOrders(cutoff)
           /\ EligibleRefs(cutoff) \cap Operation = EligibleOperations(cutoff)
           /\ EligibleRefs(cutoff) \subseteq Aggregate
           /\ IsFiniteSet(EligibleOrders(cutoff)) /\ Cardinality(EligibleOrders(cutoff)) \in Nat
           /\ IsFiniteSet(EligibleOperations(cutoff))
           /\ Cardinality(EligibleOperations(cutoff)) \in Nat
  <1>1. /\ StorageTypeOK /\ RowsAreTold
    BY DEF StorageInv
  <1>2. /\ EligibleOrders(cutoff) = {c \in Stored(checks) : checks[c] < cutoff}
        /\ EligibleOperations(cutoff) = {o \in operations : Target[o] \in EligibleOrders(cutoff)}
    BY DEF EligibleOrders, EligibleOperations, Stored
  <1>3. /\ EligibleOrders(cutoff) \subseteq Stored(checks) /\ Stored(checks) \subseteq Check
        /\ EligibleOperations(cutoff) \subseteq operations /\ operations \subseteq Operation
    BY <1>1, <1>2 DEF Stored, StorageTypeOK
  <1>4. /\ IsFiniteSet(EligibleOrders(cutoff)) /\ Cardinality(EligibleOrders(cutoff)) \in Nat
        /\ IsFiniteSet(EligibleOperations(cutoff))
        /\ Cardinality(EligibleOperations(cutoff)) \in Nat
    BY <1>1, <1>3, FS_Subset, FS_CardinalityType DEF RowsAreTold
  <1>5. /\ EligibleRefs(cutoff) \cap Check = EligibleOrders(cutoff)
        /\ EligibleRefs(cutoff) \cap Operation = EligibleOperations(cutoff)
        /\ EligibleRefs(cutoff) \subseteq Aggregate
    BY <1>3, StorageAssumption DEF EligibleRefs, Aggregate
  <1> QED
    BY <1>2, <1>4, <1>5

\* What a plan counts is stored, and what its archive has is among it.
LEMMA CountRowsStep ==
    ASSUME StorageInv, NEW a \in Archive, NEW cutoff \in Cutoff, CountRows(a, cutoff),
           UNCHANGED <<today, businessDate, archives, export, damages>>
    PROVE  StorageInv'
  <1>1. /\ StorageTypeOK /\ RowsAreTold /\ FilesAreFiles /\ FilesAreTrue /\ PlanIsTrue
    BY DEF StorageInv
  <1> DEFINE file == archives[a]
             seen == EligibleRefs(cutoff)
  <1>2. /\ UNCHANGED <<storageRows, gone, checks, operations>> /\ file \in ArchiveFile
        /\ plan' = [phase |-> "evaluate", archive |-> a, cutoff |-> cutoff,
                    checks |-> Cardinality(EligibleOrders(cutoff)),
                    operations |-> Cardinality(EligibleOperations(cutoff)), seen |-> seen]
    BY <1>1 DEF CountRows, storageRows, FilesAreFiles
  <1>3. /\ seen \cap Check = EligibleOrders(cutoff) /\ seen \cap Operation = EligibleOperations(cutoff)
        /\ seen \subseteq Aggregate
        /\ EligibleOrders(cutoff) = {c \in Stored(checks) : checks[c] < cutoff}
        /\ Cardinality(EligibleOrders(cutoff)) \in Nat
        /\ IsFiniteSet(EligibleOperations(cutoff))
        /\ Cardinality(EligibleOperations(cutoff)) \in Nat
    BY Eligible
  <1>4. ASSUME Settled(file, cutoff), NEW o \in file.operations, Target[o] \in Stored(checks)
        PROVE  o \in seen
    <2>1. /\ HasChecks(file, checks, gone, businessDate)
          /\ HasOperations(file, checks, operations)
      BY <1>1, <1>2, <1>4 DEF FilesAreTrue, Settled
    <2>2. Target[o] \in file.checks /\ o \in operations
      BY <1>4, <2>1 DEF HasOperations, Settled
    <2>3. Target[o] \notin Deleted(gone)
      BY <1>1, <1>4 DEF RowsAreTold
    <2>4. checks[Target[o]] < cutoff
      BY <1>4, <2>1, <2>2, <2>3 DEF HasChecks, Settled
    <2>5. o \in EligibleOperations(cutoff)
      BY <1>3, <1>4, <2>2, <2>4, Eligible
    <2> QED
      BY <1>3, <2>5
  <1> HIDE DEF seen
  <1>5. FilesAreFiles'
    BY <1>1, <1>2, <1>3 DEF FilesAreFiles, PlanState
  <1>6. FilesAreTrue'
    BY <1>1, <1>2 DEF FilesAreTrue
  <1>7. PlanIsTrue'
    BY <1>2, <1>3, <1>4 DEF PlanIsTrue
  <1> QED
    BY <1>2, <1>5, <1>6, <1>7, RowsStay DEF StorageInv

\* When the counts are equal, what was counted is what the file has.
LEMMA CountsTell ==
    ASSUME StorageInv, plan.phase = "evaluate",
           Settled(archives[plan.archive], plan.cutoff),
           plan.checks = Cardinality(archives[plan.archive].checks),
           plan.operations = Cardinality(archives[plan.archive].operations)
    PROVE  plan.seen \cap Operation = archives[plan.archive].operations
  <1> DEFINE file == archives[plan.archive]
             C == plan.seen \cap Check
             O == plan.seen \cap Operation
  <1>1. /\ StorageTypeOK /\ RowsAreTold /\ FilesAreFiles /\ FilesAreTrue /\ PlanIsTrue
    BY DEF StorageInv
  <1>2. /\ plan.archive \in Archive /\ file \in ArchiveFile /\ file.whole
        /\ plan.cutoff \in Cutoff
    BY <1>1 DEF FilesAreFiles, PlanState, Idle, Settled
  <1>3. /\ HasChecks(file, checks, gone, businessDate)
        /\ HasOperations(file, checks, operations)
    BY <1>1, <1>2 DEF FilesAreTrue
  <1>4. C \subseteq Stored(checks) /\ \A c \in C : checks[c] < plan.cutoff
    BY <1>1 DEF PlanIsTrue
  <1>5. C \subseteq file.checks
    <2> SUFFICES ASSUME NEW c \in C PROVE c \in file.checks
      OBVIOUS
    <2>1. c \in Stored(checks) /\ checks[c] < file.cutoff /\ file.cutoff <= file.asOf
      BY <1>4 DEF Settled, DaysWereOver
    <2>2. file.cutoff \in Int /\ file.asOf \in Int
      <3>1. file.cutoff \in Cutoff /\ file.asOf \in Day
        BY <1>2 DEF ArchiveFile
      <3> QED
        BY <3>1, StorageAssumption DEF Day, Cutoff
    <2>3. checks[c] \in Int
      BY <1>1, <2>1, StorageAssumption DEF Stored, StorageTypeOK, Day, NoDay
    <2> HIDE DEF file
    <2>4. checks[c] < file.asOf
      BY <2>1, <2>2, <2>3
    <2> QED
      BY <1>3, <2>1, <2>4 DEF HasChecks
  <1>6. C = file.checks
    <2>1. IsFiniteSet(file.checks) /\ Cardinality(file.checks) = Cardinality(C)
      BY <1>1, <1>3 DEF HasChecks, PlanIsTrue
    <2> HIDE DEF C, file
    <2> QED
      BY <1>5, <2>1, FS_Subset
  <1>7. file.operations \subseteq O
    <2> SUFFICES ASSUME NEW o \in file.operations PROVE o \in O
      OBVIOUS
    <2>1. Target[o] \in Stored(checks)
      BY <1>3, <1>4, <1>6 DEF HasOperations, Settled
    <2>2. o \in plan.seen
      BY <1>1, <2>1 DEF PlanIsTrue
    <2> QED
      BY <1>2, <2>2 DEF ArchiveFile
  <1>8. IsFiniteSet(O) /\ Cardinality(O) = Cardinality(file.operations)
    BY <1>1 DEF PlanIsTrue
  <1> HIDE DEF O, file
  <1>9. O = file.operations
    BY <1>7, <1>8, FS_Subset
  <1> QED
    BY <1>9 DEF O, file

\* A plan goes on to the deletion when its archive has what it counted.
LEMMA EvaluateStep ==
    ASSUME StorageInv, Evaluate \/ AnswerReadiness,
           UNCHANGED <<today, businessDate, archives, export, damages>>
    PROVE  StorageInv'
  <1>1. /\ StorageTypeOK /\ RowsAreTold /\ FilesAreFiles /\ FilesAreTrue /\ PlanIsTrue
    BY DEF StorageInv
  <1>2. /\ UNCHANGED <<storageRows, gone, checks, operations>> /\ plan.phase = "evaluate"
    BY DEF Evaluate, AnswerReadiness, storageRows
  <1> DEFINE file == archives[plan.archive]
             settled == /\ VerifyArchive(file) /\ file.cutoff = plan.cutoff
                        /\ plan.checks = Cardinality(file.checks)
                        /\ plan.operations = Cardinality(file.operations)
             goes == [phase |-> "delete", archive |-> plan.archive,
                      cutoff |-> plan.cutoff, seen |-> plan.seen]
  <1>3. plan' = Idle \/ (settled /\ plan' = goes)
    BY DEF Evaluate, AnswerReadiness, ArchiveCountsEqual
  <1>4. /\ plan \in [phase : {"evaluate"}, archive : Archive, cutoff : Cutoff, checks : Nat,
                     operations : Nat, seen : SUBSET Aggregate]
        /\ file \in ArchiveFile
    BY <1>1, <1>2 DEF FilesAreFiles, PlanState, Idle
  <1>5. FilesAreFiles'
    BY <1>1, <1>3, <1>4 DEF FilesAreFiles, PlanState, Idle
  <1>6. FilesAreTrue'
    BY <1>1, <1>2 DEF FilesAreTrue
  <1>7. PlanIsTrue'
    <2>1. CASE plan' = Idle
      BY <2>1 DEF PlanIsTrue, Idle
    <2>2. CASE settled /\ plan' = goes
      <3>1. file.whole /\ file.cutoff = plan.cutoff
        BY <2>2 DEF VerifyArchive, VerifyArchiveJSONL
      <3>2. DaysWereOver(file) => plan.seen \cap Operation = file.operations
        BY <1>2, <2>2, <3>1, CountsTell DEF Settled
      <3> QED
        BY <2>2, <3>1, <3>2 DEF PlanIsTrue
    <2> QED
      BY <1>3, <2>1, <2>2
  <1> QED
    BY <1>2, <1>5, <1>6, <1>7, RowsStay DEF StorageInv

\* The deletion takes what is stored, was sent, and is kept but for the windows.
LEMMA DeleteStep ==
    ASSUME StorageInv, Delete,
           UNCHANGED <<today, businessDate, archives, export, damages>>
    PROVE  StorageInv'
  <1> DEFINE file == archives[plan.archive]
             scope == EligibleRefs(plan.cutoff)
             Gone(x) == [row |-> x, sent |-> events[x] = "sent",
                         kept |-> x \in file.checks \cup file.operations,
                         seen |-> x \in plan.seen,
                         over |-> IF x \in Check THEN checks[x] < file.asOf
                                  ELSE plan.cutoff <= file.asOf]
  <1>1. /\ StorageTypeOK /\ RowsAreTold /\ FilesAreFiles /\ FilesAreTrue /\ PlanIsTrue
        /\ NothingIsLost /\ effects \in [Operation -> Nat]
    BY DEF StorageInv
  <1>2. plan' = Idle /\ effects' = effects /\ shift' = shift /\ units' = units
    BY DEF Delete
  <1>3. FilesAreFiles' /\ PlanIsTrue'
    BY <1>1, <1>2 DEF FilesAreFiles, PlanState, PlanIsTrue, Idle
  <1>4. /\ plan \in [phase : {"delete"}, archive : Archive, cutoff : Cutoff,
                     seen : SUBSET Aggregate]
        /\ file \in ArchiveFile /\ file.whole /\ file.cutoff = plan.cutoff
        /\ plan.cutoff \in Cutoff
        /\ DaysWereOver(file) => plan.seen \cap Operation \subseteq file.operations
    BY <1>1 DEF Delete, FilesAreFiles, PlanState, Idle, PlanIsTrue
  <1>5. CASE UNCHANGED <<checks, operations, events, gone>>
    <2>1. FilesAreTrue'
      BY <1>1, <1>5 DEF FilesAreTrue
    <2> QED
      BY <1>1, <1>2, <1>3, <1>5, <2>1
      DEF StorageInv, StorageTypeOK, RowsAreTold, NothingIsLost
  <1>6. CASE DestructiveSafety(plan.cutoff) /\ DeleteScope(plan.cutoff, file)
    <2>1. /\ EligibleOrders(plan.cutoff) = {c \in Stored(checks) : checks[c] < plan.cutoff}
          /\ EligibleOperations(plan.cutoff) =
                 {o \in operations : Target[o] \in EligibleOrders(plan.cutoff)}
          /\ scope \cap Check = EligibleOrders(plan.cutoff)
          /\ scope \cap Operation = EligibleOperations(plan.cutoff)
          /\ scope \subseteq Aggregate
      BY <1>1, <1>4, Eligible DEF StorageInv
    <2>2. /\ checks' = [c \in Check |-> IF c \in scope THEN NoDay ELSE checks[c]]
          /\ operations' = operations \ scope
          /\ events' = [x \in Aggregate |->
                IF x \in PurgedEvents(plan.cutoff) THEN "none" ELSE events[x]]
          /\ gone' = gone \cup {Gone(x) : x \in scope}
      BY <1>6 DEF DeleteScope
    <2>3. /\ \A x \in scope : events[x] = "sent"
          /\ PurgedEvents(plan.cutoff) \subseteq scope
      <3>1. scope \subseteq Stored(checks) \cup operations
        BY <2>1 DEF Aggregate
      <3> QED
        BY <1>1, <1>6, <2>1, <3>1 DEF DestructiveSafety, BlockingOutboxMessages, RowsAreTold,
           StorageTypeOK, PurgedEvents, EligibleEvents
    <2>4. HasChecks(file, checks, gone, businessDate)
      BY <1>1, <1>4 DEF FilesAreTrue
    <2>5. ASSUME NEW x \in scope
           PROVE  /\ Gone(x).row = x
                  /\ events[x] = "sent" => Gone(x).sent
                  /\ x \in file.checks \cup file.operations => Gone(x).kept
                  /\ x \notin plan.seen => ~Gone(x).seen
                  /\ ~(IF x \in Check THEN checks[x] < file.asOf ELSE plan.cutoff <= file.asOf)
                         => ~Gone(x).over
      OBVIOUS
    <2> HIDE DEF file, scope, Gone
    <2>6. StorageTypeOK'
      <3>1. checks' \in [Check -> Day \cup {NoDay}]
        BY <1>1, <2>2 DEF StorageTypeOK
      <3>2. events' \in [Aggregate -> {"none", "pending", "sent"}]
        BY <1>1, <2>2 DEF StorageTypeOK
      <3> QED
        BY <1>1, <1>2, <2>2, <3>1, <3>2 DEF StorageTypeOK
    <2>7. Deleted(gone') = Deleted(gone) \cup scope
      BY <2>2, <2>5 DEF Deleted
    <2>8. /\ Stored(checks') = Stored(checks) \ scope
          /\ \A c \in Stored(checks') : checks'[c] = checks[c]
      BY <2>2 DEF Stored
    <2>9. \A o \in operations : o \in scope => Target[o] \in scope /\ Target[o] \notin Stored(checks')
      BY <1>1, <2>1, <2>8 DEF StorageTypeOK
    <2>10. RowsMove
      <3>1. businessDate \in Int
        BY <1>1, StorageAssumption DEF StorageTypeOK, Day
      <3>2. \A o \in operations : o \in operations' \/ Target[o] \notin Stored(checks')
        BY <2>2, <2>9
      <3> QED
        BY <2>7, <2>8, <3>1, <3>2 DEF RowsMove
    <2>11. FilesAreTrue'
      BY <2>6, <2>10, FilesStay
    <2>12. RowsAreTold'
      <3>1. IsFiniteSet(Stored(checks')) /\ IsFiniteSet(operations')
        BY <1>1, <2>2, <2>8, FS_Subset DEF RowsAreTold
      <3>2. \A x \in Stored(checks') \cup operations' : events'[x] # "none"
        BY <1>1, <2>2, <2>3, <2>8 DEF RowsAreTold, StorageTypeOK, Aggregate, Stored
      <3>3. Deleted(gone') \cap Stored(checks') = {}
        BY <1>1, <2>7, <2>8 DEF RowsAreTold
      <3>4. ASSUME NEW o \in Operation, effects[o] # 0
            PROVE  effects[o] = 1 /\ (events'[o] # "none" \/ Target[o] \in Deleted(gone'))
        <4>1. CASE o \in scope
          BY <1>1, <2>1, <2>7, <2>9, <3>4, <4>1 DEF RowsAreTold
        <4>2. CASE o \notin scope
          BY <1>1, <2>2, <2>3, <2>7, <3>4, <4>2 DEF RowsAreTold, Aggregate
        <4> QED
          BY <4>1, <4>2
      <3> QED
        BY <1>2, <3>1, <3>2, <3>3, <3>4 DEF RowsAreTold
    <2>13. NothingIsLost'
      <3>1. ASSUME NEW x \in scope
            PROVE  \/ x \in file.checks \cup file.operations
                   \/ ~(IF x \in Check THEN checks[x] < file.asOf ELSE plan.cutoff <= file.asOf)
                   \/ x \in Operation /\ x \notin plan.seen
        <4>1. CASE x \in Check
          <5>1. x \in Stored(checks) /\ checks[x] < file.cutoff
            BY <1>4, <2>1, <4>1 DEF file
          <5> QED
            BY <2>4, <4>1, <5>1 DEF HasChecks
        <4>2. CASE x \notin Check
          <5>1. x \in Operation
            BY <2>1, <4>2 DEF Aggregate
          <5> QED
            BY <1>4, <4>2, <5>1 DEF DaysWereOver, file
        <4> QED
          BY <4>1, <4>2
      <3>2. ASSUME NEW x \in scope
            PROVE  /\ Gone(x).sent
                   /\ Gone(x).kept \/ ~Gone(x).over \/ (Gone(x).row \in Operation /\ ~Gone(x).seen)
        BY <2>3, <2>5, <3>1
      <3> QED
        BY <1>1, <2>2, <3>2 DEF NothingIsLost
    <2> QED
      BY <1>1, <1>2, <1>3, <2>6, <2>11, <2>12, <2>13 DEF StorageInv
  <1> QED
    BY <1>5, <1>6 DEF Delete

-----------------------------------------------------------------------------
(* Storage: faults, and all steps.                                         *)

\* Crashes forget what was read, damages what was written.
LEMMA FaultStep == ASSUME StorageInv, FaultNext PROVE StorageInv'
  <1>1. /\ StorageTypeOK /\ RowsAreTold /\ FilesAreFiles /\ FilesAreTrue /\ PlanIsTrue
    BY DEF StorageInv
  <1>2. /\ UNCHANGED <<today, businessDate, storageRows, gone>>
        /\ UNCHANGED <<shift, checks, operations, events, units, effects>>
        /\ damages' \in 0..MaxDamages
    BY <1>1, StorageAssumption DEF FaultNext, storageRows, StorageTypeOK
  <1>3. /\ StorageTypeOK' /\ (effects \in [Operation -> Nat])' /\ RowsAreTold' /\ NothingIsLost'
    BY <1>2 DEF StorageInv, StorageTypeOK, RowsAreTold, NothingIsLost
  <1>4. CASE StorageCrash
    <2>1. export' = Idle /\ plan' = Idle /\ archives' = archives
      BY <1>4 DEF StorageCrash
    <2>2. FilesAreFiles'
      BY <1>1, <2>1 DEF FilesAreFiles, ExportState, PlanState, Idle
    <2>3. FilesAreTrue' /\ PlanIsTrue'
      BY <1>1, <1>2, <2>1 DEF FilesAreTrue, PlanIsTrue, Idle
    <2> QED
      BY <1>3, <2>2, <2>3 DEF StorageInv
  <1>5. ASSUME NEW a \in Archive, DamageArchive(a) PROVE StorageInv'
    <2> DEFINE file == [archives[a] EXCEPT !.whole = FALSE, !.checks = {}, !.operations = {}]
    <2>1. archives[a] \in ArchiveFile /\ file \in ArchiveFile /\ ~file.whole
      BY <1>1, <1>5 DEF DamageArchive, FilesAreFiles, ArchiveFile
    <2>2. archives' = [archives EXCEPT ![a] = file]
      BY <1>1, <1>5 DEF DamageArchive, FilesAreFiles
    <2>3. plan = Idle /\ UNCHANGED <<plan, export>>
      BY <1>5 DEF DamageArchive
    <2>4. export' \in {Idle, export}
      BY <2>3
    <2> HIDE DEF file
    <2>5. FilesAreFiles' /\ FilesAreTrue' /\ PlanIsTrue'
      BY <1>2, <2>1, <2>2, <2>3, <2>4, FileStays
    <2> QED
      BY <1>3, <2>5 DEF StorageInv
  <1> QED
    BY <1>4, <1>5 DEF FaultNext

\* Every step of the storage lifecycle keeps the invariant.
LEMMA StorageKeeps == ASSUME StorageInv, StorageNext PROVE StorageInv'
  <1>1. ASSUME TillNext PROVE StorageInv'
    BY <1>1, ShiftStep, SellStep, RecordStep, SendStep DEF TillNext
  <1>2. ASSUME ExportNext PROVE StorageInv'
    BY <1>2, ExportChecksStep, ExportOperationsStep, WriteArchiveStep, WriteManifestStep
    DEF ExportNext
  <1>3. ASSUME ApplyNext PROVE StorageInv'
    BY <1>3, CountRowsStep, EvaluateStep, DeleteStep DEF ApplyNext
  <1> QED
    BY <1>1, <1>2, <1>3, DayStep, FaultStep DEF StorageNext

\* The invariant holds at the start.
LEMMA StorageStarts == ASSUME StorageInit PROVE StorageInv
  <1>1. StorageTypeOK /\ effects \in [Operation -> Nat]
    BY StorageAssumption DEF StorageInit, StorageTypeOK, Day, Aggregate
  <1>2. FilesAreFiles
    BY DEF StorageInit, FilesAreFiles, ExportState, PlanState, Idle
  <1>3. RowsAreTold
    <2>1. Stored(checks) = {} /\ operations = {}
      BY DEF StorageInit, Stored
    <2> QED
      BY <2>1, FS_EmptySet DEF StorageInit, RowsAreTold, Deleted
  <1>4. FilesAreTrue /\ PlanIsTrue
    BY DEF StorageInit, FilesAreTrue, PlanIsTrue, Idle, NoArchive, ArchiveFile
  <1>5. NothingIsLost
    BY DEF StorageInit, NothingIsLost
  <1> QED
    BY <1>1, <1>2, <1>3, <1>4, <1>5 DEF StorageInv

\* What the invariant says of commands.
LEMMA InvIsSafe == ASSUME StorageInv PROVE ArchivingIsSafe
  <1>1. \A o \in Operation : effects[o] = 0 \/ effects[o] = 1
    BY DEF StorageInv, RowsAreTold
  <1> QED
    BY <1>1 DEF StorageInv, ArchivingIsSafe, CommandsCountOnce

-----------------------------------------------------------------------------
(* The logins: the failures a span of a window's length sees.              *)

LoginState == [phase : {"none"}] \cup [phase : {"waiting"}, at : Nat]
LimiterState ==
    {NoState} \cup
    [windowStart : Nat, attempts : Nat \ {0}, lockedUntil : Nat \cup {Never}]
AccessTypeOK ==
    /\ now \in Nat
    /\ logins \in [Request -> LoginState]
    /\ limiter \in LimiterState
    /\ failures \in Seq(Nat)

\* What was let in was let in before now, and no one waits for longer than the database lets
\* him.
PastIsPast ==
    /\ \A i \in DOMAIN failures : failures[i] <= now
    /\ \A r \in Request : logins[r].phase = "waiting" =>
          logins[r].at <= now /\ now - logins[r].at <= Patience
    /\ limiter # NoState => limiter.windowStart <= now

\* Those who wait were let in before the end of the window: who comes after it has it
\* forgotten.
WindowIsOpen ==
    limiter # NoState => \A r \in Request :
        logins[r].phase = "waiting" => logins[r].at < limiter.windowStart + AttemptsWindow

\* A window is locked when it is full, and until a window's length after all that is in it
\* or may still come to it.
LocksAreLong ==
    limiter # NoState =>
        /\ limiter.lockedUntil = Never <=> limiter.attempts < AttemptsLimit
        /\ limiter.lockedUntil # Never =>
              /\ limiter.windowStart + AttemptsWindow <= limiter.lockedUntil
              /\ \A r \in Request : logins[r].phase = "waiting" =>
                    logins[r].at + AttemptsWindow <= limiter.lockedUntil
              /\ \A i \in DOMAIN failures :
                    failures[i] + AttemptsWindow <= limiter.lockedUntil

\* The span of a window's length, and those who wait and were let in within it.
Span(from) == from..(from + AttemptsWindow - 1)
Within(from) ==
    {r \in Request : logins[r].phase = "waiting" /\ logins[r].at \in Span(from)}
Bound == 2 * Remainder + AttemptsLimit + (Cardinality(Request) - 1)

\* What a span has seen so far: the rest of one window, or of two, the second of which
\* began with a request that was let in before the span, and then one that began in it.  A
\* full window locks the device for the rest of the span, and those who wait are the last.
Over(from) == now >= from + AttemptsWindow
Full == limiter # NoState /\ limiter.attempts >= AttemptsLimit
LastOnes(from) == FailuresFrom(from) + Cardinality(Within(from)) <= Bound
BetweenWindows(from) ==
    \/ FailuresFrom(from) <= Remainder
    \/ /\ FailuresFrom(from) <= 2 * Remainder /\ from <= now
       /\ \A r \in Request : logins[r].phase = "waiting" => logins[r].at >= from
BegunWithin(from) == FailuresFrom(from) <= 2 * Remainder + limiter.attempts
BegunBefore(from) ==
    \/ FailuresFrom(from) <= limiter.attempts - 1
    \/ /\ FailuresFrom(from) <= Remainder + limiter.attempts - 1
       /\ from <= limiter.windowStart + Patience
Tallied(from) ==
    /\ Full \/ Over(from) => LastOnes(from)
    /\ ~Full /\ ~Over(from) =>
          /\ limiter = NoState => BetweenWindows(from)
          /\ limiter # NoState /\ limiter.windowStart >= from => BegunWithin(from)
          /\ limiter # NoState /\ limiter.windowStart < from => BegunBefore(from)

AccessInv ==
    /\ AccessTypeOK /\ PastIsPast /\ WindowIsOpen /\ LocksAreLong
    /\ \A from \in Nat : Tallied(from)

-----------------------------------------------------------------------------
(* The logins: counting.                                                   *)

\* The numbers of the limiter and of the bound.
LEMMA AccessNumbers ==
    /\ AttemptsLimit \in Nat /\ AttemptsLimit >= 1
    /\ AttemptsWindow \in Nat /\ AttemptsWindow >= 1
    /\ LockoutWindow \in Nat /\ Patience \in Nat
    /\ 2 * Patience <= AttemptsWindow /\ Patience + AttemptsWindow <= LockoutWindow
    /\ Patience < AttemptsWindow
    /\ Cardinality(Request) \in Nat
    /\ Remainder \in Nat
    /\ AttemptsLimit >= 2 => AttemptsLimit = Remainder + 2
  <1>1. Cardinality(Request) \in Nat
    BY FS_CardinalityType, AccessAssumption
  <1> QED
    BY <1>1, AccessAssumption DEF Remainder

\* The failures of a span are counted one by one.
LEMMA FailureIsCounted ==
    ASSUME failures \in Seq(Nat), NEW from \in Nat, NEW at \in Nat,
           failures' = Append(failures, at)
    PROVE  /\ FailuresFrom(from) \in Nat
           /\ FailuresFrom(from)' =
                 IF at \in Span(from) THEN FailuresFrom(from) + 1 ELSE FailuresFrom(from)
  <1> DEFINE Old == {i \in DOMAIN failures : failures[i] \in Span(from)}
             New == {i \in DOMAIN failures' : failures'[i] \in Span(from)}
  <1>1. /\ DOMAIN failures = 1..Len(failures) /\ Len(failures) \in Nat
        /\ DOMAIN failures' = 1..(Len(failures) + 1)
        /\ failures'[Len(failures) + 1] = at
        /\ \A i \in 1..Len(failures) : failures'[i] = failures[i]
    BY AppendProperties, LenProperties
  <1>2. IsFiniteSet(Old)
    <2>1. IsFiniteSet(1..Len(failures)) /\ Old \subseteq 1..Len(failures)
      BY <1>1, FS_Interval
    <2> QED
      BY <2>1, FS_Subset
  <1>3. New = IF at \in Span(from) THEN Old \cup {Len(failures) + 1} ELSE Old
    <2>1. \A i : i \in New <=> i \in Old \/ (i = Len(failures) + 1 /\ at \in Span(from))
      BY <1>1
    <2> QED
      BY <2>1
  <1>4. Len(failures) + 1 \notin Old
    BY <1>1
  <1> HIDE DEF Old, New
  <1>5. Cardinality(Old) \in Nat
    BY <1>2, FS_CardinalityType
  <1>6. Cardinality(New) =
           IF at \in Span(from) THEN Cardinality(Old) + 1 ELSE Cardinality(Old)
    BY <1>2, <1>3, <1>4, FS_AddElement
  <1>7. FailuresFrom(from) = Cardinality(Old) /\ FailuresFrom(from)' = Cardinality(New)
    BY DEF FailuresFrom, Span, Old, New
  <1> QED
    BY <1>5, <1>6, <1>7

\* A span without failures.
LEMMA NothingCounted ==
    ASSUME failures \in Seq(Nat), NEW from \in Nat
    PROVE  /\ FailuresFrom(from) \in Nat
           /\ (\A i \in DOMAIN failures : failures[i] \notin Span(from)) => FailuresFrom(from) = 0
  <1> DEFINE Old == {i \in DOMAIN failures : failures[i] \in Span(from)}
  <1>1. IsFiniteSet(Old)
    <2>1. DOMAIN failures = 1..Len(failures) /\ Len(failures) \in Nat
      BY LenProperties
    <2>2. IsFiniteSet(1..Len(failures)) /\ Old \subseteq 1..Len(failures)
      BY <2>1, FS_Interval
    <2> QED
      BY <2>2, FS_Subset
  <1>2. FailuresFrom(from) = Cardinality(Old)
    BY DEF FailuresFrom, Span
  <1>3. Cardinality(Old) \in Nat /\ Cardinality({}) = 0
    BY <1>1, FS_CardinalityType, FS_EmptySet
  <1>4. (\A i \in DOMAIN failures : failures[i] \notin Span(from)) => Old = {}
    OBVIOUS
  <1> HIDE DEF Old
  <1> QED
    BY <1>2, <1>3, <1>4

\* Those who wait are requests.
LEMMA WaitersAreCounted ==
    ASSUME NEW from \in Nat
    PROVE  /\ IsFiniteSet(Within(from))
           /\ Cardinality(Within(from)) \in Nat
           /\ Cardinality(Within(from)) <= Cardinality(Request)
           /\ Within(from) = {} => Cardinality(Within(from)) = 0
  <1>1. Within(from) \subseteq Request /\ IsFiniteSet(Request)
    BY AccessAssumption DEF Within
  <1> QED
    BY <1>1, FS_Subset, FS_CardinalityType, FS_EmptySet

\* A request that ends waits no longer.
LEMMA WaiterLeaves ==
    ASSUME logins \in [Request -> LoginState], NEW from \in Nat, NEW r \in Request,
           logins[r].phase = "waiting", logins' = [logins EXCEPT ![r] = NoLogin]
    PROVE  /\ logins[r].at \in Nat
           /\ \A q \in Request : logins'[q].phase = "waiting" =>
                 q # r /\ logins'[q] = logins[q] /\ logins[q].phase = "waiting"
           /\ Cardinality(Within(from)') \in Nat
           /\ Cardinality(Within(from)) =
                 IF logins[r].at \in Span(from) THEN Cardinality(Within(from)') + 1
                                                ELSE Cardinality(Within(from)')
  <1>1. logins[r].at \in Nat
    BY DEF LoginState
  <1>2. \A q \in Request : logins'[q].phase = "waiting" =>
           q # r /\ logins'[q] = logins[q] /\ logins[q].phase = "waiting"
    BY DEF NoLogin
  <1>3. Within(from)' = Within(from) \ {r}
    BY <1>2 DEF Within, NoLogin
  <1>4. r \in Within(from) <=> logins[r].at \in Span(from)
    BY DEF Within
  <1>5. IsFiniteSet(Within(from)) /\ Cardinality(Within(from)) \in Nat
    BY WaitersAreCounted
  <1>6. /\ Cardinality(Within(from) \ {r}) \in Nat
        /\ Cardinality(Within(from) \ {r}) =
              IF r \in Within(from) THEN Cardinality(Within(from)) - 1
                                    ELSE Cardinality(Within(from))
    BY <1>5, FS_RemoveElement, FS_CardinalityType, FS_Subset
  <1> QED
    BY <1>1, <1>2, <1>3, <1>4, <1>5, <1>6

\* The limiter has a window, or none.
LEMMA LimiterColumns ==
    ASSUME limiter \in LimiterState, limiter # NoState
    PROVE  /\ limiter.windowStart \in Nat /\ limiter.windowStart # Never
           /\ limiter.attempts \in Nat /\ limiter.attempts >= 1
           /\ limiter.lockedUntil \in Nat \cup {Never}
           /\ Never = -1
  BY DEF LimiterState, Never

-----------------------------------------------------------------------------
(* The logins: their steps.                                                *)

\* A window that is not full has left a span room for those who wait.
LEMMA RoomIsLeft ==
    ASSUME AccessTypeOK, NEW from \in Nat, Tallied(from), ~Full, ~Over(from)
    PROVE  /\ FailuresFrom(from) \in Nat
           /\ FailuresFrom(from) <= 2 * Remainder + AttemptsLimit - 1
           /\ LastOnes(from)
  <1> DEFINE N == FailuresFrom(from)
             waits == Cardinality(Within(from))
  <1>1. N \in Nat
    BY NothingCounted DEF AccessTypeOK
  <1>2. waits \in Nat /\ waits <= Cardinality(Request)
    BY WaitersAreCounted
  <1>3. N <= 2 * Remainder + AttemptsLimit - 1
    <2>1. CASE limiter = NoState
      BY <2>1, <1>1, AccessNumbers DEF Tallied, BetweenWindows
    <2>2. CASE limiter # NoState
      <3>1. limiter.attempts \in Nat /\ limiter.attempts < AttemptsLimit
            /\ limiter.windowStart \in Nat
        BY <2>2, LimiterColumns, AccessNumbers DEF AccessTypeOK, Full
      <3>2. BegunWithin(from) \/ BegunBefore(from)
        BY <2>2, <3>1 DEF Tallied
      <3> QED
        BY <3>1, <3>2, <1>1, AccessNumbers DEF BegunWithin, BegunBefore
    <2> QED
      BY <2>1, <2>2
  <1>4. LastOnes(from) <=> N + waits <= 2 * Remainder + AttemptsLimit + (Cardinality(Request) - 1)
    BY DEF LastOnes, Bound
  <1> HIDE DEF N, waits
  <1>5. N + waits <= 2 * Remainder + AttemptsLimit + (Cardinality(Request) - 1)
    BY <1>1, <1>2, <1>3, AccessNumbers
  <1> QED
    BY <1>1, <1>3, <1>4, <1>5 DEF N

\* The clock goes on.
LEMMA TickStep == ASSUME AccessInv, Tick PROVE AccessInv'
  <1>1. now \in Nat /\ now' = now + 1 /\ UNCHANGED <<limiter, logins, failures>>
    BY DEF AccessInv, AccessTypeOK, Tick
  <1>2. AccessTypeOK' /\ WindowIsOpen' /\ LocksAreLong'
    BY <1>1 DEF AccessInv, AccessTypeOK, WindowIsOpen, LocksAreLong
  <1>3. PastIsPast'
    <2>1. \A i \in DOMAIN failures : failures[i] \in Nat /\ failures[i] <= now
      BY LenProperties, ElementOfSeq DEF AccessInv, AccessTypeOK, PastIsPast
    <2>2. \A q \in Request : logins[q].phase = "waiting" =>
             logins[q].at \in Nat /\ logins[q].at <= now /\ now' - logins[q].at <= Patience
      BY <1>1 DEF AccessInv, AccessTypeOK, PastIsPast, Tick, LoginState
    <2>3. limiter # NoState => limiter.windowStart \in Nat /\ limiter.windowStart <= now
      BY LimiterColumns DEF AccessInv, AccessTypeOK, PastIsPast
    <2> QED
      BY <1>1, <2>1, <2>2, <2>3 DEF PastIsPast
  <1>4. ASSUME NEW from \in Nat PROVE Tallied(from)'
    <2>1. FailuresFrom(from)' = FailuresFrom(from) /\ Within(from)' = Within(from)
      BY <1>1 DEF FailuresFrom, Within
    <2>2. LastOnes(from)' <=> LastOnes(from)
      BY <2>1 DEF LastOnes
    <2>3. Over(from) => Over(from)'
      BY <1>1, AccessNumbers DEF Over
    <2>4. BetweenWindows(from) => BetweenWindows(from)'
      BY <1>1, <2>1 DEF BetweenWindows
    <2>5. /\ BegunWithin(from)' <=> BegunWithin(from)
          /\ BegunBefore(from)' <=> BegunBefore(from)
          /\ Full' <=> Full
      BY <1>1, <2>1 DEF BegunWithin, BegunBefore, Full
    <2>6. Tallied(from) /\ AccessTypeOK
      BY DEF AccessInv
    <2>7. LastOnes(from) \/ ~Over(from)'
      BY <2>3, <2>6, RoomIsLeft DEF Tallied
    <2> QED
      BY <1>1, <2>2, <2>3, <2>4, <2>5, <2>6, <2>7 DEF Tallied
  <1> QED
    BY <1>2, <1>3, <1>4 DEF AccessInv

\* A request is let in.
LEMMA LetInStep == ASSUME AccessInv, NEW r \in Request, BeginLogin(r) PROVE AccessInv'
  <1>1. /\ logins' = [logins EXCEPT ![r] = [phase |-> "waiting", at |-> now]]
        /\ limiter' = AllowState(now) /\ ~Locked(now)
        /\ UNCHANGED <<now, failures>>
    BY DEF BeginLogin
  <1>2. now \in Nat /\ logins \in [Request -> LoginState] /\ limiter \in LimiterState
        /\ failures \in Seq(Nat)
    BY DEF AccessInv, AccessTypeOK
  <1>3. \A q \in Request : logins'[q].phase = "waiting" =>
           \/ q = r /\ logins'[q].at = now
           \/ q # r /\ logins[q].phase = "waiting" /\ logins'[q].at = logins[q].at
    BY <1>1, <1>2
  <1>4. limiter' = NoState \/ (limiter' = limiter /\ limiter # NoState)
    BY <1>1 DEF AllowState
  <1>5. limiter' # NoState => /\ limiter.windowStart \in Nat
                              /\ now < limiter.windowStart + AttemptsWindow
    BY <1>1, <1>2, LimiterColumns, AccessNumbers DEF AllowState, WindowIsOver
  <1>6. \A i \in DOMAIN failures : failures[i] \in Nat /\ failures[i] <= now
    BY LenProperties, ElementOfSeq DEF AccessInv, AccessTypeOK, PastIsPast
  \* A lock ends a window's length after all that is in the window.
  <1>7. limiter # NoState /\ limiter.attempts >= AttemptsLimit =>
           /\ limiter.lockedUntil \in Nat /\ limiter.lockedUntil <= now
           /\ limiter' = NoState
    <2>1. SUFFICES ASSUME limiter # NoState, limiter.attempts >= AttemptsLimit
                   PROVE  /\ limiter.lockedUntil \in Nat /\ limiter.lockedUntil <= now
                          /\ limiter' = NoState
      OBVIOUS
    <2>2. limiter.attempts \in Nat /\ limiter.windowStart \in Nat
          /\ limiter.lockedUntil \in Nat \cup {Never}
      BY <1>2, <2>1, LimiterColumns
    <2>3. limiter.lockedUntil # Never
          /\ limiter.windowStart + AttemptsWindow <= limiter.lockedUntil
      BY <2>1, <2>2, AccessNumbers DEF AccessInv, LocksAreLong
    <2>4. limiter.lockedUntil \in Nat /\ limiter.lockedUntil <= now
      BY <1>1, <1>2, <2>2, <2>3 DEF Locked
    <2>5. now - limiter.windowStart >= AttemptsWindow
      BY <1>2, <2>2, <2>3, <2>4, AccessNumbers
    <2> QED
      BY <1>1, <2>4, <2>5 DEF AllowState, WindowIsOver
  <1>8. AccessTypeOK'
    BY <1>1, <1>2, <1>4 DEF AccessTypeOK, LoginState, LimiterState
  <1>9. PastIsPast'
    <2>1. \A q \in Request : logins'[q].phase = "waiting" =>
             logins'[q].at <= now /\ now - logins'[q].at <= Patience
      <3>1. \A q \in Request : logins[q].phase = "waiting" =>
               logins[q].at <= now /\ now - logins[q].at <= Patience
        BY DEF AccessInv, PastIsPast
      <3>2. now <= now /\ now - now <= Patience
        BY <1>2, AccessNumbers
      <3> QED
        BY <1>3, <3>1, <3>2
    <2>2. limiter' # NoState => limiter'.windowStart <= now
      BY <1>4 DEF AccessInv, PastIsPast
    <2> QED
      BY <1>1, <1>6, <2>1, <2>2 DEF PastIsPast
  <1>10. WindowIsOpen'
    <2>1. SUFFICES ASSUME limiter' # NoState
                   PROVE  \A q \in Request : logins'[q].phase = "waiting" =>
                             logins'[q].at < limiter'.windowStart + AttemptsWindow
      BY DEF WindowIsOpen
    <2> QED
      BY <1>3, <1>4, <1>5, <2>1 DEF AccessInv, WindowIsOpen
  <1>11. LocksAreLong'
    <2>1. SUFFICES ASSUME limiter' # NoState
                   PROVE  /\ limiter.lockedUntil = Never
                          /\ limiter.attempts < AttemptsLimit
      BY <1>4 DEF LocksAreLong
    <2>2. limiter.attempts \in Nat /\ limiter # NoState
      BY <1>2, <1>4, <2>1, LimiterColumns
    <2>3. limiter.attempts < AttemptsLimit
      BY <1>7, <2>1, <2>2, AccessNumbers
    <2> QED
      BY <2>2, <2>3 DEF AccessInv, LocksAreLong
  <1>12. ASSUME NEW from \in Nat PROVE Tallied(from)'
    <2>1. FailuresFrom(from)' = FailuresFrom(from) /\ FailuresFrom(from) \in Nat
      BY <1>1, <1>2, NothingCounted DEF FailuresFrom
    <2>2. Tallied(from)
      BY DEF AccessInv
    <2>3. Over(from)' <=> Over(from)
      BY <1>1 DEF Over
    <2>4. CASE Over(from)
      <3>1. Within(from)' = Within(from)
        <4>1. now \notin Span(from)
          BY <1>2, <2>4, AccessNumbers DEF Over, Span
        <4>2. logins[r].phase = "none" /\ logins'[r].at = now
          BY <1>1, <1>2 DEF BeginLogin, NoLogin
        <4>3. \A q \in Request : q # r => logins'[q] = logins[q]
          BY <1>1, <1>2
        <4>4. \A q \in Request :
                 /\ logins'[q].phase = "waiting" /\ logins'[q].at \in Span(from)
                 <=> logins[q].phase = "waiting" /\ logins[q].at \in Span(from)
          BY <4>1, <4>2, <4>3
        <4>5. Span(from)' = Span(from)
          BY DEF Span
        <4> QED
          BY <4>4, <4>5 DEF Within
      <3>2. LastOnes(from)
        BY <2>2, <2>4 DEF Tallied
      <3> QED
        BY <2>1, <2>3, <2>4, <3>1, <3>2 DEF Tallied, LastOnes
    <2>5. CASE ~Over(from) /\ Full
      <3>1. limiter' = NoState /\ limiter.lockedUntil \in Nat /\ limiter.lockedUntil <= now
        BY <1>7, <2>5 DEF Full
      <3>2. \A i \in DOMAIN failures : failures[i] + AttemptsWindow <= limiter.lockedUntil
        BY <2>5, <3>1 DEF AccessInv, LocksAreLong, Full, Never
      <3>3. \A i \in DOMAIN failures : failures[i] \notin Span(from)
        BY <1>2, <1>6, <2>5, <3>1, <3>2, AccessNumbers DEF Span, Over
      <3>4. FailuresFrom(from) = 0
        BY <1>2, <3>3, NothingCounted
      <3>5. ~Full'
        BY <3>1 DEF Full
      <3> QED
        BY <2>1, <2>3, <2>5, <3>1, <3>4, <3>5, AccessNumbers DEF Tallied, BetweenWindows
    <2>6. CASE ~Over(from) /\ ~Full
      <3>1. now < from + AttemptsWindow
        BY <1>2, <2>6, AccessNumbers DEF Over
      <3>2. ~Full' /\ ~Over(from)'
        BY <1>4, <2>3, <2>6 DEF Full
      <3>3. CASE limiter' = limiter /\ limiter # NoState
        <4>1. /\ BegunWithin(from)' <=> BegunWithin(from)
              /\ BegunBefore(from)' <=> BegunBefore(from)
          BY <2>1, <3>3 DEF BegunWithin, BegunBefore
        <4> QED
          BY <2>2, <2>6, <3>2, <3>3, <4>1 DEF Tallied
      <3>4. CASE limiter' = NoState
        <4>1. BetweenWindows(from)'
          <5>1. CASE limiter = NoState
            <6>1. BetweenWindows(from)
              BY <2>2, <2>6, <5>1 DEF Tallied
            <6>2. CASE FailuresFrom(from) <= Remainder
              BY <2>1, <6>2 DEF BetweenWindows
            <6>3. CASE /\ FailuresFrom(from) <= 2 * Remainder /\ from <= now
                       /\ \A q \in Request : logins[q].phase = "waiting" => logins[q].at >= from
              BY <1>1, <1>3, <2>1, <6>3 DEF BetweenWindows
            <6> QED
              BY <6>1, <6>2, <6>3 DEF BetweenWindows
          <5>2. CASE limiter # NoState
            <6>1. /\ limiter.windowStart \in Nat /\ limiter.attempts \in Nat
                  /\ limiter.attempts >= 1 /\ limiter.attempts < AttemptsLimit
              BY <1>2, <2>6, <5>2, LimiterColumns, AccessNumbers DEF Full
            <6>2. now - limiter.windowStart >= AttemptsWindow
              BY <1>1, <1>2, <3>4, <5>2, LimiterColumns DEF AllowState, WindowIsOver
            <6>3. limiter.windowStart < from
              BY <1>2, <3>1, <6>1, <6>2, AccessNumbers
            <6>4. BegunBefore(from)
              BY <2>2, <2>6, <5>2, <6>3 DEF Tallied
            <6>5. limiter.attempts - 1 <= Remainder
              BY <6>1, AccessNumbers
            <6>6. CASE FailuresFrom(from) <= limiter.attempts - 1
              <7>1. FailuresFrom(from) <= Remainder
                BY <2>1, <6>1, <6>5, <6>6, AccessNumbers
              <7> QED
                BY <2>1, <7>1 DEF BetweenWindows
            <6>7. CASE /\ FailuresFrom(from) <= Remainder + limiter.attempts - 1
                       /\ from <= limiter.windowStart + Patience
              <7>1. FailuresFrom(from) <= 2 * Remainder
                BY <2>1, <6>1, <6>5, <6>7, AccessNumbers
              <7>2. from <= now /\ from <= now - Patience
                BY <1>2, <6>1, <6>2, <6>7, AccessNumbers
              <7>3. \A q \in Request : logins'[q].phase = "waiting" => logins'[q].at >= from
                <8>1. \A q \in Request : logins'[q].phase = "waiting" =>
                         logins'[q].at \in Nat /\ now - logins'[q].at <= Patience
                  BY <1>1, <1>8, <1>9 DEF AccessTypeOK, LoginState, PastIsPast
                <8> QED
                  BY <1>2, <7>2, <8>1, AccessNumbers
              <7> QED
                BY <1>1, <2>1, <7>1, <7>2, <7>3 DEF BetweenWindows
            <6> QED
              BY <6>4, <6>6, <6>7 DEF BegunBefore
          <5> QED
            BY <5>1, <5>2
        <4> QED
          BY <3>2, <3>4, <4>1 DEF Tallied
      <3> QED
        BY <1>4, <3>3, <3>4
    <2> QED
      BY <2>4, <2>5, <2>6
  <1> QED
    BY <1>8, <1>9, <1>10, <1>11, <1>12 DEF AccessInv

\* A request that fails is counted in the window it comes to, or begins one.
LEMMA FailStep ==
    ASSUME AccessInv, NEW r \in Request, logins[r].phase = "waiting",
           limiter' = RecordFailure(logins[r].at),
           failures' = Append(failures, logins[r].at),
           logins' = [logins EXCEPT ![r] = NoLogin], UNCHANGED now
    PROVE  AccessInv'
  <1> DEFINE at == logins[r].at
  <1>1. /\ now \in Nat /\ logins \in [Request -> LoginState] /\ limiter \in LimiterState
        /\ failures \in Seq(Nat) /\ failures' \in Seq(Nat)
    BY AppendProperties, WaiterLeaves DEF AccessInv, AccessTypeOK, LoginState
  <1>2. at \in Nat /\ at <= now /\ now - at <= Patience
    BY <1>1, WaiterLeaves DEF AccessInv, PastIsPast, LoginState
  <1>3. \A q \in Request : logins'[q].phase = "waiting" =>
           /\ logins'[q] = logins[q] /\ logins[q].phase = "waiting"
           /\ logins'[q].at \in Nat /\ logins'[q].at <= now /\ now - logins'[q].at <= Patience
    BY <1>1 DEF AccessInv, PastIsPast, LoginState, NoLogin
  <1>4. /\ \A i \in DOMAIN failures : failures[i] \in Nat /\ failures[i] <= now
        /\ DOMAIN failures' = 1..(Len(failures) + 1) /\ Len(failures) \in Nat
        /\ \A i \in DOMAIN failures' :
              \/ i \in DOMAIN failures /\ failures'[i] = failures[i]
              \/ failures'[i] = at
    BY <1>1, AppendProperties, LenProperties, ElementOfSeq DEF AccessInv, PastIsPast
  \* The window is over only where there is none.
  <1>5. WindowIsOver(at) <=> limiter = NoState
    <2>1. CASE limiter = NoState
      BY <2>1 DEF WindowIsOver, NoState
    <2>2. CASE limiter # NoState
      <3>1. limiter.windowStart \in Nat /\ limiter.windowStart # Never
        BY <1>1, <2>2, LimiterColumns
      <3>2. at < limiter.windowStart + AttemptsWindow
        BY <2>2 DEF AccessInv, WindowIsOpen
      <3> QED
        BY <1>2, <2>2, <3>1, <3>2, AccessNumbers DEF WindowIsOver
    <2> QED
      BY <2>1, <2>2
  <1> DEFINE start == IF limiter = NoState THEN at ELSE limiter.windowStart
             attempts == IF limiter = NoState THEN 1 ELSE limiter.attempts + 1
             until == IF attempts >= AttemptsLimit THEN at + LockoutWindow
                      ELSE IF limiter = NoState THEN Never ELSE limiter.lockedUntil
  <1>6. limiter' = [windowStart |-> start, attempts |-> attempts, lockedUntil |-> until]
    BY <1>5 DEF RecordFailure
  <1>7. start \in Nat /\ attempts \in Nat \ {0} /\ until \in Nat \cup {Never} /\ start <= now
    <2>1. limiter # NoState => limiter.windowStart <= now
      BY DEF AccessInv, PastIsPast
    <2>2. at \in Nat /\ at <= now /\ now \in Nat
      BY <1>1, <1>2
    <2>3. CASE limiter = NoState
      <3>1. start = at /\ attempts = 1
        BY <2>3
      <3>2. until = IF 1 >= AttemptsLimit THEN at + LockoutWindow ELSE Never
        BY <2>3
      <3> HIDE DEF start, attempts, until, at
      <3>3. until \in Nat \cup {Never}
        BY <2>2, <3>2, AccessNumbers
      <3> QED
        BY <2>2, <3>1, <3>3
    <2>4. CASE limiter # NoState
      <3>1. start = limiter.windowStart /\ attempts = limiter.attempts + 1
        BY <2>4
      <3>2. until = IF attempts >= AttemptsLimit THEN at + LockoutWindow
                    ELSE limiter.lockedUntil
        BY <2>4
      <3>3. /\ limiter.windowStart \in Nat /\ limiter.attempts \in Nat
            /\ limiter.lockedUntil \in Nat \cup {Never}
        BY <1>1, <2>4, LimiterColumns
      <3> HIDE DEF start, attempts, until, at
      <3>4. start \in Nat /\ attempts \in Nat \ {0} /\ start <= now
        BY <2>1, <2>4, <3>1, <3>3
      <3>5. until \in Nat \cup {Never}
        BY <2>2, <3>2, <3>3, AccessNumbers
      <3> QED
        BY <3>4, <3>5
    <2> QED
      BY <2>3, <2>4
  <1>8. /\ limiter' # NoState /\ limiter'.windowStart = start
        /\ limiter'.attempts = attempts /\ limiter'.lockedUntil = until
    BY <1>6, <1>7 DEF NoState
  <1>9. limiter = NoState => start = at /\ attempts = 1
    OBVIOUS
  <1>10. limiter # NoState => start = limiter.windowStart /\ attempts = limiter.attempts + 1
    OBVIOUS
  <1>11. until = Never <=> attempts < AttemptsLimit
    <2>1. limiter # NoState =>
             /\ limiter.attempts \in Nat
             /\ limiter.lockedUntil = Never <=> limiter.attempts < AttemptsLimit
      BY <1>1, LimiterColumns DEF AccessInv, LocksAreLong
    <2>2. at + LockoutWindow # Never
      BY <1>2, AccessNumbers DEF Never
    <2>3. CASE limiter = NoState
      <3>1. attempts = 1 /\ until = IF attempts >= AttemptsLimit THEN at + LockoutWindow ELSE Never
        BY <2>3
      <3> HIDE DEF start, attempts, until, at
      <3> QED
        BY <2>2, <3>1, AccessNumbers
    <2>4. CASE limiter # NoState
      <3>1. /\ attempts = limiter.attempts + 1
            /\ until = IF attempts >= AttemptsLimit THEN at + LockoutWindow
                       ELSE limiter.lockedUntil
        BY <2>4
      <3> HIDE DEF start, attempts, until, at
      <3>2. attempts >= AttemptsLimit \/ attempts < AttemptsLimit
        BY <1>7, AccessNumbers
      <3>3. limiter.attempts \in Nat /\ AttemptsLimit \in Nat
        BY <2>1, <2>4, AccessNumbers
      <3>4. attempts < AttemptsLimit => limiter.lockedUntil = Never
        BY <2>1, <2>4, <3>1, <3>3
      <3> QED
        BY <1>7, <2>2, <3>1, <3>2, <3>3, <3>4
    <2> QED
      BY <2>3, <2>4
  <1>12. until # Never => until = at + LockoutWindow
    BY <1>7, <1>11, AccessNumbers
  <1> HIDE DEF start, attempts, until, at
  <1>13. until # Never => until >= now + AttemptsWindow
    BY <1>1, <1>2, <1>12, AccessNumbers
  <1>14. AccessTypeOK'
    BY <1>1, <1>6, <1>7, WaiterLeaves DEF AccessTypeOK, LimiterState, LoginState, NoLogin
  <1>15. PastIsPast'
    BY <1>2, <1>3, <1>4, <1>7, <1>8 DEF PastIsPast
  <1>16. WindowIsOpen'
    <2>1. SUFFICES ASSUME NEW q \in Request, logins'[q].phase = "waiting"
                   PROVE  logins'[q].at < start + AttemptsWindow
      BY <1>8 DEF WindowIsOpen
    <2>2. CASE limiter = NoState
      BY <1>1, <1>2, <1>3, <1>9, <2>1, <2>2, AccessNumbers
    <2>3. CASE limiter # NoState
      BY <1>3, <1>10, <2>1, <2>3 DEF AccessInv, WindowIsOpen
    <2> QED
      BY <2>2, <2>3
  <1>17. LocksAreLong'
    <2>1. SUFFICES ASSUME until # Never
                   PROVE  /\ start + AttemptsWindow <= until
                          /\ \A q \in Request : logins'[q].phase = "waiting" =>
                                logins'[q].at + AttemptsWindow <= until
                          /\ \A i \in DOMAIN failures' : failures'[i] + AttemptsWindow <= until
      BY <1>8, <1>11 DEF LocksAreLong
    <2>2. until \in Nat /\ until >= now + AttemptsWindow
      BY <1>7, <1>13, <2>1
    <2>3. \A n \in Nat : n <= now => n + AttemptsWindow <= until
      BY <1>1, <2>2, AccessNumbers
    <2> QED
      BY <1>2, <1>3, <1>4, <1>7, <2>3
  <1>18. ASSUME NEW from \in Nat PROVE Tallied(from)'
    <2> DEFINE seen == FailuresFrom(from)
               waits == Cardinality(Within(from))
    <2>1. /\ seen \in Nat
          /\ FailuresFrom(from)' = IF at \in Span(from) THEN seen + 1 ELSE seen
      BY <1>1, <1>2, FailureIsCounted DEF at
    <2>2. /\ Cardinality(Within(from)') \in Nat
          /\ waits = IF at \in Span(from) THEN Cardinality(Within(from)') + 1
                     ELSE Cardinality(Within(from)')
      BY <1>1, WaiterLeaves DEF at
    <2>3. Tallied(from) /\ AccessTypeOK
      BY DEF AccessInv
    <2>4. Over(from)' <=> Over(from)
      BY DEF Over
    <2>5. LastOnes(from)
      BY <2>3, RoomIsLeft DEF Tallied
    <2>6. LastOnes(from)'
      <3>1. /\ LastOnes(from) <=> seen + waits <= Bound
            /\ LastOnes(from)' <=> FailuresFrom(from)' + Cardinality(Within(from)') <= Bound
        BY DEF LastOnes, Bound
      <3> HIDE DEF seen, waits
      <3> QED
        BY <2>1, <2>2, <2>5, <3>1
    <2>7. SUFFICES ASSUME ~Full', ~Over(from)'
                   PROVE  /\ start >= from => BegunWithin(from)'
                          /\ start < from => BegunBefore(from)'
      BY <1>8, <2>6 DEF Tallied
    <2>8. attempts < AttemptsLimit /\ now < from + AttemptsWindow
      BY <1>1, <1>7, <1>8, <2>4, <2>7, AccessNumbers DEF Full, Over
    <2>9. /\ BegunWithin(from)' <=> FailuresFrom(from)' <= 2 * Remainder + attempts
          /\ BegunBefore(from)' <=>
                \/ FailuresFrom(from)' <= attempts - 1
                \/ /\ FailuresFrom(from)' <= Remainder + attempts - 1
                   /\ from <= start + Patience
      BY <1>8 DEF BegunWithin, BegunBefore
    <2>10. at \in Span(from) <=> at >= from
      BY <1>1, <1>2, <2>8, AccessNumbers DEF Span
    <2>11. CASE limiter = NoState
      <3>1. BetweenWindows(from)
        BY <2>3, <2>4, <2>7, <2>11 DEF Tallied, Full
      <3>2. seen <= 2 * Remainder
        BY <2>1, <3>1, AccessNumbers DEF BetweenWindows
      <3>3. CASE start >= from
        <4>1. FailuresFrom(from)' <= 2 * Remainder + 1
          BY <2>1, <3>2, AccessNumbers
        <4> QED
          BY <1>7, <1>9, <2>9, <2>11, <3>3, <4>1
      <3>4. CASE start < from
        <4>1. at < from /\ FailuresFrom(from)' = seen
          BY <1>2, <1>9, <2>1, <2>10, <2>11, <3>4
        <4>2. seen <= Remainder
          BY <1>2, <3>1, <4>1 DEF BetweenWindows, at
        <4>3. CASE now < from
          <5>1. \A i \in DOMAIN failures : failures[i] \notin Span(from)
            BY <1>1, <1>4, <4>3, AccessNumbers DEF Span
          <5>2. seen = 0
            BY <1>1, <5>1, NothingCounted
          <5> QED
            BY <1>7, <1>9, <2>9, <2>11, <3>4, <4>1, <5>2
        <4>4. CASE now >= from
          BY <1>1, <1>2, <1>9, <2>1, <2>9, <2>11, <3>4, <4>1, <4>2, <4>4, AccessNumbers
        <4> QED
          BY <1>1, <4>3, <4>4
      <3> QED
        BY <1>7, <3>3, <3>4
    <2>12. CASE limiter # NoState
      <3>1. limiter.attempts \in Nat /\ attempts = limiter.attempts + 1
            /\ limiter.windowStart = start
        BY <1>1, <1>10, <2>12, LimiterColumns
      <3>2. limiter.attempts < AttemptsLimit /\ ~Full /\ ~Over(from)
        BY <2>4, <2>7, <2>8, <3>1, AccessNumbers DEF Full
      <3>3. CASE start >= from
        <4>1. BegunWithin(from)
          BY <2>3, <2>12, <3>1, <3>2, <3>3 DEF Tallied
        <4>2. seen <= 2 * Remainder + limiter.attempts
          BY <4>1 DEF BegunWithin
        <4>3. FailuresFrom(from)' <= 2 * Remainder + attempts
          BY <2>1, <3>1, <4>2, AccessNumbers
        <4> QED
          BY <1>7, <2>9, <3>3, <4>3
      <3>4. CASE start < from
        <4>1. BegunBefore(from)
          BY <2>3, <2>12, <3>1, <3>2, <3>4 DEF Tallied
        <4>2. FailuresFrom(from)' <= seen + 1 /\ FailuresFrom(from)' \in Nat
          BY <2>1
        <4>3. CASE seen <= limiter.attempts - 1
          BY <1>7, <2>1, <2>9, <3>1, <3>4, <4>2, <4>3
        <4>4. CASE seen <= Remainder + limiter.attempts - 1 /\ from <= start + Patience
          <5>1. FailuresFrom(from)' <= Remainder + attempts - 1
            <6> DEFINE next == FailuresFrom(from)'
                       rest == Remainder
                       tried == limiter.attempts
            <6>1. /\ seen \in Nat /\ next \in Nat /\ rest \in Nat /\ tried \in Nat
                  /\ next <= seen + 1 /\ attempts = tried + 1 /\ seen <= rest + tried - 1
              BY <2>1, <3>1, <4>2, <4>4, AccessNumbers
            <6> HIDE DEF seen, next, rest, tried
            <6>2. next <= rest + attempts - 1
              BY <6>1
            <6> QED
              BY <6>2 DEF next, rest
          <5> QED
            BY <1>7, <2>9, <3>4, <4>4, <5>1
        <4> QED
          BY <3>1, <4>1, <4>3, <4>4 DEF BegunBefore
      <3> QED
        BY <1>7, <3>3, <3>4
    <2> QED
      BY <2>11, <2>12
  <1> QED
    BY <1>14, <1>15, <1>16, <1>17, <1>18 DEF AccessInv

\* A request ends without being counted.
LEMMA DropStep ==
    ASSUME AccessInv, NEW r \in Request, logins[r].phase = "waiting",
           logins' = [logins EXCEPT ![r] = NoLogin], UNCHANGED <<now, limiter, failures>>
    PROVE  AccessInv'
  <1>1. logins \in [Request -> LoginState] /\ logins' \in [Request -> LoginState]
    BY DEF AccessInv, AccessTypeOK, LoginState, NoLogin
  <1>2. \A q \in Request : logins'[q].phase = "waiting" =>
           logins'[q] = logins[q] /\ logins[q].phase = "waiting"
    BY <1>1 DEF NoLogin
  <1>3. AccessTypeOK' /\ PastIsPast' /\ WindowIsOpen' /\ LocksAreLong'
    BY <1>1, <1>2 DEF AccessInv, AccessTypeOK, PastIsPast, WindowIsOpen, LocksAreLong
  <1>4. ASSUME NEW from \in Nat PROVE Tallied(from)'
    <2>1. FailuresFrom(from)' = FailuresFrom(from) /\ FailuresFrom(from) \in Nat
      BY NothingCounted DEF FailuresFrom, AccessInv, AccessTypeOK
    <2>2. /\ Cardinality(Within(from)') \in Nat /\ Cardinality(Within(from)) \in Nat
          /\ Cardinality(Within(from)') <= Cardinality(Within(from))
      <3> DEFINE before == Cardinality(Within(from))
                 after == Cardinality(Within(from)')
      <3>1. before \in Nat /\ after \in Nat
        BY <1>1, WaiterLeaves, WaitersAreCounted
      <3>2. before = after + 1 \/ before = after
        BY <1>1, WaiterLeaves
      <3> HIDE DEF before, after
      <3>3. after <= before
        BY <3>1, <3>2
      <3> QED
        BY <3>1, <3>3 DEF before, after
    <2>3. LastOnes(from) => LastOnes(from)'
      <3> DEFINE before == Cardinality(Within(from))
                 after == Cardinality(Within(from)')
                 seen == FailuresFrom(from)
      <3>1. /\ LastOnes(from) <=> seen + before <= Bound
            /\ LastOnes(from)' <=> seen + after <= Bound
        BY <2>1 DEF LastOnes, Bound
      <3>2. Bound \in Int
        BY AccessNumbers DEF Bound
      <3> HIDE DEF before, after, seen
      <3>3. seen + before <= Bound => seen + after <= Bound
        BY <2>1, <2>2, <3>2 DEF before, after, seen
      <3> QED
        BY <3>1, <3>3
    <2>4. BetweenWindows(from) => BetweenWindows(from)'
      BY <1>2, <2>1 DEF BetweenWindows
    <2>5. /\ BegunWithin(from)' <=> BegunWithin(from)
          /\ BegunBefore(from)' <=> BegunBefore(from)
          /\ Full' <=> Full
          /\ Over(from)' <=> Over(from)
      BY <2>1 DEF BegunWithin, BegunBefore, Full, Over
    <2> QED
      BY <2>3, <2>4, <2>5 DEF AccessInv, Tallied
  <1> QED
    BY <1>3, <1>4 DEF AccessInv

\* The limiter forgets everything, and so does the count.
LEMMA ForgetStep ==
    ASSUME AccessInv, limiter' = NoState, failures' = <<>>, UNCHANGED now,
           logins' \in [Request -> LoginState],
           \A q \in Request : logins'[q].phase = "waiting" =>
              logins'[q] = logins[q] /\ logins[q].phase = "waiting"
    PROVE  AccessInv'
  <1>1. AccessTypeOK' /\ PastIsPast' /\ WindowIsOpen' /\ LocksAreLong'
    BY DEF AccessInv, AccessTypeOK, PastIsPast, WindowIsOpen, LocksAreLong, LimiterState
  <1>2. ASSUME NEW from \in Nat PROVE Tallied(from)'
    <2>1. FailuresFrom(from)' = 0
      <3>1. {i \in DOMAIN failures' : failures'[i] \in from..(from + AttemptsWindow - 1)} = {}
        OBVIOUS
      <3> QED
        BY <3>1, FS_EmptySet DEF FailuresFrom
    <2>2. /\ Cardinality(Within(from)') \in Nat
          /\ Cardinality(Within(from)') <= Cardinality(Request)
      <3>1. Within(from)' \subseteq Request /\ IsFiniteSet(Request)
        BY AccessAssumption DEF Within
      <3> QED
        BY <3>1, FS_Subset, FS_CardinalityType
    <2>3. LastOnes(from)'
      <3>1. LastOnes(from)' <=> FailuresFrom(from)' + Cardinality(Within(from)') <=
               2 * Remainder + AttemptsLimit + (Cardinality(Request) - 1)
        BY DEF LastOnes, Bound
      <3> DEFINE after == Cardinality(Within(from)')
      <3> HIDE DEF after
      <3>2. 0 + after <= 2 * Remainder + AttemptsLimit + (Cardinality(Request) - 1)
        BY <2>2, AccessNumbers DEF after
      <3> QED
        BY <2>1, <3>1, <3>2 DEF after
    <2>4. BetweenWindows(from)'
      BY <2>1, AccessNumbers DEF BetweenWindows
    <2> QED
      BY <2>3, <2>4 DEF Tallied
  <1> QED
    BY <1>1, <1>2 DEF AccessInv

\* The steps of a login.
LEMMA EndStep == ASSUME AccessInv, NEW r \in Request, FinishLogin(r) PROVE AccessInv'
  <1>1. /\ logins[r].phase = "waiting" /\ UNCHANGED now
        /\ logins' = [logins EXCEPT ![r] = NoLogin]
    BY DEF FinishLogin
  <1>2. /\ logins' \in [Request -> LoginState]
        /\ \A q \in Request : logins'[q].phase = "waiting" =>
              logins'[q] = logins[q] /\ logins[q].phase = "waiting"
    BY <1>1 DEF AccessInv, AccessTypeOK, LoginState, NoLogin
  <1>3. \/ limiter' = RecordFailure(logins[r].at) /\ failures' = Append(failures, logins[r].at)
        \/ UNCHANGED <<limiter, failures>>
        \/ limiter' = NoState /\ failures' = <<>>
    BY DEF FinishLogin
  <1> QED
    BY <1>1, <1>2, <1>3, FailStep, DropStep, ForgetStep

\* The invariant of the logins is kept.
LEMMA AccessKeeps == ASSUME AccessInv, AccessNext PROVE AccessInv'
  <1>1. ASSUME NEW r \in Request, Logout(r) PROVE AccessInv'
    <2>1. UNCHANGED <<now, limiter, logins, failures>>
      BY <1>1 DEF Logout
    <2> QED
      BY <2>1 DEF AccessInv, AccessTypeOK, PastIsPast, WindowIsOpen, LocksAreLong, Tallied,
         LastOnes, BetweenWindows, BegunWithin, BegunBefore, Full, Over, FailuresFrom, Within
  <1>2. ASSUME RestartAccess PROVE AccessInv'
    BY <1>2, ForgetStep DEF RestartAccess, LoginState, NoLogin
  <1> QED
    BY <1>1, <1>2, TickStep, LetInStep, EndStep DEF AccessNext

\* Nobody has failed at first.
LEMMA AccessStarts == ASSUME AccessInit PROVE AccessInv
  <1>1. AccessTypeOK /\ PastIsPast /\ WindowIsOpen /\ LocksAreLong
    BY DEF AccessInit, AccessTypeOK, PastIsPast, WindowIsOpen, LocksAreLong, LimiterState,
       LoginState, NoLogin
  <1>2. ASSUME NEW from \in Nat PROVE Tallied(from)
    <2>1. FailuresFrom(from) = 0
      BY <1>1, NothingCounted DEF AccessInit, AccessTypeOK
    <2>2. Within(from) = {} /\ ~Full
      BY DEF AccessInit, Within, NoLogin, Full
    <2>3. Cardinality(Within(from)) = 0
      BY <2>2, FS_EmptySet
    <2>4. LastOnes(from)
      BY <2>1, <2>3, AccessNumbers DEF LastOnes, Bound
    <2>5. BetweenWindows(from)
      BY <2>1, AccessNumbers DEF BetweenWindows
    <2> QED
      BY <2>4, <2>5 DEF Tallied, AccessInit
  <1> QED
    BY <1>1, <1>2 DEF AccessInv

\* The invariant bounds the failures of every span.
LEMMA AccessInvIsBounded == ASSUME AccessInv PROVE FailuresAreBounded
  <1>1. SUFFICES ASSUME NEW from \in 0..LastMoment
                 PROVE  FailuresFrom(from) <= 2 * Remainder + AttemptsLimit
                                              + (Cardinality(Request) - 1)
    BY DEF FailuresAreBounded
  <1>2. from \in Nat /\ Tallied(from) /\ AccessTypeOK
    BY AccessAssumption DEF AccessInv
  <1>3. LastOnes(from)
    BY <1>2, RoomIsLeft DEF Tallied
  <1>4. FailuresFrom(from) \in Nat /\ Cardinality(Within(from)) \in Nat
    BY <1>2, NothingCounted, WaitersAreCounted DEF AccessTypeOK
  <1> DEFINE seen == FailuresFrom(from)
             waits == Cardinality(Within(from))
  <1>5. seen + waits <= 2 * Remainder + AttemptsLimit + (Cardinality(Request) - 1)
    BY <1>3 DEF LastOnes, Bound
  <1> HIDE DEF seen, waits
  <1>6. seen <= 2 * Remainder + AttemptsLimit + (Cardinality(Request) - 1)
    BY <1>4, <1>5, AccessNumbers DEF seen, waits
  <1> QED
    BY <1>6 DEF seen

-----------------------------------------------------------------------------
(* Pairing: what a handler holds, and what the Cloud has of it.            *)

FlowPhase ==
    {"maintain", "refresh", "register", "poll", "issue", "resolve", "consume", "redeem",
     "answer", "download", "finish"}
FlowState ==
    {Resting}
    \cup [phase : FlowPhase, copy : Row, token : Token \cup {NoToken}]
    \cup [phase : FlowPhase, copy : Row, token : Token \cup {NoToken}, code : Code]

\* A handler that is at work holds the row as it is, and has no token but the last one.
IsCurrent(state, r, last) ==
    state = Resting \/ (state.copy = r /\ state.token \in {NoToken, last})

\* As long as no two handlers were under way at once, one at most is at work.
HandlersAreAlone ==
    ~overlapped =>
        /\ \A f, g \in Flow : flows[f] # Resting /\ flows[g] # Resting => f = g
        /\ \A f \in Flow : IsCurrent(flows[f], row, credential)
        /\ ~undelivered => row.token = credential

\* A handler that was answered is one of a node that is assigned and has a token.
IsOfAssigned(state, known, last) ==
    /\ state.phase \in {"issue", "redeem", "answer", "download", "finish"} => known
    /\ state.phase \in {"redeem", "answer", "download", "finish"} => last # NoToken
AnswersAreOfAssigned ==
    /\ \A f \in Flow : IsOfAssigned(flows[f], assigned, credential)
    /\ paired => assigned /\ credential # NoToken

PairingInv ==
    /\ PairingTypeOK
    /\ assigned \in BOOLEAN /\ overlapped \in BOOLEAN /\ undelivered \in BOOLEAN
    /\ flows \in [Flow -> FlowState]
    /\ HandlersAreAlone
    /\ AnswersAreOfAssigned

\* A step of one handler, seen from what it holds afterwards.
LEMMA HandlerMoves ==
    ASSUME PairingInv, PairingTypeOK', NEW f \in Flow, flows[f] # Resting,
           NEW state \in FlowState, flows' = [flows EXCEPT ![f] = state],
           overlapped' = overlapped,
           assigned' \in BOOLEAN, undelivered' \in BOOLEAN,
           IsCurrent(flows[f], row, credential) /\ (~undelivered => row.token = credential) =>
               /\ IsCurrent(state, row', credential')
               /\ ~undelivered' => row'.token = credential',
           assigned => assigned', credential # NoToken => credential' # NoToken,
           IsOfAssigned(state, assigned', credential'),
           paired' => paired \/ (assigned' /\ credential' # NoToken)
    PROVE  PairingInv'
  <1>1. HandlersAreAlone /\ AnswersAreOfAssigned /\ overlapped \in BOOLEAN
    BY DEF PairingInv
  <1>2. /\ flows' \in [Flow -> FlowState] /\ flows'[f] = state
        /\ \A g \in Flow \ {f} : flows'[g] = flows[g]
    BY DEF PairingInv
  <1>3. ASSUME ~overlapped PROVE \A g \in Flow \ {f} : flows'[g] = Resting
    BY <1>1, <1>2, <1>3 DEF HandlersAreAlone
  <1>4. HandlersAreAlone'
    <2> SUFFICES ASSUME ~overlapped
                 PROVE  /\ \A g, h \in Flow : flows'[g] # Resting /\ flows'[h] # Resting => g = h
                        /\ \A g \in Flow : IsCurrent(flows'[g], row', credential')
                        /\ ~undelivered' => row'.token = credential'
      BY DEF HandlersAreAlone
    <2>1. /\ IsCurrent(state, row', credential')
          /\ ~undelivered' => row'.token = credential'
      BY <1>1 DEF HandlersAreAlone
    <2>2. \A g \in Flow \ {f} : IsCurrent(flows'[g], row', credential')
      BY <1>3 DEF IsCurrent
    <2> QED
      BY <1>2, <1>3, <2>1, <2>2
  <1>5. AnswersAreOfAssigned'
    <2>1. ASSUME NEW g \in Flow \ {f} PROVE IsOfAssigned(flows'[g], assigned', credential')
      BY <1>1, <1>2 DEF AnswersAreOfAssigned, IsOfAssigned
    <2> QED
      BY <1>1, <1>2, <2>1 DEF AnswersAreOfAssigned
  <1> QED
    BY <1>1, <1>2, <1>4, <1>5 DEF PairingInv

\* How many tokens there are.
LEMMA TokensAreCounted ==
    /\ Cardinality(Token) \in Nat /\ Token = 1..Cardinality(Token)
    /\ Token \cup {NoToken} = 0..Cardinality(Token)
  <1> DEFINE n == Cardinality(Code) + Cardinality(Flow)
  <1>1. n \in Nat
    BY PairingAssumption, FS_CardinalityType
  <1> HIDE DEF n
  <1>2. Token = 1..n
    BY DEF Token, n
  <1>3. Cardinality(1..n) = n
    BY <1>1, FS_Interval
  <1> QED
    BY <1>1, <1>2, <1>3 DEF NoToken

-----------------------------------------------------------------------------
(* Pairing: the Cloud, and how a handler begins.                           *)

\* A manager assigns the node, which keeps its token, or generates a code.
LEMMA ManagerStep == ASSUME PairingInv, ManagerNext PROVE PairingInv'
  <1>1. /\ PairingTypeOK /\ UNCHANGED <<row, paired, flows, overlapped, undelivered, issued>>
        /\ credential' = credential /\ (assigned => assigned') /\ assigned' \in BOOLEAN
    BY DEF PairingInv, ManagerNext, AssignDevice, GeneratePairingCode, UpsertEdgeNode,
           edgeVars, pairingHistory
  <1>2. PairingTypeOK'
    BY <1>1 DEF ManagerNext, AssignDevice, GeneratePairingCode, PairingTypeOK,
                MarkUnassignedAssigned
  <1> QED
    BY <1>1, <1>2 DEF PairingInv, HandlersAreAlone, AnswersAreOfAssigned, IsOfAssigned

\* A handler that begins is alone, or has overlapped with another.
LEMMA BeginStep ==
    ASSUME PairingInv, NEW f \in Flow, NEW state \in FlowState, Begin(f, state),
           state.copy = row, state.token = NoToken,
           state.phase \in {"maintain", "refresh", "register", "resolve"},
           faults' = faults
    PROVE  PairingInv'
  <1>1. /\ PairingTypeOK /\ HandlersAreAlone /\ AnswersAreOfAssigned
        /\ flows \in [Flow -> FlowState] /\ overlapped \in BOOLEAN
    BY DEF PairingInv
  <1>2. /\ UNCHANGED <<waiting, assigned, credential, issued, codes, directory, row, paired,
                       faults, undelivered>>
        /\ flows' = [flows EXCEPT ![f] = state]
        /\ overlapped' = (overlapped \/ \E g \in Flow \ {f} : flows[g] # Resting)
    BY DEF Begin, Enter, cloudVars
  <1>3. /\ flows' \in [Flow -> FlowState] /\ flows'[f] = state
        /\ \A g \in Flow \ {f} : flows'[g] = flows[g]
    BY <1>1, <1>2
  <1>4. PairingTypeOK' /\ overlapped' \in BOOLEAN
    BY <1>1, <1>2 DEF PairingTypeOK
  <1>5. HandlersAreAlone'
    <2> SUFFICES ASSUME ~overlapped'
                 PROVE  /\ \A g, h \in Flow : flows'[g] # Resting /\ flows'[h] # Resting => g = h
                        /\ \A g \in Flow : IsCurrent(flows'[g], row', credential')
                        /\ ~undelivered' => row'.token = credential'
      BY DEF HandlersAreAlone
    <2>1. ~overlapped /\ \A g \in Flow \ {f} : flows'[g] = Resting
      BY <1>2, <1>3
    <2>2. \A g \in Flow : IsCurrent(flows'[g], row', credential')
      BY <1>2, <1>3, <2>1 DEF IsCurrent
    <2> QED
      BY <1>1, <1>2, <2>1, <2>2 DEF HandlersAreAlone
  <1>6. AnswersAreOfAssigned'
    <2>1. IsOfAssigned(state, assigned', credential')
      BY DEF IsOfAssigned
    <2> QED
      BY <1>1, <1>2, <1>3, <2>1 DEF AnswersAreOfAssigned
  <1> QED
    BY <1>1, <1>2, <1>3, <1>4, <1>5, <1>6 DEF PairingInv

\* So it is with all handlers.
LEMMA BeginsKeep ==
    ASSUME PairingInv, MaintainCloudProvisioning \/ OperatorNext
    PROVE  PairingInv'
  <1>1. PairingTypeOK
    BY DEF PairingInv
  <1>2. ASSUME NEW phase \in {"maintain", "refresh", "register"}
        PROVE  /\ Holding(phase) \in FlowState /\ Holding(phase).copy = row
               /\ Holding(phase).token = NoToken /\ Holding(phase).phase = phase
    BY <1>1 DEF Holding, FlowState, FlowPhase, PairingTypeOK
  <1>3. ASSUME NEW f \in Flow, NEW phase \in {"maintain", "refresh", "register"},
               Begin(f, Holding(phase)), faults' = faults
        PROVE  PairingInv'
    BY <1>2, <1>3, BeginStep
  <1>4. ASSUME NEW f \in Flow, BeginPairing(f) PROVE PairingInv'
    <2>1. PICK c \in Code :
             Begin(f, [phase |-> "resolve", copy |-> row, token |-> NoToken, code |-> c])
      BY <1>4 DEF BeginPairing
    <2> DEFINE state == [phase |-> "resolve", copy |-> row, token |-> NoToken, code |-> c]
    <2>2. /\ state \in FlowState /\ state.copy = row /\ state.token = NoToken
          /\ state.phase = "resolve"
      BY <1>1 DEF FlowState, FlowPhase, PairingTypeOK
    <2>3. Begin(f, state) /\ faults' = faults
      BY <2>1 DEF Begin
    <2> HIDE DEF state
    <2> QED
      BY <2>2, <2>3, BeginStep
  <1>5. Worker \in Flow /\ \A f \in Flow, s \in FlowState : Begin(f, s) => faults' = faults
    BY PairingAssumption DEF Begin
  <1> QED
    BY <1>2, <1>3, <1>4, <1>5
    DEF MaintainCloudProvisioning, OperatorNext, RefreshStatus, BeginRegister

-----------------------------------------------------------------------------
(* Pairing: the steps of a handler.                                        *)

\* What a handler at work holds.
LEMMA AtWork ==
    ASSUME PairingInv, NEW f \in Flow, flows[f].phase \in FlowPhase
    PROVE  /\ flows[f] # Resting /\ flows[f] \in FlowState
           /\ flows[f].copy \in Row /\ flows[f].token \in Token \cup {NoToken}
           /\ IsOfAssigned(flows[f], assigned, credential)
           /\ IsCurrent(flows[f], row, credential) =>
                 flows[f].copy = row /\ flows[f].token \in {NoToken, credential}
  <1>1. flows[f] # Resting /\ flows[f] \in FlowState
    BY DEF PairingInv, Resting, FlowPhase
  <1> QED
    BY <1>1 DEF FlowState, PairingInv, AnswersAreOfAssigned, IsCurrent

\* A handler that goes on to another phase.
LEMMA NextState ==
    ASSUME NEW old \in FlowState, old # Resting, NEW phase \in FlowPhase
    PROVE  /\ [old EXCEPT !.phase = phase] \in FlowState
           /\ [old EXCEPT !.phase = phase].phase = phase
           /\ [old EXCEPT !.phase = phase].copy = old.copy
           /\ [old EXCEPT !.phase = phase].token = old.token
  <1>1. CASE old \in [phase : FlowPhase, copy : Row, token : Token \cup {NoToken}]
    BY <1>1 DEF FlowState
  <1>2. CASE old \in [phase : FlowPhase, copy : Row, token : Token \cup {NoToken}, code : Code]
    BY <1>2 DEF FlowState
  <1> QED
    BY <1>1, <1>2 DEF FlowState

\* A handler that goes on to another phase with a new token.
Turned(old, phase, token) == [old EXCEPT !.phase = phase, !.token = token]

\* It holds that token, and the row it held.
LEMMA NextToken ==
    ASSUME NEW old \in FlowState, old # Resting, NEW phase \in FlowPhase, NEW token \in Token
    PROVE  /\ Turned(old, phase, token) \in FlowState
           /\ Turned(old, phase, token).phase = phase
           /\ Turned(old, phase, token).copy = old.copy
           /\ Turned(old, phase, token).token = token
  <1>1. CASE old \in [phase : FlowPhase, copy : Row, token : Token \cup {NoToken}]
    BY <1>1 DEF FlowState, Turned
  <1>2. CASE old \in [phase : FlowPhase, copy : Row, token : Token \cup {NoToken}, code : Code]
    BY <1>2 DEF FlowState, Turned
  <1> QED
    BY <1>1, <1>2 DEF FlowState

\* A handler writes its row back with another status, or leaves it, and rests.
LEMMA HandlerRests ==
    ASSUME PairingInv, NEW f \in Flow, flows[f].phase \in FlowPhase, Enter(f, Resting),
           row' = row \/ \E s \in {"unpaired_registered", "paired", "error"} : UpsertState(f, s),
           PairingTypeOK',
           UNCHANGED <<assigned, credential, paired, undelivered, overlapped>>
    PROVE  PairingInv'
  <1>1. /\ flows[f] # Resting /\ assigned \in BOOLEAN /\ undelivered \in BOOLEAN
        /\ flows[f].copy \in Row
        /\ IsCurrent(flows[f], row, credential) => flows[f].copy = row
    BY AtWork DEF PairingInv
  <1>2. Resting \in FlowState /\ flows' = [flows EXCEPT ![f] = Resting]
    BY DEF FlowState, Enter
  <1>3. row' = row \/ row'.token = flows[f].copy.token
    BY <1>1 DEF UpsertState, Row
  <1>4. /\ IsCurrent(Resting, row', credential') /\ IsOfAssigned(Resting, assigned', credential')
    BY DEF IsCurrent, IsOfAssigned, Resting
  <1> QED
    BY <1>1, <1>2, <1>3, <1>4, HandlerMoves

\* The row as a handler writes it back.
LEMMA RowIsWritten ==
    ASSUME PairingInv, NEW f \in Flow, flows[f].phase \in FlowPhase,
           NEW s \in {"unpaired_registered", "paired", "error"}, UpsertState(f, s)
    PROVE  row' \in Row /\ row'.token = flows[f].copy.token
  <1>1. flows[f].copy \in Row
    BY AtWork
  <1> QED
    BY <1>1 DEF UpsertState, Row

\* A handler reads the row and goes on.
LEMMA HandlerReads ==
    ASSUME PairingInv, NEW f \in Flow, flows[f].phase \in FlowPhase,
           NEW phase \in {"poll", "register"}, Enter(f, Holding(phase)),
           UNCHANGED <<cloudVars, row, paired, faults, undelivered, overlapped>>
    PROVE  PairingInv'
  <1>1. /\ PairingTypeOK /\ flows[f] # Resting
        /\ assigned \in BOOLEAN /\ undelivered \in BOOLEAN
    BY AtWork DEF PairingInv
  <1>2. PairingTypeOK' /\ UNCHANGED <<assigned, credential>>
    BY <1>1 DEF PairingTypeOK, cloudVars
  <1>3. /\ Holding(phase) \in FlowState /\ flows' = [flows EXCEPT ![f] = Holding(phase)]
        /\ IsCurrent(Holding(phase), row', credential')
        /\ IsOfAssigned(Holding(phase), assigned', credential')
    BY <1>1 DEF Holding, FlowState, FlowPhase, PairingTypeOK, Enter, IsCurrent, IsOfAssigned
  <1> QED
    BY <1>1, <1>2, <1>3, HandlerMoves

\* A handler looks at the status.
LEMMA LookStep == ASSUME PairingInv, NEW f \in Flow, LookAtStatus(f) PROVE PairingInv'
  <1>1. PairingTypeOK /\ flows[f].phase \in FlowPhase
    BY DEF PairingInv, LookAtStatus, FlowPhase
  <1>2. /\ UNCHANGED <<cloudVars, paired, faults, undelivered, overlapped>>
        /\ UNCHANGED <<waiting, assigned, credential, issued, codes, directory>>
    BY DEF LookAtStatus, cloudVars, pairingHistory
  <1>3. CASE paired
    <2>1. UpsertState(f, "paired") /\ Enter(f, Resting)
      BY <1>3 DEF LookAtStatus
    <2>2. PairingTypeOK'
      BY <1>1, <1>2, <2>1, RowIsWritten DEF PairingTypeOK
    <2> QED
      BY <1>1, <1>2, <2>1, <2>2, HandlerRests
  <1>4. CASE ~paired
    <2>1. /\ row' = row
          /\ \/ Enter(f, Resting) \/ Enter(f, Holding("poll")) \/ Enter(f, Holding("register"))
      BY <1>4 DEF LookAtStatus
    <2>2. PairingTypeOK'
      BY <1>1, <1>2, <2>1 DEF PairingTypeOK
    <2> QED
      BY <1>1, <1>2, <2>1, <2>2, HandlerRests, HandlerReads
  <1> QED
    BY <1>3, <1>4

\* A handler registers the device.
LEMMA RegisterStep == ASSUME PairingInv, NEW f \in Flow, RegisterCloud(f) PROVE PairingInv'
  <1> DEFINE state == [phase |-> "poll", copy |-> row', token |-> NoToken]
  <1>1. /\ PairingTypeOK /\ flows[f].phase \in FlowPhase
        /\ assigned \in BOOLEAN /\ undelivered \in BOOLEAN
    BY DEF PairingInv, RegisterCloud, FlowPhase
  <1>2. /\ UNCHANGED <<assigned, credential, issued, codes, directory, paired, faults>>
        /\ UNCHANGED <<undelivered, overlapped>>
        /\ waiting' \in {"none", "pending", "assigned"}
        /\ flows' = [flows EXCEPT ![f] = state]
    BY <1>1 DEF RegisterCloud, pairingHistory, RegisterDevice, PairingTypeOK, Enter
  <1>3. row' \in Row /\ row'.token = flows[f].copy.token
    BY <1>1, RowIsWritten DEF RegisterCloud
  <1>4. PairingTypeOK'
    BY <1>1, <1>2, <1>3 DEF PairingTypeOK
  <1>5. /\ state \in FlowState
        /\ IsCurrent(state, row', credential') /\ IsOfAssigned(state, assigned', credential')
    BY <1>3 DEF FlowState, FlowPhase, IsCurrent, IsOfAssigned
  <1> HIDE DEF state
  <1>6. IsCurrent(flows[f], row, credential) => row'.token = row.token
    BY <1>1, <1>3, AtWork
  <1> QED
    BY <1>1, <1>2, <1>4, <1>5, <1>6, AtWork, HandlerMoves

\* A handler goes on to another phase with what it holds.
LEMMA HandlerGoesOn ==
    ASSUME PairingInv, NEW f \in Flow, flows[f].phase \in FlowPhase, NEW phase \in FlowPhase,
           Go(f, phase), PairingTypeOK', assigned' \in BOOLEAN,
           UNCHANGED <<row, credential, undelivered, overlapped>>, assigned => assigned',
           phase \in {"issue", "redeem", "answer", "download", "finish"} => assigned',
           phase \in {"redeem", "answer", "download", "finish"} => credential # NoToken,
           paired' => paired \/ (assigned' /\ credential # NoToken)
    PROVE  PairingInv'
  <1> DEFINE state == [flows[f] EXCEPT !.phase = phase]
  <1>1. /\ flows[f] # Resting /\ flows[f] \in FlowState /\ undelivered \in BOOLEAN
    BY AtWork DEF PairingInv
  <1>2. /\ state \in FlowState /\ state.phase = phase /\ state.copy = flows[f].copy
        /\ state.token = flows[f].token
    BY <1>1, NextState
  <1>3. flows' = [flows EXCEPT ![f] = state]
    BY DEF Go, Enter
  <1> HIDE DEF state
  <1>4. IsCurrent(flows[f], row, credential) => IsCurrent(state, row', credential')
    BY <1>1, <1>2 DEF IsCurrent
  <1>5. IsOfAssigned(state, assigned', credential')
    BY <1>2 DEF IsOfAssigned
  <1> QED
    BY <1>1, <1>2, <1>3, <1>4, <1>5, HandlerMoves

\* A handler asks whether the node is assigned.
LEMMA PollStep == ASSUME PairingInv, NEW f \in Flow, PollAssignment(f) PROVE PairingInv'
  <1>1. PairingTypeOK /\ flows[f].phase \in FlowPhase /\ assigned \in BOOLEAN
    BY DEF PairingInv, PollAssignment, FlowPhase
  <1>2. UNCHANGED <<waiting, assigned, credential, issued, codes, directory, paired, faults,
                    undelivered, overlapped>>
    BY DEF PollAssignment, cloudVars, pairingHistory
  <1>3. CASE /\ Enter(f, Resting)
             /\ row' = row \/ \E s \in {"unpaired_registered", "paired"} : UpsertState(f, s)
    <2>1. row' \in Row
      BY <1>1, <1>3, RowIsWritten DEF PairingTypeOK
    <2>2. PairingTypeOK'
      BY <1>1, <1>2, <2>1 DEF PairingTypeOK
    <2> QED
      BY <1>1, <1>2, <1>3, <2>2, HandlerRests
  <1>4. CASE /\ row' = row /\ assigned
             /\ Go(f, IF credential = NoToken THEN "issue" ELSE "answer")
    <2>1. PairingTypeOK'
      BY <1>1, <1>2, <1>4 DEF PairingTypeOK
    <2>2. CASE credential = NoToken
      <3>1. Go(f, "issue") /\ "issue" \in FlowPhase
        BY <1>4, <2>2 DEF FlowPhase
      <3> QED
        BY <1>1, <1>2, <1>4, <2>1, <3>1, HandlerGoesOn
    <2>3. CASE credential # NoToken
      <3>1. Go(f, "answer") /\ "answer" \in FlowPhase
        BY <1>4, <2>3 DEF FlowPhase
      <3> QED
        BY <1>1, <1>2, <1>4, <2>1, <2>3, <3>1, HandlerGoesOn
    <2> QED
      BY <2>2, <2>3
  <1> QED
    BY <1>3, <1>4 DEF PollAssignment

\* A token that is made is a new one, and the node is assigned.
LEMMA TokenIsMade ==
    ASSUME PairingInv, NEW f \in Flow, flows[f].phase \in FlowPhase,
           NEW phase \in {"answer", "redeem"}, Issue(f, phase), assigned',
           UNCHANGED <<waiting, codes, directory, row, paired, faults, overlapped>>
    PROVE  PairingInv'
  <1>1. PairingTypeOK /\ HandlersAreAlone /\ AnswersAreOfAssigned
    BY DEF PairingInv
  <1>2. PICK token \in Token :
           /\ token = issued + 1 /\ token # NoToken /\ issued' = token /\ credential' = token
           /\ flows' = [flows EXCEPT ![f] = Turned(flows[f], phase, token)]
           /\ undelivered' = TRUE
    <2>1. /\ issued + 1 \in Token /\ issued + 1 # NoToken /\ issued' = issued + 1
          /\ credential' = issued + 1
      BY <1>1, TokensAreCounted DEF Issue, PairingTypeOK, UpsertEdgeNode, NoToken
    <2> QED
      BY <2>1 DEF Issue, Enter, Turned
  <1> DEFINE state == Turned(flows[f], phase, token)
  <1>3. PairingTypeOK'
    <2>1. credential' \in 0..issued' /\ issued' \in Token \cup {NoToken}
      BY <1>2, TokensAreCounted
    <2> QED
      BY <1>1, <2>1 DEF PairingTypeOK
  <1>4. flows[f] # Resting /\ flows[f] \in FlowState /\ phase \in FlowPhase
    BY AtWork DEF FlowPhase
  <1>5. /\ state \in FlowState /\ state.phase = phase /\ state.copy = flows[f].copy
        /\ state.token = token
    BY <1>4, NextToken
  <1>6. flows' = [flows EXCEPT ![f] = state] /\ undelivered' = TRUE
    BY <1>2
  <1> HIDE DEF state
  <1>7. IsCurrent(flows[f], row, credential) => IsCurrent(state, row', credential')
    BY <1>2, <1>4, <1>5 DEF IsCurrent
  <1>8. IsOfAssigned(state, assigned', credential')
    BY <1>2 DEF IsOfAssigned
  <1>9. assigned' \in BOOLEAN
    BY <1>1 DEF PairingInv, Issue, UpsertEdgeNode
  <1> QED
    BY <1>2, <1>3, <1>4, <1>5, <1>6, <1>7, <1>8, <1>9, HandlerMoves

\* A step that fails leaves an error in the row.
LEMMA HandlerFails ==
    ASSUME PairingInv, NEW f \in Flow, flows[f].phase \in FlowPhase, FailWith(f),
           UNCHANGED <<cloudVars, paired, undelivered, overlapped>>, faults' \in 0..MaxFaults
    PROVE  PairingInv'
  <1>1. PairingTypeOK /\ UNCHANGED <<waiting, assigned, credential, issued, codes, directory>>
    BY DEF PairingInv, cloudVars
  <1>2. row' \in Row /\ UpsertState(f, "error") /\ Enter(f, Resting)
    BY RowIsWritten DEF FailWith
  <1>3. PairingTypeOK'
    BY <1>1, <1>2 DEF PairingTypeOK
  <1> QED
    BY <1>1, <1>2, <1>3, HandlerRests

\* A node that is assigned is given a token.
LEMMA IssueStep == ASSUME PairingInv, NEW f \in Flow, IssueCredentials(f) PROVE PairingInv'
  <1>1. flows[f].phase = "issue" /\ flows[f].phase \in FlowPhase
    BY DEF IssueCredentials, FlowPhase
  <1>2. assigned'
    BY <1>1, AtWork DEF IsOfAssigned, IssueCredentials
  <1> QED
    BY <1>1, <1>2, TokenIsMade DEF IssueCredentials

\* A handler asks for its code.
LEMMA ResolveStep == ASSUME PairingInv, NEW f \in Flow, Resolve(f) PROVE PairingInv'
  <1>1. /\ PairingTypeOK /\ flows[f].phase \in FlowPhase /\ "consume" \in FlowPhase
        /\ assigned \in BOOLEAN
    BY DEF PairingInv, Resolve, FlowPhase
  <1>2. /\ UNCHANGED <<waiting, assigned, credential, issued, codes, directory>>
        /\ UNCHANGED <<cloudVars, paired, faults, undelivered, overlapped>>
        /\ faults' \in 0..MaxFaults
    BY <1>1 DEF Resolve, cloudVars, pairingHistory, PairingTypeOK
  <1>3. CASE Go(f, "consume") /\ row' = row
    <2>1. PairingTypeOK'
      BY <1>1, <1>2, <1>3 DEF PairingTypeOK
    <2> QED
      BY <1>1, <1>2, <1>3, <2>1, HandlerGoesOn
  <1>4. CASE FailWith(f)
    BY <1>1, <1>2, <1>4, HandlerFails
  <1> QED
    BY <1>3, <1>4 DEF Resolve

\* A code that is active assigns the node and gives it a token.
LEMMA ConsumeStep == ASSUME PairingInv, NEW f \in Flow, ConsumePairingCode(f) PROVE PairingInv'
  <1>1. PairingTypeOK /\ flows[f].phase \in FlowPhase
    BY DEF PairingInv, ConsumePairingCode, FlowPhase
  <1>2. UNCHANGED <<waiting, codes, directory, paired, faults, overlapped>>
    BY DEF ConsumePairingCode
  <1>3. CASE assigned' = TRUE /\ Issue(f, "redeem") /\ row' = row
    BY <1>1, <1>2, <1>3, TokenIsMade
  <1>4. CASE FailWith(f) /\ UNCHANGED <<assigned, credential, issued, undelivered>>
    <2>1. UNCHANGED cloudVars /\ faults' \in 0..MaxFaults
      BY <1>1, <1>2, <1>4 DEF cloudVars, PairingTypeOK
    <2> QED
      BY <1>1, <1>2, <1>4, <2>1, HandlerFails
  <1> QED
    BY <1>3, <1>4 DEF ConsumePairingCode

\* One of the handlers consumes the code.
LEMMA RedeemStep == ASSUME PairingInv, NEW f \in Flow, RedeemCode(f) PROVE PairingInv'
  <1>1. /\ PairingTypeOK /\ flows[f].phase \in FlowPhase /\ "answer" \in FlowPhase
        /\ assigned \in BOOLEAN
    BY DEF PairingInv, RedeemCode, FlowPhase
  <1>2. UNCHANGED <<assigned, credential, issued, directory, paired, faults, undelivered,
                    overlapped>>
    BY DEF RedeemCode, pairingHistory
  <1>3. assigned /\ credential # NoToken
    <2>1. flows[f].phase = "redeem"
      BY DEF RedeemCode
    <2> QED
      BY <1>1, <2>1, AtWork DEF IsOfAssigned
  <1>4. CASE codes[flows[f].code] = "active"
    <2>1. /\ codes' = [codes EXCEPT ![flows[f].code] = "consumed"]
          /\ waiting' = MarkUnassignedAssigned /\ Go(f, "answer") /\ row' = row
      BY <1>4 DEF RedeemCode
    <2>2. PairingTypeOK'
      BY <1>1, <1>2, <2>1 DEF PairingTypeOK, MarkUnassignedAssigned
    <2> QED
      BY <1>1, <1>2, <1>3, <2>1, <2>2, HandlerGoesOn
  <1>5. CASE codes[flows[f].code] # "active"
    <2>1. FailWith(f) /\ UNCHANGED cloudVars /\ faults' \in 0..MaxFaults
      BY <1>1, <1>2, <1>5 DEF RedeemCode, cloudVars, PairingTypeOK
    <2> QED
      BY <1>1, <1>2, <2>1, HandlerFails
  <1> QED
    BY <1>4, <1>5

\* A handler saves the assignment, with its token or the one the row has.
LEMMA SaveStep == ASSUME PairingInv, NEW f \in Flow, SaveAssignment(f) PROVE PairingInv'
  <1> DEFINE token == IF flows[f].token = NoToken THEN flows[f].copy.token ELSE flows[f].token
             saved == [status |-> "assigned_downloading", token |-> token]
             state == [phase |-> "download", copy |-> saved, token |-> NoToken]
  <1>1. PairingTypeOK /\ flows[f].phase = "answer" /\ flows[f].phase \in FlowPhase
    BY DEF PairingInv, SaveAssignment, FlowPhase
  <1>2. /\ row' = saved /\ flows' = [flows EXCEPT ![f] = state]
        /\ undelivered' = (undelivered /\ token # credential)
        /\ UNCHANGED <<waiting, assigned, credential, issued, codes, directory, paired, faults,
                       overlapped>>
    BY DEF SaveAssignment, Enter, cloudVars
  <1>3. token \in Token \cup {NoToken}
    BY <1>1, AtWork DEF Row
  <1>4. saved \in Row /\ state \in FlowState
    BY <1>3 DEF Row, FlowState, FlowPhase
  <1>5. PairingTypeOK'
    BY <1>1, <1>2, <1>4 DEF PairingTypeOK
  <1>6. assigned /\ credential # NoToken
    BY <1>1, AtWork DEF IsOfAssigned
  <1>7. IsCurrent(state, row', credential') /\ IsOfAssigned(state, assigned', credential')
    BY <1>2, <1>6 DEF IsCurrent, IsOfAssigned
  <1>8. ASSUME IsCurrent(flows[f], row, credential), ~undelivered => row.token = credential,
               ~undelivered'
        PROVE  row'.token = credential'
    <2>1. row'.token = token
      BY <1>2
    <2>2. flows[f].copy = row /\ flows[f].token \in {NoToken, credential}
      BY <1>1, <1>8, AtWork
    <2> QED
      BY <1>2, <1>8, <2>1, <2>2
  <1>9. assigned' \in BOOLEAN /\ undelivered' \in BOOLEAN
    BY <1>2 DEF PairingInv
  <1> HIDE DEF state, saved, token
  <1> QED
    BY <1>1, <1>2, <1>4, <1>5, <1>6, <1>7, <1>8, <1>9, AtWork, HandlerMoves

\* A handler that was answered pairs the Edge.
LEMMA WriteIdentityStep ==
    ASSUME PairingInv, NEW f \in Flow, WriteIdentity(f)
    PROVE  PairingInv'
  <1>1. /\ PairingTypeOK /\ flows[f].phase = "download" /\ flows[f].phase \in FlowPhase
        /\ "finish" \in FlowPhase /\ assigned \in BOOLEAN
    BY DEF PairingInv, WriteIdentity, FlowPhase
  <1>2. /\ UNCHANGED <<waiting, assigned, credential, issued, codes, directory, row, faults,
                       undelivered, overlapped>>
        /\ Go(f, "finish")
    BY DEF WriteIdentity, cloudVars, pairingHistory
  <1>3. assigned /\ credential # NoToken
    BY <1>1, AtWork DEF IsOfAssigned
  <1>4. PairingTypeOK'
    BY <1>1, <1>2 DEF PairingTypeOK
  <1> QED
    BY <1>1, <1>2, <1>3, <1>4, HandlerGoesOn

\* A handler writes that the Edge is paired.
LEMMA FinishStep == ASSUME PairingInv, NEW f \in Flow, FinishPairing(f) PROVE PairingInv'
  <1>1. PairingTypeOK /\ flows[f].phase \in FlowPhase
    BY DEF PairingInv, FinishPairing, FlowPhase
  <1>2. /\ UNCHANGED <<waiting, assigned, credential, issued, codes, directory, paired, faults,
                       undelivered, overlapped>>
        /\ UpsertState(f, "paired") /\ Enter(f, Resting)
    BY DEF FinishPairing, cloudVars, pairingHistory
  <1>3. PairingTypeOK'
    BY <1>1, <1>2, RowIsWritten DEF PairingTypeOK
  <1> QED
    BY <1>1, <1>2, <1>3, HandlerRests

-----------------------------------------------------------------------------
(* Pairing: what goes wrong, and all steps.                                *)

\* A call is lost.
LEMMA LoseCallStep == ASSUME PairingInv, NEW f \in Flow, LoseCall(f) PROVE PairingInv'
  <1>1. PairingTypeOK /\ flows[f].phase \in FlowPhase
    BY DEF PairingInv, LoseCall, FlowPhase
  <1>2. /\ UNCHANGED <<waiting, assigned, credential, issued, codes, directory>>
        /\ UNCHANGED <<cloudVars, paired, undelivered, overlapped>>
        /\ faults' \in 0..MaxFaults
    BY <1>1, PairingAssumption DEF LoseCall, Fault, cloudVars, pairingHistory, PairingTypeOK
  <1>3. CASE Enter(f, Resting) /\ row' = row
    <2>1. PairingTypeOK'
      BY <1>1, <1>2, <1>3 DEF PairingTypeOK
    <2> QED
      BY <1>1, <1>2, <1>3, <2>1, HandlerRests
  <1>4. CASE FailWith(f)
    BY <1>1, <1>2, <1>4, HandlerFails
  <1> QED
    BY <1>3, <1>4 DEF LoseCall

\* A snapshot is refused.
LEMMA RefuseStep == ASSUME PairingInv, NEW f \in Flow, RefuseSnapshot(f) PROVE PairingInv'
  <1>1. PairingTypeOK /\ flows[f].phase \in FlowPhase
    BY DEF PairingInv, RefuseSnapshot, FlowPhase
  <1>2. /\ UNCHANGED <<waiting, assigned, credential, issued, codes, directory, row, paired,
                       undelivered, overlapped>>
        /\ faults' \in 0..MaxFaults /\ Enter(f, Resting)
    BY <1>1, PairingAssumption DEF RefuseSnapshot, Fault, cloudVars, PairingTypeOK
  <1>3. PairingTypeOK'
    BY <1>1, <1>2 DEF PairingTypeOK
  <1> QED
    BY <1>1, <1>2, <1>3, HandlerRests

\* No handler is at work after a crash.
LEMMA CrashStep == ASSUME PairingInv, PairingCrash PROVE PairingInv'
  <1>1. PairingTypeOK
    BY DEF PairingInv
  <1>2. /\ UNCHANGED <<waiting, assigned, credential, issued, codes, directory, row, paired,
                       undelivered, overlapped>>
        /\ faults' \in 0..MaxFaults /\ flows' = [f \in Flow |-> Resting]
    BY <1>1, PairingAssumption DEF PairingCrash, Fault, cloudVars, PairingTypeOK
  <1>3. PairingTypeOK' /\ flows' \in [Flow -> FlowState]
    BY <1>1, <1>2 DEF PairingTypeOK, FlowState
  <1>4. HandlersAreAlone'
    BY <1>2 DEF PairingInv, HandlersAreAlone, IsCurrent
  <1>5. AnswersAreOfAssigned'
    BY <1>2 DEF PairingInv, AnswersAreOfAssigned, IsOfAssigned, Resting
  <1> QED
    BY <1>2, <1>3, <1>4, <1>5 DEF PairingInv

\* Every step of the pairing keeps the invariant.
LEMMA PairingKeeps == ASSUME PairingInv, PairingNext PROVE PairingInv'
  <1>1. ASSUME NEW f \in Flow, FlowNext(f) PROVE PairingInv'
    BY <1>1, LookStep, RegisterStep, PollStep, IssueStep, ResolveStep, ConsumeStep, RedeemStep,
       SaveStep, WriteIdentityStep, FinishStep DEF FlowNext
  <1> QED
    BY <1>1, ManagerStep, BeginsKeep, LoseCallStep, RefuseStep, CrashStep
    DEF PairingNext, PairingFault

\* The invariant holds at the start.
LEMMA PairingStarts == ASSUME PairingInit PROVE PairingInv
  <1>1. PairingTypeOK
    BY PairingAssumption DEF PairingInit, PairingTypeOK, Row, NoToken
  <1>2. /\ flows \in [Flow -> FlowState] /\ assigned \in BOOLEAN /\ overlapped \in BOOLEAN
        /\ undelivered \in BOOLEAN
    BY DEF PairingInit, FlowState
  <1>3. HandlersAreAlone
    BY DEF PairingInit, HandlersAreAlone, IsCurrent
  <1>4. AnswersAreOfAssigned
    BY DEF PairingInit, AnswersAreOfAssigned, IsOfAssigned, Resting
  <1> QED
    BY <1>1, <1>2, <1>3, <1>4 DEF PairingInv

\* What the invariant says of an Edge at work.
LEMMA InvAgrees == ASSUME PairingInv PROVE TokensAgree
  BY DEF PairingInv, HandlersAreAlone, AnswersAreOfAssigned, TokensAgree, AuthenticateNodeToken

-----------------------------------------------------------------------------
(* The premises: a behaviour is about one area, and leaves the others as   *)
(* they were.                                                              *)

\* The invariant of the kitchen.
LEMMA KitchenAlways == Spec => []KitchenInv
  <1>1. Init => KitchenInv
    BY KitchenStarts DEF Init
  <1>2. KitchenInv /\ [Next]_vars => KitchenInv'
    <2> SUFFICES ASSUME KitchenInv, [Next]_vars PROVE KitchenInv'
      OBVIOUS
    <2>1. CASE InKitchen(KitchenNext)
      BY <2>1, KitchenKeeps DEF InKitchen
    <2>2. CASE UNCHANGED kitchenVars
      BY <2>2 DEF kitchenVars, KitchenInv, KitchenTypeOK
    <2> QED
      BY <2>1, <2>2 DEF Next, InStorage, InAccess, InPairing, vars
  <1> QED
    BY <1>1, <1>2, PTL DEF Spec

\* The invariant of the storage lifecycle.
LEMMA StorageAlways == Spec => []StorageInv
  <1>1. Init => StorageInv
    BY StorageStarts DEF Init
  <1>2. StorageInv /\ [Next]_vars => StorageInv'
    <2> SUFFICES ASSUME StorageInv, [Next]_vars PROVE StorageInv'
      OBVIOUS
    <2>1. CASE InStorage(StorageNext)
      BY <2>1, StorageKeeps DEF InStorage
    <2>2. CASE UNCHANGED storageVars
      <3>1. UNCHANGED <<today, businessDate, storageRows, archives, export, plan, damages, gone>>
        BY <2>2 DEF storageVars
      <3> QED
        BY <3>1 DEF storageRows, StorageInv, StorageTypeOK, FilesAreFiles, RowsAreTold,
           FilesAreTrue, PlanIsTrue, NothingIsLost
    <2> QED
      BY <2>1, <2>2 DEF Next, InKitchen, InAccess, InPairing, vars
  <1> QED
    BY <1>1, <1>2, PTL DEF Spec

\* The invariant of the logins.
LEMMA AccessAlways == Spec => []AccessInv
  <1>1. Init => AccessInv
    BY AccessStarts DEF Init
  <1>2. AccessInv /\ [Next]_vars => AccessInv'
    <2> SUFFICES ASSUME AccessInv, [Next]_vars PROVE AccessInv'
      OBVIOUS
    <2>1. CASE InAccess(AccessNext)
      BY <2>1, AccessKeeps DEF InAccess
    <2>2. CASE UNCHANGED accessVars
      BY <2>2 DEF accessVars, AccessInv, AccessTypeOK, PastIsPast, WindowIsOpen, LocksAreLong,
         Tallied, LastOnes, BetweenWindows, BegunWithin, BegunBefore, Full, Over, FailuresFrom,
         Within
    <2> QED
      BY <2>1, <2>2 DEF Next, InKitchen, InPairing, InStorage, vars
  <1> QED
    BY <1>1, <1>2, PTL DEF Spec

\* The invariant of the pairing.
LEMMA PairingAlways == Spec => []PairingInv
  <1>1. Init => PairingInv
    BY PairingStarts DEF Init
  <1>2. PairingInv /\ [Next]_vars => PairingInv'
    <2> SUFFICES ASSUME PairingInv, [Next]_vars PROVE PairingInv'
      OBVIOUS
    <2>1. CASE InPairing(PairingNext) \/ InPairing(MaintainCloudProvisioning)
      BY <2>1, PairingKeeps DEF InPairing, PairingNext
    <2>2. CASE UNCHANGED pairingVars
      BY <2>2 DEF pairingVars, cloudVars, edgeVars, pairingHistory, PairingInv, PairingTypeOK,
         HandlersAreAlone, AnswersAreOfAssigned
    <2> QED
      BY <2>1, <2>2 DEF Next, InKitchen, InAccess, InStorage, vars
  <1> QED
    BY <1>1, <1>2, PTL DEF Spec

\* Tickets, documents, suggestions and what they leave in the outbox hold what their
\* columns admit (the tables of app/kitchen).
THEOREM KitchenTyped == Spec => []KitchenTypeOK
  <1>1. KitchenInv => KitchenTypeOK
    BY DEF KitchenInv
  <1> QED
    BY <1>1, KitchenAlways, PTL

\* Whatever the screens of the kitchen repeat, recall and serve again, the ItemServed rows
\* of a line form one chain without gaps, a command has one effect, and the queue shows the
\* orders that still need the kitchen (ChangeTicketStatus, WriteOutbox, buildOrderQueue).
THEOREM KitchenAlwaysHeard == Spec => []KitchenIsHeard
  <1>1. KitchenInv => KitchenIsHeard
    BY KitchenInvIsHeard, QueueIsRight DEF KitchenInv, KitchenIsHeard
  <1> QED
    BY <1>1, KitchenAlways, PTL

\* However sales, exports, plans, deletions, crashes and damaged files are ordered, the
\* deletion takes nothing but what the Cloud has and the archive keeps, but for the windows
\* NothingIsLost names, and no repeated command counts twice (BuildArchiveApplyPlan,
\* ApplyStorageArchiveDestructive, EnsureCommandNotProcessed).
THEOREM ArchivingAlwaysSafe == Spec => []ArchivingIsSafe
  <1>1. StorageInv => ArchivingIsSafe
    BY InvIsSafe
  <1> QED
    BY <1>1, StorageAlways, PTL

\* Registering, assigning, polling and pairing codes leave an Edge at work with the token
\* the Cloud lets it in by, unless handlers overlapped or an answer was lost
\* (finishAssigned, AssignmentStatus, ConsumePairingCode, UpsertEdgeNode).
THEOREM TokensAlwaysAgree == Spec => []TokensAgree
  <1>1. PairingInv => TokensAgree
    BY InvAgrees
  <1> QED
    BY <1>1, PairingAlways, PTL

\* However failures, lockouts, forgotten windows and late answers are ordered, a span of a
\* window's length sees the rest of two windows at most, one that fills, and those who were
\* let in before it did (pinRateLimiter, PinLogin).
THEOREM FailuresAlwaysBounded == Spec => []FailuresAreBounded
  <1>1. AccessInv => FailuresAreBounded
    BY AccessInvIsBounded
  <1> QED
    BY <1>1, AccessAlways, PTL
=============================================================================
