--------------------- MODULE AssistantConversationsProofs ---------------------
(***************************************************************************)
(* For any number of devices, sessions, records and overlapping turns:     *)
(* nothing outlives a deleted device, a bound session changes hands only   *)
(* in a late write, a turn reads its own history, and turns are whole.     *)
(* The inductive invariant says that the id of a conversation's row is the *)
(* turn that created it and is never given twice, so that a turn finds its *)
(* row again only if nobody deleted it in between; and that as long as a   *)
(* row has not been taken its messages, and the turns that are writing     *)
(* into it, are its device's or nobody's.                                  *)
(***************************************************************************)
EXTENDS AssistantConversations, FiniteSetTheorems, SequenceTheorems, TLAPS

Pre == {"resolved", "checked", "read"}
Post == {"upserted", "asked"}

\* Turns and the ids of rows, which are turns, are given once.
TurnsDiffer ==
  /\ nextId # 0
  /\ \A s \in Sessions :
       /\ convs[s].id < nextId
       /\ \A i \in DOMAIN convs[s].messages : convs[s].messages[i].turn < nextId
  /\ \A w \in Workers :
       /\ jobs[w].op \in Pre \cup Post => jobs[w].turn # 0 /\ jobs[w].turn < nextId
       /\ jobs[w].op \in Post => jobs[w].conv # 0 /\ jobs[w].conv < nextId
       /\ jobs[w].op \in Pre => \A s \in Sessions : convs[s].id # jobs[w].turn
       /\ jobs[w].op \in Pre \cup {"upserted"} =>
            \A s \in Sessions : \A i \in DOMAIN convs[s].messages :
              convs[s].messages[i].turn # jobs[w].turn
       /\ \A v \in Workers \ {w} :
            /\ (jobs[w].op \in Pre \cup Post /\ jobs[v].op \in Pre \cup Post)
                 => jobs[w].turn # jobs[v].turn
            /\ (jobs[w].op \in Pre /\ jobs[v].op \in Post) => jobs[w].turn # jobs[v].conv

\* What is gone has left no row that is bound to it.
DevicesFit ==
  /\ devices \cap gone = {} /\ profiles \cap gone = {}
  /\ \A r \in Records : records[r].device \in gone => records[r].state # "stored"
  /\ \A s \in Sessions : convs[s].device \notin gone

\* A row that has not been taken is its device's, or nobody's.
RowsAreOwn ==
  /\ \A s \in Sessions : ~convs[s].taken =>
       \A i \in DOMAIN convs[s].messages :
         convs[s].messages[i].device \in {None, convs[s].device}
  /\ \A w \in Workers :
       /\ jobs[w].op \in {"checked", "read"} => jobs[w].seen \in {None, jobs[w].device}
       /\ (jobs[w].op \in Post /\ RowIsThere(w) /\ ~convs[jobs[w].session].taken)
            => jobs[w].device \in {None, convs[jobs[w].session].device}

Own(w, role) == [turn |-> jobs[w].turn, role |-> role, device |-> jobs[w].device]

\* The question of a turn is in the row the turn writes into, and nowhere else.
QuestionsAreThere ==
  \A w \in Workers : jobs[w].op = "asked" =>
    /\ RowIsThere(w) =>
         \E i \in DOMAIN convs[jobs[w].session].messages :
           convs[jobs[w].session].messages[i] = Own(w, "user")
    /\ \A s \in Sessions : \A i \in DOMAIN convs[s].messages :
         convs[s].messages[i].turn = jobs[w].turn => s = jobs[w].session /\ RowIsThere(w)

RepliesFollow(messages) ==
  \A k \in DOMAIN messages : messages[k].role = "assistant" =>
    \E i \in 1..(k - 1) : messages[i] = [messages[k] EXCEPT !.role = "user"]

\* The questions of a conversation without a reply, when the turns of asked are
\* about to write theirs.
Open(messages, asked) ==
  {messages[i].turn : i \in {i \in DOMAIN messages :
     /\ messages[i].role = "user"
     /\ \A k \in DOMAIN messages :
          messages[k].role = "assistant" => messages[k].turn # messages[i].turn
     /\ messages[i].turn \notin asked}}

AskedTurns == {jobs[w].turn : w \in {v \in Workers : jobs[v].op = "asked"}}
OpenTurns == UNION {Open(convs[s].messages, AskedTurns) : s \in Sessions}

TurnsFit ==
  /\ \A s \in Sessions : RepliesFollow(convs[s].messages)
  /\ IsFiniteSet(OpenTurns) /\ Cardinality(OpenTurns) <= faults

Inv ==
  /\ TypeOK
  /\ TurnsDiffer
  /\ DevicesFit
  /\ RowsAreOwn
  /\ HistoryIsOwn
  /\ QuestionsAreThere
  /\ TurnsFit

-----------------------------------------------------------------------------
(* What the steps do to the jobs.                                          *)

LEMMA KindsOfJobs ==
  ASSUME TypeOK, NEW w \in Workers
  PROVE  /\ jobs[w].op \in Pre \cup Post => jobs[w] \in ChatJob
         /\ jobs[w].op \in DeviceRequests => jobs[w] \in DeviceJob /\ jobs[w].op \notin Pre \cup Post
         /\ jobs[w] = Idle => jobs[w].op \notin Pre \cup Post
BY DEF TypeOK, Idle, ChatJob, DeviceJob, DeviceRequests, Pre, Post

Others(w) == \A v \in Workers \ {w} : jobs'[v] = jobs[v]

\* The turn of w goes on to op.
Goes(w, op) ==
  /\ Others(w)
  /\ jobs'[w] \in ChatJob /\ jobs'[w].op = op /\ jobs[w] \in ChatJob
  /\ jobs'[w].turn = jobs[w].turn /\ jobs'[w].session = jobs[w].session
  /\ jobs'[w].device = jobs[w].device

\* w is not taking a turn after the step.
Leaves(w) == Others(w) /\ jobs'[w].op \notin Pre \cup Post /\ jobs' \in [Workers -> {Idle} \cup DeviceJob \cup ChatJob]

LEMMA FinishFacts ==
  ASSUME TypeOK, NEW w \in Workers, Finish(w) PROVE Leaves(w)
BY DEF TypeOK, Finish, Leaves, Others, Idle, Pre, Post

LEMMA PassGuardFacts ==
  ASSUME ConstantsAssumption, TypeOK, NEW w \in Workers, NEW request \in Asked, NEW d \in Devices,
         PassGuard(w, request, d)
  PROVE  Leaves(w)
<1>1. [op |-> request, device |-> d] \in DeviceJob /\ request \notin Pre \cup Post
  BY DEF ConstantsAssumption, DeviceJob, DeviceRequests, Pre, Post
<1>2. jobs' = [jobs EXCEPT ![w] = [op |-> request, device |-> d]]
  BY DEF PassGuard
<1>3. QED
  BY <1>1, <1>2 DEF TypeOK, Leaves, Others

LEMMA StartFacts ==
  ASSUME ConstantsAssumption, TypeOK, NEW w \in Workers, NEW s \in Sessions, NEW d \in Callers,
         StartChat(w, s, d)
  PROVE  /\ Others(w) /\ jobs[w] = Idle
         /\ jobs'[w] \in ChatJob /\ jobs'[w].op = "resolved" /\ jobs'[w].turn = nextId
         /\ nextId' = nextId + 1 /\ UNCHANGED <<convs, records, devices, gone, profiles, faults>>
<1>1. jobs'[w] = [op |-> "resolved", turn |-> nextId, session |-> s, device |-> d,
                  seen |-> None, owner |-> None, memory |-> {}, handedOn |-> FALSE, conv |-> 0]
  BY DEF StartChat, TypeOK
<1>2. None \in Callers
  BY DEF Callers
<1>3. QED
  BY <1>1, <1>2 DEF StartChat, TypeOK, ChatJob, Others

LEMMA CheckFacts ==
  ASSUME TypeOK, NEW w \in Workers, CheckBinding(w)
  PROVE  /\ Goes(w, "checked") /\ jobs[w].op = "resolved"
         /\ jobs'[w].seen \in {None, jobs[w].device}
<1>1. jobs[w] \in ChatJob
  BY KindsOfJobs DEF CheckBinding, Pre
<1>2. PICK bound \in Callers :
        /\ jobs' = [jobs EXCEPT ![w].op = "checked", ![w].seen = bound]
        /\ bound = None \/ bound = jobs[w].device
  BY <1>1 DEF CheckBinding, BindingAllows, TypeOK, Conversation, ChatJob
<1>3. jobs'[w] = [op |-> "checked", turn |-> jobs[w].turn, session |-> jobs[w].session,
                  device |-> jobs[w].device, seen |-> bound, owner |-> jobs[w].owner,
                  memory |-> jobs[w].memory, handedOn |-> jobs[w].handedOn, conv |-> jobs[w].conv]
  BY <1>1, <1>2 DEF TypeOK, ChatJob
<1>4. Others(w)
  <2>1. jobs' = [jobs EXCEPT ![w] = jobs'[w]]
    BY <1>2 DEF TypeOK
  <2>2. QED
    BY <2>1 DEF TypeOK, Others
<1>5. jobs'[w] \in ChatJob
  BY <1>1, <1>3 DEF ChatJob
<1>6. jobs[w].op = "resolved"
  BY DEF CheckBinding
<1>7. QED
  BY <1>1, <1>2, <1>3, <1>4, <1>5, <1>6 DEF Goes

LEMMA ReadFacts ==
  ASSUME TypeOK, NEW w \in Workers, ReadHistory(w)
  PROVE  /\ Goes(w, "read") /\ jobs[w].op = "checked"
         /\ jobs'[w].seen = jobs[w].seen
         /\ jobs'[w].owner = convs[jobs[w].session].device
         /\ jobs'[w].memory = RecentAuthors(convs[jobs[w].session].messages)
         /\ jobs'[w].handedOn = convs[jobs[w].session].taken
<1>1. jobs[w] \in ChatJob /\ jobs[w].op = "checked"
  BY KindsOfJobs DEF ReadHistory, Pre
<1> DEFINE c == convs[jobs[w].session]
<1>2. c \in Conversation
  BY <1>1 DEF TypeOK, ChatJob
<1>3. jobs' = [jobs EXCEPT ![w].op = "read", ![w].owner = c.device,
                           ![w].memory = RecentAuthors(c.messages), ![w].handedOn = c.taken]
  BY DEF ReadHistory
<1>4. c.device \in Callers /\ c.taken \in BOOLEAN /\ RecentAuthors(c.messages) \subseteq Callers
  <2>1. c.messages \in Seq(Message) /\ c.device \in Callers /\ c.taken \in BOOLEAN
    BY <1>2 DEF Conversation
  <2>2. \A i \in 1..Len(c.messages) : c.messages[i] \in Message
    BY <2>1
  <2>3. \A i \in 1..Len(c.messages) : c.messages[i].device \in Callers
    BY <2>2 DEF Message
  <2>4. QED
    BY <2>1, <2>3 DEF RecentAuthors
<1> HIDE DEF c
<1>5. jobs'[w] = [op |-> "read", turn |-> jobs[w].turn, session |-> jobs[w].session,
                  device |-> jobs[w].device, seen |-> jobs[w].seen, owner |-> c.device,
                  memory |-> RecentAuthors(c.messages), handedOn |-> c.taken, conv |-> jobs[w].conv]
  BY <1>1, <1>3 DEF TypeOK, ChatJob
<1>6. Others(w)
  BY <1>3 DEF TypeOK, Others
<1>7. jobs'[w] \in ChatJob
  BY <1>1, <1>4, <1>5 DEF ChatJob
<1>8. QED
  BY <1>1, <1>5, <1>6, <1>7 DEF Goes, c

LEMMA UpsertFacts ==
  ASSUME TypeOK, NEW w \in Workers, UpsertConversation(w)
  PROVE  /\ Goes(w, "upserted") /\ jobs[w].op = "read"
         /\ jobs'[w].owner = jobs[w].owner /\ jobs'[w].seen = jobs[w].seen
         /\ jobs'[w].memory = jobs[w].memory /\ jobs'[w].handedOn = jobs[w].handedOn
         /\ jobs[w].device \in devices \cup {None}
         /\ jobs[w].session \in Sessions
         /\ convs' \in [Sessions -> Conversation]
         /\ convs'[jobs[w].session] = Upserted(convs[jobs[w].session], jobs[w].turn, jobs[w].device)
         /\ jobs'[w].conv = convs'[jobs[w].session].id
         /\ \A s \in Sessions \ {jobs[w].session} : convs'[s] = convs[s]
         /\ UNCHANGED <<devices, gone, profiles, records, nextId, faults>>
<1>1. jobs[w] \in ChatJob /\ jobs[w].op = "read"
  BY KindsOfJobs DEF UpsertConversation, Pre
<1> DEFINE c == Upserted(convs[jobs[w].session], jobs[w].turn, jobs[w].device)
<1>2. c \in Conversation
  <2>1. convs[jobs[w].session] \in Conversation /\ jobs[w].turn \in Nat /\ jobs[w].device \in Callers
    BY <1>1 DEF TypeOK, ChatJob
  <2>2. QED
    BY <2>1 DEF Conversation, Upserted
<1>3. /\ jobs[w].device \in devices \cup {None}
      /\ convs' = [convs EXCEPT ![jobs[w].session] = c]
      /\ jobs' = [jobs EXCEPT ![w].op = "upserted", ![w].conv = c.id]
      /\ UNCHANGED <<devices, gone, profiles, records, nextId, faults>>
  BY DEF UpsertConversation
<1>4. c.id \in Nat
  BY <1>2 DEF Conversation
<1> HIDE DEF c
<1>5. jobs'[w] = [op |-> "upserted", turn |-> jobs[w].turn, session |-> jobs[w].session,
                  device |-> jobs[w].device, seen |-> jobs[w].seen, owner |-> jobs[w].owner,
                  memory |-> jobs[w].memory, handedOn |-> jobs[w].handedOn, conv |-> c.id]
  BY <1>1, <1>3 DEF TypeOK, ChatJob
<1>6. Others(w)
  <2>1. jobs' = [jobs EXCEPT ![w] = jobs'[w]]
    BY <1>3 DEF TypeOK
  <2>2. QED
    BY <2>1 DEF TypeOK, Others
<1>7. jobs'[w] \in ChatJob
  BY <1>1, <1>4, <1>5 DEF ChatJob
<1>8. jobs[w].session \in Sessions
  BY <1>1 DEF ChatJob
<1>9. /\ convs'[jobs[w].session] = c /\ convs' \in [Sessions -> Conversation]
      /\ \A s \in Sessions \ {jobs[w].session} : convs'[s] = convs[s]
  BY <1>2, <1>3, <1>8 DEF TypeOK
<1>10. Goes(w, "upserted")
  BY <1>1, <1>5, <1>6, <1>7 DEF Goes
<1>11. QED
  BY <1>1, <1>3, <1>5, <1>8, <1>9, <1>10 DEF c

\* A message is appended to the row the turn writes into, which is there.
Adds(w, role) ==
  /\ jobs[w].session \in Sessions /\ RowIsThere(w) /\ Own(w, role) \in Message
  /\ convs' \in [Sessions -> Conversation]
  /\ convs'[jobs[w].session].id = convs[jobs[w].session].id
  /\ convs'[jobs[w].session].device = convs[jobs[w].session].device
  /\ convs'[jobs[w].session].taken = convs[jobs[w].session].taken
  /\ convs'[jobs[w].session].messages = Append(convs[jobs[w].session].messages, Own(w, role))
  /\ \A s \in Sessions \ {jobs[w].session} : convs'[s] = convs[s]

LEMMA AppendedFacts ==
  ASSUME TypeOK, NEW w \in Workers, NEW role \in {"user", "assistant"},
         jobs[w] \in ChatJob, RowIsThere(w), convs' = Appended(w, role)
  PROVE  Adds(w, role)
<1> DEFINE s == jobs[w].session
           m == Own(w, role)
<1>1. s \in Sessions /\ m \in Message
  BY DEF ChatJob, Message, Own
<1>2. convs[s] \in Conversation
  BY <1>1 DEF TypeOK
<1>3. convs[s].messages \in Seq(Message)
  BY <1>2 DEF Conversation
<1>4. Append(convs[s].messages, m) \in Seq(Message)
  BY <1>1, <1>3, AppendProperties
<1>5. convs' = [convs EXCEPT ![s].messages = Append(@, m)]
  BY DEF Appended, Own
<1> HIDE DEF s, m
<1>6. convs'[s] = [id |-> convs[s].id, device |-> convs[s].device,
                   messages |-> Append(convs[s].messages, m), taken |-> convs[s].taken]
  BY <1>1, <1>2, <1>5 DEF TypeOK, Conversation
<1>7. convs'[s] \in Conversation
  BY <1>2, <1>4, <1>6 DEF Conversation
<1>8. convs' \in [Sessions -> Conversation] /\ \A t \in Sessions \ {s} : convs'[t] = convs[t]
  <2>1. convs' = [convs EXCEPT ![s] = convs'[s]]
    BY <1>1, <1>5 DEF TypeOK
  <2>2. QED
    BY <1>1, <1>7, <2>1 DEF TypeOK
<1>9. QED
  BY <1>1, <1>6, <1>8 DEF Adds, s, m

LEMMA QuestionFacts ==
  ASSUME TypeOK, NEW w \in Workers, CreateQuestion(w)
  PROVE  /\ Goes(w, "asked") /\ jobs[w].op = "upserted" /\ Adds(w, "user")
         /\ jobs'[w].owner = jobs[w].owner /\ jobs'[w].seen = jobs[w].seen
         /\ jobs'[w].memory = jobs[w].memory /\ jobs'[w].handedOn = jobs[w].handedOn
         /\ jobs'[w].conv = jobs[w].conv
<1>1. jobs[w] \in ChatJob /\ jobs[w].op = "upserted" /\ RowIsThere(w)
  BY KindsOfJobs DEF CreateQuestion, Post
<1>2. jobs' = [jobs EXCEPT ![w].op = "asked"] /\ convs' = Appended(w, "user")
  BY DEF CreateQuestion
<1>3. jobs'[w] = [op |-> "asked", turn |-> jobs[w].turn, session |-> jobs[w].session,
                  device |-> jobs[w].device, seen |-> jobs[w].seen, owner |-> jobs[w].owner,
                  memory |-> jobs[w].memory, handedOn |-> jobs[w].handedOn, conv |-> jobs[w].conv]
  BY <1>1, <1>2 DEF TypeOK, ChatJob
<1>4. Others(w)
  BY <1>2 DEF TypeOK, Others
<1>5. jobs'[w] \in ChatJob
  BY <1>1, <1>3 DEF ChatJob
<1>6. Goes(w, "asked")
  BY <1>1, <1>3, <1>4, <1>5 DEF Goes
<1>7. Adds(w, "user")
  BY <1>1, <1>2, AppendedFacts
<1>8. QED
  BY <1>1, <1>3, <1>6, <1>7

LEMMA ReplyFacts ==
  ASSUME TypeOK, NEW w \in Workers, CreateReply(w)
  PROVE  Leaves(w) /\ jobs[w].op = "asked" /\ jobs[w] \in ChatJob /\ Adds(w, "assistant")
<1>1. jobs[w] \in ChatJob /\ jobs[w].op = "asked" /\ RowIsThere(w)
  BY KindsOfJobs DEF CreateReply, Post
<1>2. Leaves(w)
  BY FinishFacts DEF CreateReply
<1>3. Adds(w, "assistant")
  BY <1>1, AppendedFacts DEF CreateReply
<1>4. QED
  BY <1>1, <1>2, <1>3

\* What is left of the rows when a device is deleted.
LEMMA DeleteFacts ==
  ASSUME TypeOK, NEW w \in Workers, DeleteDevice(w)
  PROVE  /\ Leaves(w) /\ jobs[w].op \notin Pre \cup Post /\ jobs[w].device \in Devices
         /\ jobs[w].device \in devices
         /\ devices' = devices \ {jobs[w].device} /\ gone' = gone \cup {jobs[w].device}
         /\ profiles' = profiles \ {jobs[w].device}
         /\ records' = WithoutRecordsOf(jobs[w].device)
         /\ \A s \in Sessions :
              convs'[s] = IF convs[s].device = jobs[w].device THEN NoConversation ELSE convs[s]
         /\ DOMAIN convs' = Sessions
         /\ convs' = [s \in Sessions |-> convs'[s]]
         /\ UNCHANGED <<nextId, faults>>
<1>1. jobs[w] \in DeviceJob /\ jobs[w].op \notin Pre \cup Post
  BY KindsOfJobs DEF DeleteDevice, DeviceRequests
<1>2. Leaves(w)
  BY FinishFacts DEF DeleteDevice
<1>3. jobs[w].device \in Devices
  BY <1>1 DEF DeviceJob
<1>4. QED
  BY <1>1, <1>2, <1>3 DEF DeleteDevice, WithoutConversationsOf

\* The requests and turns that end, or a request that passes its guard: the rows
\* stay as they are.
Quits(w) ==
  \/ \E request \in Asked, d \in Devices : PassGuard(w, request, d)
  \/ TouchDevice(w) \/ UpsertEducationalProfile(w) \/ GuardedRequestFails(w)
  \/ RejectTurn(w) \/ GenerationFails(w) \/ UpsertFails(w) \/ MessageFails(w) \/ CutShort(w)

Starts(w) == \E s \in Sessions, d \in Callers : StartChat(w, s, d)

LEMMA QuitFacts ==
  ASSUME ConstantsAssumption, TypeOK, NEW w \in Workers, Quits(w)
  PROVE  /\ Leaves(w)
         /\ UNCHANGED <<devices, gone, records, convs, nextId>>
         /\ faults' \in Nat /\ (faults' = faults \/ (CutShort(w) /\ faults' = faults + 1))
         /\ profiles' = profiles \/ (jobs[w].device \in devices /\ profiles' = profiles \cup {jobs[w].device})
<1>1. CASE \E request \in Asked, d \in Devices : PassGuard(w, request, d)
  BY <1>1, PassGuardFacts DEF PassGuard, TypeOK
<1>2. CASE \/ TouchDevice(w) \/ GuardedRequestFails(w)
           \/ RejectTurn(w) \/ GenerationFails(w) \/ UpsertFails(w) \/ MessageFails(w)
  <2>1. Abort(w)
    BY <1>2 DEF TouchDevice, GuardedRequestFails, RejectTurn, GenerationFails, UpsertFails, MessageFails
  <2>2. QED
    BY <2>1, FinishFacts DEF Abort, TypeOK
<1>3. CASE UpsertEducationalProfile(w)
  BY <1>3, FinishFacts DEF UpsertEducationalProfile, TypeOK
<1>4. CASE CutShort(w)
  <2>1. Finish(w) /\ faults' = faults + 1 /\ UNCHANGED <<devices, gone, profiles, records, convs, nextId>>
    BY <1>4 DEF CutShort
  <2>2. QED
    BY <1>4, <2>1, FinishFacts DEF TypeOK
<1>5. QED
  BY <1>1, <1>2, <1>3, <1>4 DEF Quits

LEMMA Steps ==
  ASSUME Next
  PROVE  \/ \E d \in Devices : Register(d)
         \/ \E r \in Records : RecordStep(r)
         \/ \E w \in Workers :
              \/ Quits(w) \/ DeleteDevice(w) \/ Starts(w) \/ CheckBinding(w) \/ ReadHistory(w)
              \/ UpsertConversation(w) \/ CreateQuestion(w) \/ CreateReply(w)
BY DEF Next, DeviceStep, ChatStep, Quits, Starts

\* A registration or a record leaves the turns and the rows alone.
LEMMA AsideFacts ==
  ASSUME TypeOK, (\E d \in Devices : Register(d)) \/ (\E r \in Records : RecordStep(r))
  PROVE  /\ UNCHANGED <<gone, profiles, convs, jobs, nextId>>
         /\ faults' \in Nat /\ (faults' = faults \/ faults' = faults + 1)
         /\ devices \subseteq devices' /\ devices' \subseteq Devices
BY DEF Register, RecordStep, RecordEvent, PersistRecord, LoseRecord, TypeOK

-----------------------------------------------------------------------------
LEMMA TypeCorrect ==
  ASSUME ConstantsAssumption, TypeOK, Next PROVE TypeOK'
<1>1. CASE (\E d \in Devices : Register(d)) \/ (\E r \in Records : RecordStep(r))
  <2>1. records' \in [Records -> Record]
    <3>1. CASE \E d \in Devices : Register(d)
      BY <3>1 DEF Register, TypeOK
    <3>2. ASSUME NEW r \in Records, NEW d \in Callers, RecordEvent(r, d) PROVE records' \in [Records -> Record]
      BY <3>2 DEF RecordEvent, TypeOK, Record
    <3>3. ASSUME NEW r \in Records, PersistRecord(r) PROVE records' \in [Records -> Record]
      <4>1. records[r] \in Record
        BY DEF TypeOK
      <4>2. Inserted(records[r]) \in Record
        BY <4>1 DEF Inserted, Record
      <4>3. QED
        BY <3>3, <4>2 DEF PersistRecord, TypeOK
    <3>4. ASSUME NEW r \in Records, LoseRecord(r) PROVE records' \in [Records -> Record]
      BY <3>4 DEF LoseRecord, TypeOK, Record
    <3>5. QED
      BY <1>1, <3>1, <3>2, <3>3, <3>4 DEF RecordStep
  <2>2. QED
    BY <1>1, <2>1, AsideFacts DEF TypeOK
<1>2. ASSUME NEW w \in Workers, Quits(w) PROVE TypeOK'
  <2>1. jobs' \in [Workers -> {Idle} \cup ChatJob \cup DeviceJob]
    BY <1>2, QuitFacts DEF Leaves
  <2>2. profiles' \subseteq Devices
    BY <1>2, QuitFacts DEF TypeOK
  <2>3. QED
    BY <1>2, <2>1, <2>2, QuitFacts DEF TypeOK
<1>3. ASSUME NEW w \in Workers, DeleteDevice(w) PROVE TypeOK'
  <2>1. jobs' \in [Workers -> {Idle} \cup ChatJob \cup DeviceJob]
    BY <1>3, DeleteFacts DEF Leaves
  <2>2. NoConversation \in Conversation
    BY EmptySeq DEF NoConversation, Conversation, Callers
  <2>3. convs' \in [Sessions -> Conversation]
    BY <1>3, <2>2, DeleteFacts DEF TypeOK
  <2>4. records' \in [Records -> Record]
    BY <1>3, DeleteFacts DEF WithoutRecordsOf, TypeOK, Record
  <2>5. QED
    BY <1>3, <2>1, <2>3, <2>4, DeleteFacts DEF TypeOK
<1>4. ASSUME NEW w \in Workers, Starts(w) PROVE TypeOK'
  <2>1. PICK s \in Sessions, d \in Callers : StartChat(w, s, d)
    BY <1>4 DEF Starts
  <2>2. DOMAIN jobs' = Workers /\ jobs' = [v \in Workers |-> jobs'[v]]
    BY <2>1 DEF StartChat, TypeOK
  <2>3. jobs' \in [Workers -> {Idle} \cup ChatJob \cup DeviceJob]
    BY <2>1, <2>2, StartFacts DEF Others, TypeOK
  <2>4. QED
    BY <2>1, <2>3, StartFacts DEF TypeOK
<1>5. ASSUME NEW w \in Workers, CheckBinding(w) \/ ReadHistory(w) PROVE TypeOK'
  <2>1. DOMAIN jobs' = Workers /\ jobs' = [v \in Workers |-> jobs'[v]]
    BY <1>5 DEF CheckBinding, ReadHistory, TypeOK
  <2>2. jobs' \in [Workers -> {Idle} \cup ChatJob \cup DeviceJob]
    BY <1>5, <2>1, CheckFacts, ReadFacts DEF Goes, Others, TypeOK
  <2>3. QED
    BY <1>5, <2>2 DEF CheckBinding, ReadHistory, TypeOK
<1>6. ASSUME NEW w \in Workers, UpsertConversation(w) PROVE TypeOK'
  <2>1. DOMAIN jobs' = Workers /\ jobs' = [v \in Workers |-> jobs'[v]]
    BY <1>6 DEF UpsertConversation, TypeOK
  <2>2. jobs' \in [Workers -> {Idle} \cup ChatJob \cup DeviceJob]
    BY <1>6, <2>1, UpsertFacts DEF Goes, Others, TypeOK
  <2>3. QED
    BY <1>6, <2>2, UpsertFacts DEF TypeOK
<1>7. ASSUME NEW w \in Workers, CreateQuestion(w) PROVE TypeOK'
  <2>1. DOMAIN jobs' = Workers /\ jobs' = [v \in Workers |-> jobs'[v]]
    BY <1>7 DEF CreateQuestion, TypeOK
  <2>2. jobs' \in [Workers -> {Idle} \cup ChatJob \cup DeviceJob]
    BY <1>7, <2>1, QuestionFacts DEF Goes, Others, TypeOK
  <2>3. convs' \in [Sessions -> Conversation]
    BY <1>7, QuestionFacts DEF Adds
  <2>4. QED
    BY <1>7, <2>2, <2>3 DEF CreateQuestion, TypeOK
<1>8. ASSUME NEW w \in Workers, CreateReply(w) PROVE TypeOK'
  <2>1. /\ jobs' \in [Workers -> {Idle} \cup ChatJob \cup DeviceJob]
        /\ convs' \in [Sessions -> Conversation]
    BY <1>8, ReplyFacts DEF Adds, Leaves
  <2>2. QED
    BY <1>8, <2>1 DEF CreateReply, TypeOK
<1>9. QED
  BY <1>1, <1>2, <1>3, <1>4, <1>5, <1>6, <1>7, <1>8, Steps

-----------------------------------------------------------------------------
LEMMA DevicesStep ==
  ASSUME ConstantsAssumption, TypeOK, DevicesFit, Next PROVE DevicesFit'
<1>1. ASSUME NEW d \in Devices, Register(d) PROVE DevicesFit'
  BY <1>1 DEF Register, DevicesFit
<1>2. ASSUME NEW r \in Records, RecordStep(r) PROVE DevicesFit'
  <2>1. UNCHANGED <<devices, gone, profiles, convs>>
    BY <1>2 DEF RecordStep, RecordEvent, PersistRecord, LoseRecord
  <2>2. \A q \in Records : records'[q].device \in gone => records'[q].state # "stored"
    <3>1. ASSUME NEW d \in Callers, RecordEvent(r, d)
          PROVE  \A q \in Records : records'[q].device \in gone => records'[q].state # "stored"
      BY <3>1 DEF RecordEvent, TypeOK, DevicesFit
    <3>2. CASE PersistRecord(r)
      <4>1. records' = [records EXCEPT ![r] = Inserted(records[r])] /\ records[r] \in Record
        BY <3>2 DEF PersistRecord, TypeOK
      <4>2. /\ Inserted(records[r]).device = records[r].device
            /\ Inserted(records[r]).state = "stored" => records[r].device \in devices \cup {None}
        BY <4>1 DEF Inserted, Record
      <4>3. None \notin gone /\ devices \cap gone = {}
        BY DEF ConstantsAssumption, TypeOK, DevicesFit
      <4>4. QED
        BY <4>1, <4>2, <4>3 DEF TypeOK, DevicesFit
    <3>3. CASE LoseRecord(r)
      <4>1. records' = [records EXCEPT ![r].state = "lost"] /\ records[r] \in Record
        BY <3>3 DEF LoseRecord, TypeOK
      <4>2. records'[r].state = "lost" /\ \A q \in Records \ {r} : records'[q] = records[q]
        BY <4>1 DEF TypeOK, Record
      <4>3. QED
        BY <4>2 DEF DevicesFit
    <3>4. QED
      BY <1>2, <3>1, <3>2, <3>3 DEF RecordStep
  <2>3. QED
    BY <2>1, <2>2 DEF DevicesFit
<1>3. ASSUME NEW w \in Workers, Quits(w) PROVE DevicesFit'
  BY <1>3, QuitFacts DEF DevicesFit
<1>4. ASSUME NEW w \in Workers, DeleteDevice(w) PROVE DevicesFit'
  <2> DEFINE d == jobs[w].device
  <2>1. /\ d \in Devices /\ devices' = devices \ {d} /\ gone' = gone \cup {d}
        /\ profiles' = profiles \ {d} /\ records' = WithoutRecordsOf(d)
        /\ \A s \in Sessions : convs'[s] = IF convs[s].device = d THEN NoConversation ELSE convs[s]
    BY <1>4, DeleteFacts
  <2> HIDE DEF d
  <2>2. \A r \in Records : records'[r].device \in gone' => records'[r].state # "stored"
    <3>1. \A r \in Records : records[r] \in Record
      BY DEF TypeOK
    <3>2. ASSUME NEW r \in Records PROVE records'[r].device \in gone' => records'[r].state # "stored"
      <4>1. CASE records[r].device = d /\ records[r].state = "stored"
        <5>1. records'[r] = [records[r] EXCEPT !.state = "erased"]
          BY <2>1, <4>1 DEF WithoutRecordsOf
        <5>2. QED
          BY <3>1, <5>1 DEF Record
      <4>2. CASE ~(records[r].device = d /\ records[r].state = "stored")
        <5>1. records'[r] = records[r]
          BY <2>1, <4>2 DEF WithoutRecordsOf
        <5>2. QED
          BY <2>1, <4>2, <5>1 DEF DevicesFit
      <4>3. QED
        BY <4>1, <4>2
    <3>3. QED
      BY <3>2
  <2>3. \A s \in Sessions : convs'[s].device \notin gone'
    BY <2>1 DEF DevicesFit, NoConversation, ConstantsAssumption, TypeOK
  <2>4. QED
    BY <2>1, <2>2, <2>3 DEF DevicesFit
<1>5. ASSUME NEW w \in Workers, Starts(w) \/ CheckBinding(w) \/ ReadHistory(w) PROVE DevicesFit'
  BY <1>5 DEF Starts, StartChat, CheckBinding, ReadHistory, DevicesFit
<1>6. ASSUME NEW w \in Workers, UpsertConversation(w) PROVE DevicesFit'
  <2>1. /\ jobs[w].session \in Sessions /\ jobs[w].device \in devices \cup {None}
        /\ convs'[jobs[w].session] = Upserted(convs[jobs[w].session], jobs[w].turn, jobs[w].device)
        /\ \A s \in Sessions \ {jobs[w].session} : convs'[s] = convs[s]
        /\ UNCHANGED <<devices, gone, profiles, records>>
    BY <1>6, UpsertFacts
  <2>2. convs'[jobs[w].session].device
          = IF jobs[w].device = None THEN convs[jobs[w].session].device ELSE jobs[w].device
    BY <2>1 DEF Upserted
  <2>3. convs'[jobs[w].session].device \notin gone
    BY <2>1, <2>2 DEF DevicesFit
  <2>4. QED
    BY <2>1, <2>3 DEF DevicesFit
<1>7. ASSUME NEW w \in Workers, CreateQuestion(w) \/ CreateReply(w) PROVE DevicesFit'
  <2>1. \A s \in Sessions : convs'[s].device = convs[s].device
    BY <1>7, QuestionFacts, ReplyFacts DEF Adds
  <2>2. QED
    BY <1>7, <2>1 DEF CreateQuestion, CreateReply, DevicesFit
<1>8. QED
  BY <1>1, <1>2, <1>3, <1>4, <1>5, <1>6, <1>7, Steps

-----------------------------------------------------------------------------
LEMMA Below == \A x, n \in Nat : x < n => x < n + 1 /\ x # n
OBVIOUS

LEMMA Numbers ==
  ASSUME TypeOK
  PROVE  /\ nextId \in Nat
         /\ \A s \in Sessions :
              /\ convs[s].id \in Nat /\ convs[s].messages \in Seq(Message)
              /\ convs[s].device \in Callers /\ convs[s].taken \in BOOLEAN
              /\ \A i \in DOMAIN convs[s].messages :
                   convs[s].messages[i] \in Message /\ convs[s].messages[i].turn \in Nat
         /\ \A w \in Workers : jobs[w].op \in Pre \cup Post =>
              /\ jobs[w].turn \in Nat /\ jobs[w].conv \in Nat /\ jobs[w].session \in Sessions
              /\ jobs[w].device \in Callers
<1>1. \A s \in Sessions : convs[s] \in Conversation
  BY DEF TypeOK
<1>2. \A s \in Sessions : convs[s].messages \in Seq(Message)
  BY <1>1 DEF Conversation
<1>3. \A s \in Sessions : \A i \in DOMAIN convs[s].messages : convs[s].messages[i] \in Message
  BY <1>2
<1>4. \A m \in Message : m.turn \in Nat
  BY DEF Message
<1>5. QED
  BY <1>1, <1>2, <1>3, <1>4, KindsOfJobs DEF TypeOK, Conversation, ChatJob

\* What is appended is the last.
LEMMA AppendedIsLast ==
  ASSUME NEW S, NEW s \in Seq(S), NEW e \in S
  PROVE  Len(s) + 1 \in DOMAIN Append(s, e) /\ Append(s, e)[Len(s) + 1] = e
OBVIOUS

\* Messages only come and go with their row, or are appended by a turn.
LEMMA AddedMessages ==
  ASSUME TypeOK, NEW w \in Workers, NEW role, Adds(w, role), NEW s \in Sessions
  PROVE  /\ convs'[s].id = convs[s].id /\ convs'[s].device = convs[s].device
         /\ convs'[s].taken = convs[s].taken
         /\ \A i \in DOMAIN convs[s].messages :
              i \in DOMAIN convs'[s].messages /\ convs'[s].messages[i] = convs[s].messages[i]
         /\ \A i \in DOMAIN convs'[s].messages :
              \/ i \in DOMAIN convs[s].messages /\ convs'[s].messages[i] = convs[s].messages[i]
              \/ s = jobs[w].session /\ convs'[s].messages[i] = Own(w, role)
<1>1. CASE s # jobs[w].session
  BY <1>1 DEF Adds
<1>2. CASE s = jobs[w].session
  <2>1. convs[s].messages \in Seq(Message)
    BY Numbers
  <2>2. /\ convs'[s].messages = Append(convs[s].messages, Own(w, role))
        /\ convs'[s].id = convs[s].id /\ convs'[s].device = convs[s].device
        /\ convs'[s].taken = convs[s].taken /\ Own(w, role) \in Message
    BY <1>2 DEF Adds
  <2>3. ASSUME NEW m \in Message, NEW q \in Seq(Message)
        PROVE  /\ \A i \in DOMAIN q : i \in DOMAIN Append(q, m) /\ Append(q, m)[i] = q[i]
               /\ \A i \in DOMAIN Append(q, m) :
                    (i \in DOMAIN q /\ Append(q, m)[i] = q[i]) \/ Append(q, m)[i] = m
    OBVIOUS
  <2>4. QED
    BY <1>2, <2>1, <2>2, <2>3
<1>3. QED
  BY <1>1, <1>2

LEMMA TurnsDifferStep ==
  ASSUME ConstantsAssumption, TypeOK, TurnsDiffer, Next PROVE TurnsDiffer'
<1>1. CASE (\E d \in Devices : Register(d)) \/ (\E r \in Records : RecordStep(r))
  BY <1>1, AsideFacts DEF TurnsDiffer
<1>2. ASSUME NEW w \in Workers, Leaves(w), nextId' = nextId,
             \A s \in Sessions : convs'[s] \in {convs[s], NoConversation}
      PROVE  TurnsDiffer'
  <2>1. \A s \in Sessions :
          /\ convs'[s].id = convs[s].id \/ convs'[s].id = 0
          /\ \A i \in DOMAIN convs'[s].messages :
               i \in DOMAIN convs[s].messages /\ convs'[s].messages[i] = convs[s].messages[i]
    BY <1>2 DEF NoConversation
  <2>2. nextId \in Nat /\ nextId # 0 /\ \A n \in Nat : n # 0 => 0 < n
    BY Numbers DEF TurnsDiffer
  <2>3. \A v \in Workers : jobs'[v].op \in Pre \cup Post => v # w /\ jobs'[v] = jobs[v]
    BY <1>2 DEF Leaves, Others
  <2>4. QED
    BY <1>2, <2>1, <2>2, <2>3 DEF TurnsDiffer, Pre, Post
<1>3. ASSUME NEW w \in Workers, Quits(w) PROVE TurnsDiffer'
  BY <1>2, <1>3, QuitFacts
<1>4. ASSUME NEW w \in Workers, DeleteDevice(w) PROVE TurnsDiffer'
  BY <1>2, <1>4, DeleteFacts
<1>5. ASSUME NEW w \in Workers, Starts(w) PROVE TurnsDiffer'
  <2>1. /\ Others(w) /\ jobs'[w].op = "resolved" /\ jobs'[w].turn = nextId
        /\ nextId' = nextId + 1 /\ convs' = convs
    BY <1>5, StartFacts DEF Starts
  <2>2. /\ nextId \in Nat /\ nextId' # 0 /\ nextId < nextId' /\ nextId # 0
        /\ \A x \in Nat : x < nextId => x < nextId' /\ x # nextId
    BY <2>1, Numbers DEF TurnsDiffer
  <2>3. \A s \in Sessions :
          /\ convs[s].id < nextId' /\ convs[s].id # nextId
          /\ \A i \in DOMAIN convs[s].messages :
               convs[s].messages[i].turn < nextId' /\ convs[s].messages[i].turn # nextId
    BY <2>2, Numbers DEF TurnsDiffer
  <2>4. \A v \in Workers :
          /\ jobs[v].op \in Pre \cup Post => jobs[v].turn < nextId' /\ jobs[v].turn # nextId
          /\ jobs[v].op \in Post => jobs[v].conv < nextId' /\ jobs[v].conv # nextId
    BY <2>2, Numbers DEF TurnsDiffer
  <2>5. QED
    BY <2>1, <2>2, <2>3, <2>4 DEF TurnsDiffer, Others, Pre, Post
<1>6. ASSUME NEW w \in Workers, CheckBinding(w) \/ ReadHistory(w) PROVE TurnsDiffer'
  <2>1. /\ Others(w) /\ jobs'[w].turn = jobs[w].turn
        /\ jobs[w].op \in Pre /\ jobs'[w].op \in Pre
    BY <1>6, CheckFacts, ReadFacts DEF Goes, Pre
  <2>2. convs' = convs /\ nextId' = nextId
    BY <1>6 DEF CheckBinding, ReadHistory
  <2>3. QED
    BY <2>1, <2>2 DEF TurnsDiffer, Others, Pre, Post
<1>7. ASSUME NEW w \in Workers, UpsertConversation(w) PROVE TurnsDiffer'
  <2> DEFINE s == jobs[w].session
  <2>1. /\ Others(w) /\ jobs'[w].turn = jobs[w].turn /\ jobs[w].op = "read"
        /\ jobs'[w].op = "upserted" /\ s \in Sessions /\ nextId' = nextId
        /\ convs'[s] = Upserted(convs[s], jobs[w].turn, jobs[w].device)
        /\ jobs'[w].conv = convs'[s].id
        /\ \A t \in Sessions \ {s} : convs'[t] = convs[t]
    BY <1>7, UpsertFacts DEF Goes
  <2> HIDE DEF s
  <2>2. /\ convs'[s].messages = convs[s].messages
        /\ convs'[s].id = IF convs[s].id = 0 THEN jobs[w].turn ELSE convs[s].id
    BY <2>1 DEF Upserted
  <2>3. /\ convs'[s].id # 0 /\ convs'[s].id < nextId
        /\ \A v \in Workers \ {w} : jobs[v].op \in Pre => jobs[v].turn # convs'[s].id
    BY <2>1, <2>2 DEF TurnsDiffer, Pre, Post
  <2>4. QED
    BY <2>1, <2>2, <2>3 DEF TurnsDiffer, Others, Pre, Post
<1>8. ASSUME NEW w \in Workers, NEW role, Adds(w, role), jobs[w].op \in Post, nextId' = nextId,
             \/ Leaves(w)
             \/ Goes(w, "asked") /\ jobs'[w].conv = jobs[w].conv
      PROVE  TurnsDiffer'
  <2>1. /\ Others(w)
        /\ jobs'[w].op \in Pre \cup Post =>
             /\ jobs'[w].op = "asked" /\ jobs'[w].turn = jobs[w].turn
             /\ jobs'[w].conv = jobs[w].conv
    BY <1>8 DEF Leaves, Goes
  <2>2. \A s \in Sessions :
          /\ convs'[s].id = convs[s].id
          /\ \A i \in DOMAIN convs'[s].messages :
               \/ i \in DOMAIN convs[s].messages /\ convs'[s].messages[i] = convs[s].messages[i]
               \/ convs'[s].messages[i].turn = jobs[w].turn
    <3>1. Own(w, role).turn = jobs[w].turn
      BY DEF Own
    <3>2. QED
      BY <1>8, <3>1, AddedMessages
  <2>3. \A s \in Sessions : \A i \in DOMAIN convs'[s].messages : convs'[s].messages[i].turn < nextId
    BY <1>8, <2>2 DEF TurnsDiffer
  <2>4. \A v \in Workers \ {w} : jobs[v].op \in Pre \cup {"upserted"} =>
          \A s \in Sessions : \A i \in DOMAIN convs'[s].messages :
            convs'[s].messages[i].turn # jobs[v].turn
    BY <1>8, <2>2 DEF TurnsDiffer, Pre, Post
  <2>5. QED
    BY <1>8, <2>1, <2>2, <2>3, <2>4 DEF TurnsDiffer, Others, Pre, Post
<1>9. ASSUME NEW w \in Workers, CreateQuestion(w) \/ CreateReply(w) PROVE TurnsDiffer'
  <2>1. nextId' = nextId
    BY <1>9 DEF CreateQuestion, CreateReply
  <2>2. QED
    BY <1>8, <1>9, <2>1, QuestionFacts, ReplyFacts DEF Post
<1>10. QED
  BY <1>1, <1>3, <1>4, <1>5, <1>6, <1>7, <1>9, Steps

-----------------------------------------------------------------------------
LEMMA RowsStep ==
  ASSUME ConstantsAssumption, TypeOK, TurnsDiffer, RowsAreOwn, Next PROVE RowsAreOwn'
<1>1. CASE (\E d \in Devices : Register(d)) \/ (\E r \in Records : RecordStep(r))
  BY <1>1, AsideFacts DEF RowsAreOwn, RowIsThere
<1>2. ASSUME NEW w \in Workers, Leaves(w),
             \A s \in Sessions : convs'[s] \in {convs[s], NoConversation}
      PROVE  RowsAreOwn'
  <2>1. \A s \in Sessions : convs'[s] = convs[s] \/ (convs'[s].id = 0 /\ convs'[s].messages = <<>>)
    BY <1>2 DEF NoConversation
  <2>2. \A v \in Workers :
          /\ jobs'[v].op \in Pre \cup Post => v # w /\ jobs'[v] = jobs[v]
          /\ jobs[v].op \in Post => jobs[v].conv # 0 /\ jobs[v].session \in Sessions
    BY <1>2, Numbers DEF Leaves, Others, TurnsDiffer
  <2>3. \A v \in Workers : jobs'[v].op \in {"checked", "read"} =>
          jobs'[v].seen \in {None, jobs'[v].device}
    BY <2>2 DEF RowsAreOwn, Pre
  <2>4. \A v \in Workers : (jobs'[v].op \in Post /\ RowIsThere(v)') =>
          convs'[jobs'[v].session] = convs[jobs[v].session] /\ RowIsThere(v)
    BY <2>1, <2>2 DEF RowIsThere
  <2>5. QED
    BY <2>1, <2>2, <2>3, <2>4 DEF RowsAreOwn
<1>3. ASSUME NEW w \in Workers, Quits(w) PROVE RowsAreOwn'
  BY <1>2, <1>3, QuitFacts
<1>4. ASSUME NEW w \in Workers, DeleteDevice(w) PROVE RowsAreOwn'
  BY <1>2, <1>4, DeleteFacts
<1>5. ASSUME NEW w \in Workers, Starts(w) PROVE RowsAreOwn'
  <2>1. Others(w) /\ jobs'[w].op = "resolved" /\ convs' = convs
    BY <1>5, StartFacts DEF Starts
  <2>2. QED
    BY <2>1 DEF RowsAreOwn, RowIsThere, Others, Post
<1>6. ASSUME NEW w \in Workers, CheckBinding(w) \/ ReadHistory(w) PROVE RowsAreOwn'
  <2>1. /\ Others(w) /\ jobs'[w].op \in {"checked", "read"} /\ jobs'[w].device = jobs[w].device
        /\ jobs'[w].seen \in {None, jobs[w].device}
    BY <1>6, CheckFacts, ReadFacts DEF Goes, RowsAreOwn
  <2>2. convs' = convs
    BY <1>6 DEF CheckBinding, ReadHistory
  <2>3. QED
    BY <2>1, <2>2 DEF RowsAreOwn, RowIsThere, Others, Post
<1>7. ASSUME NEW w \in Workers, UpsertConversation(w) PROVE RowsAreOwn'
  <2> DEFINE s == jobs[w].session
             d == jobs[w].device
  <2>1. /\ Others(w) /\ jobs[w].op = "read"
        /\ jobs'[w].op = "upserted" /\ jobs'[w].session = s /\ jobs'[w].device = d
        /\ s \in Sessions
        /\ convs'[s] = Upserted(convs[s], jobs[w].turn, d)
        /\ \A t \in Sessions \ {s} : convs'[t] = convs[t]
    BY <1>7, UpsertFacts DEF Goes
  <2> HIDE DEF s, d
  <2>2. /\ convs'[s].messages = convs[s].messages
        /\ convs'[s].id = IF convs[s].id = 0 THEN jobs[w].turn ELSE convs[s].id
        /\ convs'[s].device = IF d = None THEN convs[s].device ELSE d
        /\ convs'[s].taken = (convs[s].taken \/ (convs[s].device # None /\ d \notin {None, convs[s].device}))
    BY <2>1 DEF Upserted
  <2>3. ~convs'[s].taken =>
          /\ ~convs[s].taken
          /\ {None, convs[s].device} \subseteq {None, convs'[s].device}
          /\ d \in {None, convs'[s].device}
    BY <2>2
  <2>4. ASSUME NEW v \in Workers \ {w}, jobs[v].op \in Post, jobs[v].session = s,
               convs'[s].id = jobs[v].conv
        PROVE  convs[s].id = jobs[v].conv
    BY <2>1, <2>2, <2>4 DEF TurnsDiffer, Pre
  <2>5. \A t \in Sessions : ~convs'[t].taken =>
          \A i \in DOMAIN convs'[t].messages : convs'[t].messages[i].device \in {None, convs'[t].device}
    BY <2>1, <2>2, <2>3 DEF RowsAreOwn
  <2>6. ASSUME NEW v \in Workers \ {w}, jobs[v].op \in Post, RowIsThere(v)',
               ~convs'[jobs[v].session].taken
        PROVE  jobs[v].device \in {None, convs'[jobs[v].session].device}
    <3>1. jobs'[v] = jobs[v] /\ jobs[v].session \in Sessions
      BY <2>1, <2>6, Numbers DEF Others
    <3>2. CASE jobs[v].session = s
      BY <2>3, <2>4, <2>6, <3>1, <3>2 DEF RowsAreOwn, RowIsThere
    <3>3. CASE jobs[v].session # s
      BY <2>1, <2>6, <3>1, <3>3 DEF RowsAreOwn, RowIsThere
    <3>4. QED
      BY <3>2, <3>3
  <2>7. QED
    BY <2>1, <2>3, <2>5, <2>6 DEF RowsAreOwn, Others, Post
<1>8. ASSUME NEW w \in Workers, NEW role, Adds(w, role), jobs[w].op \in Post,
             \/ Leaves(w)
             \/ Goes(w, "asked") /\ jobs'[w].conv = jobs[w].conv
      PROVE  RowsAreOwn'
  <2>1. /\ Others(w)
        /\ jobs'[w].op \in Pre \cup Post =>
             /\ jobs'[w].op = "asked" /\ jobs'[w].session = jobs[w].session
             /\ jobs'[w].device = jobs[w].device /\ jobs'[w].conv = jobs[w].conv
    BY <1>8 DEF Leaves, Goes
  <2>2. \A v \in Workers : jobs[v].op \in Post => jobs[v].session \in Sessions
    BY Numbers
  <2>3. RowIsThere(w) /\ Own(w, role).device = jobs[w].device
    BY <1>8 DEF Adds, Own
  <2>4. \A s \in Sessions :
          /\ convs'[s].id = convs[s].id /\ convs'[s].device = convs[s].device
          /\ convs'[s].taken = convs[s].taken
          /\ \A i \in DOMAIN convs'[s].messages :
               \/ i \in DOMAIN convs[s].messages /\ convs'[s].messages[i] = convs[s].messages[i]
               \/ s = jobs[w].session /\ convs'[s].messages[i].device = jobs[w].device
    BY <1>8, <2>3, AddedMessages
  <2>5. \A s \in Sessions : ~convs'[s].taken =>
          \A i \in DOMAIN convs'[s].messages : convs'[s].messages[i].device \in {None, convs'[s].device}
    BY <1>8, <2>3, <2>4 DEF RowsAreOwn
  <2>6. \A v \in Workers : (jobs'[v].op \in Post /\ RowIsThere(v)') =>
          /\ RowIsThere(v) /\ jobs[v].op \in Post /\ jobs'[v].session = jobs[v].session
          /\ jobs'[v].device = jobs[v].device /\ jobs[v].session \in Sessions
    BY <1>8, <2>1, <2>2, <2>4 DEF RowIsThere, Others
  <2>7. \A v \in Workers : jobs'[v].op \in {"checked", "read"} =>
          jobs'[v].seen \in {None, jobs'[v].device}
    BY <2>1 DEF RowsAreOwn, Others, Pre, Post
  <2>8. QED
    BY <2>4, <2>5, <2>6, <2>7 DEF RowsAreOwn
<1>9. ASSUME NEW w \in Workers, CreateQuestion(w) \/ CreateReply(w) PROVE RowsAreOwn'
  BY <1>8, <1>9, QuestionFacts, ReplyFacts DEF Post
<1>10. QED
  BY <1>1, <1>3, <1>4, <1>5, <1>6, <1>7, <1>9, Steps

LEMMA HistoryStep ==
  ASSUME ConstantsAssumption, TypeOK, RowsAreOwn, HistoryIsOwn, Next PROVE HistoryIsOwn'
<1> DEFINE Later == {"read", "upserted", "asked"}
<1>1. CASE (\E d \in Devices : Register(d)) \/ (\E r \in Records : RecordStep(r))
  BY <1>1, AsideFacts DEF HistoryIsOwn
<1>2. ASSUME NEW w \in Workers, Others(w),
             \/ jobs'[w].op \notin Later
             \/ /\ jobs[w].op \in Later /\ jobs'[w].device = jobs[w].device
                /\ jobs'[w].owner = jobs[w].owner /\ jobs'[w].seen = jobs[w].seen
                /\ jobs'[w].memory = jobs[w].memory /\ jobs'[w].handedOn = jobs[w].handedOn
      PROVE  HistoryIsOwn'
  BY <1>2 DEF HistoryIsOwn, Others
<1>3. ASSUME NEW w \in Workers, Quits(w) \/ DeleteDevice(w) \/ CreateReply(w) PROVE HistoryIsOwn'
  <2>1. Leaves(w)
    BY <1>3, QuitFacts, DeleteFacts, ReplyFacts
  <2>2. QED
    BY <1>2, <2>1 DEF Leaves, Pre, Post
<1>4. ASSUME NEW w \in Workers, Starts(w) \/ CheckBinding(w) PROVE HistoryIsOwn'
  <2>1. Others(w) /\ jobs'[w].op \notin Later
    BY <1>4, StartFacts, CheckFacts DEF Starts, Goes
  <2>2. QED
    BY <1>2, <2>1
<1>5. ASSUME NEW w \in Workers, UpsertConversation(w) \/ CreateQuestion(w) PROVE HistoryIsOwn'
  BY <1>2, <1>5, UpsertFacts, QuestionFacts DEF Goes
<1>6. ASSUME NEW w \in Workers, ReadHistory(w) PROVE HistoryIsOwn'
  <2> DEFINE c == convs[jobs[w].session]
  <2>1. /\ Others(w) /\ jobs'[w].device = jobs[w].device /\ jobs[w].op = "checked"
        /\ jobs'[w].seen = jobs[w].seen /\ jobs'[w].owner = c.device
        /\ jobs'[w].memory = RecentAuthors(c.messages) /\ jobs'[w].handedOn = c.taken
    BY <1>6, ReadFacts DEF Goes
  <2>2. jobs[w].session \in Sessions /\ jobs[w].seen \in {None, jobs[w].device}
    BY <2>1, Numbers DEF RowsAreOwn, Pre
  <2>3. c.messages \in Seq(Message)
    BY <2>2, Numbers
  <2>4. ~c.taken => RecentAuthors(c.messages) \subseteq {None, c.device}
    BY <2>2, <2>3 DEF RecentAuthors, RowsAreOwn
  <2>5. \/ jobs'[w].memory \subseteq {None, jobs'[w].device}
        \/ jobs'[w].owner # jobs'[w].seen
        \/ jobs'[w].handedOn
    BY <2>1, <2>2, <2>4
  <2>6. QED
    BY <2>1, <2>5 DEF HistoryIsOwn, Others
<1>7. QED
  BY <1>1, <1>3, <1>4, <1>5, <1>6, Steps

\* Only the write of a turn binds a row, and its check had not seen this device.
LEMMA HandsStep ==
  ASSUME ConstantsAssumption, TypeOK, RowsAreOwn, Next PROVE HandsChangeLate
<1>1. SUFFICES ASSUME NEW s \in Sessions, convs[s].device # None,
                      convs'[s].device \notin {convs[s].device, None}
               PROVE  \E w \in Workers :
                        /\ jobs[w].op = "read" /\ jobs[w].session = s
                        /\ jobs[w].device = convs'[s].device
                        /\ jobs[w].seen # convs[s].device
  BY DEF HandsChangeLate
<1>2. ~((\E d \in Devices : Register(d)) \/ (\E r \in Records : RecordStep(r)))
  BY <1>1, AsideFacts
<1>3. \A w \in Workers : ~(Quits(w) \/ DeleteDevice(w))
  BY <1>1, QuitFacts, DeleteFacts DEF NoConversation
<1>4. \A w \in Workers : ~(Starts(w) \/ CheckBinding(w) \/ ReadHistory(w))
  BY <1>1 DEF Starts, StartChat, CheckBinding, ReadHistory
<1>5. \A w \in Workers : ~(CreateQuestion(w) \/ CreateReply(w))
  BY <1>1, QuestionFacts, ReplyFacts DEF Adds
<1>6. PICK w \in Workers : UpsertConversation(w)
  BY <1>2, <1>3, <1>4, <1>5, Steps
<1>7. /\ jobs[w].op = "read"
      /\ convs'[jobs[w].session] = Upserted(convs[jobs[w].session], jobs[w].turn, jobs[w].device)
      /\ \A t \in Sessions \ {jobs[w].session} : convs'[t] = convs[t]
  BY <1>6, UpsertFacts
<1>8. jobs[w].session = s
  BY <1>1, <1>7
<1>9. convs'[s].device = IF jobs[w].device = None THEN convs[s].device ELSE jobs[w].device
  BY <1>7, <1>8 DEF Upserted
<1>10. QED
  BY <1>1, <1>7, <1>8, <1>9 DEF RowsAreOwn

-----------------------------------------------------------------------------
LEMMA QuestionsStep ==
  ASSUME ConstantsAssumption, TypeOK, TurnsDiffer, QuestionsAreThere, Next PROVE QuestionsAreThere'
<1>1. CASE (\E d \in Devices : Register(d)) \/ (\E r \in Records : RecordStep(r))
  BY <1>1, AsideFacts DEF QuestionsAreThere, RowIsThere, Own
<1>2. ASSUME NEW w \in Workers, Leaves(w),
             \A s \in Sessions : convs'[s] \in {convs[s], NoConversation}
      PROVE  QuestionsAreThere'
  <2>1. \A s \in Sessions : convs'[s] = convs[s] \/ (convs'[s].id = 0 /\ DOMAIN convs'[s].messages = {})
    BY <1>2 DEF NoConversation
  <2>2. \A v \in Workers : jobs'[v].op = "asked" =>
          /\ v # w /\ jobs'[v] = jobs[v] /\ jobs[v].conv # 0 /\ jobs[v].session \in Sessions
    BY <1>2, Numbers DEF Leaves, Others, TurnsDiffer, Post
  <2>3. ASSUME NEW v \in Workers, jobs'[v].op = "asked", RowIsThere(v)'
        PROVE  \E i \in DOMAIN convs'[jobs'[v].session].messages :
                 convs'[jobs'[v].session].messages[i] = Own(v, "user")'
    <3>1. convs'[jobs[v].session] = convs[jobs[v].session] /\ RowIsThere(v)
      BY <2>1, <2>2, <2>3 DEF RowIsThere
    <3>2. QED
      BY <2>2, <2>3, <3>1 DEF QuestionsAreThere, Own
  <2>4. ASSUME NEW v \in Workers, jobs'[v].op = "asked",
               NEW s \in Sessions, NEW i \in DOMAIN convs'[s].messages,
               convs'[s].messages[i].turn = jobs'[v].turn
        PROVE  s = jobs'[v].session /\ RowIsThere(v)'
    <3>1. convs'[s] = convs[s]
      BY <2>1, <2>4
    <3>2. s = jobs[v].session /\ RowIsThere(v)
      BY <2>2, <2>4, <3>1 DEF QuestionsAreThere
    <3>3. QED
      BY <2>2, <2>4, <3>1, <3>2 DEF RowIsThere
  <2>5. QED
    BY <2>3, <2>4 DEF QuestionsAreThere
<1>3. ASSUME NEW w \in Workers, Quits(w) \/ DeleteDevice(w) PROVE QuestionsAreThere'
  BY <1>2, <1>3, QuitFacts, DeleteFacts
<1>4. ASSUME NEW w \in Workers, Starts(w) \/ CheckBinding(w) \/ ReadHistory(w) PROVE QuestionsAreThere'
  <2>1. Others(w) /\ jobs'[w].op # "asked"
    BY <1>4, StartFacts, CheckFacts, ReadFacts DEF Starts, Goes
  <2>2. convs' = convs
    BY <1>4 DEF Starts, StartChat, CheckBinding, ReadHistory
  <2>3. QED
    BY <2>1, <2>2 DEF QuestionsAreThere, RowIsThere, Own, Others
<1>5. ASSUME NEW w \in Workers, UpsertConversation(w) PROVE QuestionsAreThere'
  <2> DEFINE s == jobs[w].session
  <2>1. /\ Others(w) /\ jobs[w].op = "read" /\ jobs'[w].op # "asked" /\ s \in Sessions
        /\ convs'[s] = Upserted(convs[s], jobs[w].turn, jobs[w].device)
        /\ \A t \in Sessions \ {s} : convs'[t] = convs[t]
    BY <1>5, UpsertFacts DEF Goes
  <2> HIDE DEF s
  <2>2. /\ convs'[s].messages = convs[s].messages
        /\ convs'[s].id = IF convs[s].id = 0 THEN jobs[w].turn ELSE convs[s].id
    BY <2>1 DEF Upserted
  <2>3. \A t \in Sessions : convs'[t].messages = convs[t].messages
    BY <2>1, <2>2
  <2>4. ASSUME NEW v \in Workers, jobs'[v].op = "asked"
        PROVE  /\ jobs'[v] = jobs[v] /\ RowIsThere(v)' = RowIsThere(v)
               /\ jobs[v].session \in Sessions
    <3>1. v # w /\ jobs'[v] = jobs[v] /\ jobs[v].session \in Sessions /\ jobs[v].conv # 0
      BY <2>1, <2>4, Numbers DEF Others, TurnsDiffer, Post
    <3>2. jobs[w].turn # jobs[v].conv
      BY <2>1, <2>4, <3>1 DEF TurnsDiffer, Pre, Post
    <3>3. QED
      BY <2>1, <2>2, <3>1, <3>2 DEF RowIsThere
  <2>5. QED
    BY <2>3, <2>4 DEF QuestionsAreThere, Own
<1>6. ASSUME NEW w \in Workers, NEW role, Adds(w, role), jobs[w].op \in Post,
             \/ Leaves(w)
             \/ /\ Goes(w, "asked") /\ jobs'[w].conv = jobs[w].conv
                /\ jobs[w].op = "upserted" /\ role = "user"
      PROVE  QuestionsAreThere'
  <2> DEFINE s == jobs[w].session
  <2>1. s \in Sessions /\ RowIsThere(w) /\ Others(w) /\ Own(w, role).turn = jobs[w].turn
    BY <1>6 DEF Adds, Leaves, Goes, Own
  <2>2. ASSUME NEW v \in Workers \ {w}, jobs'[v].op = "asked"
        PROVE  /\ jobs'[v] = jobs[v] /\ jobs[v].turn # jobs[w].turn
               /\ jobs[v].session \in Sessions /\ RowIsThere(v)' = RowIsThere(v)
    <3>1. jobs'[v] = jobs[v] /\ jobs[v].session \in Sessions
      BY <2>1, <2>2, Numbers DEF Others, Post
    <3>2. jobs[v].turn # jobs[w].turn
      BY <1>6, <2>2, <3>1 DEF TurnsDiffer, Post
    <3>3. QED
      BY <1>6, <3>1, <3>2, AddedMessages DEF RowIsThere
  <2>3. ASSUME NEW v \in Workers \ {w}, jobs'[v].op = "asked", RowIsThere(v)'
        PROVE  \E i \in DOMAIN convs'[jobs'[v].session].messages :
                 convs'[jobs'[v].session].messages[i] = Own(v, "user")'
    <3>1. PICK i \in DOMAIN convs[jobs[v].session].messages :
            convs[jobs[v].session].messages[i] = Own(v, "user")
      BY <2>2, <2>3 DEF QuestionsAreThere
    <3>2. Own(v, "user")' = Own(v, "user")
      BY <2>2, <2>3 DEF Own
    <3>3. QED
      BY <1>6, <2>2, <2>3, <3>1, <3>2, AddedMessages
  <2>4. ASSUME NEW v \in Workers \ {w}, jobs'[v].op = "asked",
               NEW t \in Sessions, NEW i \in DOMAIN convs'[t].messages,
               convs'[t].messages[i].turn = jobs'[v].turn
        PROVE  t = jobs'[v].session /\ RowIsThere(v)'
    <3>1. i \in DOMAIN convs[t].messages /\ convs'[t].messages[i] = convs[t].messages[i]
      BY <1>6, <2>1, <2>2, <2>4, AddedMessages
    <3>2. QED
      BY <2>2, <2>4, <3>1 DEF QuestionsAreThere
  <2>5. ASSUME jobs'[w].op = "asked"
        PROVE  /\ RowIsThere(w)'
               /\ \E i \in DOMAIN convs'[jobs'[w].session].messages :
                    convs'[jobs'[w].session].messages[i] = Own(w, "user")'
               /\ \A t \in Sessions : \A i \in DOMAIN convs'[t].messages :
                    convs'[t].messages[i].turn = jobs'[w].turn => t = jobs'[w].session
    <3>1. /\ jobs'[w].session = s /\ jobs'[w].turn = jobs[w].turn /\ jobs'[w].device = jobs[w].device
          /\ jobs'[w].conv = jobs[w].conv /\ jobs[w].op = "upserted" /\ role = "user"
      BY <1>6, <2>5 DEF Leaves, Goes, Post
    <3>2. RowIsThere(w)'
      BY <1>6, <2>1, <3>1, AddedMessages DEF RowIsThere
    <3>3. convs[s].messages \in Seq(Message) /\ Own(w, role) \in Message
      BY <1>6, <2>1, Numbers DEF Adds
    <3>4. convs'[s].messages = Append(convs[s].messages, Own(w, role))
      BY <1>6 DEF Adds
    <3>5. /\ Len(convs[s].messages) + 1 \in DOMAIN convs'[s].messages
          /\ convs'[s].messages[Len(convs[s].messages) + 1] = Own(w, role)
      BY <3>3, <3>4, AppendedIsLast
    <3>6. Own(w, "user")' = Own(w, role)
      BY <3>1 DEF Own
    <3>7. \A t \in Sessions : \A i \in DOMAIN convs'[t].messages :
            convs'[t].messages[i].turn = jobs[w].turn => t = s
      BY <1>6, <2>1, <3>1, AddedMessages DEF TurnsDiffer
    <3>8. QED
      BY <3>1, <3>2, <3>5, <3>6, <3>7
  <2>6. QED
    BY <2>3, <2>4, <2>5 DEF QuestionsAreThere
<1>7. ASSUME NEW w \in Workers, CreateQuestion(w) \/ CreateReply(w) PROVE QuestionsAreThere'
  BY <1>6, <1>7, QuestionFacts, ReplyFacts DEF Post
<1>8. QED
  BY <1>1, <1>3, <1>4, <1>5, <1>7, Steps

-----------------------------------------------------------------------------
(* Questions without a reply.                                              *)

LEMMA AppendIndices ==
  ASSUME NEW q \in Seq(Message), NEW m \in Message
  PROVE  /\ DOMAIN q = 1..Len(q) /\ Len(q) \in Nat
         /\ DOMAIN Append(q, m) = 1..(Len(q) + 1)
         /\ \A i \in DOMAIN q : i \in DOMAIN Append(q, m) /\ Append(q, m)[i] = q[i]
         /\ Append(q, m)[Len(q) + 1] = m
         /\ \A i \in DOMAIN Append(q, m) :
              (i \in DOMAIN q /\ Append(q, m)[i] = q[i]) \/ (i = Len(q) + 1 /\ Append(q, m)[i] = m)
OBVIOUS

\* A question closes no reply, and one of a turn that will reply is not open.
LEMMA OpenAfterQuestion ==
  ASSUME NEW q \in Seq(Message), NEW m \in Message, m.role = "user", NEW A
  PROVE  Open(Append(q, m), A \cup {m.turn}) \subseteq Open(q, A)
<1>1. SUFFICES ASSUME NEW i \in DOMAIN Append(q, m), Append(q, m)[i].role = "user",
                      \A k \in DOMAIN Append(q, m) :
                        Append(q, m)[k].role = "assistant" => Append(q, m)[k].turn # Append(q, m)[i].turn,
                      Append(q, m)[i].turn \notin A \cup {m.turn}
               PROVE  Append(q, m)[i].turn \in Open(q, A)
  BY DEF Open
<1>2. i \in DOMAIN q /\ Append(q, m)[i] = q[i]
  BY <1>1, AppendIndices
<1>3. \A k \in DOMAIN q : q[k].role = "assistant" => q[k].turn # q[i].turn
  BY <1>1, <1>2, AppendIndices
<1>4. QED
  BY <1>1, <1>2, <1>3 DEF Open

\* A reply closes the question of its turn.
LEMMA OpenAfterReply ==
  ASSUME NEW q \in Seq(Message), NEW m \in Message, m.role = "assistant", NEW A
  PROVE  Open(Append(q, m), A \ {m.turn}) \subseteq Open(q, A)
<1>1. SUFFICES ASSUME NEW i \in DOMAIN Append(q, m), Append(q, m)[i].role = "user",
                      \A k \in DOMAIN Append(q, m) :
                        Append(q, m)[k].role = "assistant" => Append(q, m)[k].turn # Append(q, m)[i].turn,
                      Append(q, m)[i].turn \notin A \ {m.turn}
               PROVE  Append(q, m)[i].turn \in Open(q, A)
  BY DEF Open
<1>2. i \in DOMAIN q /\ Append(q, m)[i] = q[i]
  BY <1>1, AppendIndices
<1>3. \A k \in DOMAIN q : q[k].role = "assistant" => q[k].turn # q[i].turn
  BY <1>1, <1>2, AppendIndices
<1>4. q[i].turn # m.turn
  <2>1. Len(q) + 1 \in DOMAIN Append(q, m) /\ Append(q, m)[Len(q) + 1] = m
    BY AppendIndices
  <2>2. QED
    BY <1>1, <1>2, <2>1
<1>5. QED
  BY <1>1, <1>2, <1>3, <1>4 DEF Open

\* A turn that will not reply any more leaves its own question open, if there is one.
LEMMA OpenAfterLeaving ==
  ASSUME NEW q, NEW A, NEW t
  PROVE  /\ Open(q, A \ {t}) \subseteq Open(q, A) \cup {t}
         /\ (\A i \in DOMAIN q : q[i].turn # t) => Open(q, A \ {t}) \subseteq Open(q, A)
BY DEF Open

LEMMA OpenShrinks ==
  ASSUME NEW q, NEW A, NEW t PROVE Open(q, A \cup {t}) \subseteq Open(q, A)
BY DEF Open

LEMMA RepliesAppend ==
  ASSUME NEW q \in Seq(Message), NEW m \in Message, RepliesFollow(q),
         m.role = "assistant" => \E i \in DOMAIN q : q[i] = [m EXCEPT !.role = "user"]
  PROVE  RepliesFollow(Append(q, m))
<1>1. SUFFICES ASSUME NEW k \in DOMAIN Append(q, m), Append(q, m)[k].role = "assistant"
               PROVE  \E i \in 1..(k - 1) :
                        Append(q, m)[i] = [Append(q, m)[k] EXCEPT !.role = "user"]
  BY DEF RepliesFollow
<1>2. CASE k \in DOMAIN q
  <2>1. Append(q, m)[k] = q[k]
    BY <1>2, AppendIndices
  <2>2. PICK i \in 1..(k - 1) : q[i] = [q[k] EXCEPT !.role = "user"]
    BY <1>1, <1>2, <2>1 DEF RepliesFollow
  <2>3. i \in DOMAIN q
    BY <1>2, <2>2, AppendIndices
  <2>4. QED
    BY <2>1, <2>2, <2>3, AppendIndices
<1>3. CASE k \notin DOMAIN q
  <2>1. k = Len(q) + 1 /\ Append(q, m)[k] = m
    BY <1>3, AppendIndices
  <2>2. PICK i \in DOMAIN q : q[i] = [m EXCEPT !.role = "user"]
    BY <1>1, <2>1
  <2>3. i \in 1..(k - 1)
    BY <2>1, <2>2, AppendIndices
  <2>4. QED
    BY <2>1, <2>2, <2>3, AppendIndices
<1>4. QED
  BY <1>2, <1>3

LEMMA RepliesStep ==
  ASSUME ConstantsAssumption, TypeOK, QuestionsAreThere, Next,
         \A s \in Sessions : RepliesFollow(convs[s].messages)
  PROVE  \A s \in Sessions : RepliesFollow(convs'[s].messages)
<1>1. CASE (\E d \in Devices : Register(d)) \/ (\E r \in Records : RecordStep(r))
  BY <1>1, AsideFacts
<1>2. ASSUME NEW w \in Workers, Quits(w) \/ DeleteDevice(w)
      PROVE  \A s \in Sessions : RepliesFollow(convs'[s].messages)
  <2>1. RepliesFollow(<<>>)
    BY DEF RepliesFollow
  <2>2. \A s \in Sessions : convs'[s] \in {convs[s], NoConversation}
    BY <1>2, QuitFacts, DeleteFacts
  <2>3. QED
    BY <2>1, <2>2 DEF NoConversation
<1>3. ASSUME NEW w \in Workers, Starts(w) \/ CheckBinding(w) \/ ReadHistory(w)
      PROVE  \A s \in Sessions : RepliesFollow(convs'[s].messages)
  BY <1>3 DEF Starts, StartChat, CheckBinding, ReadHistory
<1>4. ASSUME NEW w \in Workers, UpsertConversation(w)
      PROVE  \A s \in Sessions : RepliesFollow(convs'[s].messages)
  <2>1. /\ convs'[jobs[w].session] = Upserted(convs[jobs[w].session], jobs[w].turn, jobs[w].device)
        /\ \A s \in Sessions \ {jobs[w].session} : convs'[s] = convs[s]
    BY <1>4, UpsertFacts
  <2>2. convs'[jobs[w].session].messages = convs[jobs[w].session].messages
    BY <2>1 DEF Upserted
  <2>3. QED
    BY <2>1, <2>2
<1>5. ASSUME NEW w \in Workers, NEW role \in {"user", "assistant"}, Adds(w, role),
             role = "assistant" => jobs[w].op = "asked"
      PROVE  \A s \in Sessions : RepliesFollow(convs'[s].messages)
  <2> DEFINE s == jobs[w].session
             q == convs[s].messages
             m == Own(w, role)
  <2>1. s \in Sessions /\ RowIsThere(w) /\ convs'[s].messages = Append(q, m) /\ m \in Message
    BY <1>5 DEF Adds
  <2>2. q \in Seq(Message)
    BY <2>1, Numbers
  <2>3. m.role = role /\ [m EXCEPT !.role = "user"] = Own(w, "user")
    BY DEF Own
  <2>4. m.role = "assistant" => \E i \in DOMAIN q : q[i] = [m EXCEPT !.role = "user"]
    BY <1>5, <2>1, <2>3 DEF QuestionsAreThere
  <2>5. RepliesFollow(q)
    BY <2>1
  <2> HIDE DEF q, m
  <2>6. RepliesFollow(Append(q, m))
    BY <2>1, <2>2, <2>4, <2>5, RepliesAppend
  <2>7. \A t \in Sessions \ {s} : convs'[t] = convs[t]
    BY <1>5 DEF Adds
  <2>8. QED
    BY <2>1, <2>6, <2>7
<1>6. ASSUME NEW w \in Workers, CreateQuestion(w) \/ CreateReply(w)
      PROVE  \A s \in Sessions : RepliesFollow(convs'[s].messages)
  BY <1>5, <1>6, QuestionFacts, ReplyFacts
<1>7. QED
  BY <1>1, <1>2, <1>3, <1>4, <1>5, <1>6, Steps

\* The turns that are about to reply, after a step of w.
LEMMA AskedAfter ==
  ASSUME TypeOK, TurnsDiffer, NEW w \in Workers, Others(w)
  PROVE  /\ (jobs[w].op # "asked" /\ jobs'[w].op # "asked") => AskedTurns' = AskedTurns
         /\ (jobs[w].op = "asked" /\ jobs'[w].op # "asked") => AskedTurns' = AskedTurns \ {jobs[w].turn}
         /\ (jobs[w].op # "asked" /\ jobs'[w].op = "asked") => AskedTurns' = AskedTurns \cup {jobs'[w].turn}
<1>1. (jobs[w].op # "asked" /\ jobs'[w].op # "asked") => AskedTurns' = AskedTurns
  BY DEF AskedTurns, Others
<1>2. (jobs[w].op # "asked" /\ jobs'[w].op = "asked") => AskedTurns' = AskedTurns \cup {jobs'[w].turn}
  BY DEF AskedTurns, Others
<1>3. ASSUME jobs[w].op = "asked", jobs'[w].op # "asked" PROVE AskedTurns' = AskedTurns \ {jobs[w].turn}
  <2>1. \A v \in Workers \ {w} : jobs[v].op = "asked" => jobs[v].turn # jobs[w].turn
    BY <1>3 DEF TurnsDiffer, Post
  <2>2. QED
    BY <1>3, <2>1 DEF AskedTurns, Others
<1>4. QED
  BY <1>1, <1>2, <1>3

\* No step opens a question but a fault, which opens one.
LEMMA OpenStep ==
  ASSUME ConstantsAssumption, TypeOK, TurnsDiffer, QuestionsAreThere, Next
  PROVE  /\ faults' \in Nat
         /\ \/ OpenTurns' \subseteq OpenTurns /\ (faults' = faults \/ faults' = faults + 1)
            \/ \E t : OpenTurns' \subseteq OpenTurns \cup {t} /\ faults' = faults + 1
<1>1. CASE (\E d \in Devices : Register(d)) \/ (\E r \in Records : RecordStep(r))
  <2>1. OpenTurns' = OpenTurns
    BY <1>1, AsideFacts DEF OpenTurns, AskedTurns
  <2>2. QED
    BY <1>1, <2>1, AsideFacts
<1>2. ASSUME NEW w \in Workers, AskedTurns' = AskedTurns,
             \A s \in Sessions : convs'[s].messages \in {convs[s].messages, <<>>}
      PROVE  OpenTurns' \subseteq OpenTurns
  <2>1. \A A : Open(<<>>, A) = {}
    BY DEF Open
  <2>2. QED
    BY <1>2, <2>1 DEF OpenTurns
<1>3. ASSUME NEW w \in Workers, Quits(w)
      PROVE  /\ faults' \in Nat
             /\ \/ OpenTurns' \subseteq OpenTurns /\ (faults' = faults \/ faults' = faults + 1)
                \/ \E t : OpenTurns' \subseteq OpenTurns \cup {t} /\ faults' = faults + 1
  <2>1. /\ Others(w) /\ jobs'[w].op # "asked" /\ convs' = convs /\ faults' \in Nat
        /\ faults' = faults \/ (CutShort(w) /\ faults' = faults + 1)
    BY <1>3, QuitFacts DEF Leaves, Post
  <2>2. CASE jobs[w].op # "asked"
    <3>1. AskedTurns' = AskedTurns
      BY <2>1, <2>2, AskedAfter
    <3>2. QED
      BY <1>2, <2>1, <3>1
  <2>3. CASE jobs[w].op = "asked"
    <3>1. AskedTurns' = AskedTurns \ {jobs[w].turn}
      BY <2>1, <2>3, AskedAfter
    <3>2. CASE CutShort(w)
      <4>1. faults' = faults + 1
        BY <3>2 DEF CutShort
      <4>2. \A s \in Sessions :
              Open(convs[s].messages, AskedTurns') \subseteq Open(convs[s].messages, AskedTurns) \cup {jobs[w].turn}
        BY <3>1, OpenAfterLeaving
      <4>3. \A s \in Sessions : convs'[s].messages = convs[s].messages
        BY <2>1
      <4>4. OpenTurns' \subseteq OpenTurns \cup {jobs[w].turn}
        BY <4>2, <4>3 DEF OpenTurns
      <4>5. QED
        BY <2>1, <4>1, <4>4
    <3>3. CASE MessageFails(w)
      <4>1. \A s \in Sessions : \A i \in DOMAIN convs[s].messages :
              convs[s].messages[i].turn # jobs[w].turn
        BY <2>3, <3>3 DEF MessageFails, QuestionsAreThere
      <4>2. \A s \in Sessions :
              Open(convs[s].messages, AskedTurns') \subseteq Open(convs[s].messages, AskedTurns)
        BY <3>1, <4>1, OpenAfterLeaving
      <4>3. \A s \in Sessions : convs'[s].messages = convs[s].messages
        BY <2>1
      <4>4. OpenTurns' \subseteq OpenTurns
        BY <4>2, <4>3 DEF OpenTurns
      <4>5. QED
        BY <2>1, <4>4
    <3>4. CutShort(w) \/ MessageFails(w)
      BY <1>3, <2>3 DEF Quits, PassGuard, TouchDevice, UpsertEducationalProfile, GuardedRequestFails,
         RejectTurn, GenerationFails, UpsertFails, DeviceRequests, Idle
    <3>5. QED
      BY <3>2, <3>3, <3>4
  <2>4. QED
    BY <2>2, <2>3
<1>4. ASSUME NEW w \in Workers, DeleteDevice(w) PROVE OpenTurns' \subseteq OpenTurns /\ faults' = faults
  <2>1. Others(w) /\ jobs[w].op # "asked" /\ jobs'[w].op # "asked" /\ faults' = faults
    BY <1>4, DeleteFacts DEF Leaves, Post
  <2>2. \A s \in Sessions : convs'[s].messages \in {convs[s].messages, <<>>}
    BY <1>4, DeleteFacts DEF NoConversation
  <2>3. QED
    BY <1>2, <2>1, <2>2, AskedAfter
<1>5. ASSUME NEW w \in Workers, Starts(w) \/ CheckBinding(w) \/ ReadHistory(w)
      PROVE  OpenTurns' \subseteq OpenTurns /\ faults' = faults
  <2>1. Others(w) /\ jobs[w].op # "asked" /\ jobs'[w].op # "asked"
    BY <1>5, StartFacts, CheckFacts, ReadFacts DEF Starts, Goes, Idle
  <2>2. convs' = convs /\ faults' = faults
    BY <1>5 DEF Starts, StartChat, CheckBinding, ReadHistory
  <2>3. QED
    BY <1>2, <2>1, <2>2, AskedAfter
<1>6. ASSUME NEW w \in Workers, UpsertConversation(w) PROVE OpenTurns' \subseteq OpenTurns /\ faults' = faults
  <2>1. Others(w) /\ jobs[w].op # "asked" /\ jobs'[w].op # "asked" /\ faults' = faults
    BY <1>6, UpsertFacts DEF Goes
  <2>2. /\ convs'[jobs[w].session] = Upserted(convs[jobs[w].session], jobs[w].turn, jobs[w].device)
        /\ \A s \in Sessions \ {jobs[w].session} : convs'[s] = convs[s]
    BY <1>6, UpsertFacts
  <2>3. convs'[jobs[w].session].messages = convs[jobs[w].session].messages
    BY <2>2 DEF Upserted
  <2>4. \A s \in Sessions : convs'[s].messages = convs[s].messages
    BY <2>2, <2>3
  <2>5. QED
    BY <1>2, <2>1, <2>4, AskedAfter
<1>7. ASSUME NEW w \in Workers, CreateQuestion(w) PROVE OpenTurns' \subseteq OpenTurns /\ faults' = faults
  <2> DEFINE s == jobs[w].session
             q == convs[s].messages
             m == Own(w, "user")
  <2>1. /\ Others(w) /\ jobs[w].op # "asked" /\ jobs'[w].op = "asked" /\ jobs'[w].turn = jobs[w].turn
        /\ Adds(w, "user")
    BY <1>7, QuestionFacts DEF Goes
  <2>2. /\ s \in Sessions /\ convs'[s].messages = Append(q, m) /\ m \in Message
        /\ \A t \in Sessions \ {s} : convs'[t] = convs[t]
    BY <2>1 DEF Adds
  <2>3. q \in Seq(Message) /\ m.role = "user" /\ m.turn = jobs[w].turn
    BY <2>2, Numbers DEF Own
  <2>4. AskedTurns' = AskedTurns \cup {m.turn}
    BY <2>1, <2>3, AskedAfter
  <2> HIDE DEF q, m
  <2>5. Open(convs'[s].messages, AskedTurns') \subseteq Open(q, AskedTurns)
    BY <2>2, <2>3, <2>4, OpenAfterQuestion
  <2>6. \A t \in Sessions \ {s} : Open(convs'[t].messages, AskedTurns') \subseteq Open(convs[t].messages, AskedTurns)
    BY <2>2, <2>4, OpenShrinks
  <2>7. faults' = faults
    BY <1>7 DEF CreateQuestion
  <2>8. QED
    BY <2>2, <2>5, <2>6, <2>7 DEF OpenTurns, q
<1>8. ASSUME NEW w \in Workers, CreateReply(w) PROVE OpenTurns' \subseteq OpenTurns /\ faults' = faults
  <2> DEFINE s == jobs[w].session
             q == convs[s].messages
             m == Own(w, "assistant")
  <2>1. /\ Others(w) /\ jobs[w].op = "asked" /\ jobs'[w].op # "asked" /\ Adds(w, "assistant")
    BY <1>8, ReplyFacts DEF Leaves, Post
  <2>2. /\ s \in Sessions /\ convs'[s].messages = Append(q, m) /\ m \in Message
        /\ \A t \in Sessions \ {s} : convs'[t] = convs[t]
    BY <2>1 DEF Adds
  <2>3. q \in Seq(Message) /\ m.role = "assistant" /\ m.turn = jobs[w].turn
    BY <2>2, Numbers DEF Own
  <2>4. AskedTurns' = AskedTurns \ {m.turn}
    BY <2>1, <2>3, AskedAfter
  <2>5. \A t \in Sessions \ {s} : \A i \in DOMAIN convs[t].messages : convs[t].messages[i].turn # m.turn
    BY <2>1, <2>3 DEF QuestionsAreThere
  <2> HIDE DEF q, m
  <2>6. Open(convs'[s].messages, AskedTurns') \subseteq Open(q, AskedTurns)
    BY <2>2, <2>3, <2>4, OpenAfterReply
  <2>7. \A t \in Sessions \ {s} : Open(convs'[t].messages, AskedTurns') \subseteq Open(convs[t].messages, AskedTurns)
    BY <2>2, <2>4, <2>5, OpenAfterLeaving
  <2>8. faults' = faults
    BY <1>8 DEF CreateReply
  <2>9. QED
    BY <2>2, <2>6, <2>7, <2>8 DEF OpenTurns, q
<1>9. faults \in Nat
  BY DEF TypeOK
<1>10. QED
  BY <1>1, <1>3, <1>4, <1>5, <1>6, <1>7, <1>8, <1>9, Steps

\* Removing elements or adding one changes a cardinality by one at most.
LEMMA CardinalityStep ==
  ASSUME NEW S, IsFiniteSet(S), NEW T, NEW t, T \subseteq S \cup {t}
  PROVE  /\ IsFiniteSet(T) /\ Cardinality(T) \in Nat /\ Cardinality(S) \in Nat
         /\ Cardinality(T) <= Cardinality(S) + 1
         /\ T \subseteq S => Cardinality(T) <= Cardinality(S)
<1>1. /\ IsFiniteSet(S \cup {t}) /\ Cardinality(S) \in Nat
      /\ Cardinality(S \cup {t}) \in {Cardinality(S), Cardinality(S) + 1}
  BY FS_AddElement, FS_CardinalityType
<1>2. IsFiniteSet(T) /\ Cardinality(T) <= Cardinality(S \cup {t})
  BY <1>1, FS_Subset
<1>3. Cardinality(T) \in Nat
  BY <1>2, FS_CardinalityType
<1>4. T \subseteq S => Cardinality(T) <= Cardinality(S)
  BY FS_Subset
<1>5. QED
  BY <1>1, <1>2, <1>3, <1>4

LEMMA TurnsStep ==
  ASSUME ConstantsAssumption, TypeOK, TurnsDiffer, QuestionsAreThere, TurnsFit, Next PROVE TurnsFit'
<1>1. \A s \in Sessions : RepliesFollow(convs'[s].messages)
  BY RepliesStep DEF TurnsFit
<1>2. PICK t : /\ OpenTurns' \subseteq OpenTurns \cup {t}
               /\ faults \in Nat /\ faults' \in Nat
               /\ faults' = faults => OpenTurns' \subseteq OpenTurns
               /\ faults' \in {faults, faults + 1}
  BY OpenStep DEF TypeOK
<1>3. /\ IsFiniteSet(OpenTurns') /\ Cardinality(OpenTurns') \in Nat /\ Cardinality(OpenTurns) \in Nat
      /\ Cardinality(OpenTurns') <= Cardinality(OpenTurns) + 1
      /\ OpenTurns' \subseteq OpenTurns => Cardinality(OpenTurns') <= Cardinality(OpenTurns)
  BY <1>2, CardinalityStep DEF TurnsFit
<1>4. Cardinality(OpenTurns) <= faults
  BY DEF TurnsFit
<1>5. Cardinality(OpenTurns') <= faults'
  BY <1>2, <1>3, <1>4
<1>6. QED
  BY <1>1, <1>3, <1>5 DEF TurnsFit

-----------------------------------------------------------------------------
(* The invariant and what follows from it.                                 *)

LEMMA Initially == ASSUME ConstantsAssumption, Init PROVE Inv
<1>1. /\ devices = {} /\ gone = {} /\ profiles = {} /\ nextId = 1 /\ faults = 0
      /\ \A r \in Records : records[r] = [state |-> "none", device |-> None]
      /\ \A s \in Sessions : convs[s] = NoConversation
      /\ \A w \in Workers : jobs[w] = Idle
  BY DEF Init
<1>2. NoConversation \in Conversation /\ [state |-> "none", device |-> None] \in Record
  <2>1. <<>> \in Seq(Message) /\ None \in Callers
    BY DEF Callers
  <2>2. QED
    BY <2>1 DEF NoConversation, Conversation, Record
<1>3. TypeOK
  BY <1>1, <1>2 DEF Init, TypeOK
<1>4. \A s \in Sessions : /\ convs[s].id = 0 /\ convs[s].device = None
                          /\ convs[s].messages = <<>> /\ DOMAIN convs[s].messages = {}
  BY <1>1 DEF NoConversation
<1>5. \A w \in Workers : jobs[w].op = "none"
  BY <1>1 DEF Idle
<1>6. TurnsDiffer
  BY <1>1, <1>4, <1>5 DEF TurnsDiffer, Pre, Post
<1>7. DevicesFit /\ RowsAreOwn /\ HistoryIsOwn /\ QuestionsAreThere
  BY <1>1, <1>4, <1>5 DEF DevicesFit, RowsAreOwn, HistoryIsOwn, QuestionsAreThere, Post
<1>8. TurnsFit
  <2>1. \A s \in Sessions : RepliesFollow(convs[s].messages) /\ Open(convs[s].messages, AskedTurns) = {}
    BY <1>4 DEF RepliesFollow, Open
  <2>2. OpenTurns = {}
    BY <2>1 DEF OpenTurns
  <2>3. IsFiniteSet({}) /\ Cardinality({}) = 0
    BY FS_EmptySet
  <2>4. QED
    BY <1>1, <2>1, <2>2, <2>3 DEF TurnsFit
<1>9. QED
  BY <1>3, <1>6, <1>7, <1>8 DEF Inv

LEMMA Inductive == ASSUME ConstantsAssumption, Inv, [Next]_vars PROVE Inv'
<1>1. CASE Next
  BY <1>1, TypeCorrect, DevicesStep, TurnsDifferStep, RowsStep, HistoryStep, QuestionsStep, TurnsStep DEF Inv
<1>2. CASE UNCHANGED vars
  <2>1. TypeOK' /\ TurnsDiffer' /\ DevicesFit'
    BY <1>2 DEF vars, Inv, TypeOK, TurnsDiffer, DevicesFit
  <2>2. RowsAreOwn' /\ HistoryIsOwn' /\ QuestionsAreThere'
    BY <1>2 DEF vars, Inv, RowsAreOwn, RowIsThere, HistoryIsOwn, QuestionsAreThere, Own
  <2>3. TurnsFit'
    BY <1>2 DEF vars, Inv, TurnsFit, OpenTurns, AskedTurns
  <2>4. QED
    BY <2>1, <2>2, <2>3 DEF Inv
<1>3. QED
  BY <1>1, <1>2

LEMMA Invariance == ASSUME ConstantsAssumption PROVE Spec => []Inv
<1>1. Init => Inv
  BY Initially
<1>2. Inv /\ [Next]_vars => Inv'
  BY Inductive
<1>3. QED
  BY <1>1, <1>2, PTL DEF Spec

\* Every variable keeps its type: devices, rows, messages and turns in flight
\* are what their handlers and tables can hold.
THEOREM TypeSafe == ASSUME ConstantsAssumption PROVE Spec => []TypeOK
<1>1. Inv => TypeOK
  BY DEF Inv
<1>2. QED
  BY <1>1, Invariance, PTL

\* The deletion of a device leaves nothing of it behind, for any number of
\* devices, turns, profile updates and records that overlap with it.
THEOREM DevicesForgotten == ASSUME ConstantsAssumption PROVE Spec => []NothingOutlivesItsDevice
<1>1. Inv => NothingOutlivesItsDevice
  <2>1. SUFFICES ASSUME Inv, NEW d \in gone
                 PROVE  /\ d \notin profiles
                        /\ \A r \in Records : records[r].device = d => records[r].state # "stored"
                        /\ \A s \in Sessions :
                             /\ convs[s].device # d
                             /\ ~convs[s].taken =>
                                  \A i \in DOMAIN convs[s].messages : convs[s].messages[i].device # d
    BY DEF NothingOutlivesItsDevice
  <2>2. d # None
    BY <2>1, ConstantsAssumption DEF Inv, TypeOK, ConstantsAssumption
  <2>3. QED
    BY <2>1, <2>2 DEF Inv, DevicesFit, RowsAreOwn
<1>2. QED
  BY <1>1, Invariance, PTL

\* However many turns of a session overlap, the write that rebinds it belongs
\* to a turn whose check saw another binding than the one it overwrites.
THEOREM HandsChange == ASSUME ConstantsAssumption PROVE Spec => SessionChangesHandsLate
<1>1. Inv /\ [Next]_vars => [HandsChangeLate]_vars
  BY HandsStep DEF Inv
<1>2. QED
  BY <1>1, Invariance, PTL DEF Spec, SessionChangesHandsLate

\* A turn is answered from messages of its own device, but for the two races
\* the property names.
THEOREM HistoryOwn == ASSUME ConstantsAssumption PROVE Spec => []HistoryIsOwn
<1>1. Inv => HistoryIsOwn
  BY DEF Inv
<1>2. QED
  BY <1>1, Invariance, PTL

\* Every reply has its question before it, and there are never more questions
\* without a reply than turns that were cut short.
THEOREM TurnsWhole == ASSUME ConstantsAssumption PROVE Spec => []TurnsAreWhole
<1>1. Inv => TurnsAreWhole
  <2> SUFFICES ASSUME Inv PROVE TurnsAreWhole
    OBVIOUS
  <2>1. \A s \in Sessions : Unanswered(s) = Open(convs[s].messages, AskedTurns)
    BY DEF Unanswered, Open, AskedTurns
  <2>2. UNION {Unanswered(s) : s \in Sessions} = OpenTurns
    BY <2>1 DEF OpenTurns
  <2>3. QED
    BY <2>2 DEF Inv, TurnsFit, TurnsAreWhole, RepliesFollow
<1>2. QED
  BY <1>1, Invariance, PTL

=============================================================================
