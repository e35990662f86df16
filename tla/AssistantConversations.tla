----------------------- MODULE AssistantConversations -----------------------
(***************************************************************************)
(* Anonymous devices and what the server keeps of them: the educational    *)
(* profile, the analytics and feedback records, and the SORA conversations *)
(* with their messages.  POST /assistant/chat answers one turn of a        *)
(* session: it resolves the optional device token, checks that the session *)
(* is not bound to another device, reads the recent messages, generates an *)
(* answer and only then writes the turn, as three statements without a     *)
(* transaction.  Any number of turns, guarded device requests and          *)
(* deletions overlap, and a step may fail.                                 *)
(*                                                                         *)
(* Texts are left out: a message is the turn it belongs to, its role and   *)
(* the device (if any) that sent the turn.                                 *)
(***************************************************************************)
EXTENDS Integers, Sequences, FiniteSets

CONSTANTS Devices, Sessions, Records, Workers,
          None,        \* no device token
          Asked,       \* the guarded device requests that are made
          MaxHistory,  \* messages read back for a turn; the code's 8
          MaxIds,      \* bound on the turns started
          MaxFaults    \* bound on the failures between two statements

\* What the constants are taken to be; asserted where they get their values.
ConstantsAssumption ==
  /\ None \notin Devices
  /\ Asked \subseteq {"heartbeat", "profile", "delete"}
  /\ MaxHistory \in Nat \ {0}
  /\ MaxIds \in Nat
  /\ MaxFaults \in Nat

VARIABLES devices, gone, profiles, records, convs, jobs, nextId, faults

vars == <<devices, gone, profiles, records, convs, jobs, nextId, faults>>

NoConversation == [id |-> 0, device |-> None, messages |-> <<>>, taken |-> FALSE]
Idle == [op |-> "none"]

Callers == Devices \cup {None}
DeviceRequests == {"heartbeat", "profile", "delete"}
Message == [turn : Nat, role : {"user", "assistant"}, device : Callers]
Conversation ==
  [id : Nat, device : Callers, messages : Seq(Message), taken : BOOLEAN]
ChatJob ==
  [op : {"resolved", "checked", "read", "upserted", "asked"}, turn : Nat,
   session : Sessions, device : Callers, seen : Callers, owner : Callers,
   memory : SUBSET Callers, handedOn : BOOLEAN, conv : Nat]
DeviceJob == [op : DeviceRequests, device : Devices]
Record == [state : {"none", "accepted", "stored", "lost", "erased"}, device : Callers]

TypeOK ==
  /\ devices \subseteq Devices /\ gone \subseteq Devices
  /\ profiles \subseteq Devices
  /\ records \in [Records -> Record]
  /\ convs \in [Sessions -> Conversation]
  /\ jobs \in [Workers -> {Idle} \cup ChatJob \cup DeviceJob]
  /\ nextId \in Nat /\ faults \in Nat

Init ==
  /\ devices = {} /\ gone = {} /\ profiles = {}
  /\ records = [r \in Records |-> [state |-> "none", device |-> None]]
  /\ convs = [s \in Sessions |-> NoConversation]
  /\ jobs = [w \in Workers |-> Idle]
  /\ nextId = 1 /\ faults = 0

Finish(w) == jobs' = [jobs EXCEPT ![w] = Idle]
Abort(w) == Finish(w) /\ UNCHANGED <<devices, gone, profiles, records, convs, nextId, faults>>

-----------------------------------------------------------------------------
(* Device endpoints: registration, and the requests behind the token guard. *)

Register(d) ==
  /\ d \notin devices \cup gone
  /\ devices' = devices \cup {d}
  /\ UNCHANGED <<gone, profiles, records, convs, jobs, nextId, faults>>

\* The guard resolves the token to a device id and the handler runs later.
PassGuard(w, request, d) ==
  /\ jobs[w] = Idle
  /\ d \in devices
  /\ jobs' = [jobs EXCEPT ![w] = [op |-> request, device |-> d]]
  /\ UNCHANGED <<devices, gone, profiles, records, convs, nextId, faults>>

\* UPDATE and DELETE by id find no row, and the profile's foreign key fails,
\* when the device is gone: the request ends with an error.
GuardedRequestFails(w) ==
  /\ jobs[w].op \in DeviceRequests
  /\ jobs[w].device \notin devices
  /\ Abort(w)

TouchDevice(w) ==
  /\ jobs[w].op = "heartbeat"
  /\ jobs[w].device \in devices
  /\ Abort(w)

UpsertEducationalProfile(w) ==
  /\ jobs[w].op = "profile"
  /\ jobs[w].device \in devices
  /\ profiles' = profiles \cup {jobs[w].device}
  /\ Finish(w)
  /\ UNCHANGED <<devices, gone, records, convs, nextId, faults>>

\* The foreign keys of the schema cascade: what is left of a device's rows.
ConversationsUnbound(d) ==
  [s \in Sessions |-> [convs[s] EXCEPT !.device = IF @ = d THEN None ELSE @]]
WithoutConversationsOf(d) ==
  [s \in Sessions |-> IF convs[s].device = d THEN NoConversation ELSE convs[s]]
WithoutRecordsOf(d) ==
  [r \in Records |-> IF records[r].device = d /\ records[r].state = "stored"
                     THEN [records[r] EXCEPT !.state = "erased"] ELSE records[r]]

DeleteDevice(w) ==
  /\ jobs[w].op = "delete"
  /\ LET d == jobs[w].device IN
       /\ d \in devices
       /\ devices' = devices \ {d}
       /\ gone' = gone \cup {d}
       /\ profiles' = profiles \ {d}
       /\ records' = WithoutRecordsOf(d)
       /\ convs' = WithoutConversationsOf(d)
  /\ Finish(w)
  /\ UNCHANGED <<nextId, faults>>

-----------------------------------------------------------------------------
(* Analytics events and feedback: accepted at once, inserted later.  The   *)
(* device id comes with the body and is not checked against the table.     *)

RecordEvent(r, d) ==
  /\ records[r].state = "none"
  /\ records' = [records EXCEPT ![r] = [state |-> "accepted", device |-> d]]
  /\ UNCHANGED <<devices, gone, profiles, convs, jobs, nextId, faults>>

\* The insert meets the foreign key: an unknown device's event is only logged.
Inserted(record) ==
  [record EXCEPT !.state =
     IF record.device \in devices \cup {None} THEN "stored" ELSE "lost"]

PersistRecord(r) ==
  /\ records[r].state = "accepted"
  /\ records' = [records EXCEPT ![r] = Inserted(records[r])]
  /\ UNCHANGED <<devices, gone, profiles, convs, jobs, nextId, faults>>

LoseRecord(r) ==
  /\ records[r].state = "accepted"
  /\ faults < MaxFaults
  /\ faults' = faults + 1
  /\ records' = [records EXCEPT ![r].state = "lost"]
  /\ UNCHANGED <<devices, gone, profiles, convs, jobs, nextId>>

-----------------------------------------------------------------------------
(* POST /assistant/chat, one turn of a session.                            *)

\* resolveOptionalDeviceId: no token, or the token of a registered device.
\* A request without a session id is one whose session nobody else uses.
StartChat(w, s, d) ==
  /\ jobs[w] = Idle
  /\ d \in devices \cup {None}
  /\ nextId <= MaxIds
  /\ nextId' = nextId + 1
  /\ jobs' = [jobs EXCEPT ![w] =
       [op |-> "resolved", turn |-> nextId, session |-> s, device |-> d,
        seen |-> None, owner |-> None, memory |-> {}, handedOn |-> FALSE, conv |-> 0]]
  /\ UNCHANGED <<devices, gone, profiles, records, convs, faults>>

\* assertSessionDeviceBinding, given the device the session is bound to.
BindingAllowsAnyone(bound, d) == TRUE
BindingAllowsTokenless(bound, d) == bound = None \/ d \in {None, bound}
BindingAllows(bound, d) == bound = None \/ bound = d

CheckBinding(w) ==
  /\ jobs[w].op = "resolved"
  /\ LET bound == convs[jobs[w].session].device IN
       /\ BindingAllows(bound, jobs[w].device)
       /\ jobs' = [jobs EXCEPT ![w].op = "checked", ![w].seen = bound]
  /\ UNCHANGED <<devices, gone, profiles, records, convs, nextId, faults>>

RejectTurn(w) ==
  /\ jobs[w].op = "resolved"
  /\ ~BindingAllows(convs[jobs[w].session].device, jobs[w].device)
  /\ Abort(w)

\* The devices that sent the messages read back into the prompt's context.
RecentAuthors(messages) ==
  {messages[i].device : i \in {i \in 1..Len(messages) : i > Len(messages) - MaxHistory}}

ReadHistory(w) ==
  /\ jobs[w].op = "checked"
  /\ LET c == convs[jobs[w].session] IN
       jobs' = [jobs EXCEPT ![w].op = "read", ![w].owner = c.device,
                            ![w].memory = RecentAuthors(c.messages),
                            ![w].handedOn = c.taken]
  /\ UNCHANGED <<devices, gone, profiles, records, convs, nextId, faults>>

\* The runtime is disabled, over budget or failing: nothing has been written.
GenerationFails(w) == jobs[w].op = "read" /\ Abort(w)

\* The conversation's row after the upsert; it is rebound only by a token.
\* "taken" records that a row bound to one device has been bound to another.
UpsertedAfresh(c, turn, d) ==
  [id |-> turn, device |-> IF d = None THEN c.device ELSE d, messages |-> c.messages,
   taken |-> c.taken \/ (c.device # None /\ d \notin {None, c.device})]
Upserted(c, turn, d) ==
  [id       |-> IF c.id = 0 THEN turn ELSE c.id,
   device   |-> IF d = None THEN c.device ELSE d,
   messages |-> c.messages,
   taken    |-> c.taken \/ (c.device # None /\ d \notin {None, c.device})]

UpsertConversation(w) ==
  /\ jobs[w].op = "read"
  /\ jobs[w].device \in devices \cup {None}
  /\ LET s == jobs[w].session
         c == Upserted(convs[s], jobs[w].turn, jobs[w].device) IN
       /\ convs' = [convs EXCEPT ![s] = c]
       /\ jobs' = [jobs EXCEPT ![w].op = "upserted", ![w].conv = c.id]
  /\ UNCHANGED <<devices, gone, profiles, records, nextId, faults>>

\* The conversation's foreign key fails when the caller's device is gone.
UpsertFails(w) ==
  /\ jobs[w].op = "read"
  /\ jobs[w].device \notin devices \cup {None}
  /\ Abort(w)

Appended(w, role) ==
  [convs EXCEPT ![jobs[w].session].messages =
     Append(@, [turn |-> jobs[w].turn, role |-> role, device |-> jobs[w].device])]

\* The messages are keyed by the id of the conversation's row.
RowIsThere(w) == convs[jobs[w].session].id = jobs[w].conv

CreateQuestion(w) ==
  /\ jobs[w].op = "upserted"
  /\ RowIsThere(w)
  /\ convs' = Appended(w, "user")
  /\ jobs' = [jobs EXCEPT ![w].op = "asked"]
  /\ UNCHANGED <<devices, gone, profiles, records, nextId, faults>>

CreateReply(w) ==
  /\ jobs[w].op = "asked"
  /\ RowIsThere(w)
  /\ convs' = Appended(w, "assistant")
  /\ Finish(w)
  /\ UNCHANGED <<devices, gone, profiles, records, nextId, faults>>

MessageFails(w) ==
  /\ jobs[w].op \in {"upserted", "asked"}
  /\ ~RowIsThere(w)
  /\ Abort(w)

\* A crash or a database error between two statements of the turn.
CutShort(w) ==
  /\ jobs[w].op \in {"upserted", "asked"}
  /\ faults < MaxFaults
  /\ faults' = faults + 1
  /\ Finish(w)
  /\ UNCHANGED <<devices, gone, profiles, records, convs, nextId>>

-----------------------------------------------------------------------------
DeviceStep(w) ==
  \/ \E request \in Asked, d \in Devices : PassGuard(w, request, d)
  \/ TouchDevice(w) \/ UpsertEducationalProfile(w) \/ DeleteDevice(w)
  \/ GuardedRequestFails(w)

ChatStep(w) ==
  \/ \E s \in Sessions, d \in Callers : StartChat(w, s, d)
  \/ CheckBinding(w) \/ RejectTurn(w) \/ ReadHistory(w) \/ GenerationFails(w)
  \/ UpsertConversation(w) \/ UpsertFails(w)
  \/ CreateQuestion(w) \/ CreateReply(w) \/ MessageFails(w) \/ CutShort(w)

RecordStep(r) ==
  \/ \E d \in Callers : RecordEvent(r, d)
  \/ PersistRecord(r) \/ LoseRecord(r)

Next ==
  \/ \E d \in Devices : Register(d)
  \/ \E w \in Workers : DeviceStep(w) \/ ChatStep(w)
  \/ \E r \in Records : RecordStep(r)

Spec == Init /\ [][Next]_vars

-----------------------------------------------------------------------------
\* DELETE /anonymous-devices/me leaves nothing of the device behind, however
\* its turns, profile updates and records in flight interleave with it, but
\* for its messages in a session that another device took over.
NothingOutlivesItsDevice ==
  \A d \in gone :
    /\ d \notin profiles
    /\ \A r \in Records : records[r].device = d => records[r].state # "stored"
    /\ \A s \in Sessions :
         /\ convs[s].device # d
         /\ ~convs[s].taken =>
              \A i \in DOMAIN convs[s].messages : convs[s].messages[i].device # d

\* A bound session changes hands only in the write of a turn whose own check
\* had found it unbound, or its own: the check never lets in a stranger.
HandsChangeLate ==
  \A s \in Sessions :
    (convs[s].device # None /\ convs'[s].device \notin {convs[s].device, None})
      => \E w \in Workers :
           /\ jobs[w].op = "read" /\ jobs[w].session = s
           /\ jobs[w].device = convs'[s].device
           /\ jobs[w].seen # convs[s].device
SessionChangesHandsLate == [][HandsChangeLate]_vars

\* A turn is answered from its own device's messages and tokenless ones, unless
\* the session was rebound between its check and its read, or had changed hands.
HistoryIsOwn ==
  \A w \in Workers :
    jobs[w].op \in {"read", "upserted", "asked"} =>
      \/ jobs[w].memory \subseteq {None, jobs[w].device}
      \/ jobs[w].owner # jobs[w].seen
      \/ jobs[w].handedOn

\* Every reply follows its own turn's question in the same conversation, and a
\* question stays without a reply only when its turn was cut short by a fault.
Unanswered(s) ==
  LET messages == convs[s].messages IN
    {messages[i].turn : i \in {i \in DOMAIN messages :
       /\ messages[i].role = "user"
       /\ \A k \in DOMAIN messages :
            messages[k].role = "assistant" => messages[k].turn # messages[i].turn
       /\ \A w \in Workers : jobs[w].op = "asked" => jobs[w].turn # messages[i].turn}}
TurnsAreWhole ==
  /\ \A s \in Sessions : \A k \in DOMAIN convs[s].messages :
       convs[s].messages[k].role = "assistant" =>
         \E i \in 1..(k - 1) :
           convs[s].messages[i] = [convs[s].messages[k] EXCEPT !.role = "user"]
  /\ Cardinality(UNION {Unanswered(s) : s \in Sessions}) <= faults
=============================================================================
