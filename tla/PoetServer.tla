----------------------------- MODULE PoetServer -----------------------------
(***************************************************************************)
(* The request handlers of the PoET server (poet_server_functions.cpp) as  *)
(* its connection threads (process_new_node in poet_server.cpp) run them.  *)
(*                                                                         *)
(* A connection serves one request at a time.  A handler that works under  *)
(* sgx_table_lock, the queue's cond_mutex and the queue's write lock is    *)
(* one step.  poet_register takes only read locks, which exclude nobody,   *)
(* so each of its accesses to shared state is a step of its own.           *)
(***************************************************************************)
EXTENDS PoetQueue

CONSTANTS
  Conn,             \* connections served at the same time
  Key,              \* public keys, in the encoding clients send
  NoKey,            \* no request to register is being served
  sgxt_lowerbound,  \* least sgx time accepted
  sgxmax,           \* greatest sgx time accepted
  Sgxt,             \* sgx times clients broadcast
  MaxIds,           \* bound: ids handed out
  MaxNow,           \* bound: seconds since the server started
  MaxLeadership     \* bound: re-entries of a node

ASSUME KeyAssumption == NoKey \notin Key
ASSUME SgxAssumption ==
  /\ sgxt_lowerbound \in Nat /\ sgxmax \in Nat
  /\ 0 < sgxt_lowerbound /\ sgxt_lowerbound < sgxmax
  /\ Sgxt \subseteq Nat
ASSUME BoundAssumption == MaxIds \in Nat /\ MaxNow \in Nat /\ MaxLeadership \in Nat

NoId == -1

VARIABLES
  current_id,   \* g.current_id: the next id
  public_keys,  \* public_keys: id stored for a key, or NoId
  sgx_table,    \* g.sgx_table: index i of the code is position i + 1
  queue,        \* g.queue
  now,          \* time(nullptr) - g.server_starting_time
  status,       \* "running", or what ended the process
  pc,           \* where the thread of a connection is
  node,         \* context->node->node_id, NoId while context->node is null
  key,          \* poet_register: the key of the request
  id_read,      \* poet_register: current_id as loaded by current_id++
  stamp         \* sgx_time_broadcast: sgx and arrival time before the insert

shared == <<current_id, public_keys, sgx_table, queue>>
frame == <<node, key, id_read, stamp>>
vars == <<current_id, public_keys, sgx_table, queue, now, status,
          pc, node, key, id_read, stamp>>

Node == [node_id : Nat, sgx_time : Nat, arrival_time : Nat,
         n_leadership : Nat, time_left : Nat]
NoStamp == [sgx_time |-> 0, arrival_time |-> 0]
Ended == {"assert_306", "assert_647", "assert_648", "segfault"}

TypeOK ==
  /\ current_id \in Nat
  /\ public_keys \in [Key -> Nat \cup {NoId}]
  /\ sgx_table \in Seq(Node)
  /\ queue \in Seq(Nat)
  /\ now \in Nat
  /\ status \in Ended \cup {"running"}
  /\ pc \in [Conn -> {"free", "idle", "checked", "loaded", "inserting", "stamped"}]
  /\ node \in [Conn -> Nat \cup {NoId}]
  /\ key \in [Conn -> Key \cup {NoKey}]
  /\ id_read \in [Conn -> Nat]
  /\ stamp \in [Conn -> [sgx_time : Nat, arrival_time : Nat]]

Init ==
  /\ current_id = 0
  /\ public_keys = [k \in Key |-> NoId]
  /\ sgx_table = <<>>
  /\ queue = <<>>
  /\ now = 0
  /\ status = "running"
  /\ pc = [c \in Conn |-> "free"]
  /\ node = [c \in Conn |-> NoId]
  /\ key = [c \in Conn |-> NoKey]
  /\ id_read = [c \in Conn |-> 0]
  /\ stamp = [c \in Conn |-> NoStamp]

-----------------------------------------------------------------------------
(* Connections *)

(* process_new_node starts with an empty context. *)
Accept(c) ==
  /\ pc[c] = "free"
  /\ pc' = [pc EXCEPT ![c] = "idle"]
  /\ UNCHANGED <<shared, now, status, frame>>

(* The error exit of process_new_node: the context goes with the thread. *)
Teardown(c) ==
  /\ pc' = [pc EXCEPT ![c] = "free"]
  /\ node' = [node EXCEPT ![c] = NoId]
  /\ UNCHANGED <<key, id_read, stamp>>

(* The client closes, asks for it with close_connection, or sends a message
   that delegate_message or the checks of poet_register turn down. *)
Disconnect(c) ==
  /\ pc[c] = "idle"
  /\ Teardown(c)
  /\ UNCHANGED <<shared, now, status>>

Tick ==
  /\ now < MaxNow
  /\ now' = now + 1
  /\ UNCHANGED <<shared, status, pc, frame>>

-----------------------------------------------------------------------------
(* poet_register *)

(* check_public_key_and_signature_registration: a key that is already
   registered is noticed, logged and accepted. *)
RegisterCheck(c, k) ==
  /\ pc[c] = "idle"
  /\ node' = [node EXCEPT ![c] = IF public_keys[k] # NoId THEN public_keys[k]
                                 ELSE IF @ = NoId THEN 0 ELSE @]
  /\ key' = [key EXCEPT ![c] = k]
  /\ pc' = [pc EXCEPT ![c] = "checked"]
  /\ UNCHANGED <<shared, now, status, id_read, stamp>>

(* The load of g.current_id++. *)
RegisterLoad(c) ==
  /\ pc[c] = "checked"
  /\ current_id < MaxIds
  /\ id_read' = [id_read EXCEPT ![c] = current_id]
  /\ pc' = [pc EXCEPT ![c] = "loaded"]
  /\ UNCHANGED <<shared, now, status, node, key, stamp>>

(* Variant: ++g.current_id. *)
RegisterPreincrement(c) ==
  /\ pc[c] = "loaded"
  /\ current_id' = id_read[c] + 1
  /\ node' = [node EXCEPT ![c] = id_read[c] + 1]
  /\ id_read' = [id_read EXCEPT ![c] = 0]
  /\ pc' = [pc EXCEPT ![c] = "inserting"]
  /\ UNCHANGED <<public_keys, sgx_table, queue, now, status, key, stamp>>

(* The store of g.current_id++; the old value becomes the node's id. *)
RegisterStore(c) ==
  /\ pc[c] = "loaded"
  /\ current_id' = id_read[c] + 1
  /\ node' = [node EXCEPT ![c] = id_read[c]]
  /\ id_read' = [id_read EXCEPT ![c] = 0]
  /\ pc' = [pc EXCEPT ![c] = "inserting"]
  /\ UNCHANGED <<public_keys, sgx_table, queue, now, status, key, stamp>>

(* Another thread is inside public_keys.insert at the same time. *)
InsertRace(c) == \E d \in Conn \ {c} : pc[d] = "inserting"

(* std::map::insert keeps the value of a key that is present.  Two inserts at
   once are a data race: the element may be lost or the process may die. *)
RegisterInsert(c) ==
  /\ pc[c] = "inserting"
  /\ \/ /\ public_keys' = [public_keys EXCEPT ![key[c]] = IF @ = NoId THEN node[c] ELSE @]
        /\ status' = status
     \/ /\ InsertRace(c)
        /\ public_keys' = public_keys
        /\ status' \in {"running", "segfault"}
  /\ key' = [key EXCEPT ![c] = NoKey]
  /\ pc' = [pc EXCEPT ![c] = "idle"]
  /\ UNCHANGED <<current_id, sgx_table, queue, now, node, id_read, stamp>>

-----------------------------------------------------------------------------
(* The queue takes the value q, computed with a cleanup of before.  A cleanup
   that deletes reads i->next of an item it has freed: either the link is
   still there, or the process dies on what the allocator wrote over it. *)
SetQueue(q, before) ==
  \/ queue' = q /\ status' = status
  \/ CleanupDeletes(before) /\ queue' = queue /\ status' = "segfault"

(* poet_sgx_time_broadcast *)

(* Variant: no upper bound. *)
BroadcastUnlimited(c, sgxt) ==
  /\ pc[c] = "idle"
  /\ sgxt_lowerbound <= sgxt
  /\ node[c] # NoId
  /\ stamp' = [stamp EXCEPT ![c] = [sgx_time |-> sgxt, arrival_time |-> now]]
  /\ pc' = [pc EXCEPT ![c] = "stamped"]
  /\ UNCHANGED <<shared, now, status, node, key, id_read>>

(* The arrival time is taken before any lock. *)
BroadcastStamp(c, sgxt) ==
  /\ pc[c] = "idle"
  /\ sgxt_lowerbound <= sgxt /\ sgxt <= sgxmax
  /\ node[c] # NoId
  /\ stamp' = [stamp EXCEPT ![c] = [sgx_time |-> sgxt, arrival_time |-> now]]
  /\ pc' = [pc EXCEPT ![c] = "stamped"]
  /\ UNCHANGED <<shared, now, status, node, key, id_read>>

(* A time out of range: the reply is a failure and the connection ends. *)
BroadcastReject(c, sgxt) ==
  /\ pc[c] = "idle"
  /\ ~(sgxt_lowerbound <= sgxt /\ sgxt <= sgxmax)
  /\ Teardown(c)
  /\ UNCHANGED <<shared, now, status>>

(* *(context->node) on a connection that did not register. *)
BroadcastUnregistered(c, sgxt) ==
  /\ pc[c] = "idle"
  /\ sgxt_lowerbound <= sgxt /\ sgxt <= sgxmax
  /\ node[c] = NoId
  /\ status' = "segfault"
  /\ UNCHANGED <<shared, now, pc, frame>>

(* The reply has been sent: the thread waits for the next request. *)
Finish(c) ==
  /\ pc' = [pc EXCEPT ![c] = "idle"]
  /\ stamp' = [stamp EXCEPT ![c] = NoStamp]

(* The table with the entry of a node that is in it brought up to date. *)
UpdatedTable(c) ==
  LET i == node[c] + 1
  IN  [sgx_table EXCEPT ![i] =
         [node_id |-> sgx_table[i].node_id, sgx_time |-> stamp[c].sgx_time,
          arrival_time |-> stamp[c].arrival_time,
          n_leadership |-> sgx_table[i].n_leadership + 1,
          time_left |-> stamp[c].sgx_time]]

(* The table with a new entry at its end, whatever the id of the node is. *)
ExtendedTable(c) ==
  Append(sgx_table, [node_id |-> node[c], sgx_time |-> stamp[c].sgx_time,
                     arrival_time |-> stamp[c].arrival_time,
                     n_leadership |-> 0, time_left |-> stamp[c].sgx_time])

(* A queue as long as the table loses its head before the push. *)
QueueWithRoom ==
  IF Len(queue) >= Len(sgx_table) THEN PopHead(queue) ELSE queue

(* insert_node_into_sgx_table_and_queue, node.node_id < g.sgx_table.size() *)
InsertExisting(c) ==
  /\ pc[c] = "stamped"
  /\ node[c] < Len(sgx_table)
  /\ sgx_table[node[c] + 1].n_leadership < MaxLeadership
  /\ \/ /\ sgx_table[node[c] + 1].node_id # node[c]
        /\ status' = "assert_306"
        /\ UNCHANGED <<sgx_table, queue>>
     \/ /\ sgx_table[node[c] + 1].node_id = node[c]
        /\ sgx_table' = UpdatedTable(c)
        /\ LET pushed == Append(QueueWithRoom, node[c])
           IN  SetQueue(Refill(Cleanup(pushed), UpdatedTable(c)), pushed)
  /\ Finish(c)
  /\ UNCHANGED <<current_id, public_keys, now, node, key, id_read>>

(* The same, node.node_id >= g.sgx_table.size() *)
InsertNew(c) ==
  /\ pc[c] = "stamped"
  /\ node[c] >= Len(sgx_table)
  /\ sgx_table' = ExtendedTable(c)
  /\ LET pushed == Append(queue, node[c])
     IN  SetQueue(Refill(Cleanup(pushed), ExtendedTable(c)), pushed)
  /\ Finish(c)
  /\ UNCHANGED <<current_id, public_keys, now, node, key, id_read>>

-----------------------------------------------------------------------------
(* poet_unfinished_node *)

(* What clients report: json_to_node_t limits time_left to the sgx time. *)
Report == {r \in [node_id : 0..(MaxIds - 1), sgx_time : Sgxt,
                  arrival_time : 0..now, time_left : 0..sgxmax] :
             r.time_left <= r.sgx_time}

(* The report is about the node's present stay in the table. *)
Current(r) ==
  /\ sgx_table[r.node_id + 1].sgx_time = r.sgx_time
  /\ sgx_table[r.node_id + 1].arrival_time = r.arrival_time

(* Variant: the time left is not compared. *)
FailedIdAssert(r) ==
  IF sgx_table[r.node_id + 1].node_id # r.node_id THEN "assert_647" ELSE "running"

(* The assertions before the report is used. *)
FailedAssert(r) ==
  IF sgx_table[r.node_id + 1].node_id # r.node_id THEN "assert_647"
  ELSE IF /\ sgx_table[r.node_id + 1].arrival_time = r.arrival_time
          /\ sgx_table[r.node_id + 1].time_left < r.time_left THEN "assert_648"
  ELSE "running"

UnfinishedAssert(c, r) ==
  /\ pc[c] = "idle"
  /\ r.node_id < Len(sgx_table)
  /\ FailedAssert(r) # "running"
  /\ status' = FailedAssert(r)
  /\ UNCHANGED <<shared, now, pc, frame>>

Unfinished(c, r) ==
  /\ pc[c] = "idle"
  /\ r.node_id < Len(sgx_table)
  /\ FailedAssert(r) = "running"
  /\ Current(r)
  /\ sgx_table' = [sgx_table EXCEPT ![r.node_id + 1] =
                     [@ EXCEPT !.time_left = r.time_left]]
  /\ SetQueue(Append(Cleanup(queue), r.node_id), queue)
  /\ UNCHANGED <<current_id, public_keys, now, pc, frame>>

(* A report about an unknown node or an earlier stay fails, and a handler that
   fails ends the connection. *)
UnfinishedStale(c, r) ==
  /\ pc[c] = "idle"
  /\ \/ r.node_id >= Len(sgx_table)
     \/ r.node_id < Len(sgx_table) /\ FailedAssert(r) = "running" /\ ~Current(r)
  /\ Teardown(c)
  /\ UNCHANGED <<shared, now, status>>

-----------------------------------------------------------------------------
Handler(c) ==
  \/ Accept(c)
  \/ Disconnect(c)
  \/ \E k \in Key : RegisterCheck(c, k)
  \/ RegisterLoad(c)
  \/ RegisterStore(c)
  \/ RegisterInsert(c)
  \/ \E sgxt \in Sgxt : BroadcastStamp(c, sgxt)
  \/ \E sgxt \in Sgxt : BroadcastReject(c, sgxt)
  \/ \E sgxt \in Sgxt : BroadcastUnregistered(c, sgxt)
  \/ InsertExisting(c)
  \/ InsertNew(c)
  \/ \E r \in Report : UnfinishedAssert(c, r)
  \/ \E r \in Report : Unfinished(c, r)
  \/ \E r \in Report : UnfinishedStale(c, r)

Next ==
  /\ status = "running"
  /\ Tick \/ \E c \in Conn : Handler(c)

Spec == Init /\ [][Next]_vars

(* Clients that enter one after the other: a client registers when every id
   handed out is in the table, and stays connected until its own id is. *)
Registering(c) == pc[c] \in {"checked", "loaded", "inserting"}
Outside(c) == node[c] # NoId /\ node[c] >= Len(sgx_table)
Settled ==
  /\ current_id = Len(sgx_table)
  /\ \A c \in Conn : ~Registering(c)
InOrder ==
  /\ \A c \in Conn : pc[c] = "idle" /\ pc'[c] = "checked" => Settled
  /\ \A c \in Conn : Outside(c) => pc'[c] # "free"

SpecInOrder == Init /\ [][Next /\ InOrder]_vars

-----------------------------------------------------------------------------
(* Properties of every run of the server *)

(* No id is queued twice, except that the last place may repeat an earlier
   one: poet_unfinished_node pushes after its cleanup, insert_node before. *)
QueueFrontDistinct ==
  \A i, j \in 1..(Len(queue) - 1) : queue[i] = queue[j] => i = j

(* calc_tier_number and remaining_quantum_time, which clients run on the table
   they are sent, assert or assume these ranges of every entry. *)
EntriesInRange ==
  \A i \in DOMAIN sgx_table :
    /\ sgxt_lowerbound <= sgx_table[i].sgx_time /\ sgx_table[i].sgx_time <= sgxmax
    /\ sgx_table[i].time_left <= sgx_table[i].sgx_time
    /\ sgx_table[i].arrival_time <= now

(* An entry stays at its index under its id, and between two entries of its
   node into the table the time left to it never grows, whatever late or
   repeated reports poet_unfinished_node is sent. *)
StayShrinks ==
  [][\A i \in DOMAIN sgx_table :
       /\ i \in DOMAIN sgx_table'
       /\ sgx_table'[i].node_id = sgx_table[i].node_id
       /\ sgx_table'[i].n_leadership = sgx_table[i].n_leadership
            => sgx_table'[i].time_left <= sgx_table[i].time_left]_vars

(* Properties that need clients to enter one after the other *)

(* Index and id agree, which quantum_times[node_id] and sgx_table[node_id]
   take for granted on both sides. *)
TableIndexedById ==
  \A i \in DOMAIN sgx_table : sgx_table[i].node_id = i - 1

(* The assertions that the entry found under an id has that id. *)
NoIdAssert == status \notin {"assert_306", "assert_647"}

(* get_queue_str sends the queue itself: no id is dropped or renamed, and the
   queue is longer than the table by one at most. *)
QueuePublished ==
  /\ QueueStr(queue, sgx_table) = queue
  /\ Len(queue) <= Len(sgx_table) + 1

(* However many nodes poet_unfinished_node has pushed out of the queue, an
   insert leaves it free of repetitions and with every node that has a
   non-zero arrival time in it. *)
InsertStep ==
  status' = "running" /\ \E c \in Conn : pc[c] = "stamped" /\ pc'[c] = "idle"
InsertRestoresQueue ==
  [][InsertStep =>
       /\ Distinct(queue')
       /\ \A i \in 0..(Len(sgx_table') - 1) :
            sgx_table'[i + 1].arrival_time # 0 => i \in Ids(queue')]_vars
=============================================================================
