----------------------------- MODULE PoetClient -----------------------------
(***************************************************************************)
(* The threads of poet_client.cpp: main, which broadcasts an sgx_time and  *)
(* waits until it should join again; notifications_sentinel (thread 2),    *)
(* which copies every table and queue it is sent and restarts thread 3;    *)
(* starting_time_calculation (thread 3), which sleeps up to the leadership *)
(* and reports unfinished turns; and blockchain_work (thread 4).  Main and *)
(* thread 3 ask the server over the same node_socket.                      *)
(*                                                                         *)
(* What thread 3 computes is the business of LeadershipTime.  Here a table *)
(* and queue is one of four kinds: it does not have this node yet; the     *)
(* node is not in the queue; it has to report a turn before it leads; it   *)
(* leads at once.                                                          *)
(***************************************************************************)
EXTENDS Integers, Sequences, FiniteSets

CONSTANTS
  MaxNews,      \* bound: notifications
  MaxRetries    \* 10 in main: failed broadcasts before it reconnects

ASSUME NewsAssumption == MaxNews \in Nat
ASSUME RetriesAssumption == MaxRetries \in Nat

VARIABLES
  mpc, initial_state, retries,   \* main
  rejoin_state,
  spc, buffer,                   \* thread 2
  news,                          \* notifications on subscribe_socket
  sent,                          \* how many there have been
  subscribed,                    \* subscribe_socket is connected
  copy,                          \* sgx_table and queue
  lock,                          \* who has sgx_table_lock and queue_lock
  calc,                          \* the threads 3, in the order of their creation
  writer,                        \* the thread 4 each of them creates
  requests, replies,             \* node_socket, in both directions
  inserted,                      \* the server has this node in its table
  status

main == <<mpc, initial_state, retries>>
sentinel == <<spc, buffer>>
socket == <<requests, replies>>
server == <<news, sent, subscribed, inserted>>
vars == <<main, rejoin_state, sentinel, server, copy, lock, calc, writer, socket, status>>

Kind == {"stale", "out", "turns", "leads"}
Copy == [kind : Kind, version : Nat]
Running == {"lock", "locked", "computed", "asked"}
Thread3 == [at : Running \cup {"increment", "exited"}, cancelled : BOOLEAN,
            plan : Copy, tmp : Nat]
Thread4 == [at : {"none", "file", "writing", "written", "increment", "exited"}, tmp : Nat]
Free == -1
Main == 0
Sentinel == 0
ThreadNo == 1..MaxNews
Caller == {Main} \cup ThreadNo

TypeOK ==
  /\ mpc \in {"top", "send", "reply", "wait", "failed", "ended"}
  /\ initial_state \in Nat /\ rejoin_state \in Nat /\ retries \in Nat
  /\ spc \in {"listen", "update", "updating", "create"}
  /\ news \in Seq(Kind) /\ sent \in 0..MaxNews
  /\ buffer \in Copy /\ copy \in Copy
  /\ lock \in {Free, Sentinel} \cup ThreadNo
  /\ calc \in Seq(Thread3) /\ Len(calc) <= MaxNews
  /\ writer \in [ThreadNo -> Thread4]
  /\ requests \in Seq(Caller)
  /\ replies \in Seq([to : Caller, success : BOOLEAN])
  /\ inserted \in BOOLEAN /\ subscribed \in BOOLEAN
  /\ status \in {"running", "segfault"}

Empty == [kind |-> "stale", version |-> 0]

(* socket_get_message keeps the first message of what one recv returns, which
   may be all that has arrived: the rest is dropped. *)
AfterRead(stream) == {SubSeq(stream, n + 1, Len(stream)) : n \in 1..Len(stream)}

(* main has registered, subscribed and created thread 2. *)
Init ==
  /\ mpc = "top" /\ initial_state = 0 /\ retries = 0 /\ rejoin_state = 0
  /\ spc = "listen" /\ buffer = Empty /\ copy = Empty
  /\ news = <<>> /\ sent = 0 /\ subscribed = TRUE /\ inserted = FALSE
  /\ lock = Free
  /\ calc = <<>> /\ writer = [c \in ThreadNo |-> [at |-> "none", tmp |-> 0]]
  /\ requests = <<>> /\ replies = <<>>
  /\ status = "running"

-----------------------------------------------------------------------------
(* main *)

MainTop ==
  /\ mpc = "top"
  /\ initial_state' = rejoin_state
  /\ mpc' = "send"
  /\ UNCHANGED <<retries, rejoin_state, sentinel, server, copy, lock, calc, writer, socket,
                 status>>

(* poet_broadcast_sgxtime: the request ... *)
MainSend ==
  /\ mpc = "send"
  /\ requests' = Append(requests, Main)
  /\ mpc' = "reply"
  /\ UNCHANGED <<initial_state, retries, rejoin_state, sentinel, server, copy, lock, calc,
                 writer, replies, status>>

(* Variant: what changed during the broadcast is taken for seen. *)
MainReplyRereads ==
  /\ mpc = "reply" /\ replies # <<>>
  /\ replies' \in AfterRead(replies)
  /\ mpc' = IF Head(replies).success THEN "wait" ELSE "failed"
  /\ initial_state' = rejoin_state
  /\ UNCHANGED <<retries, rejoin_state, sentinel, server, copy, lock, calc, writer,
                 requests, status>>

(* ... and the reply, which is the next message on the socket. *)
MainReply ==
  /\ mpc = "reply" /\ replies # <<>>
  /\ replies' \in AfterRead(replies)
  /\ mpc' = IF Head(replies).success THEN "wait" ELSE "failed"
  /\ UNCHANGED <<initial_state, retries, rejoin_state, sentinel, server, copy, lock, calc,
                 writer, requests, status>>

(* pthread_cond_timedwait: signalled or not, main looks every second. *)
MainWait ==
  /\ mpc = "wait" /\ rejoin_state # initial_state
  /\ mpc' = "top"
  /\ UNCHANGED <<initial_state, retries, rejoin_state, sentinel, server, copy, lock, calc,
                 writer, socket, status>>

(* After too many failures main connects both sockets again, without another
   poet_register_to_server, or ends. *)
MainFailed ==
  /\ mpc = "failed"
  /\ \/ /\ retries <= MaxRetries
        /\ mpc' = "top" /\ retries' = retries + 1 /\ subscribed' = subscribed
     \/ /\ retries > MaxRetries
        /\ mpc' = "top" /\ retries' = 1 /\ subscribed' = TRUE
     \/ /\ retries > MaxRetries
        /\ mpc' = "ended" /\ retries' = retries + 1 /\ subscribed' = subscribed
  /\ UNCHANGED <<initial_state, rejoin_state, sentinel, news, sent, inserted, copy, lock,
                 calc, writer, socket, status>>

-----------------------------------------------------------------------------
(* notifications_sentinel *)

(* Variants: no thread is cancelled; only one that is not
   in the middle of a report. *)
ReceiveOnly ==
  /\ spc = "listen" /\ news # <<>>
  /\ news' \in AfterRead(news)
  /\ buffer' = [kind |-> Head(news), version |-> buffer.version + 1]
  /\ spc' = "update"
  /\ UNCHANGED <<main, rejoin_state, sent, subscribed, inserted, copy, lock, calc, writer, socket,
                 status>>

ReceiveAfterReport ==
  /\ spc = "listen" /\ news # <<>>
  /\ news' \in AfterRead(news)
  /\ buffer' = [kind |-> Head(news), version |-> buffer.version + 1]
  /\ calc' = [c \in DOMAIN calc |->
                IF calc[c].at = "asked" THEN calc[c] ELSE [calc[c] EXCEPT !.cancelled = TRUE]]
  /\ spc' = "update"
  /\ UNCHANGED <<main, rejoin_state, sent, subscribed, inserted, copy, lock, writer, socket, status>>

(* The thread created last is asked to cancel.  Before there is one the handle
   is null, which the library need not survive. *)
CancelLast ==
  IF calc = <<>>
  THEN calc' = calc /\ status' \in {"running", "segfault"}
  ELSE calc' = [calc EXCEPT ![Len(calc)].cancelled = TRUE] /\ status' = status

Receive ==
  /\ spc = "listen" /\ news # <<>>
  /\ news' \in AfterRead(news)
  /\ buffer' = [kind |-> Head(news), version |-> buffer.version + 1]
  /\ CancelLast
  /\ spc' = "update"
  /\ UNCHANGED <<main, rejoin_state, sent, subscribed, inserted, copy, lock, writer, socket>>

(* The connection is closed: thread 3 is cancelled and there is no update. *)
ReceiveEnd ==
  /\ spc = "listen" /\ news = <<>> /\ ~subscribed
  /\ CancelLast
  /\ UNCHANGED <<main, rejoin_state, sentinel, server, copy, lock, writer, socket>>

UpdateBegin ==
  /\ spc = "update" /\ lock = Free
  /\ lock' = Sentinel /\ spc' = "updating"
  /\ UNCHANGED <<main, rejoin_state, buffer, server, copy, calc, writer, socket, status>>

UpdateEnd ==
  /\ spc = "updating"
  /\ copy' = buffer
  /\ lock' = Free /\ spc' = "create"
  /\ UNCHANGED <<main, rejoin_state, buffer, server, calc, writer, socket, status>>

CreateThread3 ==
  /\ spc = "create"
  /\ calc' = Append(calc, [at |-> "lock", cancelled |-> FALSE, plan |-> Empty, tmp |-> 0])
  /\ spc' = "listen"
  /\ UNCHANGED <<main, rejoin_state, buffer, server, copy, lock, writer, socket, status>>

-----------------------------------------------------------------------------
(* starting_time_calculation *)

At(c, where) == c \in 1..Len(calc) /\ calc[c].at = where
Goes(c, where) == calc' = [calc EXCEPT ![c].at = where]

(* With cancellation disabled *)
Lock(c) ==
  /\ At(c, "lock") /\ lock = Free
  /\ lock' = c
  /\ Goes(c, "locked")
  /\ UNCHANGED <<main, rejoin_state, sentinel, server, copy, writer, socket, status>>

(* "The received SGXtable is not the most recent": the thread exits as it is. *)
ExitStale(c) ==
  /\ At(c, "locked") /\ copy.kind = "stale"
  /\ Goes(c, "exited")
  /\ UNCHANGED <<main, rejoin_state, sentinel, server, copy, lock, writer, socket, status>>

Compute(c) ==
  /\ At(c, "locked") /\ copy.kind # "stale"
  /\ calc' = [calc EXCEPT ![c].at = "computed", ![c].plan = copy]
  /\ lock' = Free
  /\ UNCHANGED <<main, rejoin_state, sentinel, server, copy, writer, socket, status>>

(* With cancellation enabled: a request takes effect in the next sleep, print
   or receive, and the thread may get further before it. *)
Cancel(c) ==
  /\ At(c, "computed") \/ At(c, "asked")
  /\ calc[c].cancelled
  /\ Goes(c, "exited")
  /\ UNCHANGED <<main, rejoin_state, sentinel, server, copy, lock, writer, socket, status>>

(* calc_leadership_time has returned -1: rejoin_state++, in two steps. *)
RejoinRead(c) ==
  /\ At(c, "computed") /\ calc[c].plan.kind = "out"
  /\ calc' = [calc EXCEPT ![c].at = "increment", ![c].tmp = rejoin_state]
  /\ UNCHANGED <<main, rejoin_state, sentinel, server, copy, lock, writer, socket, status>>

RejoinWrite(c) ==
  /\ At(c, "increment")
  /\ rejoin_state' = calc[c].tmp + 1
  /\ Goes(c, "exited")
  /\ UNCHANGED <<main, sentinel, server, copy, lock, writer, socket, status>>

(* A report: sgx_table is read without its lock, also while thread 2 replaces
   it; then the request goes out. *)
Report(c) ==
  /\ At(c, "computed") /\ calc[c].plan.kind = "turns"
  /\ requests' = Append(requests, c)
  /\ Goes(c, "asked")
  /\ status' \in IF spc = "updating" THEN {"running", "segfault"} ELSE {"running"}
  /\ UNCHANGED <<main, rejoin_state, sentinel, server, copy, lock, writer, replies>>

(* The reply is not looked at. *)
Reported(c) ==
  /\ At(c, "asked") /\ replies # <<>>
  /\ replies' \in AfterRead(replies)
  /\ calc' = [calc EXCEPT ![c].at = "computed", ![c].plan.kind = "leads"]
  /\ UNCHANGED <<main, rejoin_state, sentinel, server, copy, lock, writer, requests, status>>

(* BECOMES LEADER *)
Lead(c) ==
  /\ At(c, "computed") /\ calc[c].plan.kind = "leads"
  /\ writer' = [writer EXCEPT ![c].at = "file"]
  /\ Goes(c, "exited")
  /\ UNCHANGED <<main, rejoin_state, sentinel, server, copy, lock, socket, status>>

-----------------------------------------------------------------------------
(* blockchain_work *)

WriterGoes(c, from, to) ==
  /\ writer[c].at = from
  /\ writer' = [writer EXCEPT ![c].at = to]
  /\ UNCHANGED <<main, rejoin_state, sentinel, server, copy, lock, calc, socket, status>>

(* flock: one writer at a time *)
WriteBegin(c) ==
  /\ \A d \in ThreadNo : writer[d].at # "writing"
  /\ WriterGoes(c, "file", "writing")

WriteEnd(c) == WriterGoes(c, "writing", "written")

(* rejoin_state++, in two steps *)
WriterRead(c) ==
  /\ writer[c].at = "written"
  /\ writer' = [writer EXCEPT ![c] = [at |-> "increment", tmp |-> rejoin_state]]
  /\ UNCHANGED <<main, rejoin_state, sentinel, server, copy, lock, calc, socket, status>>

WriterIncrement(c) ==
  /\ writer[c].at = "increment"
  /\ rejoin_state' = writer[c].tmp + 1
  /\ writer' = [writer EXCEPT ![c].at = "exited"]
  /\ UNCHANGED <<main, sentinel, server, copy, lock, calc, socket, status>>

-----------------------------------------------------------------------------
(* The server, as a client sees it: it answers requests in order, tells of
   changes, and may end.  Until it has inserted this node its table does not
   have it.  Without success is also the reply from a connection that is gone. *)

Serve ==
  /\ requests # <<>>
  /\ requests' = Tail(requests)
  /\ \E success \in BOOLEAN :
       /\ replies' = Append(replies, [to |-> Head(requests), success |-> success])
       /\ inserted' = (inserted \/ (success /\ Head(requests) = Main))
  /\ UNCHANGED <<main, rejoin_state, sentinel, news, sent, subscribed, copy, lock, calc,
                 writer, status>>

Announce(kind) ==
  /\ subscribed /\ sent < MaxNews
  /\ kind = "stale" <=> ~inserted
  /\ news' = Append(news, kind) /\ sent' = sent + 1
  /\ UNCHANGED <<main, rejoin_state, sentinel, subscribed, inserted, copy, lock, calc,
                 writer, socket, status>>

Unsubscribe ==
  /\ subscribed
  /\ subscribed' = FALSE
  /\ UNCHANGED <<main, rejoin_state, sentinel, news, sent, inserted, copy, lock, calc,
                 writer, socket, status>>

-----------------------------------------------------------------------------
MainThread == MainTop \/ MainSend \/ MainReply \/ MainWait \/ MainFailed
Thread2 == Receive \/ ReceiveEnd \/ UpdateBegin \/ UpdateEnd \/ CreateThread3
Calculation(c) ==
  \/ Lock(c)
  \/ ExitStale(c)
  \/ Compute(c)
  \/ Cancel(c)
  \/ RejoinRead(c)
  \/ RejoinWrite(c)
  \/ Report(c)
  \/ Reported(c)
  \/ Lead(c)
Writing(c) == WriteBegin(c) \/ WriteEnd(c) \/ WriterRead(c) \/ WriterIncrement(c)

Alive == status = "running" /\ mpc # "ended"
Next ==
  /\ Alive
  /\ \/ MainThread
     \/ Thread2
     \/ \E c \in ThreadNo : Calculation(c) \/ Writing(c)
     \/ Serve
     \/ Unsubscribe
     \/ \E kind \in Kind : Announce(kind)

Spec == Init /\ [][Next]_vars

(* Every thread is scheduled, and the server answers. *)
Fairness ==
  /\ WF_vars(Alive /\ MainThread)
  /\ WF_vars(Alive /\ Thread2)
  /\ WF_vars(Alive /\ Serve)
  /\ \A c \in ThreadNo : WF_vars(Alive /\ Calculation(c)) /\ WF_vars(Alive /\ Writing(c))

FairSpec == Spec /\ Fairness

-----------------------------------------------------------------------------
(* Properties *)

(* Thread 3 runs once: all but the one created last have exited or have been
   asked to cancel before its creation, in notifications_sentinel. *)
OneSchedule ==
  \A c \in 1..Len(calc) : calc[c].at \in Running /\ ~calc[c].cancelled => c = Len(calc)

(* A thread 3 that has not been asked to cancel acts on the newest copy. *)
PlanIsCurrent ==
  \A c \in 1..Len(calc) :
    calc[c].at \in {"computed", "asked"} /\ ~calc[c].cancelled =>
      calc[c].plan.version = copy.version

FoundOut(c) == At(c, "computed") /\ calc[c].plan.kind = "out"
Cancelled(c) == c \in 1..Len(calc) /\ calc[c].cancelled

(* Main waits for a reply, and there is neither a reply nor a request. *)
Starved == mpc = "reply" /\ requests = <<>> /\ replies = <<>>

(* When blockchain_work has written, or thread 3 has found that the node is out
   of the queue and is not cancelled, main broadcasts again, unless it waits for
   a reply that was dropped: no rejoin is lost between the reads of rejoin_state
   in main and its unprotected increments. *)
RejoinFollows ==
  \A c \in ThreadNo :
    /\ writer[c].at = "written" ~> mpc = "send" \/ Starved \/ ~Alive
    /\ FoundOut(c) ~> mpc = "send" \/ Starved \/ Cancelled(c) \/ ~Alive

-----------------------------------------------------------------------------
(* What the code says of itself *)

(* "The received SGXtable is not the most recent": the table is passed over and
   the next one is used, so thread 2 gets the locks for it. *)
UpdatesContinue == spc = "update" ~> spc # "update" \/ ~Alive

=============================================================================
