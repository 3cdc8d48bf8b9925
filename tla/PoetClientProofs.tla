-------------------------- MODULE PoetClientProofs --------------------------
(***************************************************************************)
(* Theorems about PoetClient for any number of notifications and retries.  *)
(***************************************************************************)
EXTENDS PoetClient, TLAPS, SequenceTheorems

(* What is left after a message has been read is shorter. *)
LEMMA AfterReadFacts ==
  ASSUME NEW S, NEW stream \in Seq(S), stream # <<>>, NEW rest \in AfterRead(stream)
  PROVE  /\ Head(stream) \in S
         /\ rest \in Seq(S)
         /\ Len(rest) \in Nat /\ Len(stream) \in Nat /\ Len(rest) < Len(stream)
<1>1. Len(stream) \in Nat /\ Head(stream) \in S
  BY EmptySeq, LenProperties, HeadTailProperties
<1>2. PICK n \in 1..Len(stream) : rest = SubSeq(stream, n + 1, Len(stream))
  BY DEF AfterRead
<1>3. \A i \in (n + 1)..Len(stream) : stream[i] \in S
  BY <1>1, <1>2, ElementOfSeq
<1> QED
  BY <1>1, <1>2, <1>3, SubSeqProperties

(* Thread c of the threads 3 goes on as t. *)
LEMMA ThreadGoesOn ==
  ASSUME TypeOK, NEW c \in 1..Len(calc), NEW t \in Thread3,
         calc' = [calc EXCEPT ![c] = t]
  PROVE  /\ calc' \in Seq(Thread3) /\ Len(calc') = Len(calc)
         /\ calc'[c] = t
         /\ \A d \in 1..Len(calc) : d # c => calc'[d] = calc[d]
  BY ExceptSeq DEF TypeOK

-----------------------------------------------------------------------------
(* The invariant *)

(* Every thread 3 comes from a notification of its own. *)
Counted ==
  Len(calc) + Len(news) + (IF spc = "listen" THEN 0 ELSE 1) <= sent

(* Between a notification and the thread 3 that is created for it, all the
   earlier ones have exited or have been asked to cancel. *)
CancelledFirst ==
  spc # "listen" =>
    \A c \in 1..Len(calc) : calc[c].at \in Running => calc[c].cancelled = TRUE

CInv == TypeOK /\ Counted /\ OneSchedule /\ CancelledFirst /\ PlanIsCurrent

(* What a step of thread 3 does to its own record. *)
Advance(t, old) ==
  /\ t.cancelled = old.cancelled
  /\ t.at \in Running => old.at \in Running
  /\ t.at \in {"computed", "asked"} =>
       \/ t.plan.version = copy.version
       \/ old.at \in {"computed", "asked"} /\ t.plan.version = old.plan.version

LEMMA AdvanceKeeps ==
  ASSUME CInv, NEW c \in 1..Len(calc), NEW t \in Thread3, Advance(t, calc[c]),
         calc' = [calc EXCEPT ![c] = t], UNCHANGED <<spc, news, sent, copy>>
  PROVE  /\ calc' \in Seq(Thread3) /\ Len(calc') <= MaxNews
         /\ Counted' /\ OneSchedule' /\ CancelledFirst' /\ PlanIsCurrent'
<1>1. /\ calc' \in Seq(Thread3) /\ Len(calc') = Len(calc)
      /\ calc'[c] = t
      /\ \A d \in 1..Len(calc) : d # c => calc'[d] = calc[d]
  BY Zenon, ThreadGoesOn DEF CInv
<1>2. Counted' /\ Len(calc') <= MaxNews
  BY <1>1 DEF CInv, Counted, TypeOK
<1>3. OneSchedule'
  BY ZenonT(60), <1>1 DEF CInv, OneSchedule, Advance
<1>4. CancelledFirst'
  BY <1>1 DEF CInv, CancelledFirst, Advance
<1>5. PlanIsCurrent'
  BY <1>1 DEF CInv, PlanIsCurrent, Advance
<1> QED
  BY <1>1, <1>2, <1>3, <1>4, <1>5

LEMMA CInit == Init => CInv
<1> SUFFICES ASSUME Init PROVE CInv
  OBVIOUS
<1>1. /\ <<>> \in Seq(Thread3) /\ <<>> \in Seq(Kind) /\ <<>> \in Seq(Caller)
      /\ <<>> \in Seq([to : Caller, success : BOOLEAN])
      /\ Len(calc) = 0 /\ Len(news) = 0
  BY EmptySeq DEF Init
<1>2. Empty \in Copy
  BY DEF Empty, Copy, Kind
<1>3. writer \in [ThreadNo -> Thread4]
  BY DEF Init, Thread4
<1>4. TypeOK
  <2>1. sent \in 0..MaxNews /\ Len(calc) <= MaxNews
    BY <1>1, NewsAssumption DEF Init
  <2>2. /\ initial_state \in Nat /\ rejoin_state \in Nat /\ retries \in Nat
        /\ inserted \in BOOLEAN /\ subscribed \in BOOLEAN
    BY Zenon DEF Init
  <2> QED
    BY Zenon, <1>1, <1>2, <1>3, <2>1, <2>2 DEF Init, TypeOK
<1>5. Counted
  BY <1>1 DEF Init, Counted
<1>6. OneSchedule /\ CancelledFirst /\ PlanIsCurrent
  BY <1>1 DEF Init, OneSchedule, CancelledFirst, PlanIsCurrent
<1> QED
  BY <1>4, <1>5, <1>6 DEF CInv

-----------------------------------------------------------------------------
(* Steps *)

LEMMA MainKeeps ==
  ASSUME CInv, MainThread
  PROVE  CInv'
<1>1. UNCHANGED <<spc, buffer, news, sent, copy, lock, calc, writer, inserted, status>>
  BY Zenon DEF MainThread, MainTop, MainSend, MainReply, MainWait, MainFailed, sentinel,
       server
<1>2. ASSUME MainTop \/ MainWait PROVE TypeOK'
  BY <1>1, <1>2 DEF MainTop, MainWait, server, socket, CInv, TypeOK
<1>3. ASSUME MainSend PROVE TypeOK'
  <2>1. requests' \in Seq(Caller)
    BY <1>3, AppendProperties DEF MainSend, Caller, CInv, TypeOK
  <2> QED
    BY <1>1, <1>3, <2>1 DEF MainSend, server, CInv, TypeOK
<1>4. ASSUME MainReply PROVE TypeOK'
  <2>1. replies' \in Seq([to : Caller, success : BOOLEAN])
    BY <1>4, AfterReadFacts DEF MainReply, CInv, TypeOK
  <2> QED
    BY <1>1, <1>4, <2>1 DEF MainReply, server, CInv, TypeOK
<1>5. ASSUME MainFailed PROVE TypeOK'
  <2>1. subscribed' \in BOOLEAN
    BY Zenon, <1>5 DEF MainFailed, CInv, TypeOK
  <2> QED
    BY <1>1, <1>5, <2>1 DEF MainFailed, socket, CInv, TypeOK
<1>6. TypeOK'
  BY <1>2, <1>3, <1>4, <1>5 DEF MainThread
<1> QED
  BY <1>1, <1>6 DEF CInv, Counted, OneSchedule, CancelledFirst, PlanIsCurrent

(* A cancellation changes nothing but the flag of the last thread 3. *)
LEMMA CancelKeeps ==
  ASSUME CInv, CancelLast
  PROVE  /\ calc' \in Seq(Thread3) /\ Len(calc') = Len(calc)
         /\ status' \in {"running", "segfault"}
         /\ \A c \in 1..Len(calc) :
              /\ calc'[c].at = calc[c].at /\ calc'[c].plan = calc[c].plan
              /\ c = Len(calc) => calc'[c].cancelled = TRUE
              /\ c # Len(calc) => calc'[c] = calc[c]
<1>1. CASE calc = <<>>
  <2>1. Len(calc) = 0 /\ calc' = calc
    BY <1>1, EmptySeq DEF CancelLast
  <2> QED
    BY <1>1, <2>1 DEF CancelLast, CInv, TypeOK
<1>2. CASE calc # <<>>
  <2> DEFINE n == Len(calc)
             t == [calc[n] EXCEPT !.cancelled = TRUE]
  <2>1. n \in 1..Len(calc) /\ calc[n] \in Thread3
    BY <1>2, EmptySeq, ElementOfSeq DEF CInv, TypeOK
  <2>2. /\ t \in Thread3 /\ t.cancelled = TRUE
        /\ t.at = calc[n].at /\ t.plan = calc[n].plan
    BY Zenon, <2>1 DEF Thread3
  <2>3. calc' = [calc EXCEPT ![n] = t] /\ status' = status
    BY <1>2 DEF CancelLast
  <2> HIDE DEF t
  <2>4. /\ calc' \in Seq(Thread3) /\ Len(calc') = Len(calc)
        /\ calc'[n] = t
        /\ \A d \in 1..Len(calc) : d # n => calc'[d] = calc[d]
    BY ZenonT(60), <2>1, <2>2, <2>3, ThreadGoesOn DEF CInv
  <2> QED
    BY ZenonT(60), <2>1, <2>2, <2>3, <2>4 DEF CInv, TypeOK
<1> QED
  BY Zenon, <1>1, <1>2

(* A notification: every thread 3 has exited or is asked to cancel now. *)
LEMMA ReceiveKeeps ==
  ASSUME CInv, Receive
  PROVE  CInv'
<1>1. /\ calc' \in Seq(Thread3) /\ Len(calc') = Len(calc)
      /\ status' \in {"running", "segfault"}
      /\ \A c \in 1..Len(calc) :
           /\ calc'[c].at = calc[c].at /\ calc'[c].plan = calc[c].plan
           /\ c = Len(calc) => calc'[c].cancelled = TRUE
           /\ c # Len(calc) => calc'[c] = calc[c]
  BY Zenon, CancelKeeps DEF Receive
<1>2. /\ Head(news) \in Kind /\ news' \in Seq(Kind)
      /\ Len(news') \in Nat /\ Len(news) \in Nat /\ Len(news') < Len(news)
  BY AfterReadFacts DEF Receive, CInv, TypeOK
<1>3. buffer' \in Copy
  BY <1>2 DEF Receive, CInv, TypeOK, Copy
<1>4. TypeOK'
  BY <1>1, <1>2, <1>3 DEF Receive, CInv, TypeOK, main, socket
<1>5. Counted'
  <2>1. Len(calc) \in Nat
    BY LenProperties DEF CInv, TypeOK
  <2> QED
    BY <1>1, <1>2, <2>1 DEF Receive, CInv, TypeOK, Counted
<1>6. CancelledFirst'
  <2> SUFFICES ASSUME NEW c \in 1..Len(calc), calc'[c].at \in Running
               PROVE  calc'[c].cancelled = TRUE
    BY Zenon, <1>1 DEF CancelledFirst
  <2>1. CASE c = Len(calc)
    BY <1>1, <2>1
  <2>2. CASE c # Len(calc)
    <3>1. calc'[c] = calc[c] /\ calc[c].cancelled
      BY <1>1, <2>2 DEF CInv, OneSchedule
    <3>2. calc[c] \in Thread3
      BY ElementOfSeq DEF CInv, TypeOK
    <3> QED
      BY <3>1, <3>2 DEF Thread3
  <2> QED
    BY Zenon, <2>1, <2>2
<1>7. OneSchedule' /\ PlanIsCurrent'
  <2>1. copy' = copy
    BY DEF Receive
  <2> QED
    BY <1>1, <2>1 DEF CInv, OneSchedule, PlanIsCurrent
<1> QED
  BY <1>4, <1>5, <1>6, <1>7 DEF CInv

LEMMA Thread2Keeps ==
  ASSUME CInv, Thread2
  PROVE  CInv'
<1>1. CASE ReceiveEnd
  <2>1. /\ calc' \in Seq(Thread3) /\ Len(calc') = Len(calc)
        /\ status' \in {"running", "segfault"}
        /\ \A c \in 1..Len(calc) :
             /\ calc'[c].at = calc[c].at /\ calc'[c].plan = calc[c].plan
             /\ c = Len(calc) => calc'[c].cancelled = TRUE
             /\ c # Len(calc) => calc'[c] = calc[c]
    BY ZenonT(60), <1>1, CancelKeeps DEF ReceiveEnd
  <2>2. TypeOK'
    BY <1>1, <2>1 DEF ReceiveEnd, CInv, TypeOK, main, sentinel, server, socket
  <2>3. spc = "listen" /\ UNCHANGED <<spc, news, sent, copy>>
    BY <1>1 DEF ReceiveEnd, sentinel, server
  <2>4. Counted' /\ CancelledFirst'
    BY <2>1, <2>3 DEF CInv, Counted, CancelledFirst
  <2>5. OneSchedule' /\ PlanIsCurrent'
    BY <2>1, <2>3 DEF CInv, OneSchedule, PlanIsCurrent
  <2> QED
    BY <2>2, <2>4, <2>5 DEF CInv
<1>2. CASE UpdateBegin
  <2>1. TypeOK'
    BY <1>2 DEF UpdateBegin, CInv, TypeOK, main, server, socket
  <2> QED
    BY <1>2, <2>1 DEF UpdateBegin, server, CInv, Counted, OneSchedule, CancelledFirst,
         PlanIsCurrent
<1>3. CASE UpdateEnd
  <2>1. TypeOK'
    BY <1>3 DEF UpdateEnd, CInv, TypeOK, main, server, socket
  <2>2. Counted' /\ OneSchedule' /\ CancelledFirst'
    BY <1>3 DEF UpdateEnd, server, CInv, Counted, OneSchedule, CancelledFirst
  <2>3. PlanIsCurrent'
    BY <1>3 DEF UpdateEnd, CInv, CancelledFirst, PlanIsCurrent, Running
  <2> QED
    BY <2>1, <2>2, <2>3 DEF CInv
<1>4. CASE CreateThread3
  <2> DEFINE t == [at |-> "lock", cancelled |-> FALSE, plan |-> Empty, tmp |-> 0]
             n == Len(calc)
  <2>1. t \in Thread3 /\ t.at = "lock"
    BY DEF Thread3, Running, Empty, Copy, Kind
  <2>2. calc' = Append(calc, t) /\ spc = "create" /\ spc' = "listen"
    BY <1>4 DEF CreateThread3
  <2> HIDE DEF t
  <2>3. /\ n \in Nat /\ calc' \in Seq(Thread3) /\ Len(calc') = n + 1
        /\ \A c \in 1..n : calc'[c] = calc[c]
        /\ calc'[n + 1] = t
    BY <2>1, <2>2, AppendProperties, LenProperties DEF CInv, TypeOK
  <2>4. \A c \in 1..Len(calc') : c \in 1..n \/ c = n + 1
    BY <2>3
  <2>5. Counted' /\ Len(calc') <= MaxNews
    <3>1. Len(news) \in Nat
      BY LenProperties DEF CInv, TypeOK
    <3> QED
      BY <1>4, <2>2, <2>3, <3>1, NewsAssumption DEF CreateThread3, server, CInv, TypeOK,
           Counted
  <2>6. TypeOK'
    BY <1>4, <2>2, <2>3, <2>5 DEF CreateThread3, CInv, TypeOK, main, server, socket
  <2>7. OneSchedule' /\ CancelledFirst'
    BY <2>2, <2>3, <2>4 DEF CInv, OneSchedule, CancelledFirst
  <2>8. PlanIsCurrent'
    BY <1>4, <2>1, <2>3, <2>4 DEF CreateThread3, CInv, PlanIsCurrent
  <2> QED
    BY <2>5, <2>6, <2>7, <2>8 DEF CInv
<1> QED
  BY <1>1, <1>2, <1>3, <1>4, ReceiveKeeps DEF Thread2

(* A step of thread 3 advances its record and leaves the others alone. *)
LEMMA CalculationAdvances ==
  ASSUME CInv, NEW c \in ThreadNo, Calculation(c)
  PROVE  /\ c \in 1..Len(calc)
         /\ \E t \in Thread3 : Advance(t, calc[c]) /\ calc' = [calc EXCEPT ![c] = t]
<1>1. c \in 1..Len(calc)
  BY Zenon DEF Calculation, At, Lock, ExitStale, Compute, Cancel, RejoinRead, RejoinWrite,
       Report, Reported, Lead
<1>2. /\ calc[c] \in Thread3 /\ copy \in Copy /\ rejoin_state \in Nat
  BY <1>1, ElementOfSeq DEF CInv, TypeOK
<1>3. ASSUME NEW w \in Running \cup {"increment", "exited"}, Goes(c, w),
             w \in Running => calc[c].at \in Running,
             w \in {"computed", "asked"} => calc[c].at \in {"computed", "asked"}
      PROVE  \E t \in Thread3 : Advance(t, calc[c]) /\ calc' = [calc EXCEPT ![c] = t]
  <2> DEFINE t == [calc[c] EXCEPT !.at = w]
  <2>1. t \in Thread3 /\ Advance(t, calc[c])
    BY <1>2, <1>3 DEF Thread3, Advance
  <2>2. calc' = [calc EXCEPT ![c] = t]
    BY <1>3 DEF Goes
  <2> HIDE DEF t
  <2> QED
    BY Zenon, <2>1, <2>2
<1>4. CASE Lock(c)
  BY <1>3, <1>4 DEF Lock, At, Running
<1>5. CASE ExitStale(c) \/ Cancel(c) \/ RejoinWrite(c) \/ Lead(c)
  <2>1. Goes(c, "exited")
    BY Zenon, <1>5 DEF ExitStale, Cancel, RejoinWrite, Lead
  <2> QED
    BY <1>1, <1>3, <2>1 DEF Running
<1>6. CASE Report(c)
  BY <1>3, <1>6 DEF Report, At, Running
<1>7. CASE Compute(c)
  <2> DEFINE t == [calc[c] EXCEPT !.at = "computed", !.plan = copy]
  <2>1. calc[c].at \in Running
    BY <1>7 DEF Compute, At, Running
  <2>2. t \in Thread3 /\ Advance(t, calc[c])
    BY Zenon, <1>2, <2>1 DEF Thread3, Running, Advance
  <2>3. calc' = [calc EXCEPT ![c] = t]
    BY Zenon, <1>7 DEF Compute
  <2> HIDE DEF t
  <2> QED
    BY Zenon, <1>1, <2>2, <2>3
<1>8. CASE RejoinRead(c)
  <2> DEFINE t == [calc[c] EXCEPT !.at = "increment", !.tmp = rejoin_state]
  <2>1. t \in Thread3 /\ Advance(t, calc[c])
    BY Zenon, <1>2 DEF Thread3, Running, Advance
  <2>2. calc' = [calc EXCEPT ![c] = t]
    BY Zenon, <1>8 DEF RejoinRead
  <2> HIDE DEF t
  <2> QED
    BY Zenon, <1>1, <2>1, <2>2
<1>9. CASE Reported(c)
  <2> DEFINE t == [calc[c] EXCEPT !.at = "computed", !.plan.kind = "leads"]
  <2>1. calc[c].at = "asked"
    BY <1>9 DEF Reported, At
  <2>2. t \in Thread3 /\ Advance(t, calc[c])
    BY Zenon, <1>2, <2>1 DEF Thread3, Running, Advance, Copy, Kind
  <2>3. calc' = [calc EXCEPT ![c] = t]
    BY ZenonT(60), <1>9 DEF Reported
  <2> HIDE DEF t
  <2> QED
    BY Zenon, <1>1, <2>2, <2>3
<1> QED
  BY <1>1, <1>4, <1>5, <1>6, <1>7, <1>8, <1>9 DEF Calculation

LEMMA CalculationKeeps ==
  ASSUME CInv, NEW c \in ThreadNo, Calculation(c)
  PROVE  CInv'
<1>1. PICK t \in Thread3 : Advance(t, calc[c]) /\ calc' = [calc EXCEPT ![c] = t]
  BY CalculationAdvances
<1>2. c \in 1..Len(calc) /\ calc[c] \in Thread3
  BY CalculationAdvances, ElementOfSeq DEF CInv, TypeOK
<1>3. UNCHANGED <<main, sentinel, server, copy>>
  BY Zenon DEF Calculation, Lock, ExitStale, Compute, Cancel, RejoinRead, RejoinWrite,
       Report, Reported, Lead
<1>4. /\ calc' \in Seq(Thread3) /\ Len(calc') <= MaxNews
      /\ Counted' /\ OneSchedule' /\ CancelledFirst' /\ PlanIsCurrent'
  BY Zenon, <1>1, <1>2, <1>3, AdvanceKeeps DEF sentinel, server
<1>5. /\ lock' \in {Free, Sentinel} \cup ThreadNo /\ status' \in {"running", "segfault"}
  BY Zenon DEF Calculation, Lock, ExitStale, Compute, Cancel, RejoinRead, RejoinWrite,
       Report, Reported, Lead, CInv, TypeOK
<1>6. rejoin_state' \in Nat
  <2>1. rejoin_state' = rejoin_state \/ rejoin_state' = calc[c].tmp + 1
    BY Zenon DEF Calculation, Lock, ExitStale, Compute, Cancel, RejoinRead, RejoinWrite,
         Report, Reported, Lead
  <2> QED
    BY SMTT(60), <1>2, <2>1 DEF Thread3, CInv, TypeOK
<1>7. writer' \in [ThreadNo -> Thread4]
  <2>1. CASE Lead(c)
    BY ZenonT(60), <2>1 DEF Lead, CInv, TypeOK, Thread4
  <2>2. CASE ~Lead(c)
    BY Zenon, <2>2 DEF Calculation, Lock, ExitStale, Compute, Cancel, RejoinRead,
         RejoinWrite, Report, Reported, CInv, TypeOK
  <2> QED
    BY <2>1, <2>2
<1>8. requests' \in Seq(Caller)
  <2>1. requests' = requests \/ requests' = Append(requests, c)
    BY Zenon DEF Calculation, Lock, ExitStale, Compute, Cancel, RejoinRead, RejoinWrite,
         Report, Reported, Lead, socket
  <2>2. c \in Caller /\ requests \in Seq(Caller)
    BY DEF Caller, CInv, TypeOK
  <2> QED
    BY <2>1, <2>2, AppendProperties
<1>9. replies' \in Seq([to : Caller, success : BOOLEAN])
  <2>1. replies' = replies \/ (replies # <<>> /\ replies' \in AfterRead(replies))
    BY Zenon DEF Calculation, Lock, ExitStale, Compute, Cancel, RejoinRead, RejoinWrite,
         Report, Reported, Lead, socket
  <2> QED
    BY <2>1, AfterReadFacts DEF CInv, TypeOK
<1> QED
  BY <1>3, <1>4, <1>5, <1>6, <1>7, <1>8, <1>9 DEF CInv, TypeOK, main, sentinel, server

(* The rest has no part in the schedule. *)
LEMMA OthersKeep ==
  ASSUME CInv, \/ \E c \in ThreadNo : Writing(c)
               \/ Serve \/ Unsubscribe \/ \E kind \in Kind : Announce(kind)
  PROVE  CInv'
<1>1. ASSUME NEW c \in ThreadNo, Writing(c) PROVE CInv'
  <2>1. UNCHANGED <<main, sentinel, server, copy, lock, calc, socket, status>>
    BY Zenon, <1>1 DEF Writing, WriteBegin, WriteEnd, WriterGoes, WriterRead,
         WriterIncrement
  <2>2. writer[c] \in Thread4 /\ writer \in [ThreadNo -> Thread4] /\ rejoin_state \in Nat
    BY DEF CInv, TypeOK
  <2>3. writer' \in [ThreadNo -> Thread4] /\ rejoin_state' \in Nat
    <3>1. CASE WriteBegin(c) \/ WriteEnd(c)
      BY <2>2, <3>1 DEF WriteBegin, WriteEnd, WriterGoes, Thread4
    <3>2. CASE WriterRead(c)
      BY <2>2, <3>2 DEF WriterRead, Thread4
    <3>3. CASE WriterIncrement(c)
      BY <2>2, <3>3 DEF WriterIncrement, Thread4
    <3> QED
      BY <1>1, <3>1, <3>2, <3>3 DEF Writing
  <2>4. TypeOK'
    BY <2>1, <2>3 DEF CInv, TypeOK, main, sentinel, server, socket
  <2> QED
    BY <2>1, <2>4 DEF CInv, Counted, OneSchedule, CancelledFirst, PlanIsCurrent, sentinel,
         server
<1>2. CASE Serve
  <2>1. Head(requests) \in Caller /\ Tail(requests) \in Seq(Caller)
    BY <1>2, EmptySeq, HeadTailProperties DEF Serve, CInv, TypeOK
  <2>2. PICK success \in BOOLEAN :
          /\ replies' = Append(replies, [to |-> Head(requests), success |-> success])
          /\ inserted' = (inserted \/ (success /\ Head(requests) = Main))
    BY Zenon, <1>2 DEF Serve
  <2>3. replies' \in Seq([to : Caller, success : BOOLEAN])
    BY <2>1, <2>2, AppendProperties DEF CInv, TypeOK
  <2>4. inserted' \in BOOLEAN
    BY Zenon, <2>2
  <2>5. UNCHANGED <<main, rejoin_state, sentinel, news, sent, subscribed, copy, lock, calc,
                    writer, status>>
    BY Zenon, <1>2 DEF Serve
  <2>6. TypeOK'
    BY SMTT(60), <1>2, <2>1, <2>3, <2>4, <2>5 DEF Serve, CInv, TypeOK, main, sentinel
  <2> QED
    BY <2>5, <2>6 DEF CInv, Counted, OneSchedule, CancelledFirst, PlanIsCurrent, sentinel
<1>3. CASE Unsubscribe
  <2>1. TypeOK'
    BY ZenonT(60), <1>3 DEF Unsubscribe, CInv, TypeOK, main, sentinel, socket
  <2> QED
    BY <1>3, <2>1 DEF Unsubscribe, CInv, Counted, OneSchedule, CancelledFirst,
         PlanIsCurrent, sentinel
<1>4. ASSUME NEW kind \in Kind, Announce(kind) PROVE CInv'
  <2>1. news' \in Seq(Kind) /\ Len(news') = Len(news) + 1 /\ Len(news) \in Nat
    BY <1>4, AppendProperties, LenProperties DEF Announce, CInv, TypeOK
  <2>2. Len(calc) \in Nat
    BY LenProperties DEF CInv, TypeOK
  <2>3. TypeOK'
    BY <1>4, <2>1, NewsAssumption DEF Announce, CInv, TypeOK, main, sentinel, socket
  <2>4. Counted'
    BY <1>4, <2>1, <2>2 DEF Announce, CInv, TypeOK, Counted, sentinel
  <2> QED
    BY <1>4, <2>3, <2>4 DEF Announce, CInv, OneSchedule, CancelledFirst, PlanIsCurrent,
         sentinel
<1> QED
  BY <1>1, <1>2, <1>3, <1>4

LEMMA CInductive == CInv /\ [Next]_vars => CInv'
<1> SUFFICES ASSUME CInv, [Next]_vars PROVE CInv'
  OBVIOUS
<1>1. CASE Next
  BY Zenon, <1>1, MainKeeps, Thread2Keeps, CalculationKeeps, OthersKeep DEF Next
<1>2. CASE UNCHANGED vars
  <2>1. TypeOK'
    BY <1>2 DEF vars, main, sentinel, server, socket, CInv, TypeOK
  <2> QED
    BY <1>2, <2>1 DEF vars, sentinel, server, CInv, Counted, OneSchedule, CancelledFirst,
         PlanIsCurrent
<1> QED
  BY <1>1, <1>2

LEMMA Invariants == Spec => []CInv
  BY CInit, CInductive, PTL DEF Spec

(* The state of the client keeps its types; there is never more than one
   thread 3 to a notification. *)
THEOREM TypeCorrect == Spec => []TypeOK
<1>1. CInv => TypeOK
  BY DEF CInv
<1> QED
  BY <1>1, Invariants, PTL

(* At most one thread 3 is in force, and it is the last one. *)
THEOREM OneScheduleHolds == Spec => []OneSchedule
<1>1. CInv => OneSchedule
  BY DEF CInv
<1> QED
  BY <1>1, Invariants, PTL

(* The thread 3 in force sleeps, reports and leads by the newest table and
   queue of this client. *)
THEOREM PlansCurrent == Spec => []PlanIsCurrent
<1>1. CInv => PlanIsCurrent
  BY DEF CInv
<1> QED
  BY <1>1, Invariants, PTL
=============================================================================
