------------------------- MODULE SocketStreamProofs -------------------------
(***************************************************************************)
(* What holds of a connection for every buffer size and all lengths of     *)
(* messages, however TCP cuts the stream.                                  *)
(***************************************************************************)
EXTENDS SocketStream, TLAPS, WellFoundedInduction

(* The messages in the stream: they follow one another without overlapping as
   long as there is a connection, and the first ending after the beginning of a
   message is its own. *)
InStream ==
  /\ \A t \in ends : t < sent
  /\ \A m \in DOMAIN msgs : msgs[m].from <= sent
  /\ \A m \in DOMAIN msgs : Ending(msgs[m]) <= sent => Ending(msgs[m]) \in ends
  /\ \A t \in ends : \A m \in DOMAIN msgs : msgs[m].from < t => Ending(msgs[m]) <= t
  /\ net = "up" => \A m \in 1..(Len(msgs) - 1) : Ending(msgs[m]) < Current.from

(* The message that is being sent, or was sent last. *)
Sending ==
  /\ spc # "idle" => msgs # <<>>
  /\ net = "up" /\ spc = "idle" /\ msgs # <<>> =>
       Ending(Current) \in ends /\ sent = Ending(Current) + 1
  /\ net = "up" /\ spc = "payload" =>
       total_sent < Current.len /\ sent = Current.from + total_sent
  /\ spc = "ending" => total_sent = Current.len /\ sent = Current.from + Current.len
  /\ spc = "idle" /\ result > 0 =>
       msgs # <<>> /\ result = Current.len /\ sent >= Current.from + Current.len

(* The reader: an ending it has passed was cut in two. *)
Reading ==
  /\ rpc = "recv" => \A t \in ends : begin < t /\ t <= read => t \in cuts
  /\ returned > 0 => last.from < read
  /\ net = "up" => rpc # "error"

(* Sender and reader alternate. *)
Alternating ==
  instep /\ net = "up" =>
    /\ returned <= Len(msgs) /\ Len(msgs) <= returned + 1
    /\ returned = Len(msgs) =>
         /\ spc = "idle" /\ read = sent
         /\ rpc = "recv" => begin = read
         /\ msgs # <<>> => Ending(Current) \notin cuts
    /\ returned < Len(msgs) =>
         /\ rpc = "recv" => begin = Current.from
         /\ rpc = "idle" => read = Current.from

IInv == TypeOK /\ InStream /\ Sending /\ Reading /\ PrefixReturned /\ Alternating

-----------------------------------------------------------------------------
(* A message is a record of two numbers, and its ending is a number. *)
LEMMA MessageType ==
  ASSUME TypeOK, NEW m \in DOMAIN msgs
  PROVE  /\ msgs[m] \in [from : Nat, len : Length]
         /\ msgs[m].from \in Nat /\ msgs[m].len \in Nat /\ msgs[m].len > 0
         /\ Ending(msgs[m]) = msgs[m].from + msgs[m].len + 1
         /\ Ending(msgs[m]) \in Nat
<1>1. msgs \in Seq([from : Nat, len : Length])
  BY Zenon DEF TypeOK
<1>2. msgs[m] \in [from : Nat, len : Length]
  <2> DEFINE M == [from : Nat, len : Length]
  <2>1. msgs \in Seq(M)
    BY Zenon, <1>1
  <2> HIDE DEF M
  <2>2. msgs[m] \in M
    BY <2>1
  <2> QED BY <2>2 DEF M
<1>3. msgs[m].from \in Nat /\ msgs[m].len \in Length
  BY Zenon, <1>2
<1>4. msgs[m].len \in Nat /\ msgs[m].len > 0
  <2>1. msgs[m].len \in Nat \ {0}
    BY <1>3, LengthAssumption, Zenon
  <2> QED BY <2>1
<1>5. Ending(msgs[m]) = msgs[m].from + msgs[m].len + 1
  BY Zenon DEF Ending
<1> QED BY <1>2, <1>3, <1>4, <1>5

LEMMA CurrentType ==
  ASSUME TypeOK, msgs # <<>>
  PROVE  /\ Len(msgs) \in DOMAIN msgs /\ Len(msgs) \in Nat /\ Len(msgs) > 0
         /\ Current = msgs[Len(msgs)]
         /\ Current.from \in Nat /\ Current.len \in Nat /\ Current.len > 0
         /\ Ending(Current) = Current.from + Current.len + 1
         /\ Ending(Current) \in Nat
<1>1. Len(msgs) \in DOMAIN msgs /\ Len(msgs) \in Nat /\ Len(msgs) > 0
  BY DEF TypeOK
<1> QED BY <1>1, MessageType DEF Current

LEMMA Facts ==
  ASSUME TypeOK
  PROVE  /\ sent \in Nat /\ read \in Nat /\ read <= sent
         /\ begin \in Nat /\ begin <= read /\ nul \in Int /\ nul >= -1 /\ nul <= read
         /\ total_sent \in Nat /\ result \in Nat /\ returned \in Nat
         /\ Len(msgs) \in Nat /\ DOMAIN msgs = 1..Len(msgs)
         /\ msgs # <<>> <=> Len(msgs) > 0
         /\ \A t \in ends : t \in Nat /\ t <= sent
<1>1. sent \in Nat /\ read \in 0..sent /\ begin \in 0..read /\ nul \in -1..read
      /\ ends \subseteq 1..sent
      /\ total_sent \in Nat /\ result \in Nat /\ returned \in Nat
  BY Zenon DEF TypeOK
<1>2. Len(msgs) \in Nat /\ DOMAIN msgs = 1..Len(msgs) /\ (msgs # <<>> <=> Len(msgs) > 0)
  <2> DEFINE M == [from : Nat, len : Length]
  <2>1. msgs \in Seq(M)
    BY Zenon DEF TypeOK
  <2> HIDE DEF M
  <2> QED BY <2>1
<1> QED BY <1>1, <1>2

(* A set of numbers has a smallest one. *)
LEMMA LeastExists ==
  ASSUME NEW S \in SUBSET Nat, S # {}
  PROVE  \E x \in S : \A y \in S : x <= y
<1> DEFINE R == {ss \in Nat \X Nat : ss[1] < ss[2]}
<1>1. R = OpToRel(<, Nat)
  BY Zenon DEF OpToRel
<1>2. IsWellFoundedOn(R, Nat)
  BY <1>1, NatLessThanWellFounded, Zenon
<1> HIDE DEF R
<1>3. PICK x \in S : \A y \in S : ~(<<y, x>> \in R)
  BY <1>2, WFMin, Zenon
<1>4. \A y \in S : <<y, x>> \in R <=> y < x
  BY Zenon DEF R
<1>5. ASSUME NEW y \in S PROVE x <= y
  <2>1. x \in Nat /\ y \in Nat /\ ~(y < x)
    BY Zenon, <1>3, <1>4
  <2> QED BY <2>1
<1> QED BY <1>5

(* strstr finds the first of the endings in a block. *)
LEMMA FirstIs ==
  ASSUME TypeOK, NEW lo \in Nat, NEW hi \in Nat, Found(lo, hi) # {}
  PROVE  /\ First(Found(lo, hi)) \in Found(lo, hi)
         /\ First(Found(lo, hi)) \in Nat
         /\ \A t \in Found(lo, hi) : First(Found(lo, hi)) <= t
<1> DEFINE F == Found(lo, hi)
<1>1. F \in SUBSET Nat
  <2>1. \A t \in F : t \in ends
    BY Zenon DEF Found
  <2> QED BY <2>1, Facts
<1> HIDE DEF F
<1>2. \E t \in F : \A u \in F : t <= u
  BY Zenon, <1>1, LeastExists DEF F
<1>3. First(F) \in F /\ \A u \in F : First(F) <= u
  BY <1>2, Zenon DEF First
<1> QED BY <1>1, <1>3 DEF F

(* A message before the last one ends before that begins. *)
LEMMA Older ==
  ASSUME TypeOK, InStream, net = "up", NEW m \in DOMAIN msgs, m # Len(msgs)
  PROVE  Ending(msgs[m]) < Current.from
<1>1. m \in 1..(Len(msgs) - 1)
  BY Facts
<1> QED BY <1>1 DEF InStream

-----------------------------------------------------------------------------
LEMMA InitIInv == Init => IInv
<1> SUFFICES ASSUME Init PROVE IInv OBVIOUS
<1> USE DEF Init
<1>1. TypeOK
  BY DEF TypeOK
<1>2. InStream
  BY DEF InStream, Current
<1>3. Sending
  BY DEF Sending
<1>4. Reading
  BY Zenon DEF Reading
<1>5. PrefixReturned
  BY DEF PrefixReturned
<1>6. Alternating
  BY DEF Alternating
<1> QED BY <1>1, <1>2, <1>3, <1>4, <1>5, <1>6 DEF IInv

-----------------------------------------------------------------------------
(* A new message begins where the stream ends. *)
LEMMA SendMessageStep ==
  ASSUME IInv, NEW len \in Length, SendMessage(len)
  PROVE  IInv'
<1> USE DEF IInv
<1> DEFINE M == [from : Nat, len : Length]
           x == [from |-> sent, len |-> len]
<1>0. len \in Nat /\ len > 0 /\ x \in M /\ x.from = sent /\ x.len = len
  <2>1. len \in Nat \ {0}
    BY LengthAssumption, Zenon
  <2> QED BY <2>1 DEF TypeOK
<1> HIDE DEF M, x
<1>1. /\ msgs \in Seq(M) /\ msgs' = Append(msgs, x)
      /\ spc = "idle" /\ spc' = "payload" /\ total_sent' = 0
      /\ instep' = (instep /\ returned = Len(msgs))
      /\ UNCHANGED <<sent, read, net, ends, result, rpc, begin, nul, last, returned, cuts>>
  BY Zenon DEF SendMessage, TypeOK, reader, M, x
<1>2. /\ msgs' \in Seq(M) /\ Len(msgs') = Len(msgs) + 1 /\ Len(msgs) \in Nat
      /\ DOMAIN msgs' = DOMAIN msgs \cup {Len(msgs')}
      /\ \A m \in DOMAIN msgs : msgs'[m] = msgs[m] /\ m <= Len(msgs)
      /\ msgs'[Len(msgs')] = x /\ msgs' # <<>>
  BY <1>0, <1>1
<1>3. Current' = x /\ Ending(x) = sent + len + 1
  BY Zenon, <1>0, <1>2 DEF Current, Ending
<1>4. TypeOK'
  BY Zenon, <1>1, <1>2 DEF TypeOK, M
<1>5. InStream'
  <2>1. \A m \in DOMAIN msgs : Ending(msgs[m]) \in Nat /\ Ending(msgs'[m]) = Ending(msgs[m])
    BY Zenon, <1>2, MessageType
  <2>2. net = "up" => \A m \in DOMAIN msgs : Ending(msgs[m]) < sent
    <3> SUFFICES ASSUME net = "up", NEW m \in DOMAIN msgs PROVE Ending(msgs[m]) < sent
      OBVIOUS
    <3>1. msgs # <<>>
      OBVIOUS
    <3>2. CASE m = Len(msgs)
      BY <1>1, <3>1, <3>2, CurrentType DEF Sending, TypeOK
    <3>3. CASE m # Len(msgs)
      <4>1. Ending(msgs[m]) < Current.from /\ Ending(msgs[m]) \in Nat
        BY Zenon, <3>3, Older, MessageType
      <4>2. Current.from <= sent /\ Current.from \in Nat /\ sent \in Nat
        BY Zenon, <3>1, CurrentType, Facts DEF InStream
      <4> QED BY <4>1, <4>2
    <3> QED BY <3>2, <3>3
  <2>3. \A t \in ends : t < sent /\ t \in Nat
    BY DEF InStream, TypeOK
  <2> QED BY SMTT(60), <1>0, <1>1, <1>2, <1>3, <2>1, <2>2, <2>3 DEF InStream, TypeOK
<1>6. Sending'
  BY <1>0, <1>1, <1>2, <1>3 DEF Sending, TypeOK
<1>7. Reading'
  BY Zenon, <1>1 DEF Reading
<1>8. PrefixReturned'
  <2>1. returned > 0 => last.from < sent
    BY DEF Reading, TypeOK
  <2>2. last \in [from : Nat, to : Nat, full : BOOLEAN] /\ sent \in Nat
    BY Zenon DEF TypeOK
  <2> QED BY <1>0, <1>1, <1>2, <2>1, <2>2 DEF PrefixReturned
<1>9. Alternating'
  <2> SUFFICES ASSUME instep', net = "up" PROVE Alternating'
    BY Zenon, <1>1 DEF Alternating
  <2>1. instep /\ returned = Len(msgs)
    BY Zenon, <1>1
  <2>2. read = sent /\ (rpc = "recv" => begin = read)
    BY Zenon, <2>1 DEF Alternating
  <2>3. returned < Len(msgs') /\ Len(msgs') <= returned + 1
    BY <1>2, <2>1
  <2>4. /\ returned \in Nat /\ Len(msgs') \in Nat
        /\ Current'.from = sent
    BY <1>0, <1>2, <1>3, Facts
  <2>5. returned' = returned /\ rpc' = rpc /\ begin' = begin /\ read' = read
    BY Zenon, <1>1
  <2> QED BY <2>2, <2>3, <2>4, <2>5 DEF Alternating
<1> QED BY <1>4, <1>5, <1>6, <1>7, <1>8, <1>9

-----------------------------------------------------------------------------
(* What is sent of a message does not reach its ending. *)
LEMMA SendPartStep ==
  ASSUME IInv, SendPart
  PROVE  IInv'
<1> USE DEF IInv
<1>2. /\ spc = "payload" /\ net = "up" /\ msgs # <<>>
      /\ sent = Current.from + total_sent /\ total_sent < Current.len
  BY Zenon DEF SendPart, Sending
<1>3. /\ Current.from \in Nat /\ Current.len \in Nat
      /\ Ending(Current) = Current.from + Current.len + 1 /\ Current' = Current
      /\ sent \in Nat /\ read \in Nat /\ read <= sent
      /\ total_sent \in Nat /\ Len(msgs) \in DOMAIN msgs /\ Len(msgs) \in Nat
  BY Zenon, <1>2, CurrentType, Facts DEF SendPart, Current
<1>1. PICK n \in Nat :
        /\ n > 0 /\ n <= Current.len - total_sent
        /\ sent' = sent + n /\ total_sent' = total_sent + n
        /\ spc' = IF total_sent' < Current.len THEN "payload" ELSE "ending"
        /\ UNCHANGED <<read, net, msgs, ends, result, rpc, begin, nul, last, returned, cuts,
                       instep>>
  BY SMTT(60), <1>2, <1>3, BufferAssumption DEF SendPart, reader, Least
<1>4. n \in Nat /\ n > 0 /\ n <= Current.len - total_sent
  BY Zenon, <1>1
<1>5. /\ sent' \in Nat /\ sent' > sent /\ sent' <= Current.from + Current.len
      /\ sent' = Current.from + total_sent'
  <2> DEFINE a == Current.from
             b == Current.len
  <2>1. /\ a \in Nat /\ b \in Nat /\ sent \in Nat /\ total_sent \in Nat
        /\ sent = a + total_sent /\ n <= b - total_sent
        /\ sent' = sent + n /\ total_sent' = total_sent + n
    BY Zenon, <1>1, <1>2, <1>3
  <2> HIDE DEF a, b
  <2>2. sent' \in Nat /\ sent' > sent /\ sent' <= a + b /\ sent' = a + total_sent'
    BY <1>4, <2>1
  <2> QED BY <2>2 DEF a, b
<1>6. TypeOK'
  <2>1. /\ sent' \in Nat /\ read' \in 0..sent' /\ 1..sent \subseteq 1..sent'
        /\ total_sent' \in Nat /\ spc' \in {"idle", "payload", "ending"}
    BY <1>1, <1>3, <1>5
  <2> QED BY <1>1, <2>1 DEF TypeOK
<1>7. InStream'
  <2>1. \A m \in DOMAIN msgs : /\ msgs[m].from \in Nat /\ Ending(msgs[m]) \in Nat
                               /\ m # Len(msgs) => Ending(msgs[m]) < Current.from
    BY Zenon, <1>2, Older, MessageType
  <2>2. \A t \in ends : t \in Nat /\ t < sent
    BY DEF InStream, TypeOK
  <2>3. \A m \in DOMAIN msgs : Ending(msgs[m]) <= sent' => Ending(msgs[m]) \in ends
    <3> SUFFICES ASSUME NEW m \in DOMAIN msgs, Ending(msgs[m]) <= sent'
                 PROVE  Ending(msgs[m]) \in ends
      OBVIOUS
    <3>1. m # Len(msgs)
      BY <1>3, <1>5 DEF Current
    <3>2. Ending(msgs[m]) <= sent
      BY <1>2, <1>3, <2>1, <3>1
    <3> QED BY <3>2 DEF InStream
  <2> QED BY SMTT(60), <1>1, <1>3, <1>5, <2>1, <2>2, <2>3 DEF InStream
<1>8. Sending'
  <2>1. CASE total_sent' < Current.len
    <3>1. spc' = "payload"
      BY Zenon, <1>1, <2>1
    <3> QED BY <1>1, <1>2, <1>3, <1>5, <2>1, <3>1 DEF Sending
  <2>2. CASE ~(total_sent' < Current.len)
    <3>1. spc' = "ending"
      BY Zenon, <1>1, <2>2
    <3>2. total_sent' = total_sent + n
      BY Zenon, <1>1
    <3>3. total_sent' = Current.len
      BY <1>3, <1>4, <2>2, <3>2
    <3>4. sent' = Current.from + Current.len
      BY Zenon, <1>5, <3>3
    <3> QED BY SMTT(60), <1>1, <1>2, <1>3, <3>1, <3>3, <3>4 DEF Sending
  <2> QED BY <2>1, <2>2
<1>9. Reading' /\ PrefixReturned'
  BY Zenon, <1>1, <1>2 DEF Reading, PrefixReturned
<1>10. Alternating'
  BY Zenon, <1>1, <1>2, <1>3 DEF Alternating
<1> QED BY <1>6, <1>7, <1>8, <1>9, <1>10
-----------------------------------------------------------------------------
(* The ending of a message is the one place in the stream where it ends. *)
LEMMA SendEndingStep ==
  ASSUME IInv, SendEnding
  PROVE  IInv'
<1> USE DEF IInv
<1>1. /\ spc = "ending" /\ net = "up" /\ sent' = sent + 2 /\ ends' = ends \cup {sent + 1}
      /\ result' = total_sent /\ spc' = "idle"
      /\ UNCHANGED <<read, net, msgs, total_sent, rpc, begin, nul, last, returned, cuts,
                     instep>>
  BY Zenon DEF SendEnding, reader, ENDING_STRING
<1>2. /\ msgs # <<>> /\ total_sent = Current.len /\ sent = Current.from + Current.len
      /\ Current' = Current
  BY Zenon, <1>1 DEF Sending, Current
<1>3. /\ Current.from \in Nat /\ Current.len \in Nat
      /\ Ending(Current) = sent + 1
      /\ sent \in Nat /\ read \in Nat /\ read <= sent /\ returned \in Nat
      /\ Len(msgs) \in Nat
  BY Zenon, <1>2, CurrentType, Facts
<1>4. TypeOK'
  BY <1>1, <1>3 DEF TypeOK
<1>5. InStream'
  <2>1. \A m \in DOMAIN msgs : /\ msgs[m].from \in Nat /\ Ending(msgs[m]) \in Nat
                               /\ m # Len(msgs) => Ending(msgs[m]) < Current.from
                               /\ m = Len(msgs) => Ending(msgs[m]) = sent + 1
                               /\ msgs[m].from <= sent
    BY Zenon, <1>1, <1>3, Older, MessageType DEF Current, InStream
  <2>2. \A t \in ends : t \in Nat /\ t < sent
    BY Zenon, Facts DEF InStream
  <2>3. \A m \in DOMAIN msgs : Ending(msgs[m]) <= sent + 1
    BY SMTT(60), <1>2, <1>3, <2>1
  <2>4. \A m \in DOMAIN msgs : Ending(msgs[m]) \in ends'
    <3> SUFFICES ASSUME NEW m \in DOMAIN msgs PROVE Ending(msgs[m]) \in ends'
      OBVIOUS
    <3>1. CASE m = Len(msgs)
      BY Zenon, <1>1, <2>1, <3>1
    <3>2. CASE m # Len(msgs)
      <4>1. Ending(msgs[m]) <= sent
        BY <1>2, <1>3, <2>1, <3>2
      <4> QED BY <1>1, <4>1 DEF InStream
    <3> QED BY <3>1, <3>2
  <2> QED BY SMTT(60), <1>1, <1>2, <1>3, <2>1, <2>2, <2>3, <2>4 DEF InStream
<1>6. Sending'
  BY <1>1, <1>2, <1>3 DEF Sending
<1>7. Reading' /\ PrefixReturned'
  <2>1. \A t \in ends' : t \in ends \/ t > read
    BY <1>1, <1>3
  <2>2. \A t \in ends' : t <= read => t \in ends
    BY <1>1, <1>3, <2>1
  <2> QED BY <1>1, <2>2 DEF Reading, PrefixReturned
<1>8. Alternating'
  BY Zenon, <1>1, <1>2 DEF Alternating
<1> QED BY <1>4, <1>5, <1>6, <1>7, <1>8

(* A send that fails sends nothing. *)
LEMMA SendFailsStep ==
  ASSUME IInv, SendFails
  PROVE  IInv'
<1> USE DEF IInv
<1>1. /\ spc \in {"payload", "ending"} /\ net # "up" /\ spc' = "idle"
      /\ result' = IF spc = "payload" THEN 0 ELSE total_sent
      /\ UNCHANGED <<sent, read, net, msgs, ends, total_sent, rpc, begin, nul, last, returned,
                     cuts, instep>>
  BY Zenon DEF SendFails, reader
<1>2. TypeOK'
  BY Zenon, <1>1 DEF TypeOK
<1>3. InStream' /\ Reading' /\ PrefixReturned' /\ Alternating'
  BY Zenon, <1>1 DEF InStream, Reading, PrefixReturned, Alternating, Current
<1>4. Sending'
  <2>1. Current' = Current
    BY Zenon, <1>1 DEF Current
  <2>2. result' > 0 => /\ spc = "ending" /\ result' = total_sent
    BY <1>1
  <2>3. msgs # <<>>
    BY Zenon, <1>1 DEF Sending
  <2>4. Current.from \in Nat /\ Current.len \in Nat /\ sent \in Nat
    BY Zenon, <2>3, CurrentType, Facts
  <2> QED BY <1>1, <2>1, <2>2, <2>3, <2>4 DEF Sending
<1> QED BY <1>2, <1>3, <1>4
-----------------------------------------------------------------------------
(* A call begins with an empty text, at the byte it reads next. *)
LEMMA GetMessageStep ==
  ASSUME IInv, GetMessage
  PROVE  IInv'
<1> USE DEF IInv
<1>1. /\ rpc = "idle" /\ rpc' = "recv" /\ begin' = read /\ nul' = -1
      /\ UNCHANGED <<sent, read, net, msgs, ends, spc, total_sent, result, last, returned,
                     cuts, instep>>
  BY Zenon DEF GetMessage, sender
<1>2. TypeOK'
  BY <1>1 DEF TypeOK
<1>3. InStream' /\ Sending' /\ PrefixReturned'
  BY Zenon, <1>1 DEF InStream, Sending, PrefixReturned, Current
<1>4. Reading'
  <2>1. \A t \in ends : ~(read < t /\ t <= read)
    BY Facts
  <2> QED BY <1>1, <2>1 DEF Reading
<1>5. Alternating'
  BY Zenon, <1>1 DEF Alternating, Current
<1> QED BY <1>2, <1>3, <1>4, <1>5

(* A block in which an ending is found: if the call began where a message does,
   it is the ending of that message, unless that was passed in two halves. *)
LEMMA RecvReturnStep ==
  ASSUME IInv, NEW n \in 1..Least(sent - read, BUFFER_SIZE),
         rpc = "recv", net = "up", Found(read, read + n) # {}, Return(n),
         read' = read + n, cuts' = cuts \cup ({read + n} \cap ends),
         UNCHANGED <<sent, net, sender, instep>>
  PROVE  IInv'
<1> USE DEF IInv
<1> DEFINE f == First(Found(read, read + n))
<1>1. /\ n \in Nat /\ n > 0 /\ n <= sent - read
      /\ sent \in Nat /\ read \in Nat /\ begin \in Nat /\ begin <= read /\ read + n <= sent
      /\ nul \in Int /\ nul >= -1 /\ nul <= read /\ returned \in Nat /\ read + n \in Nat
  BY SMTT(60), Facts, BufferAssumption DEF Least
<1>2. /\ f \in ends /\ f \in Nat /\ read < f /\ f < read + n
      /\ \A t \in ends : read < t /\ t < read + n => f <= t
  BY Zenon, <1>1, FirstIs DEF Found
<1>3. /\ last' = [from |-> begin, to |-> Text(f - 1), full |-> nul = -1]
      /\ returned' = returned + 1 /\ rpc' = "idle"
      /\ UNCHANGED <<sent, net, msgs, ends, spc, total_sent, result, begin, nul, instep>>
  BY Zenon DEF Return, sender
<1> HIDE DEF f
<1>4. /\ Text(f - 1) \in Nat /\ Text(f - 1) <= f - 1
      /\ nul = -1 => Text(f - 1) = f - 1
  BY <1>1, <1>2 DEF Text
<1>5. TypeOK'
  <2>1. last' \in [from : Nat, to : Nat, full : BOOLEAN]
    BY Zenon, <1>1, <1>3, <1>4
  <2>2. cuts' \subseteq 1..read'
    BY <1>1 DEF TypeOK
  <2>3. begin' \in 0..read' /\ nul' \in -1..read' /\ read' \in 0..sent'
    BY <1>1, <1>3
  <2> QED BY <1>1, <1>3, <2>1, <2>2, <2>3 DEF TypeOK
<1>6. InStream' /\ Sending'
  BY Zenon, <1>3 DEF InStream, Sending, Current
<1>7. Reading'
  BY <1>1, <1>3 DEF Reading
<1>8. PrefixReturned'
  <2> SUFFICES ASSUME NEW m \in DOMAIN msgs, msgs[m].from = begin, Ending(msgs[m]) \notin cuts'
               PROVE  /\ Text(f - 1) <= begin + msgs[m].len
                      /\ nul = -1 => Text(f - 1) = begin + msgs[m].len
    BY ZenonT(60), <1>3 DEF PrefixReturned
  <2>1. /\ msgs[m].len \in Nat /\ msgs[m].len > 0
        /\ Ending(msgs[m]) = begin + msgs[m].len + 1 /\ Ending(msgs[m]) \in Nat
    BY Zenon, MessageType
  <2>2. Ending(msgs[m]) <= f
    BY <1>1, <1>2 DEF InStream
  <2>3. Ending(msgs[m]) \in ends
    BY <1>1, <1>2, <2>1, <2>2 DEF InStream
  <2>4. ~(Ending(msgs[m]) <= read)
    BY <1>1, <2>1, <2>3 DEF Reading
  <2>5. f = Ending(msgs[m])
    BY <1>1, <1>2, <2>1, <2>2, <2>3, <2>4
  <2> QED BY <1>1, <1>2, <1>4, <2>1, <2>5
<1>9. Alternating'
  <2> SUFFICES ASSUME instep PROVE Alternating'
    BY <1>3 DEF Alternating
  <2>1. returned <= Len(msgs) /\ Len(msgs) <= returned + 1 /\ returned # Len(msgs)
    BY <1>1 DEF Alternating
  <2>2. returned' = Len(msgs) /\ msgs # <<>> /\ returned < Len(msgs)
    <3>1. Len(msgs) \in Nat /\ returned \in Nat /\ (msgs # <<>> <=> Len(msgs) > 0)
      BY Zenon, Facts
    <3>2. returned + 1 = Len(msgs)
      BY <2>1, <3>1
    <3> QED BY <1>3, <3>1, <3>2
  <2>3. begin = Current.from
    BY Zenon, <2>2 DEF Alternating
  <2>4. /\ Current.from \in Nat /\ Current.len \in Nat /\ Current.len > 0
        /\ Ending(Current) = Current.from + Current.len + 1 /\ Len(msgs) \in DOMAIN msgs
        /\ Ending(Current) \in Nat
    BY Zenon, <2>2, CurrentType
  <2>5. Ending(Current) <= f
    BY <1>1, <1>2, <2>3, <2>4 DEF InStream, Current
  <2>6. spc = "idle"
    <3>0. Ending(Current) < sent
      BY <1>1, <1>2, <2>4, <2>5
    <3>1. CASE spc = "payload"
      <4>1. total_sent < Current.len /\ sent = Current.from + total_sent /\ total_sent \in Nat
        BY Zenon, <3>1, Facts DEF Sending
      <4>2. sent <= Ending(Current)
        BY <2>4, <4>1
      <4> QED BY <1>1, <2>4, <3>0, <4>2
    <3>2. CASE spc = "ending"
      <4>1. sent = Current.from + Current.len
        BY Zenon, <3>2 DEF Sending
      <4>2. sent <= Ending(Current)
        BY <2>4, <4>1
      <4> QED BY <1>1, <2>4, <3>0, <4>2
    <3> QED BY <3>1, <3>2 DEF TypeOK
  <2>7. sent = Ending(Current) + 1
    BY Zenon, <2>2, <2>6 DEF Sending
  <2>8. f = Ending(Current) /\ read + n = sent
    BY SMTT(60), <1>1, <1>2, <2>4, <2>5, <2>7
  <2>9. Ending(Current) \notin cuts'
    <3>1. \A t \in cuts : t <= read
      BY <1>1 DEF TypeOK
    <3>2. Ending(Current) \notin cuts
      BY <1>1, <1>2, <2>4, <2>8, <3>1
    <3>3. Ending(Current) # read + n
      BY <2>4, <2>7, <2>8
    <3> QED BY <3>2, <3>3
  <2>10. Current' = Current
    BY Zenon, <1>3 DEF Current
  <2> QED BY <1>1, <1>3, <2>2, <2>6, <2>8, <2>9, <2>10, Facts DEF Alternating
<1> QED BY <1>5, <1>6, <1>7, <1>8, <1>9
(* A block without an ending: if the stream has an ending there, the block ends
   in the middle of it. *)
LEMMA RecvGoesOnStep ==
  ASSUME IInv, NEW n \in 1..Least(sent - read, BUFFER_SIZE),
         rpc = "recv", net = "up", Found(read, read + n) = {},
         nul' = IF nul = -1 /\ n < BUFFER_SIZE THEN read + n ELSE nul,
         read' = read + n, cuts' = cuts \cup ({read + n} \cap ends),
         UNCHANGED <<rpc, begin, last, returned>>,
         UNCHANGED <<sent, net, sender, instep>>
  PROVE  IInv'
<1> USE DEF IInv
<1>1. /\ n \in Nat /\ n > 0 /\ n <= sent - read
      /\ sent \in Nat /\ read \in Nat /\ begin \in Nat /\ begin <= read /\ read + n <= sent
      /\ nul \in Int /\ nul >= -1 /\ nul <= read /\ read + n \in Nat
  BY SMTT(60), Facts, BufferAssumption DEF Least
<1>2. UNCHANGED <<sent, net, msgs, ends, spc, total_sent, result, rpc, begin, last, returned,
                  instep>>
  BY Zenon DEF sender
<1>3. TypeOK'
  <2>1. cuts' \subseteq 1..read'
    BY <1>1 DEF TypeOK
  <2>2. begin' \in 0..read' /\ nul' \in -1..read' /\ read' \in 0..sent'
    BY <1>1, <1>2
  <2> QED BY <1>1, <1>2, <2>1, <2>2 DEF TypeOK
<1>4. InStream' /\ Sending'
  BY Zenon, <1>2 DEF InStream, Sending, Current
<1>5. Reading'
  <2>1. ASSUME NEW t \in ends, begin < t, t <= read + n PROVE t \in cuts'
    <3>1. t \in Nat /\ t \notin Found(read, read + n)
      BY Zenon, Facts
    <3>2. CASE t <= read
      BY Zenon, <2>1, <3>2 DEF Reading
    <3>3. CASE ~(t <= read)
      <4>1. ~(read < t /\ t < read + n)
        BY Zenon, <3>1 DEF Found
      <4>2. t = read + n
        BY <1>1, <2>1, <3>1, <3>3, <4>1
      <4> QED BY <4>2
    <3> QED BY <3>2, <3>3
  <2>2. returned > 0 => last.from < read'
    <3>1. last.from \in Nat
      BY Zenon DEF TypeOK
    <3> QED BY <1>1, <3>1 DEF Reading
  <2> QED BY <1>2, <2>1, <2>2 DEF Reading
<1>6. PrefixReturned'
  <2>1. \A t : t \notin cuts' => t \notin cuts
    OBVIOUS
  <2> QED BY <1>2, <2>1 DEF PrefixReturned
<1>7. Alternating'
  <2>1. instep => returned # Len(msgs)
    BY <1>1 DEF Alternating
  <2>2. Current' = Current
    BY Zenon, <1>2 DEF Current
  <2> QED BY <1>2, <2>1, <2>2 DEF Alternating
<1> QED BY <1>3, <1>4, <1>5, <1>6, <1>7

LEMMA RecvStep ==
  ASSUME IInv, Recv
  PROVE  IInv'
<1>1. PICK n \in 1..Least(sent - read, BUFFER_SIZE) :
        /\ rpc = "recv" /\ net = "up"
        /\ IF Found(read, read + n) # {}
           THEN Return(n)
           ELSE /\ nul' = IF nul = -1 /\ n < BUFFER_SIZE THEN read + n ELSE nul
                /\ UNCHANGED <<rpc, begin, last, returned>>
        /\ read' = read + n
        /\ cuts' = cuts \cup ({read + n} \cap ends)
        /\ UNCHANGED <<sent, net, sender, instep>>
  BY Zenon DEF Recv
<1>2. CASE Found(read, read + n) # {}
  BY <1>1, <1>2, RecvReturnStep, Zenon
<1>3. CASE Found(read, read + n) = {}
  <2>1. /\ nul' = IF nul = -1 /\ n < BUFFER_SIZE THEN read + n ELSE nul
        /\ UNCHANGED <<rpc, begin, last, returned>>
    BY <1>1, <1>3, Zenon
  <2> QED BY <1>1, <1>3, <2>1, RecvGoesOnStep, Zenon
<1> QED BY <1>2, <1>3

(* What fails when the connection is lost leaves the stream as it is. *)
LEMMA LostStep ==
  ASSUME IInv, RecvError \/ RecvClosed \/ Reset
  PROVE  IInv'
<1> USE DEF IInv
<1>1. /\ net' # "up" /\ net' \in {"up", "reset", "closed"}
      /\ UNCHANGED <<sent, read, msgs, ends, spc, total_sent, result, begin, last, returned,
                     cuts, instep>>
  BY Zenon DEF RecvError, RecvClosed, Reset, sender, reader
<1>2. nul' \in -1..read /\ rpc' \in {rpc, "error"}
  BY SMTT(60), Facts DEF RecvError, RecvClosed, Reset, reader, Text, TypeOK
<1>3. TypeOK'
  BY Zenon, <1>1, <1>2 DEF TypeOK
<1>4. InStream' /\ Sending' /\ PrefixReturned' /\ Alternating'
  BY Zenon, <1>1 DEF InStream, Sending, PrefixReturned, Alternating, Current
<1>5. Reading'
  BY Zenon, <1>1, <1>2 DEF Reading
<1> QED BY <1>3, <1>4, <1>5

LEMMA NextIInv == IInv /\ [Next]_vars => IInv'
<1> SUFFICES ASSUME IInv, [Next]_vars PROVE IInv'
  OBVIOUS
<1>1. CASE Next
  BY Zenon, <1>1, SendMessageStep, SendPartStep, SendEndingStep, SendFailsStep, GetMessageStep,
     RecvStep, LostStep, Zenon DEF Next, Send, Receive
<1>2. CASE UNCHANGED vars
  BY <1>2 DEF vars, sender, reader, IInv, TypeOK, InStream, Sending, Reading, PrefixReturned,
     Alternating, Current
<1> QED BY <1>1, <1>2

-----------------------------------------------------------------------------
(* The inductive invariant holds in every state. *)
THEOREM Invariance == Spec => []IInv
BY InitIInv, NextIInv, PTL DEF Spec

(* The counters and buffers of both ends stay within the stream. *)
THEOREM TypeCorrect == Spec => []TypeOK
<1>1. IInv => TypeOK
  BY Zenon DEF IInv
<1> QED BY <1>1, Invariance, PTL

(* socket_get_message returns a message or a prefix of it, never a part of the
   next one, unless recv cut its ending in two. *)
THEOREM ReturnsAPrefix == Spec => []PrefixReturned
<1>1. IInv => PrefixReturned
  BY Zenon DEF IInv
<1> QED BY <1>1, Invariance, PTL

(* Between a sender and a reader that alternate, a message that was read to the
   last byte is missing exactly if recv cut its ending in two. *)
THEOREM WaitsOnlyIfCut == Spec => []WaitsIfCut
<1>1. IInv => WaitsIfCut
  <2> SUFFICES ASSUME IInv, instep, net = "up", spc = "idle", read = sent, msgs # <<>>
               PROVE  returned < Len(msgs) <=> Ending(Current) \in cuts
    BY Zenon DEF WaitsIfCut
  <2> USE DEF IInv
  <2>1. Ending(Current) \in ends /\ sent = Ending(Current) + 1
    BY Zenon DEF Sending
  <2>2. /\ Current.from \in Nat /\ Current.len \in Nat /\ Current.len > 0
        /\ Ending(Current) = Current.from + Current.len + 1 /\ sent \in Nat
        /\ returned \in Nat /\ Len(msgs) \in Nat
    BY Zenon, CurrentType, Facts
  <2>3. CASE returned = Len(msgs)
    BY <2>2, <2>3 DEF Alternating
  <2>4. CASE returned < Len(msgs)
    <3>1. rpc = "recv"
      <4>1. rpc = "idle" => read = Current.from
        BY Zenon, <2>4 DEF Alternating
      <4>2. read # Current.from
        BY <2>1, <2>2
      <4> QED BY <4>1, <4>2 DEF Reading, TypeOK
    <3>2. begin = Current.from
      BY Zenon, <2>4, <3>1 DEF Alternating
    <3>3. begin < Ending(Current) /\ Ending(Current) <= read
      BY <2>1, <2>2, <3>2
    <3>4. Ending(Current) \in cuts
      BY Zenon, <2>1, <3>1, <3>3 DEF Reading
    <3> QED BY <2>4, <3>4
  <2>5. returned <= Len(msgs)
    BY Zenon DEF Alternating
  <2> QED BY <2>2, <2>3, <2>4, <2>5
<1> QED BY <1>1, Invariance, PTL

(* A positive result of socket_send_message means that the message is in the
   stream, and its ending too as long as there is a connection. *)
THEOREM PositiveIsSent == Spec => []SentIsInStream
<1>1. IInv => SentIsInStream
  BY Zenon DEF IInv, Sending, SentIsInStream
<1> QED BY <1>1, Invariance, PTL
=============================================================================
