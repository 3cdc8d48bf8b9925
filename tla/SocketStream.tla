---------------------------- MODULE SocketStream ----------------------------
(***************************************************************************)
(* One direction of a connection: socket_send_message at one end, calls of *)
(* socket_get_message at the other, and TCP between them, which keeps the  *)
(* bytes in order and cuts them where it likes.                            *)
(*                                                                         *)
(* The bytes are numbered from 1 in the order they are sent.  Message m is *)
(* the bytes msgs[m].from + 1 .. msgs[m].from + msgs[m].len, followed by   *)
(* '\r' and '\n', which no message contains.  What the reader has is       *)
(* described by the same numbers.                                          *)
(***************************************************************************)
EXTENDS Integers, Sequences, FiniteSets

CONSTANTS
  BUFFER_SIZE,
  Length,       \* lengths of messages
  MaxMessages   \* bound: messages sent

ASSUME BufferAssumption == BUFFER_SIZE \in Nat /\ BUFFER_SIZE >= 2
ASSUME LengthAssumption == Length \subseteq Nat \ {0}
ASSUME MessagesAssumption == MaxMessages \in Nat

VARIABLES
  sent,        \* bytes handed to TCP
  read,        \* bytes recv has returned
  net,         \* the connection: "up", "reset" (recv has yet to fail), "closed"
  msgs, ends,  \* where messages begin, and the '\r' of those that have ended
  spc, total_sent, result,    \* socket_send_message_custom
  rpc, begin, nul,            \* socket_get_message_custom; nul: end of the text
                              \* up to the first zero byte, -1 if there is none
  last, returned,             \* the last message returned, and how many
  cuts, instep                \* auxiliary: endings with a block end in them;
                              \* no message was begun before the one before
                              \* was returned

sender == <<msgs, ends, spc, total_sent, result>>
reader == <<rpc, begin, nul, last, returned, cuts>>
vars == <<sent, read, net, sender, reader, instep>>

ENDING_STRING == 2   \* strlen("\r\n")
Least(a, b) == IF a <= b THEN a ELSE b

Current == msgs[Len(msgs)]
(* The place of the '\r' of a message *)
Ending(m) == m.from + m.len + 1

Init ==
  /\ sent = 0 /\ read = 0 /\ net = "up"
  /\ msgs = <<>> /\ ends = {}
  /\ spc = "idle" /\ total_sent = 0 /\ result = 0
  /\ rpc = "idle" /\ begin = 0 /\ nul = -1
  /\ last = [from |-> 0, to |-> 0, full |-> TRUE] /\ returned = 0
  /\ cuts = {} /\ instep = TRUE

-----------------------------------------------------------------------------
(* socket_send_message_custom *)

SendMessage(len) ==
  /\ spc = "idle" /\ Len(msgs) < MaxMessages
  /\ msgs' = Append(msgs, [from |-> sent, len |-> len])
  /\ spc' = "payload" /\ total_sent' = 0
  /\ instep' = (instep /\ returned = Len(msgs))
  /\ UNCHANGED <<sent, read, net, ends, result, reader>>

(* Variant: one send is taken to have sent everything. *)
SendOnce ==
  /\ spc = "payload" /\ net = "up"
  /\ \E n \in 1..Least(Current.len - total_sent, BUFFER_SIZE) :
       /\ sent' = sent + n
       /\ total_sent' = Current.len
  /\ spc' = "ending"
  /\ UNCHANGED <<read, net, msgs, ends, result, reader, instep>>

(* A pass of the loop: socket_send takes a part of what is left. *)
SendPart ==
  /\ spc = "payload" /\ net = "up"
  /\ \E n \in 1..Least(Current.len - total_sent, BUFFER_SIZE) :
       /\ sent' = sent + n
       /\ total_sent' = total_sent + n
  /\ spc' = IF total_sent' < Current.len THEN "payload" ELSE "ending"
  /\ UNCHANGED <<read, net, msgs, ends, result, reader, instep>>

SendEnding ==
  /\ spc = "ending" /\ net = "up"
  /\ sent' = sent + ENDING_STRING
  /\ ends' = ends \cup {sent + 1}
  /\ result' = total_sent
  /\ spc' = "idle"
  /\ UNCHANGED <<read, net, msgs, total_sent, reader, instep>>

(* send returns -1.  For the ending this is not noticed: -1 becomes unsigned in
   the comparison with strlen(ENDING_STRING). *)
SendFails ==
  /\ spc \in {"payload", "ending"} /\ net # "up"
  /\ result' = IF spc = "payload" THEN 0 ELSE total_sent
  /\ spc' = "idle"
  /\ UNCHANGED <<sent, read, net, msgs, ends, total_sent, reader, instep>>

-----------------------------------------------------------------------------
(* socket_get_message_custom *)

GetMessage ==
  /\ rpc = "idle"
  /\ rpc' = "recv" /\ begin' = read /\ nul' = -1
  /\ UNCHANGED <<sent, read, net, sender, last, returned, cuts, instep>>

(* Variant: the '\r' is enough. *)
FoundHalf(lo, hi) == {t \in ends : lo < t /\ t <= hi}

(* Where strstr finds an ending in the block of the bytes lo + 1 .. hi. *)
Found(lo, hi) == {t \in ends : lo < t /\ t < hi}
First(S) == CHOOSE t \in S : \A u \in S : t <= u

(* concat_buffers and strlen: a block that is not full ends the text. *)
Text(hi) == IF nul # -1 THEN nul ELSE hi

(* Variant: a text is taken to the end of the last block. *)
ReturnBlock(n) ==
  /\ last' = [from |-> begin, to |-> Text(read + n), full |-> nul = -1]
  /\ returned' = returned + 1
  /\ rpc' = "idle"
  /\ UNCHANGED <<begin, nul>>

(* The block has the ending: what follows it in the block is dropped. *)
Return(n) ==
  /\ last' = [from |-> begin, to |-> Text(First(Found(read, read + n)) - 1),
              full |-> nul = -1]
  /\ returned' = returned + 1
  /\ rpc' = "idle"
  /\ UNCHANGED <<begin, nul>>

(* recv returns a block of n bytes. *)
Recv ==
  /\ rpc = "recv" /\ net = "up"
  /\ \E n \in 1..Least(sent - read, BUFFER_SIZE) :
       /\ IF Found(read, read + n) # {}
          THEN Return(n)
          ELSE /\ nul' = IF nul = -1 /\ n < BUFFER_SIZE THEN read + n ELSE nul
               /\ UNCHANGED <<rpc, begin, last, returned>>
       /\ read' = read + n
       /\ cuts' = cuts \cup ({read + n} \cap ends)
  /\ UNCHANGED <<sent, net, sender, instep>>

(* recv returns -1: "received < 0" cannot hold of a size_t, and the loop goes on
   after a block of zeros. *)
RecvError ==
  /\ rpc = "recv" /\ net = "reset"
  /\ nul' = Text(read)
  /\ net' = "closed"
  /\ UNCHANGED <<sent, read, sender, rpc, begin, last, returned, cuts, instep>>

(* recv returns 0: an error, and the caller gives the connection up. *)
RecvClosed ==
  /\ rpc = "recv" /\ net = "closed"
  /\ rpc' = "error"
  /\ UNCHANGED <<sent, read, net, sender, begin, nul, last, returned, cuts, instep>>

(* The peer or the network ends the connection; what is under way is lost. *)
Reset ==
  /\ net = "up"
  /\ net' \in {"reset", "closed"}
  /\ UNCHANGED <<sent, read, sender, reader, instep>>

Send == (\E len \in Length : SendMessage(len)) \/ SendPart \/ SendEnding \/ SendFails
Receive == GetMessage \/ Recv \/ RecvError \/ RecvClosed

Next == Send \/ Receive \/ Reset

Spec == Init /\ [][Next]_vars
(* A call that has begun goes on, and readers call socket_get_message again as
   long as there is no error. *)
FairSpec ==
  /\ Spec
  /\ WF_vars(SendPart \/ SendEnding \/ SendFails)
  /\ WF_vars(Receive)

-----------------------------------------------------------------------------
(* Properties *)

TypeOK ==
  /\ sent \in Nat /\ read \in 0..sent /\ net \in {"up", "reset", "closed"}
  /\ msgs \in Seq([from : Nat, len : Length]) /\ ends \subseteq 1..sent
  /\ spc \in {"idle", "payload", "ending"} /\ total_sent \in Nat /\ result \in Nat
  /\ rpc \in {"idle", "recv", "error"} /\ begin \in 0..read /\ nul \in -1..read
  /\ last \in [from : Nat, to : Nat, full : BOOLEAN] /\ returned \in Nat
  /\ cuts \subseteq 1..read /\ instep \in BOOLEAN

(* A call that starts at the beginning of a message returns that message or a
   prefix of it, never a part of the next one, unless recv cut its ending in
   two; and it returns all of it if no block but the last was short. *)
PrefixReturned ==
  returned > 0 =>
    \A m \in DOMAIN msgs :
      msgs[m].from = last.from /\ Ending(msgs[m]) \notin cuts =>
        /\ last.to <= last.from + msgs[m].len
        /\ last.full => last.to = last.from + msgs[m].len

(* As long as sender and reader alternate, a message that was sent and read to
   the last byte has been returned, unless its ending was cut in two: then, and
   only then, both ends wait for each other. *)
WaitsIfCut ==
  instep /\ net = "up" /\ spc = "idle" /\ read = sent /\ msgs # <<>> =>
    (returned < Len(msgs) <=> Ending(Current) \in cuts)

(* A positive result of socket_send_message means that the message is in the
   stream, with its ending unless the connection is lost. *)
SentIsInStream ==
  spc = "idle" /\ result > 0 =>
    /\ result = Current.len /\ sent >= Current.from + Current.len
    /\ net = "up" => Ending(Current) \in ends

(* As long as sender and reader alternate and the connection lasts, every
   message whose ending is not cut in two is returned. *)
Delivered ==
  \A c \in 1..MaxMessages :
    Len(msgs) = c ~> \/ returned >= c
                     \/ ~instep \/ net # "up"
                     \/ Len(msgs) >= c /\ Ending(msgs[c]) \in cuts

=============================================================================
