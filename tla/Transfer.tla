------------------------------- MODULE Transfer ------------------------------
(***************************************************************************)
(* tcp_socket::send on one end of a connection, tcp_socket::receiveAll on  *)
(* the other.  The application passes the bytes 1, 2, 3, ... in messages   *)
(* of some sizes; the kernel takes and gives any number of them at a time, *)
(* the connection may break, and the sender may close it.  A size, and the *)
(* count that recv returns, is cut to an int, in which a large one is      *)
(* negative or too small.                                                  *)
(*                                                                         *)
(* As in TcpServerBase, a suffixed definition is a variant with a bug.     *)
(***************************************************************************)
EXTENDS Integers, Sequences

CONSTANTS
  ReceiveSizes,   \* a_nSize of the receiveAll calls
  SendSizes,      \* a_nSize of the send calls
  IntMax,         \* INT_MAX
  Messages,       \* bound: send calls
  BufCap,         \* bound: bytes in the kernel at once
  MaxIters,       \* MAX_NUMBER_OF_ITERS
  Failed,         \* the result -1
  SenderModes,    \* the modes the sending descriptor may be in: BOOLEAN or a part
  ReceiverBlocks  \* the receiving descriptor is, and so says isBlocking

ASSUME TransferAssumption ==
  /\ ReceiveSizes \subseteq Nat /\ SendSizes \subseteq Nat /\ IntMax \in Nat
  /\ Messages \in Nat /\ BufCap \in Nat \ {0} /\ MaxIters \in Nat
  /\ Failed \notin Int
  /\ SenderModes \subseteq BOOLEAN /\ ReceiverBlocks \in BOOLEAN

VARIABLES
  link,     \* the connection: "up", "closed" by the sender, or "broken"
  buf,      \* bytes in the kernel
  cp,       \* the next byte that send passes to the kernel
  size,     \* a_nSize of the last send call
  toWrite,  \* its len_to_write
  wrote,    \* its len_wrote
  iter,     \* its loop counter
  sending,  \* a send call is in progress
  senderBlocks, \* the sending descriptor is in blocking mode
  sent,     \* bound: number of send calls that have returned
  first,    \* history: cp when the last send call began
  sret,     \* result of the last send call
  asked,    \* a_nSize of the last receiveAll call
  into,     \* what the receiveAll call in progress has stored
  total,    \* nReceiveTotal, or the count that recv(MSG_WAITALL) keeps
  receiving,\* a receiveAll call is in progress
  cut,      \* history: the result of a receiveAll call was not its count
  out       \* history: the bytes that receiveAll calls returned before that

sendVars == <<cp, size, toWrite, wrote, iter, sending, senderBlocks, sent, first, sret>>
recvVars == <<asked, into, total, receiving, cut, out>>
vars == <<link, buf, sendVars, recvVars>>

Least(m, n) == IF m < n THEN m ELSE n
Bytes(from, n) == [i \in 1..n |-> from + i - 1]

-----------------------------------------------------------------------------
(* send *)

(* (int)n *)
AsInt(n) ==
  LET m == n % (2 * (IntMax + 1)) IN IF m <= IntMax THEN m ELSE m - 2 * (IntMax + 1)

SendCall ==
  /\ ~sending /\ sent < Messages
  /\ sending' = TRUE
  /\ size' \in SendSizes
  /\ toWrite' = AsInt(size')
  /\ wrote' = 0
  /\ iter' = 0
  /\ first' = cp
  /\ UNCHANGED <<link, buf, cp, senderBlocks, sent, sret, recvVars>>

Counts_Not == iter' = iter
Counts == iter' = iter + 1

Passed_CountsAll(n) == toWrite' = 0 /\ wrote' = wrote + toWrite
Passed(n) == toWrite' = toWrite - n /\ wrote' = wrote + n

MovesOn_Not(n) == cp' = cp
MovesOn(n) == cp' = cp + n

(* The kernel takes n bytes: all that are left or those it has room for.   *)
SendSome ==
  /\ sending /\ toWrite > 0 /\ link = "up"
  /\ \E n \in 1..Least(toWrite, BufCap - Len(buf)) :
       /\ buf' = buf \o Bytes(cp, n)
       /\ MovesOn(n)
       /\ Passed(n)
  /\ Counts
  /\ UNCHANGED <<link, size, sending, senderBlocks, sent, first, sret, recvVars>>

(* What was passed stays passed; the result does not tell of it.           *)
SendFails ==
  /\ sending' = FALSE
  /\ sent' = sent + 1
  /\ sret' = Failed
  /\ UNCHANGED <<link, buf, cp, size, toWrite, wrote, iter, senderBlocks, first, recvVars>>

(* EAGAIN: sleep and try again, or the time is over.                       *)
SendAgain ==
  /\ sending /\ toWrite > 0 /\ link = "up"
  /\ ~senderBlocks /\ Len(buf) = BufCap
  /\ IF iter < MaxIters
     THEN /\ Counts
          /\ UNCHANGED <<link, buf, cp, size, toWrite, wrote, sending, senderBlocks, sent,
                         first, sret, recvVars>>
     ELSE SendFails

(* The connection broke, the socket is closed, or a signal interrupted a   *)
(* send that blocks.                                                       *)
SendError ==
  /\ sending /\ toWrite > 0
  /\ link # "up" \/ senderBlocks
  /\ SendFails

(* Nothing is left, or a size that does not fit has become negative.       *)
SendReturns ==
  /\ sending /\ toWrite <= 0
  /\ sending' = FALSE
  /\ sent' = sent + 1
  /\ sret' = wrote
  /\ UNCHANGED <<link, buf, cp, size, toWrite, wrote, iter, senderBlocks, first, recvVars>>

Send == SendSome \/ SendAgain \/ SendError \/ SendReturns

-----------------------------------------------------------------------------
(* receiveAll *)

ReceiveCall ==
  /\ ~receiving
  /\ receiving' = TRUE
  /\ asked' \in ReceiveSizes
  /\ into' = <<>>
  /\ total' = 0
  /\ UNCHANGED <<link, buf, sendVars, cut, out>>

Advance_Never(n) == total
(* recv(MSG_WAITALL) counts what it has stored; the loop that receiveAll   *)
(* runs on a non-blocking descriptor never adds to nReceiveTotal.          *)
Advance(n) == IF ReceiverBlocks THEN total + n ELSE total

Wanted_Size == asked
(* recv(MSG_WAITALL) is given the size_t, the loop counts up to an int.    *)
Wanted == (IF ReceiverBlocks THEN asked ELSE AsInt(asked)) - total

(* n bytes are stored after the first total ones.                          *)
ReceiveSome ==
  /\ receiving /\ Wanted > 0
  /\ \E n \in 1..Least(Len(buf), Wanted) :
       /\ into' = SubSeq(into, 1, total) \o SubSeq(buf, 1, n)
       /\ buf' = SubSeq(buf, n + 1, Len(buf))
       /\ total' = Advance(n)
  /\ UNCHANGED <<link, sendVars, asked, receiving, cut, out>>

(* The count is cut to an int.  When that changes it the caller no longer  *)
(* knows where in the stream it is.                                        *)
ReturnsBytes(n) ==
  /\ receiving' = FALSE
  /\ cut' = (cut \/ AsInt(n) # n)
  /\ out' = IF cut' THEN out ELSE out \o SubSeq(into, 1, n)
  /\ UNCHANGED <<link, buf, sendVars, asked, into, total>>

(* Everything asked for is there, ...                                      *)
ReceiveReturns ==
  /\ receiving /\ Wanted <= 0
  /\ ReturnsBytes(total)

(* ... or no more comes: the end of the stream, an error, no data on a     *)
(* non-blocking descriptor, or a signal on a blocking one.  A result of 0  *)
(* or -1 returns no bytes.                                                 *)
ReceiveStops ==
  /\ receiving /\ Wanted > 0
  /\ \/ buf = <<>> /\ (link # "up" \/ ~ReceiverBlocks)
     \/ ReceiverBlocks
  /\ ReturnsBytes(total)

Receive == ReceiveSome \/ ReceiveReturns \/ ReceiveStops

-----------------------------------------------------------------------------
SenderCloses ==
  /\ link = "up" /\ ~sending
  /\ link' = "closed"
  /\ UNCHANGED <<buf, sendVars, recvVars>>

(* The peer's host resets the connection; what it had not read is lost.    *)
LinkBreaks ==
  /\ link = "up"
  /\ link' = "broken"
  /\ buf' = <<>>
  /\ UNCHANGED <<sendVars, recvVars>>

Init ==
  /\ link = "up" /\ buf = <<>>
  /\ cp = 1 /\ size = 0 /\ toWrite = 0 /\ wrote = 0 /\ iter = 0 /\ sending = FALSE
  /\ sent = 0 /\ first = 1 /\ sret = 0
  /\ senderBlocks \in SenderModes
  /\ asked = 0 /\ into = <<>> /\ total = 0 /\ receiving = FALSE /\ cut = FALSE /\ out = <<>>

Next == SendCall \/ Send \/ ReceiveCall \/ Receive \/ SenderCloses \/ LinkBreaks

(* The sending thread takes its next step; nothing makes anybody read.     *)
Spec == Init /\ [][Next]_vars
FairSpec == Spec /\ WF_vars(Send)

-----------------------------------------------------------------------------
(* Properties.                                                             *)

(* Every variable stays in its domain.                                     *)
TypeOK ==
  /\ link \in {"up", "closed", "broken"}
  /\ buf \in Seq(Nat) /\ Len(buf) <= BufCap
  /\ cp \in Nat \ {0} /\ size \in SendSizes \cup {0} /\ wrote \in 0..IntMax
  /\ toWrite \in (-IntMax - 1)..IntMax
  /\ iter \in Nat /\ sent \in 0..Messages /\ sret \in (0..IntMax) \cup {Failed}
  /\ first \in Nat \ {0} /\ first <= cp
  /\ asked \in ReceiveSizes \cup {0} /\ into \in Seq(Nat) /\ total \in 0..asked
  /\ out \in Seq(Nat) /\ cut \in BOOLEAN
  /\ sending \in BOOLEAN /\ senderBlocks \in BOOLEAN /\ receiving \in BOOLEAN

(* Between two calls of receiveAll every byte that the kernel took is      *)
(* either returned by an earlier call or still in the kernel, once and in  *)
(* its order.  The place is lost only by a result that does not fit into   *)
(* an int, and only a call for more than fits can have one.                *)
NothingLost ==
  ~receiving /\ link # "broken" =>
    IF cut THEN \E n \in ReceiveSizes : n > IntMax
           ELSE out \o buf = Bytes(1, cp - 1)

(* A send call that does not fail tells how much the kernel took of this   *)
(* message: all of it if its size fits into an int.  A call that fails has *)
(* passed less, however many calls failed before; its result cannot tell   *)
(* how much less.                                                          *)
SentIsPassed ==
  ~sending =>
    IF sret = Failed
    THEN cp - first < AsInt(size)
    ELSE cp - first = sret /\ (size <= IntMax => sret = size)

(* The two calls keep the promise of ByteStream.                           *)
Stream == INSTANCE ByteStream WITH up <- link # "broken", passed <- cp - 1, got <- out
ImplementsStream == Stream!SSpec

(* On a non-blocking descriptor send returns even if nobody ever reads.    *)
SendEnds == ~senderBlocks /\ sending ~> ~sending
=============================================================================
