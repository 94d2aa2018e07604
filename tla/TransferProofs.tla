---------------------------- MODULE TransferProofs ---------------------------
(***************************************************************************)
(* Theorems about Transfer: for any sizes, modes, buffer and number of     *)
(* messages, nothing is lost or repeated on the way, the results of send   *)
(* tell what was passed, and the two calls keep the promise of ByteStream. *)
(***************************************************************************)
EXTENDS Transfer, SequenceTheorems, TLAPS

-----------------------------------------------------------------------------
(* Operators of the model.                                                 *)

(* n bytes that follow one another.                                        *)
LEMMA BytesSeq ==
  ASSUME NEW f \in Nat \ {0}, NEW n \in Nat
  PROVE  /\ Bytes(f, n) \in Seq(Nat)
         /\ Len(Bytes(f, n)) = n
         /\ \A i \in 1..n : Bytes(f, n)[i] = f + i - 1
BY DEF Bytes

(* A sequence that counts from f on is the bytes from f on.                *)
LEMMA BytesAre ==
  ASSUME NEW s \in Seq(Nat), NEW f \in Nat, \A i \in 1..Len(s) : s[i] = f + i - 1
  PROVE  s = Bytes(f, Len(s))
BY DEF Bytes

(* The first n elements of a sequence ...                                  *)
LEMMA FirstPart ==
  ASSUME NEW s \in Seq(Nat), NEW n \in 0..Len(s)
  PROVE  /\ SubSeq(s, 1, n) \in Seq(Nat)
         /\ Len(SubSeq(s, 1, n)) = n
         /\ \A i \in 1..n : SubSeq(s, 1, n)[i] = s[i]
<1>1. n \in Int /\ \A i \in 1..n : s[i] \in Nat
  BY LenProperties, ElementOfSeq
<1> QED BY <1>1, SubSeqProperties

(* ... and those that are left.                                            *)
LEMMA LastPart ==
  ASSUME NEW s \in Seq(Nat), NEW n \in 0..Len(s)
  PROVE  /\ SubSeq(s, n + 1, Len(s)) \in Seq(Nat)
         /\ Len(SubSeq(s, n + 1, Len(s))) = Len(s) - n
         /\ \A i \in 1..(Len(s) - n) : SubSeq(s, n + 1, Len(s))[i] = s[n + i]
<1>1. /\ n + 1 \in Int /\ Len(s) \in Int
      /\ \A i \in (n + 1)..Len(s) : s[i] \in Nat
  BY LenProperties, ElementOfSeq
<1>2. /\ SubSeq(s, n + 1, Len(s)) \in Seq(Nat)
      /\ Len(SubSeq(s, n + 1, Len(s))) = IF n + 1 <= Len(s) THEN Len(s) - (n + 1) + 1 ELSE 0
      /\ \A i \in 1..(Len(s) - (n + 1) + 1) : SubSeq(s, n + 1, Len(s))[i] = s[n + 1 + i - 1]
  BY <1>1, SubSeqProperties
<1> QED BY <1>1, <1>2, LenProperties

(* Two sequences of bytes that follow one another.                         *)
LEMMA JoinCounts ==
  ASSUME NEW f \in Nat, NEW s \in Seq(Nat), NEW t \in Seq(Nat),
         \A i \in 1..Len(s) : s[i] = f + i,
         \A i \in 1..Len(t) : t[i] = f + Len(s) + i
  PROVE  /\ s \o t \in Seq(Nat)
         /\ Len(s \o t) = Len(s) + Len(t)
         /\ \A i \in 1..(Len(s) + Len(t)) : (s \o t)[i] = f + i
<1>1. /\ s \o t \in Seq(Nat)
      /\ Len(s \o t) = Len(s) + Len(t)
      /\ \A i \in 1..(Len(s) + Len(t)) :
           (s \o t)[i] = IF i <= Len(s) THEN s[i] ELSE t[i - Len(s)]
  BY ConcatProperties
<1>2. Len(s) \in Nat /\ Len(t) \in Nat
  BY LenProperties
<1>3. ASSUME NEW i \in 1..(Len(s) + Len(t)) PROVE (s \o t)[i] = f + i
  <2>1. CASE i <= Len(s)
    BY <1>1, <1>2, <2>1
  <2>2. CASE ~(i <= Len(s))
    <3>1. i - Len(s) \in 1..Len(t)
      BY <1>2, <2>2
    <3>2. t[i - Len(s)] = f + Len(s) + (i - Len(s))
      BY <3>1
    <3> QED BY <1>1, <1>2, <2>2, <3>2
  <2> QED BY <2>1, <2>2
<1> QED BY <1>1, <1>3

(* The cast to int yields an int ...                                       *)
LEMMA AsIntRange ==
  ASSUME NEW n \in Nat PROVE AsInt(n) \in (-IntMax - 1)..IntMax
BY TransferAssumption DEF AsInt

(* ... and keeps what fits.                                                *)
LEMMA AsIntFits ==
  ASSUME NEW n \in Nat, n <= IntMax PROVE AsInt(n) = n
BY TransferAssumption DEF AsInt

-----------------------------------------------------------------------------
(* The inductive invariant.                                                *)

(* A send in progress has passed wrote bytes and has toWrite left; a size  *)
(* that the cast makes negative ends the loop before it starts.            *)
SendInv ==
  IF sending
  THEN /\ sent < Messages
       /\ size \in SendSizes
       /\ cp = first + wrote
       /\ IF AsInt(size) >= 0 THEN toWrite >= 0 /\ wrote + toWrite = AsInt(size)
                              ELSE toWrite < 0 /\ wrote = 0
  ELSE SentIsPassed

(* Until a result is cut, what was returned, what the receiveAll in        *)
(* progress has stored and what is in the kernel follow one another.  The  *)
(* loop for a non-blocking descriptor returns nothing.                     *)
Stored == IF receiving THEN total ELSE 0

InPlace ==
  /\ receiving => \A i \in 1..total : into[i] = Len(out) + i
  /\ Len(out) + Stored < cp
  /\ ReceiverBlocks /\ link # "broken" =>
       /\ Len(out) + Stored + Len(buf) = cp - 1
       /\ \A i \in 1..Len(buf) : buf[i] = Len(out) + Stored + i

ReceiveInv ==
  /\ total <= Len(into) /\ (~ReceiverBlocks => total = 0)
  /\ \A i \in 1..Len(out) : out[i] = i
  /\ link = "broken" => buf = <<>>
  /\ receiving => asked \in ReceiveSizes
  /\ IF cut THEN \E n \in ReceiveSizes : n > IntMax ELSE InPlace

TransferInv == TypeOK /\ SendInv /\ ReceiveInv

-----------------------------------------------------------------------------
(* Type correctness.                                                       *)

(* The kernel has room for its buffer only.                                *)
LEMMA RoomLeft ==
  ASSUME TypeOK, NEW n \in 1..Least(toWrite, BufCap - Len(buf))
  PROVE  n \in Nat \ {0} /\ n <= toWrite /\ Len(buf) + n <= BufCap
BY TransferAssumption DEF TypeOK, Least

(* recv stores what is there and what is wanted at most.                   *)
LEMMA SomeWanted ==
  ASSUME TypeOK, NEW n \in 1..Least(Len(buf), Wanted)
  PROVE  n \in Nat \ {0} /\ n <= Len(buf) /\ n <= Wanted
<1>1. asked \in Nat /\ total \in Nat /\ Len(buf) \in Nat
  BY LenProperties, TransferAssumption DEF TypeOK
<1>2. AsInt(asked) \in Int
  BY <1>1, AsIntRange, TransferAssumption
<1>3. Wanted \in Int
  BY <1>1, <1>2 DEF Wanted
<1> QED BY <1>1, <1>3 DEF Least

(* A step of send keeps every variable in its domain, ...                  *)
LEMMA SendType ==
  ASSUME TypeOK, SendInv, SendCall \/ Send
  PROVE  TypeOK'
<1> USE TransferAssumption DEF TypeOK
<1>6. sending => sent + 1 \in 0..Messages
  BY DEF SendInv
<1>1. CASE SendCall
  <2>1. toWrite' \in (-IntMax - 1)..IntMax
    BY <1>1, AsIntRange DEF SendCall
  <2> QED BY <1>1, <2>1 DEF SendCall, recvVars
<1>2. CASE SendSome
  <2>1. PICK n \in 1..Least(toWrite, BufCap - Len(buf)) :
          buf' = buf \o Bytes(cp, n) /\ MovesOn(n) /\ Passed(n)
    BY <1>2 DEF SendSome
  <2>2. n \in Nat \ {0} /\ n <= toWrite /\ Len(buf) + n <= BufCap
    BY RoomLeft
  <2>3. Bytes(cp, n) \in Seq(Nat) /\ Len(Bytes(cp, n)) = n
    BY <2>2, BytesSeq
  <2>4. buf' \in Seq(Nat) /\ Len(buf') <= BufCap
    BY <2>1, <2>2, <2>3, ConcatProperties
  <2>5. cp' \in Nat \ {0} /\ first <= cp' /\ toWrite' \in (-IntMax - 1)..IntMax
    BY <2>1, <2>2 DEF MovesOn, Passed
  <2>6. wrote' \in 0..IntMax
    <3>1. AsInt(size) \in (-IntMax - 1)..IntMax
      BY <1>2, AsIntRange DEF SendSome, SendInv
    <3> QED BY <1>2, <2>1, <2>2, <3>1 DEF SendSome, SendInv, Passed
  <2> QED BY <1>2, <2>4, <2>5, <2>6 DEF SendSome, Counts, recvVars
<1>3. CASE SendAgain
  <2>1. CASE iter < MaxIters
    BY <1>3, <2>1 DEF SendAgain, Counts, recvVars
  <2>2. CASE ~(iter < MaxIters)
    BY <1>3, <2>2, <1>6 DEF SendAgain, SendFails, recvVars
  <2> QED BY <2>1, <2>2
<1>4. CASE SendError
  BY <1>4, <1>6 DEF SendError, SendFails, recvVars
<1>5. CASE SendReturns
  <2>1. sent' \in 0..Messages
    BY <1>5 DEF SendReturns, SendInv
  <2>2. sret' \in 0..IntMax
    BY <1>5 DEF SendReturns
  <2> QED BY <1>5, <2>1, <2>2 DEF SendReturns, recvVars
<1> QED BY <1>1, <1>2, <1>3, <1>4, <1>5 DEF Send

(* ... and so does a step of receiveAll.                                   *)
LEMMA ReceiveType ==
  ASSUME TypeOK, ReceiveInv, ReceiveCall \/ Receive
  PROVE  TypeOK'
<1> USE TransferAssumption DEF TypeOK
<1>1. CASE ReceiveCall
  BY <1>1 DEF ReceiveCall, sendVars
<1>2. CASE ReceiveSome
  <2>1. PICK n \in 1..Least(Len(buf), Wanted) :
          /\ into' = SubSeq(into, 1, total) \o SubSeq(buf, 1, n)
          /\ buf' = SubSeq(buf, n + 1, Len(buf))
          /\ total' = Advance(n)
    BY <1>2 DEF ReceiveSome
  <2>2. n \in 0..Len(buf) /\ total' \in 0..asked
    <3>1. n \in Nat /\ n <= Len(buf) /\ n <= Wanted
      BY <2>1, SomeWanted
    <3> QED BY <2>1, <3>1 DEF Wanted, Advance
  <2>3. SubSeq(into, 1, total) \in Seq(Nat)
    BY FirstPart DEF ReceiveInv
  <2>4. SubSeq(buf, 1, n) \in Seq(Nat)
    BY <2>2, FirstPart
  <2>5. into' \in Seq(Nat)
    BY <2>1, <2>3, <2>4, ConcatProperties
  <2>6. buf' \in Seq(Nat) /\ Len(buf') <= BufCap
    BY <2>1, <2>2, LastPart
  <2> QED BY <1>2, <2>2, <2>5, <2>6 DEF ReceiveSome, sendVars
<1>3. CASE ReceiveReturns \/ ReceiveStops
  <2>1. ReturnsBytes(total)
    BY <1>3 DEF ReceiveReturns, ReceiveStops
  <2>2. SubSeq(into, 1, total) \in Seq(Nat)
    BY FirstPart DEF ReceiveInv
  <2>3. out' \in Seq(Nat) /\ cut' \in BOOLEAN
    BY <2>1, <2>2, ConcatProperties DEF ReturnsBytes
  <2> QED BY <2>1, <2>3 DEF ReturnsBytes, sendVars
<1> QED BY <1>1, <1>2, <1>3 DEF Receive

(* ... and so does what happens to the connection.                         *)
LEMMA LinkType ==
  ASSUME TypeOK, SenderCloses \/ LinkBreaks
  PROVE  TypeOK'
<1>1. buf' = buf \/ buf' = <<>>
  BY DEF SenderCloses, LinkBreaks
<1>2. <<>> \in Seq(Nat) /\ Len(<<>>) = 0
  BY EmptySeq
<1>3. buf' \in Seq(Nat) /\ Len(buf') <= BufCap
  <2>1. CASE buf' = buf
    BY <2>1 DEF TypeOK
  <2>2. CASE buf' = <<>>
    <3>1. 0 <= BufCap
      BY TransferAssumption
    <3> QED BY <1>2, <2>2, <3>1, Zenon
  <2> QED BY <1>1, <2>1, <2>2
<1> QED BY <1>3 DEF SenderCloses, LinkBreaks, TypeOK, sendVars, recvVars

-----------------------------------------------------------------------------
(* What send tells.                                                        *)

(* A call that fails has not passed everything.                            *)
LEMMA SendFailsInv ==
  ASSUME TypeOK, SendInv, sending, toWrite > 0, SendFails
  PROVE  SendInv'
<1>1. /\ cp = first + wrote /\ wrote + toWrite = AsInt(size)
      /\ cp \in Int /\ first \in Int /\ wrote \in Int /\ toWrite \in Int
  BY DEF TypeOK, SendInv
<1>2. ~sending' /\ sret' = Failed /\ UNCHANGED <<size, cp, first>>
  BY DEF SendFails
<1>3. AsInt(size)' = AsInt(size)
  BY <1>2 DEF AsInt
<1>4. cp' - first' < AsInt(size)'
  <2> HIDE DEF AsInt
  <2> QED BY <1>1, <1>2, <1>3
<1> QED BY <1>2, <1>4 DEF SendInv, SentIsPassed

LEMMA SendInvNext ==
  ASSUME TypeOK, SendInv, Next
  PROVE  SendInv'
<1> USE TransferAssumption DEF TypeOK, SendInv, SentIsPassed
<1>1. CASE SendCall
  <2>1. size' \in SendSizes /\ size' \in Nat /\ toWrite' = AsInt(size') /\ wrote' = 0
    BY <1>1 DEF SendCall
  <2>2. AsInt(size') \in (-IntMax - 1)..IntMax
    BY <2>1, AsIntRange
  <2> HIDE DEF AsInt
  <2>3. sending' /\ cp' = first' + wrote' /\ sent' < Messages
    BY <1>1, <2>1 DEF SendCall
  <2>4. AsInt(size)' = AsInt(size')
    BY DEF AsInt
  <2> QED BY <2>1, <2>2, <2>3, <2>4
<1>2. CASE SendSome
  <2>1. PICK n \in 1..Least(toWrite, BufCap - Len(buf)) : MovesOn(n) /\ Passed(n)
    BY <1>2 DEF SendSome
  <2>2. n \in Nat \ {0} /\ n <= toWrite
    BY RoomLeft
  <2>3. UNCHANGED <<size, sending, sret, sent, first>> /\ AsInt(size)' = AsInt(size)
    BY <1>2 DEF SendSome, AsInt
  <2> QED BY <1>2, <2>1, <2>2, <2>3 DEF SendSome, MovesOn, Passed
<1>3. CASE SendAgain
  <2>1. CASE iter < MaxIters
    BY <1>3, <2>1 DEF SendAgain, AsInt
  <2>2. CASE ~(iter < MaxIters)
    BY <1>3, <2>2, SendFailsInv DEF SendAgain
  <2> QED BY <2>1, <2>2
<1>4. CASE SendError
  BY <1>4, SendFailsInv DEF SendError
<1>5. CASE SendReturns
  <2>1. /\ sending /\ toWrite <= 0 /\ ~sending' /\ sret' = wrote
        /\ UNCHANGED <<size, cp, first>>
    BY <1>5 DEF SendReturns
  <2>2. size \in Nat /\ (size <= IntMax => AsInt(size) = size)
    BY <2>1, AsIntFits
  <2> HIDE DEF AsInt
  <2>3. /\ cp = first + wrote
        /\ AsInt(size) >= 0 => toWrite >= 0 /\ wrote + toWrite = AsInt(size)
    BY <2>1
  <2>4. toWrite \in Int /\ wrote \in Int
    OBVIOUS
  <2>5. ASSUME size <= IntMax PROVE wrote = size
    <3>1. wrote + toWrite = size /\ toWrite = 0
      BY <2>1, <2>2, <2>3, <2>4, <2>5
    <3> QED BY <2>4, <3>1
  <2>6. sret' # Failed /\ cp' - first' = sret'
    BY <2>1, <2>3, <2>4
  <2> QED BY <2>1, <2>5, <2>6
<1>6. CASE ReceiveCall \/ Receive \/ SenderCloses \/ LinkBreaks
  <2>1. UNCHANGED sendVars
    BY <1>6 DEF ReceiveCall, Receive, ReceiveSome, ReceiveReturns, ReceiveStops, ReturnsBytes,
                SenderCloses, LinkBreaks
  <2> QED BY <2>1 DEF sendVars, AsInt
<1> QED BY <1>1, <1>2, <1>3, <1>4, <1>5, <1>6 DEF Next, Send

-----------------------------------------------------------------------------
(* What receiveAll returns.                                                *)

(* A step that sends nothing and takes nothing.                            *)
LEMMA ReceiveInvFrame ==
  ASSUME ReceiveInv, UNCHANGED <<buf, cp, recvVars>>,
         link' = "broken" <=> link = "broken"
  PROVE  ReceiveInv'
BY DEF ReceiveInv, InPlace, Stored, recvVars

(* The bytes that send appends follow those in the kernel.                 *)
LEMMA SendSomeReceive ==
  ASSUME TypeOK, ReceiveInv, SendSome
  PROVE  ReceiveInv'
<1>1. PICK n \in 1..Least(toWrite, BufCap - Len(buf)) :
        buf' = buf \o Bytes(cp, n) /\ cp' = cp + n
  BY DEF SendSome, MovesOn
<1>2. n \in Nat /\ cp \in Nat \ {0} /\ buf \in Seq(Nat) /\ Len(buf) \in Nat
  BY RoomLeft, LenProperties DEF TypeOK
<1>3. /\ Bytes(cp, n) \in Seq(Nat) /\ Len(Bytes(cp, n)) = n
      /\ \A i \in 1..n : Bytes(cp, n)[i] = cp + i - 1
  BY <1>2, BytesSeq
<1>4. Len(buf') = Len(buf) + n
  BY <1>1, <1>2, <1>3, ConcatProperties
<1>5. Len(out) \in Nat /\ Stored \in Nat
  BY LenProperties, TransferAssumption DEF TypeOK, Stored
<1>6. UNCHANGED <<link, recvVars>> /\ Stored' = Stored /\ link = "up"
  BY DEF SendSome, Stored, recvVars
<1>7. ASSUME ReceiverBlocks, ~cut
      PROVE  /\ Len(out) + Stored + Len(buf') = cp' - 1
             /\ \A i \in 1..Len(buf') : buf'[i] = Len(out) + Stored + i
  <2>1. /\ Len(out) + Stored + Len(buf) = cp - 1
        /\ \A i \in 1..Len(buf) : buf[i] = Len(out) + Stored + i
    BY <1>6, <1>7 DEF ReceiveInv, InPlace
  <2>2. PICK f \in Nat : f = Len(out) + Stored
    BY <1>5
  <2>3. cp = f + Len(buf) + 1
    BY <1>2, <2>1, <2>2
  <2>4. \A i \in 1..Len(Bytes(cp, n)) : Bytes(cp, n)[i] = f + Len(buf) + i
    <3> HIDE DEF Bytes
    <3> QED BY <1>2, <1>3, <2>3
  <2>5. \A i \in 1..(Len(buf) + n) : buf'[i] = f + i
    <3>1. \A i \in 1..Len(buf) : buf[i] = f + i
      BY <2>1, <2>2
    <3> HIDE DEF Bytes
    <3> QED BY <1>1, <1>2, <1>3, <2>4, <3>1, JoinCounts
  <2>6. Len(out) + Stored + Len(buf') = cp' - 1
    <3>1. Len(buf) \in Nat /\ n \in Nat /\ cp' = cp + n
      BY <1>1, <1>2
    <3> QED BY <1>4, <1>5, <2>2, <2>3, <3>1
  <2> QED BY <1>4, <2>2, <2>5, <2>6
<1>8. ~cut => Len(out) + Stored < cp'
  BY <1>1, <1>2, <1>5 DEF ReceiveInv, InPlace
<1>9. ~cut => InPlace'
  BY <1>6, <1>7, <1>8 DEF ReceiveInv, InPlace, recvVars
<1> QED BY <1>6, <1>9 DEF ReceiveInv, recvVars

(* What receiveAll takes from the kernel follows what it has stored.       *)
LEMMA ReceiveSomeReceive ==
  ASSUME TypeOK, ReceiveInv, ReceiveSome
  PROVE  ReceiveInv'
<1>1. PICK n \in 1..Least(Len(buf), Wanted) :
        /\ into' = SubSeq(into, 1, total) \o SubSeq(buf, 1, n)
        /\ buf' = SubSeq(buf, n + 1, Len(buf))
        /\ total' = Advance(n)
  BY DEF ReceiveSome
<1>2. /\ Len(buf) \in Nat /\ Len(into) \in Nat /\ Len(out) \in Nat
      /\ total \in 0..Len(into) /\ total \in Nat /\ cp \in Nat
      /\ buf \in Seq(Nat) /\ into \in Seq(Nat)
  BY LenProperties, TransferAssumption DEF TypeOK, ReceiveInv
<1>3. n \in 0..Len(buf) /\ n \in Nat \ {0}
  BY <1>1, <1>2, SomeWanted
<1>4. /\ SubSeq(into, 1, total) \in Seq(Nat) /\ Len(SubSeq(into, 1, total)) = total
      /\ \A i \in 1..total : SubSeq(into, 1, total)[i] = into[i]
  BY <1>2, FirstPart
<1>5. /\ SubSeq(buf, 1, n) \in Seq(Nat) /\ Len(SubSeq(buf, 1, n)) = n
      /\ \A i \in 1..n : SubSeq(buf, 1, n)[i] = buf[i]
  BY <1>2, <1>3, FirstPart
<1>6. Len(into') = total + n
  BY <1>1, <1>4, <1>5, ConcatProperties
<1>7. Len(buf') = Len(buf) - n /\ \A i \in 1..(Len(buf) - n) : buf'[i] = buf[n + i]
  BY <1>1, <1>2, <1>3, LastPart
<1>8. receiving /\ receiving' /\ UNCHANGED <<link, cp, asked, cut, out>> /\ buf # <<>>
  <2>1. buf # <<>>
    BY <1>2, <1>3, EmptySeq
  <2> QED BY <2>1 DEF ReceiveSome, sendVars
<1>9. link # "broken"
  BY <1>8 DEF ReceiveInv
<1>10. ASSUME ReceiverBlocks, ~cut PROVE InPlace'
  <2>1. total' = total + n /\ Stored = total /\ Stored' = total'
    BY <1>1, <1>8, <1>10 DEF Advance, Stored
  <2>2. /\ Len(out) + total + Len(buf) = cp - 1
        /\ \A i \in 1..Len(buf) : buf[i] = Len(out) + total + i
        /\ \A i \in 1..total : into[i] = Len(out) + i
    BY <1>8, <1>9, <1>10, <2>1 DEF ReceiveInv, InPlace
  <2>3. \A i \in 1..total' : into'[i] = Len(out) + i
    <3>1. \A i \in 1..Len(SubSeq(into, 1, total)) : SubSeq(into, 1, total)[i] = Len(out) + i
      BY <1>4, <2>2
    <3>2. \A i \in 1..Len(SubSeq(buf, 1, n)) :
             SubSeq(buf, 1, n)[i] = Len(out) + Len(SubSeq(into, 1, total)) + i
      <4> SUFFICES ASSUME NEW i \in 1..n
                   PROVE  SubSeq(buf, 1, n)[i] = Len(out) + total + i
        BY <1>4, <1>5
      <4>1. i \in 1..Len(buf)
        BY <1>2, <1>3
      <4> QED BY <1>5, <2>2, <4>1
    <3> QED BY <1>1, <1>2, <1>4, <1>5, <2>1, <3>1, <3>2, JoinCounts
  <2>4. ASSUME NEW i \in 1..Len(buf') PROVE buf'[i] = Len(out) + total' + i
    <3>1. n + i \in 1..Len(buf) /\ i \in 1..(Len(buf) - n)
      BY <1>2, <1>3, <1>7
    <3>2. buf'[i] = buf[n + i] /\ buf[n + i] = Len(out) + total + (n + i)
      BY <1>7, <2>2, <3>1
    <3> QED BY <1>2, <1>3, <2>1, <3>1, <3>2
  <2>5. Len(out) + total' + Len(buf') = cp - 1 /\ Len(out) + total' < cp
    <3>1. Len(buf') = Len(buf) - n /\ Len(out) + total + Len(buf) = cp - 1
      BY <1>7, <2>2
    <3>2. Len(buf) \in Nat /\ Len(out) \in Nat /\ total \in Nat /\ cp \in Nat /\ n <= Len(buf)
      BY <1>2, <1>3
    <3> QED BY <1>3, <2>1, <3>1, <3>2
  <2> QED BY <1>8, <1>9, <1>10, <2>1, <2>3, <2>4, <2>5 DEF InPlace
<1>11. ASSUME ~ReceiverBlocks, ~cut PROVE InPlace'
  <2>1. total = 0 /\ total' = 0 /\ Stored = 0 /\ Stored' = 0
    BY <1>1, <1>8, <1>11 DEF Advance, Stored, ReceiveInv
  <2> QED BY <1>8, <1>11, <2>1 DEF ReceiveInv, InPlace
<1>12. total' <= Len(into') /\ (~ReceiverBlocks => total' = 0)
  BY <1>1, <1>2, <1>3, <1>6 DEF Advance, ReceiveInv
<1> QED BY <1>8, <1>9, <1>10, <1>11, <1>12 DEF ReceiveInv

(* Bytes that are returned follow those returned before.                   *)
LEMMA Returned ==
  ASSUME TypeOK, ReceiveInv, receiving, ReturnsBytes(total), ~cut'
  PROVE  /\ Len(out') = Len(out) + total
         /\ \A i \in 1..Len(out') : out'[i] = i
         /\ SubSeq(into, 1, total) = [i \in 1..total |-> Len(out) + i]
<1>1. /\ total \in 0..Len(into) /\ total \in Nat /\ into \in Seq(Nat)
      /\ out \in Seq(Nat) /\ Len(out) \in Nat
  BY LenProperties, TransferAssumption DEF TypeOK, ReceiveInv
<1>2. /\ SubSeq(into, 1, total) \in Seq(Nat) /\ Len(SubSeq(into, 1, total)) = total
      /\ \A i \in 1..total : SubSeq(into, 1, total)[i] = into[i]
  BY <1>1, FirstPart
<1>8. InPlace /\ out' = out \o SubSeq(into, 1, total)
  BY DEF ReceiveInv, ReturnsBytes
<1>3. \A i \in 1..Len(SubSeq(into, 1, total)) : SubSeq(into, 1, total)[i] = 0 + Len(out) + i
  BY <1>1, <1>2, <1>8 DEF InPlace
<1>4. \A i \in 1..Len(out) : out[i] = 0 + i
  BY <1>1 DEF ReceiveInv
<1>5. /\ Len(out') = Len(out) + total
      /\ \A i \in 1..(Len(out) + total) : out'[i] = 0 + i
  BY <1>1, <1>2, <1>3, <1>4, <1>8, JoinCounts
<1>6. \A i \in 1..Len(out') : out'[i] = i
  BY <1>1, <1>5
<1>7. SubSeq(into, 1, total) = [i \in 1..total |-> Len(out) + i]
  BY <1>1, <1>2, <1>3, LenProperties
<1> QED BY <1>5, <1>6, <1>7

(* The call ends with the bytes handed over, ...                           *)
LEMMA ReturnsInPlace ==
  ASSUME TypeOK, ReceiveInv, receiving, ReturnsBytes(total), ~cut'
  PROVE  ReceiveInv'
<1>1. /\ Len(out') = Len(out) + total
      /\ \A i \in 1..Len(out') : out'[i] = i
  BY Returned
<1>2. ~receiving' /\ ~cut /\ Stored = total /\ Stored' = 0
  BY DEF ReturnsBytes, Stored
<1>3. UNCHANGED <<link, buf, cp, into, total>>
  BY DEF ReturnsBytes, sendVars
<1>4. Len(out) \in Nat /\ total \in Nat /\ Len(buf) \in Nat
  BY LenProperties, TransferAssumption DEF TypeOK
<1>5. Len(out') + Stored' = Len(out) + Stored
  BY <1>1, <1>2, <1>4
<1>6. InPlace'
  BY <1>2, <1>3, <1>5 DEF ReceiveInv, InPlace
<1> QED BY <1>1, <1>2, <1>3, <1>6 DEF ReceiveInv

(* ... unless its result is cut: only a count above IntMax is.             *)
LEMMA CutOnlyLarge ==
  ASSUME TypeOK, ReceiveInv, receiving, ReturnsBytes(total), cut'
  PROVE  \E n \in ReceiveSizes : n > IntMax
<1>1. CASE cut
  BY <1>1 DEF ReceiveInv
<1>2. CASE ~cut
  <2>1. AsInt(total) # total /\ total \in Nat /\ total <= asked /\ asked \in ReceiveSizes
    BY <1>2, TransferAssumption DEF ReturnsBytes, TypeOK, ReceiveInv
  <2>2. ~(total <= IntMax)
    BY <2>1, AsIntFits
  <2>3. total > IntMax /\ asked \in Nat
    BY <2>1, <2>2, TransferAssumption
  <2>4. asked > IntMax
    BY <2>1, <2>3, TransferAssumption
  <2> QED BY <2>1, <2>4
<1> QED BY <1>1, <1>2

LEMMA ReturnsReceive ==
  ASSUME TypeOK, ReceiveInv, receiving, ReturnsBytes(total)
  PROVE  ReceiveInv'
<1>1. CASE cut'
  <2>1. \E n \in ReceiveSizes : n > IntMax
    BY <1>1, CutOnlyLarge
  <2>2. UNCHANGED <<link, buf, into, total, out>> /\ ~receiving'
    BY <1>1 DEF ReturnsBytes
  <2> QED BY <1>1, <2>1, <2>2 DEF ReceiveInv
<1>2. CASE ~cut'
  BY <1>2, ReturnsInPlace
<1> QED BY <1>1, <1>2

LEMMA ReceiveInvNext ==
  ASSUME TypeOK, ReceiveInv, Next
  PROVE  ReceiveInv'
<1>1. CASE SendCall \/ SendAgain \/ SendError \/ SendReturns
  BY <1>1, ReceiveInvFrame DEF SendCall, SendAgain, SendError, SendReturns, SendFails
<1>2. CASE ReceiveCall
  <2>1. ~receiving /\ receiving' /\ into' = <<>> /\ total' = 0 /\ Stored = 0 /\ Stored' = 0
    BY <1>2 DEF ReceiveCall, Stored
  <2>2. UNCHANGED <<link, buf, cp, out>> /\ Len(into') = 0
    BY <1>2, <2>1, EmptySeq DEF ReceiveCall, sendVars
  <2>3. asked' \in ReceiveSizes /\ cut' = cut
    BY <1>2 DEF ReceiveCall
  <2>4. InPlace => InPlace'
    BY <2>1, <2>2 DEF InPlace
  <2> QED BY <2>1, <2>2, <2>3, <2>4 DEF ReceiveInv
<1>3. CASE ReceiveReturns \/ ReceiveStops
  BY <1>3, ReturnsReceive DEF ReceiveReturns, ReceiveStops
<1>4. CASE SenderCloses
  BY <1>4, ReceiveInvFrame DEF SenderCloses, sendVars
<1>5. CASE LinkBreaks
  BY <1>5 DEF LinkBreaks, ReceiveInv, InPlace, Stored, sendVars, recvVars
<1> QED
  BY <1>1, <1>2, <1>3, <1>4, <1>5, SendSomeReceive, ReceiveSomeReceive DEF Next, Send, Receive

-----------------------------------------------------------------------------
LEMMA TransferInit == Init => TransferInv
<1> SUFFICES ASSUME Init PROVE TransferInv
  OBVIOUS
<1>1. <<>> \in Seq(Nat) /\ Len(<<>>) = 0
  BY EmptySeq
<1>2. TypeOK
  <2>1. buf \in Seq(Nat) /\ Len(buf) = 0 /\ into \in Seq(Nat) /\ out \in Seq(Nat)
    BY <1>1 DEF Init
  <2>2. Len(buf) <= BufCap /\ toWrite \in (-IntMax - 1)..IntMax
    BY <2>1, TransferAssumption DEF Init
  <2>3. sent \in 0..Messages /\ sret \in 0..IntMax /\ wrote \in 0..IntMax
    BY TransferAssumption DEF Init
  <2>4. /\ cp \in Nat \ {0} /\ size \in SendSizes \cup {0} /\ iter \in Nat
        /\ first \in Nat \ {0} /\ first <= cp
    BY DEF Init
  <2>6. asked \in ReceiveSizes \cup {0} /\ total \in 0..asked /\ cut \in BOOLEAN
    <3>1. asked = 0 /\ total = 0 /\ cut = FALSE
      BY DEF Init
    <3>2. asked \in ReceiveSizes \cup {0} /\ total \in 0..asked
      BY <3>1
    <3>3. cut \in BOOLEAN
      BY <3>1
    <3> QED BY <3>2, <3>3
  <2>5. /\ link \in {"up", "closed", "broken"}
        /\ sending \in BOOLEAN /\ senderBlocks \in BOOLEAN /\ receiving \in BOOLEAN
    BY TransferAssumption DEF Init
  <2> QED BY <2>1, <2>2, <2>3, <2>4, <2>5, <2>6 DEF TypeOK
<1>3. SendInv
  BY TransferAssumption DEF Init, SendInv, SentIsPassed
<1>4. ReceiveInv
  BY <1>1 DEF Init, ReceiveInv, InPlace, Stored
<1> QED BY <1>2, <1>3, <1>4 DEF TransferInv

LEMMA TransferNext == TransferInv /\ [Next]_vars => TransferInv'
<1> SUFFICES ASSUME TransferInv, [Next]_vars PROVE TransferInv'
  OBVIOUS
<1>1. CASE Next
  <2>1. TypeOK'
    BY <1>1, SendType, ReceiveType, LinkType DEF Next, TransferInv
  <2> QED BY <1>1, <2>1, SendInvNext, ReceiveInvNext DEF TransferInv
<1>2. CASE UNCHANGED vars
  <2>1. TypeOK' /\ SendInv'
    BY <1>2 DEF TransferInv, TypeOK, SendInv, SentIsPassed, AsInt, vars, sendVars, recvVars
  <2>2. ReceiveInv'
    BY <1>2 DEF TransferInv, ReceiveInv, InPlace, Stored, vars, sendVars, recvVars
  <2> QED BY <2>1, <2>2 DEF TransferInv
<1> QED BY <1>1, <1>2

(* The invariant holds in every state, for any values of the constants.    *)
THEOREM TransferInvariant == Spec => []TransferInv
BY TransferInit, TransferNext, PTL DEF Spec

(* Every variable stays in its domain: whatever the cast of its size to an *)
(* int makes of it, send neither counts nor asks beyond an int, and        *)
(* receiveAll counts no more bytes than it was asked for.                  *)
THEOREM TransferTypes == Spec => []TypeOK
<1>1. TransferInv => TypeOK
  BY DEF TransferInv
<1> QED BY <1>1, TransferInvariant, PTL

(* The result of every send call tells what the kernel took of its         *)
(* message, also after calls that failed.                                  *)
THEOREM SendTells == Spec => []SentIsPassed
<1>1. TransferInv => SentIsPassed
  BY DEF TransferInv, SendInv, SentIsPassed
<1> QED BY <1>1, TransferInvariant, PTL

(* A blocking receiver is handed every byte once and in order, until the   *)
(* result of a call for more than an int holds is cut.                     *)
THEOREM BlockingLosesNothing ==
  ASSUME ReceiverBlocks
  PROVE  Spec => []NothingLost
<1>1. TransferInv => NothingLost
  <2> SUFFICES ASSUME TransferInv, ~receiving, link # "broken", ~cut
               PROVE  out \o buf = Bytes(1, cp - 1)
    BY DEF NothingLost, TransferInv, ReceiveInv
  <2>1. /\ out \in Seq(Nat) /\ buf \in Seq(Nat) /\ Len(out) \in Nat /\ Len(buf) \in Nat
    BY LenProperties DEF TransferInv, TypeOK
  <2>2. /\ \A i \in 1..Len(out) : out[i] = i
        /\ Len(out) + Len(buf) = cp - 1
        /\ \A i \in 1..Len(buf) : buf[i] = Len(out) + i
    BY <2>1 DEF TransferInv, ReceiveInv, InPlace, Stored
  <2>3. /\ out \o buf \in Seq(Nat) /\ Len(out \o buf) = Len(out) + Len(buf)
        /\ \A i \in 1..(Len(out) + Len(buf)) :
             (out \o buf)[i] = IF i <= Len(out) THEN out[i] ELSE buf[i - Len(out)]
    BY <2>1, ConcatProperties
  <2>4. \A i \in 1..Len(out \o buf) : (out \o buf)[i] = 1 + i - 1
    BY <2>1, <2>2, <2>3
  <2>5. out \o buf = Bytes(1, Len(out \o buf))
    BY <2>3, <2>4, BytesAre
  <2> QED BY <2>2, <2>3, <2>5
<1> QED BY <1>1, TransferInvariant, PTL

-----------------------------------------------------------------------------
(* The refinement of ByteStream.                                           *)

LEMMA StreamInit == Init => Stream!SInit
BY DEF Init, Stream!SInit

LEMMA StreamNext == TransferInv /\ [Next]_vars => [Stream!SNext]_(Stream!svars)
<1> SUFFICES ASSUME TransferInv, [Next]_vars
             PROVE  Stream!SNext \/ UNCHANGED Stream!svars
  BY DEF Stream!svars
<1> USE DEF TransferInv
<1>1. CASE SendSome
  <2>1. PICK n \in 1..Least(toWrite, BufCap - Len(buf)) : cp' = cp + n
    BY <1>1 DEF SendSome, MovesOn
  <2>2. n \in Nat \ {0} /\ cp \in Nat \ {0}
    BY RoomLeft DEF TypeOK
  <2>3. cp' - 1 \in Nat /\ cp' - 1 > cp - 1
    BY <2>1, <2>2
  <2>4. link = "up" /\ link' = link /\ out' = out
    BY <1>1 DEF SendSome, recvVars
  <2> QED BY <2>3, <2>4 DEF Stream!SNext, Stream!Pass
<1>2. CASE ReceiveReturns \/ ReceiveStops
  <2>1. receiving /\ ReturnsBytes(total) /\ total \in Nat /\ Len(out) \in Nat /\ cp \in Nat
    BY <1>2, LenProperties, TransferAssumption DEF ReceiveReturns, ReceiveStops, TypeOK
  <2> SUFFICES ASSUME ~cut' PROVE Stream!SNext \/ UNCHANGED Stream!svars
    BY <2>1 DEF ReturnsBytes, sendVars, Stream!svars
  <2>2. UNCHANGED <<link, cp>> /\ out' = out \o [i \in 1..total |-> Len(out) + i]
    BY <2>1, Returned DEF ReturnsBytes, sendVars
  <2>3. total <= cp - 1 - Len(out)
    <3>1. InPlace
      BY <2>1 DEF ReceiveInv, ReturnsBytes
    <3>2. Len(out) + total < cp
      BY <2>1, <3>1 DEF InPlace, Stored
    <3> QED BY <2>1, <3>2
  <2>4. CASE total = 0
    <3>1. out' = out
      BY <2>1, <2>4, ConcatEmptySeq, FirstPart DEF TypeOK, ReceiveInv, ReturnsBytes
    <3> QED BY <2>2, <3>1 DEF Stream!svars
  <2>5. CASE total # 0
    <3>1. total \in 1..((cp - 1) - Len(out))
      BY <2>1, <2>3, <2>5
    <3> QED BY <2>2, <3>1 DEF Stream!SNext, Stream!Hand
  <2> QED BY <2>4, <2>5
<1>3. CASE LinkBreaks
  BY <1>3 DEF LinkBreaks, sendVars, recvVars, Stream!SNext, Stream!Break
<1>4. CASE SendCall \/ SendAgain \/ SendError \/ SendReturns
  BY <1>4 DEF SendCall, SendAgain, SendError, SendReturns, SendFails, recvVars, Stream!svars
<1>5. CASE ReceiveCall \/ ReceiveSome \/ SenderCloses
  <2>1. UNCHANGED <<cp, out>> /\ (link' # "broken" <=> link # "broken")
    BY <1>5 DEF ReceiveCall, ReceiveSome, SenderCloses, sendVars, recvVars
  <2> QED BY <2>1 DEF Stream!svars
<1>6. CASE UNCHANGED vars
  BY <1>6 DEF vars, sendVars, recvVars, Stream!svars
<1> QED BY <1>1, <1>2, <1>3, <1>4, <1>5, <1>6 DEF Next, Send, Receive

(* send and receiveAll keep the promise of ByteStream, in either mode of   *)
(* both descriptors.                                                       *)
THEOREM KeepsStream == Spec => ImplementsStream
BY StreamInit, StreamNext, TransferInvariant, PTL DEF Spec, ImplementsStream, Stream!SSpec

=============================================================================
