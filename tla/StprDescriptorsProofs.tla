------------------------ MODULE StprDescriptorsProofs ------------------------
(***************************************************************************)
(* Theorems about StprDescriptors: for any number of CStprSocks objects    *)
(* and descriptors, opened and closed by others at any time, every open    *)
(* descriptor has one holder and an interruption arrives at the poll of    *)
(* the same object, but for the descriptors that the second close of a     *)
(* number kept by CloseSockets has struck.                                 *)
(***************************************************************************)
EXTENDS StprDescriptors, FiniteSetTheorems, TLAPS

(* No descriptor is connected with itself.  DTypeOK lacks this: SetSockets *)
(* takes the two ends of one connection for two descriptors.               *)
PeerApart == \A f \in Fds : peer[f] # f

(* Who holds a descriptor that no second close has struck.                 *)
PairHolders ==
  /\ \A f \in hand \cap other : f \in struck
  /\ \A f \in hand \cup other : f \in struck \/ (Open(f) /\ \A p \in Objects : f \notin Owned(p))
  /\ \A p \in Objects : \A f \in Owned(p) : f \in struck \/ Open(f)
  /\ \A p, q \in Objects : p # q => \A f \in Owned(p) \cap Owned(q) : f \in struck
  /\ \A f \in Fds : Open(f) =>
       f \in struck \/ f \in hand \cup other \/ \E p \in Objects : f \in Owned(p)

PairTypeInv == DTypeOK /\ PeerApart
PairInv == PairTypeInv /\ PairHolders /\ InterruptReachesPol

-----------------------------------------------------------------------------
(* Operators of the model.                                                 *)

(* The descriptors of an object are descriptors.                           *)
LEMMA PairIsFds ==
  ASSUME DTypeOK, NEW p \in Objects
  PROVE  Pair(p) \subseteq Fds
BY DEF DTypeOK, TypeOK, Pair

(* What closing some descriptors does to each of them.                     *)
LEMMA ClosesEach ==
  ASSUME DTypeOK, NEW fds, Closes(fds)
  PROVE  /\ conn' \in [Fds -> {"closed", "new", "pending", "connected", "refused"}]
         /\ peer' \in [Fds -> Fds \cup {NoSock}]
         /\ \A f \in Fds : conn'[f] = IF f \in fds THEN "closed" ELSE conn[f]
         /\ \A f \in Fds : peer'[f] = IF f \in fds \/ peer[f] \in fds THEN NoSock ELSE peer[f]
BY DEF Closes, DTypeOK, TypeOK

(* A step that closes connects nothing with itself.                        *)
LEMMA ClosesApart ==
  ASSUME PairTypeInv, NEW fds, Closes(fds)
  PROVE  PeerApart'
BY ClosesEach, SocketAssumption DEF PairTypeInv, PeerApart

-----------------------------------------------------------------------------
(* Type correctness, whatever the rest of the program opens.               *)

LEMMA GetPairType ==
  ASSUME PairTypeInv, GetPair
  PROVE  PairTypeInv'
<1> USE DEF PairTypeInv, DTypeOK, TypeOK, PeerApart
<1>1. PICK f \in Free, g \in Free :
         /\ f < g
         /\ conn' = [conn EXCEPT ![f] = "connected", ![g] = "connected"]
         /\ peer' = [peer EXCEPT ![f] = g, ![g] = f]
         /\ nonblock' = nonblock \ {f, g}
         /\ hand' = hand \cup {f, g}
  BY DEF GetPair
<1>2. f \in Fds /\ g \in Fds /\ f # g
  BY <1>1, SocketAssumption DEF Free
<1> QED BY <1>1, <1>2 DEF GetPair, objects

LEMMA SetSocketsType ==
  ASSUME PairTypeInv, NEW p \in Objects, SetSockets(p)
  PROVE  PairTypeInv'
<1>1. PICK f \in hand, g \in hand :
         /\ peer[f] = g
         /\ Closes(Pair(p))
         /\ sock' = [sock EXCEPT ![p] = f]
         /\ polNr' = [polNr EXCEPT ![p] = g]
         /\ nonblock' = (nonblock \ Pair(p)) \cup ({g} \ Pair(p))
         /\ hand' = hand \ {f, g}
  BY DEF SetSockets
<1>2. f \in Fds /\ g \in Fds /\ f # g
  BY <1>1 DEF PairTypeInv, DTypeOK, TypeOK, PeerApart
<1>3. PeerApart'
  BY <1>1, ClosesApart
<1>4. conn' \in [Fds -> {"closed", "new", "pending", "connected", "refused"}]
      /\ peer' \in [Fds -> Fds \cup {NoSock}]
  BY <1>1, ClosesEach DEF PairTypeInv
<1>5. struck' \subseteq Fds
  BY PairIsFds DEF SetSockets, Strikes, PairTypeInv, DTypeOK
<1> QED BY <1>1, <1>2, <1>3, <1>4, <1>5 DEF SetSockets, Adopts, PairTypeInv, DTypeOK, TypeOK

LEMMA ClosingType ==
  ASSUME PairTypeInv, NEW p \in Objects, CloseSockets(p) \/ DestroyPair(p)
  PROVE  PairTypeInv'
<1>1. Closes(Pair(p)) /\ nonblock' = nonblock \ Pair(p) /\ sock' = [sock EXCEPT ![p] = NoSock]
  BY DEF CloseSockets, DestroyPair, ForgetsNumber
<1>2. PeerApart'
  BY <1>1, ClosesApart
<1>3. conn' \in [Fds -> {"closed", "new", "pending", "connected", "refused"}]
      /\ peer' \in [Fds -> Fds \cup {NoSock}]
  BY <1>1, ClosesEach DEF PairTypeInv
<1>4. struck' \subseteq Fds
  BY PairIsFds DEF CloseSockets, DestroyPair, Strikes, PairTypeInv, DTypeOK
<1> QED BY <1>1, <1>2, <1>3, <1>4
    DEF CloseSockets, DestroyPair, PairTypeInv, DTypeOK, TypeOK, holders

(* The object on the other side of an exchange.                            *)
Twin(o, p, q) == IF q = o THEN p ELSE IF q = p THEN o ELSE q

LEMMA SwapEach ==
  ASSUME DTypeOK, NEW p \in Objects, NEW q \in Objects, SwapPairs(p, q)
  PROVE  /\ \A o \in Objects : /\ Twin(p, q, o) \in Objects
                               /\ Twin(p, q, Twin(p, q, o)) = o
                               /\ sock'[o] = sock[Twin(p, q, o)]
                               /\ polNr'[o] = polNr[Twin(p, q, o)]
         /\ sock' \in [Objects -> Fds \cup {NoSock}]
         /\ polNr' \in [Objects -> Fds \cup {NoSock}]
BY DEF SwapPairs, SwapsPol, Swapped, Twin, DTypeOK, TypeOK

LEMMA SwapType ==
  ASSUME PairTypeInv, NEW p \in Objects, NEW q \in Objects, SwapPairs(p, q)
  PROVE  PairTypeInv'
<1>1. /\ sock' \in [Objects -> Fds \cup {NoSock}] /\ polNr' \in [Objects -> Fds \cup {NoSock}]
      /\ \A o \in Objects : sock'[o] # NoSock => polNr'[o] \in Fds \ {sock'[o]}
  BY SwapEach DEF PairTypeInv, DTypeOK
<1>2. adopted' \in SUBSET Objects
  BY DEF SwapPairs, Exchanged
<1> QED BY <1>1, <1>2 DEF SwapPairs, PairTypeInv, DTypeOK, TypeOK, PeerApart, kernel

LEMMA OthersType ==
  ASSUME PairTypeInv, OthersOpen \/ OthersClose \/ \E p \in Objects : WaitReads(p)
  PROVE  PairTypeInv'
<1> USE DEF PairTypeInv, DTypeOK, TypeOK
<1>1. CASE OthersOpen
  BY <1>1 DEF OthersOpen, ApplicationOpens, PeerApart, objects
<1>2. CASE OthersClose
  <2>1. PICK fds : Closes(fds)
    BY <1>2 DEF OthersClose
  <2>2. PeerApart' /\ peer' \in [Fds -> Fds \cup {NoSock}]
    BY <2>1, ClosesApart, ClosesEach
  <2> QED BY <1>2, <2>2 DEF OthersClose, ApplicationCloses, objects
<1>3. ASSUME NEW p \in Objects, WaitReads(p) PROVE PairTypeInv'
  BY <1>3 DEF WaitReads, PeerApart, objects, holders
<1> QED BY <1>1, <1>2, <1>3

LEMMA PairTypeNext == PairTypeInv /\ [DNext]_dvars => PairTypeInv'
<1> SUFFICES ASSUME PairTypeInv, [DNext]_dvars PROVE PairTypeInv'
  OBVIOUS
<1>1. CASE DNext
  BY <1>1, GetPairType, SetSocketsType, ClosingType, SwapType, OthersType DEF DNext, PairCalls
<1>2. CASE UNCHANGED dvars
  BY <1>2 DEF dvars, vars, objects, kernel, holders, PairTypeInv, DTypeOK, TypeOK, PeerApart
<1> QED BY <1>1, <1>2

LEMMA PairTypeInit == DInit => PairTypeInv
BY SocketAssumption DEF DInit, Init, PairTypeInv, DTypeOK, TypeOK, PeerApart

(* Every variable stays in its domain, and an object that has wUp has a    *)
(* pol of another number: also if others open descriptors at any time.     *)
THEOREM PairTypes == DSpec => []DTypeOK
<1>1. PairTypeInv => DTypeOK
  BY DEF PairTypeInv
<1> QED BY <1>1, PairTypeInit, PairTypeNext, PTL DEF DSpec

-----------------------------------------------------------------------------
(* Who holds what.                                                         *)

(* An object that has wUp owns the descriptors in wUp and pol, ...         *)
LEMMA InOwned ==
  ASSUME DTypeOK, NEW p \in Objects
  PROVE  /\ sock[p] = NoSock => Owned(p) = {}
         /\ sock[p] # NoSock =>
              Owned(p) = {sock[p], polNr[p]} /\ sock[p] \in Fds /\ polNr[p] \in Fds
         /\ Owned(p) \subseteq Pair(p) /\ Owned(p) \subseteq Fds
BY SocketAssumption DEF Owned, Pair, DTypeOK, TypeOK

(* ... and a call that closes its two numbers closes just these, but for   *)
(* what it strikes.                                                        *)
LEMMA ClosesOwned ==
  ASSUME DTypeOK, NEW p \in Objects, Closes(Pair(p)), Strikes(p)
  PROVE  /\ struck \subseteq struck'
         /\ \A f \in Fds \ struck' : Open(f)' <=> Open(f) /\ f \notin Owned(p)
         /\ \A f \in Fds \ struck' : Open(f) => (f \in Pair(p) <=> f \in Owned(p))
         /\ \A f \in Fds :
              peer'[f] = IF f \in Pair(p) \/ peer[f] \in Pair(p) THEN NoSock ELSE peer[f]
<1>1. struck' = struck \cup {f \in Pair(p) \ Owned(p) : Open(f)}
  BY DEF Strikes
<1>2. /\ \A f \in Fds : conn'[f] = IF f \in Pair(p) THEN "closed" ELSE conn[f]
      /\ \A f \in Fds :
           peer'[f] = IF f \in Pair(p) \/ peer[f] \in Pair(p) THEN NoSock ELSE peer[f]
  BY ClosesEach
<1>3. ASSUME NEW f \in Fds \ struck', Open(f)
      PROVE  f \in Pair(p) <=> f \in Owned(p)
  BY <1>1, <1>3, InOwned
<1>4. ASSUME NEW f \in Fds \ struck'
      PROVE  Open(f)' <=> Open(f) /\ f \notin Owned(p)
  <2>1. Open(f)' <=> Open(f) /\ f \notin Pair(p)
    BY <1>2 DEF Open
  <2> QED BY <2>1, <1>3
<1> QED BY <1>1, <1>2, <1>3, <1>4

(* The other objects keep what is not struck.                              *)
LEMMA OthersKeep ==
  ASSUME PairInv, NEW p \in Objects, Closes(Pair(p)), Strikes(p),
         NEW q \in Objects \ {p}, sock[q] # NoSock, Owned(q) \cap struck' = {}
  PROVE  /\ polNr[q] \in Fds /\ conn'[polNr[q]] # "closed"
         /\ peer'[sock[q]] = polNr[q]
<1> USE DEF PairInv, PairTypeInv
<1>1. /\ Owned(q) = {sock[q], polNr[q]} /\ sock[q] \in Fds /\ polNr[q] \in Fds
      /\ sock[q] \notin struck' /\ polNr[q] \notin struck'
      /\ Owned(q) \cap struck = {}
  BY InOwned, ClosesOwned
<1>2. Open(sock[q]) /\ Open(polNr[q]) /\ peer[sock[q]] = polNr[q]
  BY <1>1 DEF PairHolders, InterruptReachesPol
<1>3. sock[q] \notin Owned(p) /\ polNr[q] \notin Owned(p)
  BY <1>1 DEF PairHolders
<1>4. sock[q] \notin Pair(p) /\ polNr[q] \notin Pair(p)
  BY <1>1, <1>2, <1>3, ClosesOwned
<1>5. \A f \in Fds : conn'[f] = IF f \in Pair(p) THEN "closed" ELSE conn[f]
  BY ClosesEach
<1>6. conn'[polNr[q]] # "closed"
  BY <1>1, <1>2, <1>4, <1>5 DEF Open
<1>7. peer'[sock[q]] = polNr[q]
  BY <1>1, <1>2, <1>4, ClosesOwned
<1> QED BY <1>1, <1>6, <1>7

(* A step that opens one or two free descriptors for the application or    *)
(* the others.                                                             *)
LEMMA OpeningHolders ==
  ASSUME PairInv, GetPair \/ OthersOpen
  PROVE  PairHolders' /\ InterruptReachesPol'
<1> USE DEF PairInv, PairTypeInv
<1>1. PICK new \in SUBSET Free :
         /\ \A f \in Fds : conn'[f] = IF f \in new THEN "connected" ELSE conn[f]
         /\ \A f \in Fds \ new : peer'[f] = peer[f]
         /\ \/ hand' = hand \cup new /\ other' = other
            \/ hand' = hand /\ other' = other \cup new
  <2>1. CASE GetPair
    <3>1. PICK f \in Free, g \in Free :
             /\ conn' = [conn EXCEPT ![f] = "connected", ![g] = "connected"]
             /\ peer' = [peer EXCEPT ![f] = g, ![g] = f]
             /\ hand' = hand \cup {f, g}
      BY <2>1 DEF GetPair
    <3>2. {f, g} \in SUBSET Free
      OBVIOUS
    <3>3. \A h \in Fds : conn'[h] = IF h \in {f, g} THEN "connected" ELSE conn[h]
      BY <3>1 DEF DTypeOK, TypeOK
    <3>4. \A h \in Fds \ {f, g} : peer'[h] = peer[h]
      BY <3>1 DEF DTypeOK
    <3>5. other' = other
      BY <2>1 DEF GetPair
    <3> QED BY <3>1, <3>2, <3>3, <3>4, <3>5
  <2>2. CASE OthersOpen
    <3>1. PICK f \in Fds : /\ IsNext(f)
                           /\ conn' = [conn EXCEPT ![f] = "connected"]
                           /\ \/ hand' = hand \cup {f} /\ other' = other
                              \/ other' = other \cup {f} /\ hand' = hand
      BY <2>2 DEF OthersOpen, ApplicationOpens
    <3>2. {f} \in SUBSET Free
      BY <3>1 DEF IsNext
    <3>3. \A h \in Fds : conn'[h] = IF h \in {f} THEN "connected" ELSE conn[h]
      BY <3>1 DEF DTypeOK, TypeOK
    <3>4. peer' = peer
      BY <2>2 DEF OthersOpen
    <3> QED BY <3>1, <3>2, <3>3, <3>4
  <2> QED BY <2>1, <2>2
<1>2. UNCHANGED <<sock, polNr, struck>>
  BY DEF GetPair, OthersOpen, ApplicationOpens, objects
<1>3. \A p \in Objects : Owned(p)' = Owned(p)
  BY <1>2 DEF Owned, Pair
<1>4. \A f \in Fds : Open(f)' <=> Open(f) \/ f \in new
  BY <1>1 DEF Open
<1>5. \A f \in new : f \in Fds /\ ~Open(f)
  BY DEF Free, Open
<1>6. \A f \in new : f \in struck \/ (f \notin hand \cup other /\ \A p \in Objects : f \notin Owned(p))
  BY <1>5 DEF PairHolders
<1>7. \A f \in hand' \cap other' : f \in struck
  BY <1>1, <1>6 DEF PairHolders
<1>8. ASSUME NEW f \in hand' \cup other', f \notin struck
      PROVE  Open(f)' /\ \A p \in Objects : f \notin Owned(p)
  <2>1. f \in hand \cup other \/ f \in new
    BY <1>1
  <2>2. CASE f \in new
    BY <2>2, <1>4, <1>5, <1>6, <1>8
  <2>3. CASE f \in hand \cup other
    <3>1. Open(f) /\ \A p \in Objects : f \notin Owned(p)
      BY <2>3, <1>8 DEF PairHolders
    <3> QED BY <3>1, <1>4 DEF Open
  <2> QED BY <2>1, <2>2, <2>3
<1>9. \A p \in Objects : \A f \in Owned(p) : f \in struck \/ Open(f)'
  BY <1>4 DEF PairHolders, Open
<1>10. ASSUME NEW f \in Fds, Open(f)', f \notin struck
       PROVE  f \in hand' \cup other' \/ \E p \in Objects : f \in Owned(p)
  BY <1>1, <1>4, <1>10 DEF PairHolders
<1>11. PairHolders'
  BY <1>2, <1>3, <1>7, <1>8, <1>9, <1>10 DEF PairHolders
<1>12. InterruptReachesPol'
  <2> SUFFICES ASSUME NEW p \in Objects, sock[p] # NoSock, Owned(p) \cap struck = {}
               PROVE  Open(polNr[p])' /\ peer'[sock[p]] = polNr[p]
    BY <1>2, <1>3 DEF InterruptReachesPol
  <2>1. sock[p] \in Owned(p) /\ polNr[p] \in Owned(p) /\ sock[p] \in Fds /\ polNr[p] \in Fds
    BY InOwned
  <2>2. Open(polNr[p]) /\ peer[sock[p]] = polNr[p]
    BY DEF InterruptReachesPol
  <2>3. sock[p] \notin new
    BY <2>1, <1>6
  <2>4. Open(polNr[p])'
    BY <1>2, <1>4, <2>1, <2>2 DEF Open
  <2> QED BY <1>1, <2>1, <2>2, <2>3, <2>4
<1> QED BY <1>11, <1>12

(* SetSockets closes the old pair and takes a new one.                     *)
LEMMA SetSocketsHolders ==
  ASSUME PairInv, NEW p \in Objects, SetSockets(p)
  PROVE  PairHolders' /\ InterruptReachesPol'
<1> USE DEF PairInv, PairTypeInv
<1>1. PICK f \in hand, g \in hand :
         /\ peer[f] = g
         /\ Closes(Pair(p)) /\ Strikes(p)
         /\ sock' = [sock EXCEPT ![p] = f]
         /\ polNr' = [polNr EXCEPT ![p] = g]
         /\ hand' = hand \ {f, g}
  BY DEF SetSockets
<1>2. other' = other
  BY DEF SetSockets
<1>3. f \in Fds /\ g \in Fds /\ f # NoSock /\ g # NoSock
  BY SocketAssumption DEF DTypeOK, TypeOK
<1>4. /\ sock'[p] = f /\ polNr'[p] = g
      /\ \A q \in Objects \ {p} : sock'[q] = sock[q] /\ polNr'[q] = polNr[q]
  BY <1>1 DEF DTypeOK, TypeOK
<1>5. Owned(p)' = {f, g} /\ \A q \in Objects \ {p} : Owned(q)' = Owned(q)
  BY <1>3, <1>4 DEF Owned, Pair
<1>6. /\ struck \subseteq struck'
      /\ \A h \in Fds \ struck' : Open(h)' <=> Open(h) /\ h \notin Owned(p)
  BY <1>1, ClosesOwned
<1>7. ASSUME NEW h \in hand \cup other, h \notin struck'
      PROVE  h \in Fds /\ Open(h) /\ Open(h)' /\ \A q \in Objects : h \notin Owned(q)
  <2>1. h \in Fds /\ h \notin struck
    BY <1>6, <1>7 DEF DTypeOK, TypeOK
  <2>2. Open(h) /\ \A q \in Objects : h \notin Owned(q)
    BY <2>1 DEF PairHolders
  <2> QED BY <1>6, <1>7, <2>1, <2>2
<1>8. PairHolders'
  <2>1. \A h \in hand' \cap other' : h \in struck'
    BY <1>1, <1>2, <1>6 DEF PairHolders
  <2>2. ASSUME NEW h \in hand' \cup other', h \notin struck', NEW q \in Objects
        PROVE  Open(h)' /\ h \notin Owned(q)'
    <3>1. h \in hand \cup other
      BY <1>1, <1>2
    <3>2. Open(h)' /\ \A o \in Objects : h \notin Owned(o)
      BY <1>7, <2>2, <3>1
    <3>3. h \notin {f, g}
      <4>1. h \in hand /\ h \in other => h \in struck
        BY DEF PairHolders
      <4> QED BY <1>1, <1>2, <1>6, <2>2, <4>1
    <3> QED BY <1>5, <3>2, <3>3
  <2>3. ASSUME NEW q \in Objects, NEW h \in Owned(q)', h \notin struck'
        PROVE  Open(h)'
    <3>1. CASE q = p
      BY <1>5, <1>7, <2>3, <3>1
    <3>2. CASE q # p
      <4>1. h \in Owned(q) /\ h \in Fds /\ h \notin struck
        BY <1>5, <1>6, <2>3, <3>2, InOwned
      <4>2. Open(h) /\ h \notin Owned(p)
        BY <3>2, <4>1 DEF PairHolders
      <4> QED BY <1>6, <2>3, <4>1, <4>2
    <3> QED BY <3>1, <3>2
  <2>4. ASSUME NEW q \in Objects, NEW r \in Objects, q # r,
               NEW h \in Owned(q)' \cap Owned(r)', h \notin struck'
        PROVE  FALSE
    <3>1. CASE q # p /\ r # p
      BY <1>5, <1>6, <2>4, <3>1 DEF PairHolders
    <3>2. CASE q = p \/ r = p
      <4>1. h \in {f, g} /\ \E o \in Objects : h \in Owned(o)
        BY <1>5, <2>4, <3>2
      <4> QED BY <1>7, <2>4, <4>1
    <3> QED BY <3>1, <3>2
  <2>5. ASSUME NEW h \in Fds, Open(h)', h \notin struck', h \notin hand' \cup other'
        PROVE  \E q \in Objects : h \in Owned(q)'
    <3>1. Open(h) /\ h \notin Owned(p) /\ h \notin struck
      BY <1>6, <2>5
    <3>2. CASE h \in {f, g}
      BY <1>5, <3>2
    <3>3. CASE h \notin {f, g}
      <4>1. PICK q \in Objects : h \in Owned(q)
        BY <1>1, <1>2, <2>5, <3>1, <3>3 DEF PairHolders
      <4> QED BY <1>5, <3>1, <4>1
    <3> QED BY <3>2, <3>3
  <2>6. \A h \in hand' \cup other' :
          h \in struck' \/ (Open(h)' /\ \A q \in Objects : h \notin Owned(q)')
    <3> SUFFICES ASSUME NEW h \in hand' \cup other', h \notin struck'
                 PROVE  Open(h)' /\ \A q \in Objects : h \notin Owned(q)'
      OBVIOUS
    <3> QED BY <2>2
  <2> QED BY <2>1, <2>3, <2>4, <2>5, <2>6 DEF PairHolders
<1>9. InterruptReachesPol'
  <2> SUFFICES ASSUME NEW q \in Objects, sock'[q] # NoSock, Owned(q)' \cap struck' = {}
               PROVE  Open(polNr[q])' /\ peer'[sock'[q]] = polNr'[q]
    BY DEF InterruptReachesPol
  <2>1. CASE q = p
    <3>1. f \notin struck' /\ g \notin struck'
      BY <1>5, <2>1
    <3>2. /\ Open(f) /\ Open(g) /\ Open(g)'
          /\ f \notin Owned(p) /\ g \notin Owned(p)
      BY <1>7, <3>1
    <3>3. f \notin Pair(p) /\ g \notin Pair(p)
      BY <1>1, <1>3, <3>1, <3>2, ClosesOwned
    <3>4. peer'[f] = g
      BY <1>1, <1>3, <3>3, ClosesOwned
    <3> QED BY <1>4, <2>1, <3>2, <3>4 DEF Open
  <2>2. CASE q # p
    <3>1. sock[q] # NoSock /\ Owned(q) \cap struck' = {}
      BY <1>4, <1>5, <2>2
    <3> QED BY <1>1, <1>4, <2>2, <3>1, OthersKeep DEF Open
  <2> QED BY <2>1, <2>2
<1> QED BY <1>8, <1>9

(* CloseSockets and the destructor close the pair.                         *)
LEMMA ClosingHolders ==
  ASSUME PairInv, NEW p \in Objects, CloseSockets(p) \/ DestroyPair(p)
  PROVE  PairHolders' /\ InterruptReachesPol'
<1> USE DEF PairInv, PairTypeInv
<1>1. /\ Closes(Pair(p)) /\ Strikes(p) /\ sock' = [sock EXCEPT ![p] = NoSock]
      /\ polNr' = polNr \/ polNr' = [polNr EXCEPT ![p] = NoSock]
      /\ UNCHANGED <<hand, other>>
  BY DEF CloseSockets, DestroyPair, ForgetsNumber, holders
<1>2. /\ sock'[p] = NoSock
      /\ \A q \in Objects \ {p} : sock'[q] = sock[q] /\ polNr'[q] = polNr[q]
  BY <1>1 DEF DTypeOK, TypeOK
<1>3. Owned(p)' = {} /\ \A q \in Objects \ {p} : Owned(q)' = Owned(q)
  BY <1>2 DEF Owned, Pair
<1>4. /\ struck \subseteq struck'
      /\ \A h \in Fds \ struck' : Open(h)' <=> Open(h) /\ h \notin Owned(p)
  BY <1>1, ClosesOwned
<1>5. PairHolders'
  <2>1. \A h \in hand' \cap other' : h \in struck'
    BY <1>1, <1>4 DEF PairHolders
  <2>2. ASSUME NEW h \in hand' \cup other', h \notin struck'
        PROVE  Open(h)' /\ \A q \in Objects : h \notin Owned(q)'
    <3>1. h \in hand \cup other /\ h \in Fds /\ h \notin struck
      BY <1>1, <1>4, <2>2 DEF DTypeOK, TypeOK
    <3>2. Open(h) /\ \A q \in Objects : h \notin Owned(q)
      BY <3>1 DEF PairHolders
    <3> QED BY <1>3, <1>4, <2>2, <3>1, <3>2
  <2>3. ASSUME NEW q \in Objects, NEW h \in Owned(q)', h \notin struck'
        PROVE  Open(h)'
    <3>1. q # p /\ h \in Owned(q) /\ h \in Fds /\ h \notin struck
      BY <1>3, <1>4, <2>3, InOwned
    <3>2. Open(h) /\ h \notin Owned(p)
      BY <3>1 DEF PairHolders
    <3> QED BY <1>4, <2>3, <3>1, <3>2
  <2>4. \A q, r \in Objects : q # r => \A h \in Owned(q)' \cap Owned(r)' : h \in struck'
    <3> SUFFICES ASSUME NEW q \in Objects, NEW r \in Objects, q # r,
                        NEW h \in Owned(q)' \cap Owned(r)'
                 PROVE  h \in struck'
      OBVIOUS
    <3>1. h \in Owned(q) /\ h \in Owned(r)
      BY <1>3
    <3> QED BY <1>4, <3>1 DEF PairHolders
  <2>5. ASSUME NEW h \in Fds, Open(h)', h \notin struck', h \notin hand' \cup other'
        PROVE  \E q \in Objects : h \in Owned(q)'
    <3>1. Open(h) /\ h \notin Owned(p) /\ h \notin struck
      BY <1>4, <2>5
    <3>2. PICK q \in Objects : h \in Owned(q)
      BY <1>1, <2>5, <3>1 DEF PairHolders
    <3> QED BY <1>3, <3>1, <3>2
  <2> QED BY <2>1, <2>2, <2>3, <2>4, <2>5 DEF PairHolders
<1>6. InterruptReachesPol'
  <2> SUFFICES ASSUME NEW q \in Objects, sock'[q] # NoSock, Owned(q)' \cap struck' = {}
               PROVE  Open(polNr[q])' /\ peer'[sock'[q]] = polNr'[q]
    BY DEF InterruptReachesPol
  <2>1. q # p /\ sock[q] # NoSock /\ Owned(q) \cap struck' = {}
    BY <1>2, <1>3
  <2> QED BY <1>1, <1>2, <2>1, OthersKeep DEF Open
<1> QED BY <1>5, <1>6

(* Two objects exchange their pairs.                                       *)
LEMMA SwapHolders ==
  ASSUME PairInv, NEW p \in Objects, NEW q \in Objects, SwapPairs(p, q)
  PROVE  PairHolders' /\ InterruptReachesPol'
<1> USE DEF PairInv, PairTypeInv
<1>1. UNCHANGED <<conn, hand, other, peer, struck>>
  BY DEF SwapPairs, kernel
<1>2. \A o \in Objects : /\ Twin(p, q, o) \in Objects
                          /\ Twin(p, q, Twin(p, q, o)) = o
                          /\ sock'[o] = sock[Twin(p, q, o)]
                          /\ polNr'[o] = polNr[Twin(p, q, o)]
  BY SwapEach
<1>3. \A o \in Objects : Owned(o)' = Owned(Twin(p, q, o))
  BY <1>2 DEF Owned, Pair
<1>4. \A f : Open(f)' <=> Open(f)
  BY <1>1 DEF Open
<1>5. PairHolders'
  <2>1. \A f \in hand' \cup other' :
          f \in struck' \/ (Open(f)' /\ \A o \in Objects : f \notin Owned(o)')
    BY <1>1, <1>2, <1>3, <1>4 DEF PairHolders
  <2>2. \A o \in Objects : \A f \in Owned(o)' : f \in struck' \/ Open(f)'
    <3> SUFFICES ASSUME NEW o \in Objects, NEW f \in Owned(Twin(p, q, o))
                 PROVE  f \in struck \/ Open(f)
      BY <1>1, <1>3, <1>4
    <3> QED BY <1>2 DEF PairHolders
  <2>3. \A o, r \in Objects : o # r => \A f \in Owned(o)' \cap Owned(r)' : f \in struck'
    <3> SUFFICES ASSUME NEW o \in Objects, NEW r \in Objects, o # r,
                        NEW f \in Owned(Twin(p, q, o)) \cap Owned(Twin(p, q, r))
                 PROVE  f \in struck
      BY <1>1, <1>3
    <3>1. Twin(p, q, o) # Twin(p, q, r)
      BY <1>2
    <3> QED BY <1>2, <3>1 DEF PairHolders
  <2>4. ASSUME NEW f \in Fds, Open(f), f \notin struck, f \notin hand \cup other
        PROVE  \E o \in Objects : f \in Owned(o)'
    <3>1. PICK o \in Objects : f \in Owned(o)
      BY <2>4 DEF PairHolders
    <3>2. Twin(p, q, o) \in Objects /\ Owned(Twin(p, q, o))' = Owned(Twin(p, q, Twin(p, q, o)))
      BY <1>2, <1>3
    <3> QED BY <1>2, <3>1, <3>2
  <2>5. \A f \in hand' \cap other' : f \in struck'
    BY <1>1 DEF PairHolders
  <2> QED BY <1>1, <1>4, <2>1, <2>2, <2>3, <2>4, <2>5 DEF PairHolders
<1>6. InterruptReachesPol'
  <2> SUFFICES ASSUME NEW o \in Objects, sock'[o] # NoSock, Owned(o)' \cap struck' = {}
               PROVE  Open(polNr[o])' /\ peer'[sock'[o]] = polNr'[o]
    BY DEF InterruptReachesPol
  <2> DEFINE t == Twin(p, q, o)
  <2>1. /\ t \in Objects /\ sock[t] # NoSock /\ Owned(t) \cap struck = {}
        /\ sock'[o] = sock[t] /\ polNr'[o] = polNr[t]
    BY <1>1, <1>2, <1>3
  <2>2. Open(polNr[t]) /\ peer[sock[t]] = polNr[t]
    BY <2>1 DEF InterruptReachesPol
  <2> HIDE DEF t
  <2> QED BY <1>1, <2>1, <2>2 DEF Open
<1> QED BY <1>5, <1>6

(* The others close a descriptor of theirs; a read changes no holder.      *)
LEMMA OthersHolders ==
  ASSUME PairInv, OthersClose \/ \E p \in Objects : WaitReads(p)
  PROVE  PairHolders' /\ InterruptReachesPol'
<1> USE DEF PairInv, PairTypeInv
<1>1. CASE OthersClose
  <2>1. PICK f \in hand \cup other : /\ conn' = [conn EXCEPT ![f] = "closed"]
                                     /\ hand' = hand \ {f} /\ other' = other \ {f}
    BY <1>1 DEF OthersClose, ApplicationCloses
  <2>2. f \in Fds /\ (f \in struck \/ \A p \in Objects : f \notin Owned(p))
    BY DEF PairHolders, DTypeOK, TypeOK
  <2>3. \A h \in Fds : conn'[h] = IF h = f THEN "closed" ELSE conn[h]
    BY <2>1 DEF DTypeOK, TypeOK
  <2>4. UNCHANGED <<sock, polNr, struck>>
    BY <1>1 DEF OthersClose, ApplicationCloses, objects
  <2>5. {h \in Fds : Open(h) /\ conn'[h] = "closed"} \subseteq {f}
    BY <2>3 DEF Open
  <2>6. PICK fds : Closes(fds) /\ fds \subseteq {f}
    BY <1>1, <2>5 DEF OthersClose
  <2>7. \A h \in Fds : h # f /\ peer[h] # f => peer'[h] = peer[h]
    BY <2>6, ClosesEach
  <2>8. \A p \in Objects : Owned(p)' = Owned(p)
    BY <2>4 DEF Owned, Pair
  <2>9. \A h \in Fds : Open(h)' <=> Open(h) /\ h # f
    BY <2>3 DEF Open
  <2>10. PairHolders'
    <3>1. \A h \in hand' \cap other' : h \in struck'
      BY <2>1, <2>4 DEF PairHolders
    <3>2. \A h \in hand' \cup other' :
            h \in struck' \/ (Open(h)' /\ \A p \in Objects : h \notin Owned(p)')
      BY <2>1, <2>4, <2>8, <2>9 DEF PairHolders, DTypeOK, TypeOK
    <3>3. \A p \in Objects : \A h \in Owned(p)' : h \in struck' \/ Open(h)'
      <4> SUFFICES ASSUME NEW p \in Objects, NEW h \in Owned(p), h \notin struck
                   PROVE  Open(h)'
        BY <2>4, <2>8
      <4>1. h \in Fds /\ Open(h) /\ h # f
        BY <2>2, InOwned DEF PairHolders
      <4> QED BY <2>9, <4>1
    <3>4. \A p, q \in Objects : p # q => \A h \in Owned(p)' \cap Owned(q)' : h \in struck'
      BY <2>4, <2>8 DEF PairHolders
    <3>5. \A h \in Fds : Open(h)' =>
            h \in struck' \/ h \in hand' \cup other' \/ \E p \in Objects : h \in Owned(p)'
      BY <2>1, <2>4, <2>8, <2>9 DEF PairHolders
    <3> QED BY <3>1, <3>2, <3>3, <3>4, <3>5 DEF PairHolders
  <2>11. InterruptReachesPol'
    <3> SUFFICES ASSUME NEW p \in Objects, sock[p] # NoSock, Owned(p) \cap struck = {}
                 PROVE  Open(polNr[p])' /\ peer'[sock[p]] = polNr[p]
      BY <2>4, <2>8 DEF InterruptReachesPol
    <3>1. /\ sock[p] \in Fds /\ polNr[p] \in Fds /\ sock[p] # f /\ polNr[p] # f
      BY <2>2, InOwned
    <3>2. Open(polNr[p]) /\ peer[sock[p]] = polNr[p]
      BY DEF InterruptReachesPol
    <3>3. Open(polNr[p])'
      BY <2>3, <2>4, <3>1, <3>2 DEF Open
    <3> QED BY <2>7, <3>1, <3>2, <3>3
  <2> QED BY <2>10, <2>11
<1>2. ASSUME NEW p \in Objects, WaitReads(p) PROVE PairHolders' /\ InterruptReachesPol'
  BY <1>2 DEF WaitReads, PairHolders, InterruptReachesPol, Open, Owned, Pair, objects, holders
<1> QED BY <1>1, <1>2

-----------------------------------------------------------------------------
LEMMA PairInit == DInit => PairInv
<1> SUFFICES ASSUME DInit PROVE PairInv
  OBVIOUS
<1>1. PairTypeInv
  BY PairTypeInit
<1>2. \A p \in Objects : sock[p] = NoSock /\ Owned(p) = {}
  BY DEF DInit, Init, Owned
<1>3. \A f \in Fds : ~Open(f)
  BY DEF DInit, Init, Open
<1>4. PairHolders
  BY <1>2, <1>3 DEF DInit, Init, PairHolders
<1>5. InterruptReachesPol
  BY <1>2 DEF InterruptReachesPol
<1> QED BY <1>1, <1>4, <1>5 DEF PairInv

LEMMA PairNext == PairInv /\ [DNext]_dvars => PairInv'
<1> SUFFICES ASSUME PairInv, [DNext]_dvars PROVE PairInv'
  OBVIOUS
<1>1. PairTypeInv'
  BY PairTypeNext DEF PairInv
<1>2. CASE DNext
  <2>1. PairHolders' /\ InterruptReachesPol'
    BY <1>2, OpeningHolders, SetSocketsHolders, ClosingHolders, SwapHolders, OthersHolders
    DEF DNext, PairCalls
  <2> QED BY <1>1, <2>1 DEF PairInv
<1>3. CASE UNCHANGED dvars
  BY <1>1, <1>3 DEF dvars, vars, objects, kernel, holders, PairInv, PairHolders,
                    InterruptReachesPol, Open, Owned, Pair
<1> QED BY <1>2, <1>3

(* What is sent on the wUp of an object arrives at the pol that the same   *)
(* object polls, unless the second close of a number kept by CloseSockets  *)
(* struck one of the two: whatever the rest of the program opens.          *)
THEOREM InterruptsArrive == DSpec => []InterruptReachesPol
<1>1. PairInv => InterruptReachesPol
  BY DEF PairInv
<1> QED BY <1>1, PairInit, PairNext, PTL DEF DSpec

(* CStprSocks leaks nothing and closes nothing of anybody else, but for    *)
(* what the second close of a number kept by CloseSockets struck.          *)
THEOREM OnePair == DSpec => []OnePairHolder
<1>1. ASSUME PairInv PROVE OnePairHolder
  <2> SUFFICES ASSUME NEW f \in Fds \ struck
               PROVE  Cardinality(HoldersOf(f)) = IF Open(f) THEN 1 ELSE 0
    BY DEF OnePairHolder
  <2> USE <1>1 DEF PairInv, PairHolders
  <2>1. CASE ~Open(f)
    <3>1. HoldersOf(f) = {}
      BY <2>1 DEF HoldersOf
    <3> QED BY <2>1, <3>1, FS_EmptySet
  <2>2. CASE Open(f)
    <3>1. \E h : HoldersOf(f) = {h}
      <4>1. CASE f \in hand
        <5>1. HoldersOf(f) = {"hand"}
          BY <4>1 DEF HoldersOf
        <5> QED BY <5>1
      <4>2. CASE f \in other
        <5>1. HoldersOf(f) = {"other"}
          BY <4>2 DEF HoldersOf
        <5> QED BY <5>1
      <4>3. CASE f \notin hand \cup other
        <5>1. PICK p \in Objects : f \in Owned(p)
          BY <2>2, <4>3
        <5>2. \A q \in Objects : f \in Owned(q) <=> q = p
          BY <5>1
        <5>3. HoldersOf(f) = {p}
          BY <4>3, <5>2 DEF HoldersOf
        <5> QED BY <5>3
      <4> QED BY <4>1, <4>2, <4>3
    <3> QED BY <2>2, <3>1, FS_Singleton
  <2> QED BY <2>1, <2>2
<1> QED BY <1>1, PairInit, PairNext, PTL DEF DSpec

=============================================================================
