-------------------------- MODULE UdpServerProofs --------------------------
(***************************************************************************)
(* Proofs about the client table of [udpserver], for a table of any size,  *)
(* any addresses and any time-out: however many holes the removals leave   *)
(* in it, no slot points to a freed client and no client is in two slots.  *)
(***************************************************************************)
EXTENDS UdpServer, FiniteSetTheorems, SequenceTheorems, TLAPS

(* What holds of a table t, the current one or one that a function on it   *)
(* is about to return.                                                     *)
TableTypes(t) ==
  /\ t.sr \in [Slots -> Clients \cup {NoClient}]
  /\ t.n \in 0 .. MaxSlots /\ t.n <= x_maxconnections
  /\ t.live \subseteq Uniqs
  /\ t.checked \in 0 .. now /\ t.with \in Int

(* A slot in use is allocated and holds a client that nobody has freed and *)
(* no other slot has.                                                      *)
SlotsLive(t) ==
  \A i \in Slots : t.sr[i] # NoClient =>
    /\ i < x_maxconnections /\ t.sr[i].uniq \in t.live
    /\ \A j \in Slots : t.sr[j].uniq = t.sr[i].uniq => i = j

(* After a look for expired clients with time-out t.with, at this logical  *)
(* time, nobody is older than that, whatever x_timeout says by now.        *)
SlotsFresh(t) ==
  (t.with > 0 /\ t.checked = now) =>
    \A i \in Slots : t.sr[i] # NoClient => now - t.sr[i].seen <= t.with

GoodTable(t) == TableTypes(t) /\ SlotsLive(t) /\ SlotsFresh(t)

TableInv == GoodTable(Table)

(* The counter is ahead of every client that is allocated.                 *)
UniqInv == \A u \in live : u < uniq

(* The types of everything else.                                           *)
Loops == [op : {"none", "send", "disconnect"}, pos : Nat, but : Int,
          data : Payloads]
TargetValues == {0} \cup Uniqs \cup {-u : u \in Uniqs}
UniqValues == Uniqs \cup {FirstUniq + MaxClients}

OtherTypes ==
  /\ x_maxconnections \in 1 .. MaxSlots
  /\ x_accept \in BOOLEAN /\ x_timeout \in Timeouts \cup {0}
  /\ now \in 0 .. MaxTime
  /\ x_defaulttarget \in TargetValues
  /\ uniq \in UniqValues
  /\ loop \in Loops
  /\ ub \in BOOLEAN /\ freed \in BOOLEAN

BindTypes ==
  /\ x_connectsocket \in Fds \cup {-1} /\ x_receiver \in Fds \cup {-1}
  /\ x_port \in 0 .. PortMax /\ x_ifaddr \in Ifs \cup {0}
  /\ openfds \subseteq Fds /\ polled \in Seq(Fds)

ServerInv ==
  TableInv /\ UniqInv /\ OtherTypes /\ BindTypes /\ stopped \subseteq live

----------------------------------------------------------------------------
(* What is known of a client, and of the slot without one.                 *)
LEMMA ClientFields ==
  /\ \A c \in Clients : /\ c.uniq \in Uniqs /\ c.uniq \in Nat /\ c.uniq # -1
                        /\ c.seen \in 0 .. MaxTime /\ c.seen \in Int
                        /\ c # NoClient
  /\ NoClient.uniq = -1 /\ -1 \notin Uniqs /\ Uniqs \subseteq Nat
<1>0. MaxClients \in Nat
  BY UdpNumbersAssumption
<1>1. Uniqs \subseteq Nat /\ -1 \notin Uniqs
  <2>1. \A u \in Uniqs : u \in Int /\ u >= 1000
    BY <1>0 DEF Uniqs, FirstUniq
  <2> QED
    BY <2>1
<1>2. NoClient.uniq = -1
  BY DEF NoClient
<1>3. ASSUME NEW c \in Clients
      PROVE  c.uniq \in Uniqs /\ c.seen \in 0 .. MaxTime
  BY DEF Clients
<1>4. ASSUME NEW c \in Clients
      PROVE  c.uniq # -1 /\ c # NoClient
  BY <1>1, <1>2, <1>3
<1>5. 0 .. MaxTime \subseteq Int
  BY UdpNumbersAssumption
<1> QED
  BY <1>1, <1>2, <1>3, <1>4, <1>5

(* A set of naturals has a smallest element: a search from the front finds *)
(* what there is to find.                                                  *)
LEMMA LeastIndex ==
  ASSUME NEW S \in SUBSET Nat, S # {}
  PROVE  \E i \in S : \A j \in S : i <= j
<1>1. IsWellFoundedOn(OpToRel(<, Nat), Nat)
  BY NatLessThanWellFounded
<1>2. PICK i \in S : \A j \in S : ~ (<<j, i>> \in OpToRel(<, Nat))
  BY <1>1, WFMin
<1>3. \A j \in S : ~ (j < i)
  BY <1>2 DEF OpToRel
<1> QED
  BY <1>3

(* The searches yield a row of the table or a negative number; where they  *)
(* do not give up there is a client.                                       *)
LEMMA FirstAtFinds ==
  ASSUME x_nconnections \in Nat, NEW M
  PROVE  /\ FirstAt(M) \in Int
         /\ FirstAt(M) >= 0 => FirstAt(M) \in 0 .. x_nconnections - 1
<1> DEFINE hits == {i \in 0 .. x_nconnections - 1 : x_sr[i] = NoClient \/ i \in M}
<1>1. FirstAt(M) =
        IF hits = {} THEN -1 ELSE CHOOSE i \in hits : \A j \in hits : i <= j
  BY DEF FirstAt
<1>2. hits \subseteq Nat
  OBVIOUS
<1>3. CASE hits = {}
  BY <1>1, <1>3
<1>4. CASE hits # {}
  <2>1. \E i \in hits : \A j \in hits : i <= j
    <3> HIDE DEF hits
    <3> QED
      BY <1>2, <1>4, LeastIndex
  <2>2. FirstAt(M) \in hits
    <3> HIDE DEF hits
    <3> QED
      BY <1>1, <1>4, <2>1
  <2> QED
    BY <2>2
<1> QED
  BY <1>3, <1>4

(* udpserver__find_sender yields a slot with a client, or none.            *)
LEMMA FindSenderFinds ==
  ASSUME x_nconnections \in Nat, NEW a
  PROVE  /\ FindSender(a) \in Int
         /\ FindSender(a) >= 0 => /\ FindSender(a) \in 0 .. x_nconnections - 1
                                  /\ x_sr[FindSender(a)] # NoClient
<1> DEFINE M == {j \in Slots : x_sr[j].addr = a}
           i == FirstAt(M)
<1>1. FindSender(a) = IF i >= 0 /\ x_sr[i] = NoClient THEN -1 ELSE i
  BY DEF FindSender
<1>2. i \in Int /\ (i >= 0 => i \in 0 .. x_nconnections - 1)
  BY FirstAtFinds
<1> HIDE DEF i, M
<1> QED
  BY <1>1, <1>2

(* udpserver_socket2index yields a slot below x_nconnections, or none.     *)
LEMMA TargetIndexFinds ==
  ASSUME x_nconnections \in Nat
  PROVE  /\ TargetIndex \in Int
         /\ TargetIndex >= 0 => TargetIndex \in 0 .. x_nconnections - 1
<1> DEFINE u == IF x_defaulttarget < 0 THEN -x_defaulttarget ELSE x_defaulttarget
           M == {j \in Slots : x_sr[j].uniq = u}
           i == FirstAt(M)
<1>1. TargetIndex = IF i >= 0 /\ x_sr[i] = NoClient THEN -2 ELSE i
  BY DEF TargetIndex, Socket2Index
<1>2. i \in Int /\ (i >= 0 => i \in 0 .. x_nconnections - 1)
  BY FirstAtFinds
<1> HIDE DEF i, M, u
<1> QED
  BY <1>1, <1>2

(* The number of indices below one of them.                                *)
LEMMA Ranks ==
  ASSUME NEW n \in Nat, NEW S \in SUBSET (0 .. n - 1)
  PROVE  /\ IsFiniteSet(S) /\ Cardinality(S) \in Nat /\ Cardinality(S) <= n
         /\ \A i \in S : /\ Cardinality({j \in S : j < i}) \in Nat
                         /\ Cardinality({j \in S : j < i}) <= i
<1>1. ASSUME NEW m \in Nat, NEW T \in SUBSET (0 .. m - 1)
      PROVE  IsFiniteSet(T) /\ Cardinality(T) \in Nat /\ Cardinality(T) <= m
  <2> DEFINE I == 0 .. m - 1
  <2>1. IsFiniteSet(I) /\ Cardinality(I) = IF 0 > m - 1 THEN 0 ELSE (m - 1) - 0 + 1
    BY FS_Interval
  <2>2. Cardinality(I) = m
    BY <2>1
  <2>3. T \in SUBSET I
    OBVIOUS
  <2> HIDE DEF I
  <2>4. IsFiniteSet(T) /\ Cardinality(T) <= Cardinality(I)
    BY <2>1, <2>3, FS_Subset
  <2>5. Cardinality(T) \in Nat
    BY <2>4, FS_CardinalityType
  <2> QED
    BY <2>2, <2>4, <2>5
<1>2. ASSUME NEW i \in S
      PROVE  /\ Cardinality({j \in S : j < i}) \in Nat
             /\ Cardinality({j \in S : j < i}) <= i
  <2> DEFINE B == {j \in S : j < i}
  <2>0. i \in Nat /\ \A j \in S : j \in Nat
    OBVIOUS
  <2>1. i \in Nat /\ B \in SUBSET (0 .. i - 1)
    <3>1. \A j \in S : j < i => j \in 0 .. i - 1
      BY <2>0
    <3> QED
      BY <2>0, <3>1
  <2> HIDE DEF B
  <2>2. Cardinality(B) \in Nat /\ Cardinality(B) <= i
    BY <1>1, <2>1
  <2> QED
    BY <2>2 DEF B
<1> QED
  BY <1>1, <1>2

(* Taking an element out of a sequence.                                    *)
LEMMA RemoveFirstType ==
  ASSUME NEW S, NEW s \in Seq(S), NEW e
  PROVE  RemoveFirst(s, e) \in Seq(S)
<1> DEFINE I == {i \in 1 .. Len(s) : s[i] = e}
<1>1. CASE I = {}
  <2>1. RemoveFirst(s, e) = s
    BY <1>1 DEF RemoveFirst
  <2> QED
    BY <2>1
<1>2. CASE I # {}
  <2>1. RemoveFirst(s, e) = RemoveAt(s, Min(I))
    BY <1>2 DEF RemoveFirst, SelectInSeq
  <2>2. Min(I) \in I
    <3>1. I \in SUBSET Nat
      OBVIOUS
    <3> HIDE DEF I
    <3>2. \E i \in I : \A j \in I : i <= j
      BY <1>2, <3>1, LeastIndex
    <3> QED
      BY <3>2 DEF Min
  <2>3. PICK k \in 1 .. Len(s) : k = Min(I)
    BY <2>2
  <2>4. SubSeq(s, 1, k - 1) \in Seq(S) /\ SubSeq(s, k + 1, Len(s)) \in Seq(S)
    <3>1. Len(s) \in Nat /\ k \in Nat /\ k >= 1 /\ k <= Len(s)
      BY <2>3
    <3>2. \A i \in 1 .. k - 1 : s[i] \in S
      BY <3>1
    <3>3. \A i \in k + 1 .. Len(s) : s[i] \in S
      BY <3>1
    <3>4. SubSeq(s, 1, k - 1) \in Seq(S)
      BY <3>1, <3>2, SubSeqProperties
    <3>5. SubSeq(s, k + 1, Len(s)) \in Seq(S)
      BY <3>1, <3>3, SubSeqProperties
    <3> QED
      BY <3>4, <3>5
  <2>5. RemoveFirst(s, e) = SubSeq(s, 1, k - 1) \o SubSeq(s, k + 1, Len(s))
    <3> HIDE DEF I
    <3> QED
      BY <2>1, <2>3 DEF RemoveAt
  <2> QED
    BY <2>4, <2>5, ConcatProperties
<1> QED
  BY <1>1, <1>2

(* Capacity, time and time-out are numbers.                                *)
LEMMA Numbers ==
  ASSUME OtherTypes
  PROVE  /\ now \in Int /\ now \in Nat /\ now \in 0 .. now /\ x_timeout \in Int
         /\ x_maxconnections \in Nat /\ x_maxconnections >= 1
         /\ x_maxconnections <= MaxSlots /\ MaxSlots \in Nat
<1>1. MaxSlots \in Nat
  BY UdpCapacityAssumption
<1>2. MaxTime \in Nat /\ Timeouts \subseteq Int
  BY UdpNumbersAssumption
<1>3. /\ x_maxconnections \in 1 .. MaxSlots /\ now \in 0 .. MaxTime
      /\ x_timeout \in Timeouts \cup {0}
  BY Zenon DEF OtherTypes
<1>4. now \in Nat /\ x_maxconnections \in Nat /\ x_maxconnections >= 1
        /\ x_maxconnections <= MaxSlots
  BY <1>1, <1>2, <1>3
<1>5. x_timeout \in Int
  BY <1>2, <1>3
<1> QED
  BY <1>1, <1>4, <1>5

----------------------------------------------------------------------------
(* A client that is freed for its age was in the table and older than      *)
(* x_timeout.                                                              *)
Aged(t, u) ==
  /\ x_timeout > 0
  /\ \E i \in Slots : /\ t.sr[i] # NoClient /\ t.sr[i].uniq = u
                      /\ Expired(t.sr[i])

(* udpserver_sender_autoremove, when it looks: every slot it fills holds   *)
(* one of the clients it keeps, and the rank of its old slot among theirs  *)
(* is its new slot.                                                        *)
LEMMA AutoRemoveMoves ==
  ASSUME NEW t, TableTypes(t), ~(x_timeout <= 0 \/ now <= t.checked)
  PROVE  LET known == {i \in 0 .. t.n - 1 : t.sr[i] # NoClient}
             kept == {i \in known : ~Expired(t.sr[i])}
             r == AutoRemove(t)
         IN  /\ r.sr \in [Slots -> Clients \cup {NoClient}]
             /\ \A k \in Slots : r.sr[k] # NoClient =>
                  \E i \in kept : /\ Cardinality({j \in kept : j < i}) = k
                                  /\ r.sr[k] = t.sr[i]
             /\ r.n = Cardinality(kept)
             /\ r.live = t.live \ {t.sr[i].uniq : i \in known \ kept}
             /\ r.checked = now /\ r.with = x_timeout
             /\ known \subseteq Slots
<1> DEFINE known == {i \in 0 .. t.n - 1 : t.sr[i] # NoClient}
           kept == {i \in known : ~Expired(t.sr[i])}
           from(k) == {i \in kept : Cardinality({j \in kept : j < i}) = k}
           moved == [k \in Slots |-> IF from(k) = {} THEN NoClient
                                     ELSE t.sr[CHOOSE i \in from(k) : TRUE]]
           r == AutoRemove(t)
<1>1. r = [sr |-> moved, n |-> Cardinality(kept),
           live |-> t.live \ {t.sr[i].uniq : i \in known \ kept},
           checked |-> now, with |-> x_timeout]
  BY DEF AutoRemove
<1>2. /\ r.sr = moved /\ r.n = Cardinality(kept)
      /\ r.live = t.live \ {t.sr[i].uniq : i \in known \ kept}
      /\ r.checked = now /\ r.with = x_timeout
  <2> HIDE DEF moved, known, kept, from, r
  <2> QED
    BY <1>1
<1>3. known \subseteq Slots
  BY UdpCapacityAssumption DEF TableTypes, Slots
<1>4. t.sr \in [Slots -> Clients \cup {NoClient}]
  BY DEF TableTypes
<1>5. ASSUME NEW k \in Slots, from(k) # {}
      PROVE  \E i \in kept : /\ Cardinality({j \in kept : j < i}) = k
                             /\ moved[k] = t.sr[i]
  <2>1. moved[k] = t.sr[CHOOSE i \in from(k) : TRUE]
    BY <1>5
  <2>2. (CHOOSE i \in from(k) : TRUE) \in from(k)
    BY <1>5, Zenon
  <2> QED
    BY <2>1, <2>2
<1>6. ASSUME NEW k \in Slots
      PROVE  moved[k] \in Clients \cup {NoClient}
  <2>1. CASE from(k) = {}
    BY <2>1
  <2>2. CASE from(k) # {}
    <3>1. PICK i \in kept : moved[k] = t.sr[i]
      BY <1>5, <2>2
    <3>2. i \in Slots
      BY <1>3, <3>1
    <3> QED
      BY <1>4, <3>1, <3>2
  <2> QED
    BY <2>1, <2>2
<1>7. ASSUME NEW k \in Slots, moved[k] # NoClient
      PROVE  from(k) # {}
  BY <1>7
<1>8. moved \in [Slots -> Clients \cup {NoClient}]
  <2>1. DOMAIN moved = Slots /\ moved = [k \in Slots |-> moved[k]]
    OBVIOUS
  <2> HIDE DEF moved
  <2> QED
    BY <1>6, <2>1
<1>9. \A k \in Slots : moved[k] # NoClient =>
        \E i \in kept : /\ Cardinality({j \in kept : j < i}) = k
                        /\ moved[k] = t.sr[i]
  BY <1>5, <1>7
<1> HIDE DEF moved, from, r
<1>10. /\ r.sr \in [Slots -> Clients \cup {NoClient}]
       /\ \A k \in Slots : r.sr[k] # NoClient =>
             \E i \in kept : /\ Cardinality({j \in kept : j < i}) = k
                             /\ r.sr[k] = t.sr[i]
  BY <1>2, <1>8, <1>9
<1> QED
  BY <1>2, <1>3, <1>10 DEF r

(* It returns a good table, and frees only who is too old.                 *)
LEMMA AutoRemoveGood ==
  ASSUME NEW t, GoodTable(t), OtherTypes
  PROVE  /\ GoodTable(AutoRemove(t)) /\ AutoRemove(t).live \subseteq t.live
         /\ \A u \in t.live \ AutoRemove(t).live : Aged(t, u)
<1>1. CASE x_timeout <= 0 \/ now <= t.checked
  <2>1. AutoRemove(t) = t
    BY <1>1 DEF AutoRemove
  <2> QED
    BY <2>1
<1>2. CASE ~(x_timeout <= 0 \/ now <= t.checked)
  <2> DEFINE known == {i \in 0 .. t.n - 1 : t.sr[i] # NoClient}
             kept == {i \in known : ~Expired(t.sr[i])}
             r == AutoRemove(t)
  <2>1. TableTypes(t) /\ SlotsLive(t)
    BY DEF GoodTable
  <2>2. /\ r.sr \in [Slots -> Clients \cup {NoClient}]
        /\ \A k \in Slots : r.sr[k] # NoClient =>
             \E i \in kept : /\ Cardinality({j \in kept : j < i}) = k
                             /\ r.sr[k] = t.sr[i]
        /\ r.n = Cardinality(kept)
        /\ r.live = t.live \ {t.sr[i].uniq : i \in known \ kept}
        /\ r.checked = now /\ r.with = x_timeout
        /\ known \subseteq Slots
    BY <1>2, <2>1, AutoRemoveMoves
  <2>3. /\ now \in Int /\ now \in 0 .. now /\ x_timeout \in Int
        /\ x_maxconnections \in Nat
    BY Numbers
  <2>4. x_timeout > 0
    BY <1>2, <2>3
  <2>5. /\ t.n \in Nat /\ t.n <= MaxSlots /\ t.n <= x_maxconnections
        /\ MaxSlots \in Nat
    BY <2>1, UdpCapacityAssumption DEF TableTypes
  <2>6. /\ \A i \in kept : i \in Nat /\ i < t.n /\ i \in Slots
                           /\ t.sr[i] # NoClient /\ ~Expired(t.sr[i])
        /\ \A i \in known : t.sr[i] # NoClient /\ i \in Slots
        /\ \A i \in known \ kept : Expired(t.sr[i])
        /\ kept \in SUBSET (0 .. t.n - 1)
    BY <2>2, <2>5
  <2> HIDE DEF known, kept, r
  <2>7. /\ Cardinality(kept) \in Nat /\ Cardinality(kept) <= t.n
        /\ \A i \in kept : /\ Cardinality({j \in kept : j < i}) \in Nat
                           /\ Cardinality({j \in kept : j < i}) <= i
    BY <2>5, <2>6, Ranks
  <2>8. TableTypes(r)
    <3>1. r.n \in 0 .. MaxSlots /\ r.n <= x_maxconnections
      BY <2>2, <2>3, <2>5, <2>7
    <3>2. r.live \subseteq Uniqs
      BY <2>1, <2>2 DEF TableTypes
    <3> QED
      BY <2>2, <2>3, <3>1, <3>2 DEF TableTypes
  <2>9. \A i, j \in Slots : (t.sr[i] # NoClient /\ t.sr[j].uniq = t.sr[i].uniq)
                              => i = j
    BY <2>1 DEF SlotsLive
  <2>10. SlotsLive(r)
    <3> SUFFICES ASSUME NEW k \in Slots, r.sr[k] # NoClient
                 PROVE  /\ k < x_maxconnections /\ r.sr[k].uniq \in r.live
                        /\ \A m \in Slots : r.sr[m].uniq = r.sr[k].uniq => k = m
      BY DEF SlotsLive
    <3>1. PICK i \in kept : /\ Cardinality({j \in kept : j < i}) = k
                           /\ r.sr[k] = t.sr[i]
      BY <2>2
    <3>2. k < x_maxconnections
      BY <2>3, <2>5, <2>6, <2>7, <3>1
    <3>3. r.sr[k].uniq \in r.live
      <4>1. t.sr[i].uniq \in t.live
        BY <2>1, <2>6 DEF SlotsLive
      <4>2. \A m \in known \ kept : t.sr[m].uniq # t.sr[i].uniq
        <5> SUFFICES ASSUME NEW m \in known \ kept, t.sr[m].uniq = t.sr[i].uniq
                     PROVE  FALSE
          OBVIOUS
        <5>1. m = i
          BY <2>6, <2>9
        <5> QED
          BY <5>1
      <4> QED
        BY <2>2, <3>1, <4>1, <4>2
    <3>4. ASSUME NEW m \in Slots, r.sr[m].uniq = r.sr[k].uniq
          PROVE  k = m
      <4>1. r.sr[k] \in Clients /\ r.sr[m] \in Clients \cup {NoClient}
        BY <2>2
      <4>2. r.sr[m] # NoClient
        BY <3>4, <4>1, ClientFields
      <4>3. PICK l \in kept : /\ Cardinality({j \in kept : j < l}) = m
                             /\ r.sr[m] = t.sr[l]
        BY <2>2, <4>2
      <4>4. l = i
        BY <2>6, <2>9, <3>1, <3>4, <4>3
      <4> QED
        BY <3>1, <4>3, <4>4
    <3> QED
      BY <3>2, <3>3, <3>4
  <2>11. SlotsFresh(r)
    <3> SUFFICES ASSUME NEW k \in Slots, r.sr[k] # NoClient
                 PROVE  now - r.sr[k].seen <= r.with
      BY DEF SlotsFresh
    <3>1. PICK i \in kept : r.sr[k] = t.sr[i]
      BY <2>2
    <3>2. r.sr[k].seen \in Int
      BY <2>2, ClientFields
    <3>3. ~(now - r.sr[k].seen > x_timeout)
      BY <2>6, <3>1 DEF Expired
    <3> QED
      BY <2>2, <2>3, <3>2, <3>3
  <2>12. \A u \in t.live \ r.live : Aged(t, u)
    <3> SUFFICES ASSUME NEW u \in t.live \ r.live
                 PROVE  Aged(t, u)
      OBVIOUS
    <3>1. PICK i \in known \ kept : t.sr[i].uniq = u
      BY <2>2
    <3> QED
      BY <2>4, <2>6, <3>1 DEF Aged
  <2>13. r.live \subseteq t.live
    BY <2>2
  <2> QED
    BY <2>8, <2>10, <2>11, <2>12, <2>13 DEF GoodTable, r
<1> QED
  BY <1>1, <1>2

(* udpserver_sender_remove of a client of the table.                       *)
LEMMA SenderRemoveGood ==
  ASSUME TableInv, NEW i \in Slots, x_sr[i] # NoClient, x_nconnections >= 1,
         OtherTypes
  PROVE  LET r == SenderRemove(Table, i)
         IN  /\ GoodTable(r)
             /\ r.live = live \ {x_sr[i].uniq}
             /\ \A j \in Slots : r.sr[j] = IF j = i THEN NoClient ELSE x_sr[j]
<1> DEFINE r == SenderRemove(Table, i)
<1>1. /\ x_sr \in [Slots -> Clients \cup {NoClient}]
      /\ x_nconnections \in 0 .. MaxSlots /\ x_nconnections <= x_maxconnections
      /\ live \subseteq Uniqs
      /\ x_lastchecked \in 0 .. now /\ checkedwith \in Int
  BY DEF TableInv, GoodTable, TableTypes, Table
<1>2. /\ r.sr = [x_sr EXCEPT ![i] = NoClient]
      /\ r.n = x_nconnections - 1
      /\ r.live = live \ {x_sr[i].uniq}
      /\ r.checked = x_lastchecked /\ r.with = checkedwith
  BY DEF SenderRemove, Table
<1> HIDE DEF r
<1>3. \A j \in Slots : r.sr[j] = IF j = i THEN NoClient ELSE x_sr[j]
  BY <1>1, <1>2
<1>4. \A j \in Slots : x_sr[j] # NoClient =>
        /\ j < x_maxconnections /\ x_sr[j].uniq \in live
        /\ \A k \in Slots : x_sr[k].uniq = x_sr[j].uniq => j = k
  BY DEF TableInv, GoodTable, SlotsLive, Table
<1>5. (checkedwith > 0 /\ x_lastchecked = now) =>
        \A j \in Slots : x_sr[j] # NoClient => now - x_sr[j].seen <= checkedwith
  BY DEF TableInv, GoodTable, SlotsFresh, Table
<1>6. TableTypes(r)
  <2>1. r.sr \in [Slots -> Clients \cup {NoClient}]
    BY <1>1, <1>2
  <2>2. r.n \in 0 .. MaxSlots /\ r.n <= x_maxconnections
    BY <1>1, <1>2, UdpCapacityAssumption DEF OtherTypes
  <2> QED
    BY <1>1, <1>2, <2>1, <2>2 DEF TableTypes
<1>7. SlotsLive(r)
  <2> SUFFICES ASSUME NEW j \in Slots, r.sr[j] # NoClient
               PROVE  /\ j < x_maxconnections /\ r.sr[j].uniq \in r.live
                      /\ \A k \in Slots : r.sr[k].uniq = r.sr[j].uniq => j = k
    BY DEF SlotsLive
  <2>1. j # i /\ r.sr[j] = x_sr[j]
    BY <1>3
  <2>2. x_sr[i].uniq # x_sr[j].uniq
    BY <1>4, <2>1
  <2>3. NoClient.uniq # x_sr[j].uniq
    BY <1>1, <2>1, ClientFields
  <2> QED
    BY <1>2, <1>3, <1>4, <2>1, <2>2, <2>3
<1>8. SlotsFresh(r)
  BY <1>2, <1>3, <1>5 DEF SlotsFresh
<1> QED
  BY <1>2, <1>3, <1>6, <1>7, <1>8 DEF GoodTable, r

----------------------------------------------------------------------------
(* What a step on the table must do: leave a good table, with fresh        *)
(* numbers to give out; close nothing but descriptors numbered like a      *)
(* freed client; free only the client v for another reason than its age.   *)
(* A step that frees nobody otherwise has -1 for v, the number of no one.  *)
TableKept(v) ==
  /\ TableInv' /\ UniqInv' /\ stopped' \subseteq live'
  /\ FreedClients \subseteq FreedClients'
  /\ openfds' \subseteq openfds /\ openfds \ openfds' \subseteq FreedClients'
  /\ \A u \in live \ live' : u = v \/ Aged(Table, u)

(* The invariant, taken apart.                                             *)
LEMMA TableFacts ==
  ASSUME ServerInv
  PROVE  /\ GoodTable(Table) /\ TableInv /\ OtherTypes /\ UniqInv
         /\ x_sr \in [Slots -> Clients \cup {NoClient}]
         /\ x_nconnections \in Nat /\ x_nconnections <= MaxSlots
         /\ x_nconnections <= x_maxconnections /\ MaxSlots \in Nat
         /\ live \subseteq Uniqs /\ stopped \subseteq live
         /\ \A i \in 0 .. x_nconnections - 1 : i \in Slots /\ i \in Nat
         /\ ub \in BOOLEAN /\ freed \in BOOLEAN
         /\ uniq \in Int /\ live \subseteq FirstUniq .. uniq - 1
<1>1. /\ GoodTable(Table) /\ TableInv /\ OtherTypes /\ UniqInv
      /\ stopped \subseteq live
  BY DEF ServerInv, TableInv
<1>2. /\ x_sr \in [Slots -> Clients \cup {NoClient}]
      /\ x_nconnections \in 0 .. MaxSlots /\ x_nconnections <= x_maxconnections
      /\ live \subseteq Uniqs
  BY <1>1 DEF GoodTable, TableTypes, Table
<1>3. MaxSlots \in Nat
  BY UdpCapacityAssumption
<1>4. /\ x_nconnections \in Nat /\ x_nconnections <= MaxSlots
      /\ \A i \in 0 .. x_nconnections - 1 : i \in Slots /\ i \in Nat
  BY <1>2, <1>3 DEF Slots
<1>5. ub \in BOOLEAN /\ freed \in BOOLEAN
  BY Zenon, <1>1 DEF OtherTypes
<1>6. uniq \in Int
  <2>1. uniq \in UniqValues
    BY Zenon, <1>1 DEF OtherTypes
  <2> QED
    BY <2>1, UdpNumbersAssumption DEF UniqValues, Uniqs, FirstUniq
<1>7. live \subseteq FirstUniq .. uniq - 1
  <2>1. \A u \in live : u \in Int /\ u >= FirstUniq
    BY <1>2, UdpNumbersAssumption DEF Uniqs, FirstUniq
  <2>2. \A u \in live : u < uniq
    BY <1>1 DEF UniqInv
  <2> QED
    BY <1>6, <2>1, <2>2 DEF FirstUniq
<1> QED
  BY <1>1, <1>2, <1>3, <1>4, <1>5, <1>6, <1>7

(* A counter that grows leaves its old range within the new one.           *)
LEMMA Grows ==
  ASSUME NEW a \in Int, NEW b \in Int, NEW c \in Int, a <= b
  PROVE  c .. a - 1 \subseteq c .. b - 1
<1> SUFFICES ASSUME NEW k \in c .. a - 1
             PROVE  k \in c .. b - 1
  OBVIOUS
<1> QED
  OBVIOUS

(* No number of a freed client is given out again: those freed before a    *)
(* step are freed after it, and so are the ones it frees.                  *)
LEMMA FreedStayFreed ==
  ASSUME ServerInv, uniq' \in Int, uniq <= uniq', live' \subseteq live \cup {uniq}
  PROVE  /\ FreedClients \subseteq FreedClients'
         /\ live \ live' \subseteq FreedClients'
<1>1. uniq \in Int /\ live \subseteq FirstUniq .. uniq - 1
  BY TableFacts
<1>2. FirstUniq .. uniq - 1 \subseteq FirstUniq .. uniq' - 1
  <2>1. FirstUniq \in Int
    BY DEF FirstUniq
  <2> QED
    BY <1>1, <2>1, Grows
<1>3. uniq \notin FirstUniq .. uniq - 1
  BY <1>1 DEF FirstUniq
<1>4. FreedClients' = (FirstUniq .. uniq' - 1) \ live'
  BY DEF FreedClients
<1> QED
  BY <1>1, <1>2, <1>3, <1>4 DEF FreedClients

(* Setting the table to a good one.                                        *)
LEMMA SetTableKeeps ==
  ASSUME ServerInv, NEW t, GoodTable(t), SetTable(t),
         UNCHANGED <<x_maxconnections, now>>, \A u \in t.live : u < uniq',
         uniq' \in Int, uniq <= uniq', t.live \subseteq live \cup {uniq},
         NEW v, \A u \in live \ t.live : u = v \/ Aged(Table, u)
  PROVE  TableKept(v)
<1>1. /\ x_sr' = t.sr /\ x_nconnections' = t.n /\ x_lastchecked' = t.checked
      /\ checkedwith' = t.with /\ live' = t.live
      /\ stopped' = stopped \cap t.live
      /\ openfds' = openfds \ (live \ t.live)
  BY DEF SetTable, ClosedWith
<1>2. TableInv'
  <2>1. TableTypes(Table)'
    BY <1>1 DEF GoodTable, TableTypes, Table
  <2>2. SlotsLive(Table)'
    BY <1>1 DEF GoodTable, SlotsLive, Table
  <2>3. SlotsFresh(Table)'
    BY <1>1 DEF GoodTable, SlotsFresh, Table
  <2> QED
    BY <2>1, <2>2, <2>3 DEF TableInv, GoodTable
<1>3. UniqInv' /\ stopped' \subseteq live'
  BY <1>1 DEF UniqInv
<1>4. /\ FreedClients \subseteq FreedClients'
      /\ live \ live' \subseteq FreedClients'
  BY <1>1, FreedStayFreed
<1>5. openfds' \subseteq openfds /\ openfds \ openfds' \subseteq FreedClients'
  BY <1>1, <1>4
<1>6. \A u \in live \ live' : u = v \/ Aged(Table, u)
  BY <1>1
<1> QED
  BY <1>2, <1>3, <1>4, <1>5, <1>6 DEF TableKept

(* Leaving the table alone.                                                *)
LEMMA TableUnchanged ==
  ASSUME ServerInv, UNCHANGED <<tableVars, x_maxconnections, now, uniq>>,
         NEW v
  PROVE  TableKept(v)
<1>1. TableInv /\ UniqInv /\ stopped \subseteq live
  BY DEF ServerInv
<1>2. TableInv'
  <2>1. TableTypes(Table)'
    BY <1>1 DEF TableInv, GoodTable, TableTypes, Table, tableVars
  <2>2. SlotsLive(Table)' /\ SlotsFresh(Table)'
    BY <1>1 DEF TableInv, GoodTable, SlotsLive, SlotsFresh, Table, tableVars
  <2> QED
    BY <2>1, <2>2 DEF TableInv, GoodTable
<1>3. /\ UniqInv' /\ stopped' \subseteq live' /\ openfds' = openfds /\ live' = live
      /\ FreedClients' = FreedClients
  BY <1>1 DEF UniqInv, tableVars, FreedClients
<1> QED
  BY <1>2, <1>3 DEF TableKept

(* A look for expired clients.                                             *)
LEMMA LookKeeps ==
  ASSUME ServerInv, SetTable(AutoRemove(Table)),
         UNCHANGED <<x_maxconnections, now, uniq>>
  PROVE  TableKept(-1)
<1> DEFINE r == AutoRemove(Table)
<1>1. GoodTable(Table) /\ OtherTypes /\ Table.live = live /\ UniqInv
  BY TableFacts DEF Table
<1>2. /\ GoodTable(r) /\ r.live \subseteq live
      /\ \A u \in live \ r.live : Aged(Table, u)
  BY <1>1, AutoRemoveGood
<1>3. SetTable(r)
  OBVIOUS
<1> HIDE DEF r
<1>4. \A u \in r.live : u < uniq'
  BY <1>1, <1>2 DEF UniqInv
<1>5. /\ uniq' \in Int /\ uniq <= uniq' /\ r.live \subseteq live \cup {uniq}
      /\ \A u \in live \ r.live : u = -1 \/ Aged(Table, u)
  BY <1>2, TableFacts
<1> QED
  BY <1>2, <1>3, <1>4, <1>5, SetTableKeeps

(* udpserver_disconnect *)
LEMMA DisconnectKeeps ==
  ASSUME ServerInv, NEW i \in Slots, Disconnect(i),
         UNCHANGED <<x_maxconnections, now, uniq>>
  PROVE  TableKept(x_sr[i].uniq) /\ ub' \in BOOLEAN
<1>1. /\ GoodTable(Table) /\ TableInv /\ OtherTypes /\ Table.live = live
      /\ UniqInv /\ ub \in BOOLEAN /\ x_nconnections \in Nat
  BY TableFacts DEF Table
<1>2. CASE i >= x_nconnections
  BY <1>1, <1>2, TableUnchanged DEF Disconnect
<1>3. CASE i < x_nconnections /\ x_sr[i] = NoClient
  <2>1. i \in Nat
    BY UdpCapacityAssumption DEF Slots
  <2>2. ~(i >= x_nconnections)
    BY <1>1, <1>3, <2>1
  <2>3. ub' = TRUE /\ UNCHANGED tableVars
    BY <1>3, <2>2 DEF Disconnect
  <2> QED
    BY <2>3, TableUnchanged
<1>4. CASE i < x_nconnections /\ x_sr[i] # NoClient
  <2> DEFINE s == SenderRemove(Table, i)
             r == AutoRemove(s)
  <2>1. i \in Nat /\ x_nconnections >= 1 /\ ~(i >= x_nconnections)
    <3>1. i \in Nat
      BY UdpCapacityAssumption DEF Slots
    <3> QED
      BY <1>1, <1>4, <3>1
  <2>2. SetTable(r) /\ ub' = ub
    BY <1>4, <2>1 DEF Disconnect
  <2>3. /\ GoodTable(s) /\ s.live = live \ {x_sr[i].uniq}
        /\ \A j \in Slots : s.sr[j] = IF j = i THEN NoClient ELSE x_sr[j]
    BY <1>1, <1>4, <2>1, SenderRemoveGood
  <2> HIDE DEF s
  <2>4. /\ GoodTable(r) /\ r.live \subseteq s.live
        /\ \A u \in s.live \ r.live : Aged(s, u)
    BY <1>1, <2>3, AutoRemoveGood
  <2> HIDE DEF r
  <2>5. \A u : Aged(s, u) => Aged(Table, u)
    <3>1. \A j \in Slots : s.sr[j] # NoClient => s.sr[j] = Table.sr[j]
      BY <2>3 DEF Table
    <3> QED
      BY <3>1 DEF Aged
  <2>6. \A u \in live \ r.live : u = x_sr[i].uniq \/ Aged(Table, u)
    BY <2>3, <2>4, <2>5
  <2>7. \A u \in r.live : u < uniq'
    BY <1>1, <2>3, <2>4 DEF UniqInv
  <2>8. uniq' \in Int /\ uniq <= uniq' /\ r.live \subseteq live \cup {uniq}
    BY <2>3, <2>4, TableFacts
  <2>9. TableKept(x_sr[i].uniq)
    BY <2>2, <2>4, <2>6, <2>7, <2>8, SetTableKeeps
  <2> QED
    BY <1>1, <2>2, <2>9
<1> QED
  <2>1. i \in Nat
    BY UdpCapacityAssumption DEF Slots
  <2> QED
    BY <1>1, <1>2, <1>3, <1>4, <2>1

(* udpserver_send_bytes *)
LEMMA SendBytesKeeps ==
  ASSUME ServerInv, NEW i \in Slots, NEW data, SendBytes(i, data),
         UNCHANGED <<x_maxconnections, now, uniq>>
  PROVE  /\ ub' \in BOOLEAN
         /\ \/ TableKept(-1)
            \/ TableKept(x_sr[i].uniq) /\ x_sr[i].uniq \in stopped
<1>1. ub \in BOOLEAN
  BY TableFacts
<1>2. \/ UNCHANGED <<tableVars, ub>>
      \/ ub' = TRUE /\ UNCHANGED tableVars
      \/ Disconnect(i) /\ x_sr[i].uniq \in stopped
  BY Zenon DEF SendBytes
<1>3. CASE UNCHANGED <<tableVars, ub>>
  BY <1>1, <1>3, TableUnchanged
<1>4. CASE ub' = TRUE /\ UNCHANGED tableVars
  BY <1>4, TableUnchanged
<1>5. CASE Disconnect(i) /\ x_sr[i].uniq \in stopped
  BY <1>5, DisconnectKeeps
<1> QED
  BY <1>2, <1>3, <1>4, <1>5

(* udpserver_sender_add, for an address that is known: the client is fresh *)
(* again.                                                                  *)
LEMMA SeenAgainGood ==
  ASSUME ServerInv, NEW i \in Slots, x_sr[i] # NoClient
  PROVE  LET t == [Table EXCEPT !.sr[i].seen = now]
         IN  GoodTable(t) /\ t.live = live
<1> DEFINE t == [Table EXCEPT !.sr[i].seen = now]
           c == [x_sr[i] EXCEPT !.seen = now]
<1>1. /\ x_sr \in [Slots -> Clients \cup {NoClient}]
      /\ x_nconnections \in 0 .. MaxSlots /\ x_nconnections <= x_maxconnections
      /\ live \subseteq Uniqs
      /\ x_lastchecked \in 0 .. now /\ checkedwith \in Int
  BY TableFacts DEF GoodTable, TableTypes, Table
<1>2. /\ t.sr = [x_sr EXCEPT ![i] = c] /\ t.n = x_nconnections /\ t.live = live
      /\ t.checked = x_lastchecked /\ t.with = checkedwith
  BY DEF Table
<1>3. c \in Clients /\ c.uniq = x_sr[i].uniq /\ c.seen = now
  <2>1. x_sr[i] \in Clients
    BY <1>1
  <2>2. now \in 0 .. MaxTime
    BY Zenon DEF ServerInv, OtherTypes
  <2> QED
    BY <2>1, <2>2 DEF Clients
<1> HIDE DEF t, c
<1>4. \A j \in Slots : t.sr[j] = IF j = i THEN c ELSE x_sr[j]
  BY <1>1, <1>2
<1>5. \A j \in Slots : /\ t.sr[j].uniq = x_sr[j].uniq
                       /\ t.sr[j] = NoClient <=> x_sr[j] = NoClient
  BY <1>3, <1>4, ClientFields
<1>6. TableTypes(t)
  <2>1. t.sr \in [Slots -> Clients \cup {NoClient}]
    BY <1>1, <1>2, <1>3
  <2> QED
    BY <1>1, <1>2, <2>1 DEF TableTypes
<1>7. SlotsLive(t)
  <2>1. \A j \in Slots : x_sr[j] # NoClient =>
          /\ j < x_maxconnections /\ x_sr[j].uniq \in live
          /\ \A k \in Slots : x_sr[k].uniq = x_sr[j].uniq => j = k
    BY TableFacts DEF GoodTable, SlotsLive, Table
  <2> QED
    BY <1>2, <1>5, <2>1 DEF SlotsLive
<1>8. SlotsFresh(t)
  <2>1. (checkedwith > 0 /\ x_lastchecked = now) =>
          \A j \in Slots : x_sr[j] # NoClient => now - x_sr[j].seen <= checkedwith
    BY TableFacts DEF GoodTable, SlotsFresh, Table
  <2>2. now \in Int
    BY TableFacts, Numbers
  <2>3. checkedwith > 0 => now - now <= checkedwith
    BY <1>1, <2>2
  <2> QED
    BY <1>2, <1>3, <1>4, <2>1, <2>3 DEF SlotsFresh
<1> QED
  BY <1>2, <1>6, <1>7, <1>8 DEF GoodTable, t

(* For a new address: a new client in the slot x_nconnections, whatever    *)
(* the slot held.                                                          *)
LEMMA NewSenderGood ==
  ASSUME ServerInv, NEW a \in Addrs, x_nconnections < x_maxconnections,
         uniq < FirstUniq + MaxClients
  PROVE  LET t == [Table EXCEPT !.sr[x_nconnections] = SenderNew(a),
                                !.n = @ + 1, !.live = @ \cup {uniq}]
         IN  /\ GoodTable(t) /\ t.live = live \cup {uniq}
             /\ uniq + 1 \in Uniqs \cup {FirstUniq + MaxClients}
             /\ uniq \in Nat
<1> DEFINE t == [Table EXCEPT !.sr[x_nconnections] = SenderNew(a),
                              !.n = @ + 1, !.live = @ \cup {uniq}]
           c == SenderNew(a)
           n == x_nconnections
<1>1. /\ x_sr \in [Slots -> Clients \cup {NoClient}]
      /\ live \subseteq Uniqs
      /\ x_lastchecked \in 0 .. now /\ checkedwith \in Int
  BY TableFacts DEF GoodTable, TableTypes, Table
<1>2. /\ t.sr = [x_sr EXCEPT ![n] = c] /\ t.n = n + 1
      /\ t.live = live \cup {uniq}
      /\ t.checked = x_lastchecked /\ t.with = checkedwith
  BY DEF Table
<1>3. /\ n \in Nat /\ MaxSlots \in Nat /\ x_maxconnections \in Nat
      /\ x_maxconnections <= MaxSlots /\ now \in Int
  BY TableFacts, Numbers
<1>4. n \in Slots /\ n < x_maxconnections
  BY <1>3 DEF Slots
<1>5. /\ uniq \in Uniqs /\ uniq \in Nat
      /\ uniq + 1 \in Uniqs \cup {FirstUniq + MaxClients}
  <2>1. uniq \in Uniqs \cup {FirstUniq + MaxClients}
    BY Zenon DEF ServerInv, OtherTypes, UniqValues
  <2>2. MaxClients \in Nat
    BY UdpNumbersAssumption
  <2>3. uniq \in Int /\ uniq >= FirstUniq /\ uniq < FirstUniq + MaxClients
    BY <2>1, <2>2 DEF Uniqs, FirstUniq
  <2> QED
    BY <2>2, <2>3 DEF Uniqs, FirstUniq
<1>6. c \in Clients /\ c.uniq = uniq /\ c.seen = now
  <2>1. now \in 0 .. MaxTime
    BY Zenon DEF ServerInv, OtherTypes
  <2>2. x_connectsocket \in Fds \cup {-1}
    BY DEF ServerInv, BindTypes
  <2> QED
    BY <1>5, <2>1, <2>2 DEF SenderNew, Clients
<1> HIDE DEF t, c
<1>7. \A j \in Slots : t.sr[j] = IF j = n THEN c ELSE x_sr[j]
  BY <1>1, <1>2, <1>4
<1>8. TableTypes(t)
  <2>1. t.sr \in [Slots -> Clients \cup {NoClient}]
    BY <1>1, <1>2, <1>6
  <2>2. t.n \in 0 .. MaxSlots /\ t.n <= x_maxconnections
    BY <1>2, <1>3, <1>4
  <2>3. t.live \subseteq Uniqs
    BY <1>1, <1>2, <1>5
  <2> QED
    BY <1>1, <1>2, <2>1, <2>2, <2>3 DEF TableTypes
<1>9. SlotsLive(t)
  <2>1. \A j \in Slots : x_sr[j] # NoClient =>
          /\ j < x_maxconnections /\ x_sr[j].uniq \in live
          /\ \A k \in Slots : x_sr[k].uniq = x_sr[j].uniq => j = k
    BY TableFacts DEF GoodTable, SlotsLive, Table
  <2>2. \A j \in Slots : x_sr[j].uniq # uniq
    <3> SUFFICES ASSUME NEW j \in Slots
                 PROVE  x_sr[j].uniq # uniq
      OBVIOUS
    <3>1. CASE x_sr[j] = NoClient
      BY <1>5, <3>1, ClientFields
    <3>2. CASE x_sr[j] # NoClient
      <4>1. x_sr[j].uniq \in live /\ x_sr[j].uniq \in Nat
        BY <1>1, <2>1, <3>2, ClientFields
      <4>2. x_sr[j].uniq < uniq
        BY <4>1, TableFacts DEF UniqInv
      <4> QED
        BY <1>5, <4>1, <4>2
    <3> QED
      BY <3>1, <3>2
  <2> SUFFICES ASSUME NEW j \in Slots, t.sr[j] # NoClient
               PROVE  /\ j < x_maxconnections /\ t.sr[j].uniq \in t.live
                      /\ \A k \in Slots : t.sr[k].uniq = t.sr[j].uniq => j = k
    BY DEF SlotsLive
  <2>3. CASE j = n
    BY <1>2, <1>4, <1>6, <1>7, <2>2, <2>3
  <2>4. CASE j # n
    BY <1>2, <1>6, <1>7, <2>1, <2>2, <2>4
  <2> QED
    BY <2>3, <2>4
<1>10. SlotsFresh(t)
  <2>1. (checkedwith > 0 /\ x_lastchecked = now) =>
          \A j \in Slots : x_sr[j] # NoClient => now - x_sr[j].seen <= checkedwith
    BY TableFacts DEF GoodTable, SlotsFresh, Table
  <2>2. checkedwith > 0 => now - now <= checkedwith
    BY <1>1, <1>3
  <2> QED
    BY <1>2, <1>6, <1>7, <2>1, <2>2 DEF SlotsFresh
<1> QED
  BY <1>2, <1>5, <1>8, <1>9, <1>10 DEF GoodTable, t

(* udpserver_sender_add *)
LEMMA SenderAddKeeps ==
  ASSUME ServerInv, NEW a \in Addrs, SenderAdd(a),
         UNCHANGED <<x_maxconnections, now>>
  PROVE  TableKept(-1) /\ uniq' \in Uniqs \cup {FirstUniq + MaxClients}
<1> DEFINE i == FindSender(a)
<1>1. /\ uniq \in Uniqs \cup {FirstUniq + MaxClients}
      /\ x_nconnections \in Nat /\ UniqInv /\ live \subseteq Uniqs
      /\ Uniqs \subseteq Nat
      /\ \A k \in 0 .. x_nconnections - 1 : k \in Slots
  <2>1. uniq \in Uniqs \cup {FirstUniq + MaxClients}
    BY Zenon DEF ServerInv, OtherTypes, UniqValues
  <2> QED
    BY <2>1, TableFacts, ClientFields
<1>2. i >= 0 => i \in Slots /\ x_sr[i] # NoClient
  BY <1>1, FindSenderFinds
<1>3. \/ /\ i >= 0
         /\ SetTable([Table EXCEPT !.sr[i].seen = now])
         /\ UNCHANGED uniq
      \/ /\ x_nconnections < x_maxconnections
         /\ uniq < FirstUniq + MaxClients
         /\ SetTable([Table EXCEPT !.sr[x_nconnections] = SenderNew(a),
                                   !.n = @ + 1, !.live = @ \cup {uniq}])
         /\ uniq' = uniq + 1
      \/ UNCHANGED <<tableVars, uniq>>
  BY Zenon DEF SenderAdd
<1> HIDE DEF i
<1>4. CASE /\ i >= 0
           /\ SetTable([Table EXCEPT !.sr[i].seen = now])
           /\ UNCHANGED uniq
  <2> DEFINE t == [Table EXCEPT !.sr[i].seen = now]
  <2>1. GoodTable(t) /\ t.live = live
    BY <1>2, <1>4, SeenAgainGood
  <2>2. SetTable(t) /\ uniq' = uniq
    BY <1>4
  <2> HIDE DEF t
  <2>3. /\ uniq' \in Int /\ uniq <= uniq' /\ t.live \subseteq live \cup {uniq}
        /\ \A u \in live \ t.live : u = -1 \/ Aged(Table, u)
        /\ \A u \in t.live : u < uniq'
    <3>1. uniq \in Int
      BY TableFacts
    <3>2. uniq' \in Int /\ uniq <= uniq'
      BY <2>2, <3>1
    <3>3. \A u \in t.live : u < uniq'
      BY <1>1, <2>1, <2>2 DEF UniqInv
    <3> QED
      BY <2>1, <3>2, <3>3
  <2>4. TableKept(-1)
    BY <2>1, <2>2, <2>3, SetTableKeeps
  <2> QED
    BY <1>1, <2>2, <2>4
<1>5. CASE /\ x_nconnections < x_maxconnections
           /\ uniq < FirstUniq + MaxClients
           /\ SetTable([Table EXCEPT !.sr[x_nconnections] = SenderNew(a),
                                     !.n = @ + 1, !.live = @ \cup {uniq}])
           /\ uniq' = uniq + 1
  <2> DEFINE t == [Table EXCEPT !.sr[x_nconnections] = SenderNew(a),
                                !.n = @ + 1, !.live = @ \cup {uniq}]
  <2>1. /\ GoodTable(t) /\ t.live = live \cup {uniq} /\ uniq \in Nat
        /\ uniq + 1 \in Uniqs \cup {FirstUniq + MaxClients}
    BY <1>5, NewSenderGood
  <2>2. SetTable(t) /\ uniq' = uniq + 1
    BY <1>5
  <2> HIDE DEF t
  <2>3. \A u \in t.live : u < uniq'
    <3>1. \A u \in live : u \in Nat /\ u < uniq
      BY <1>1 DEF UniqInv
    <3>2. \A u \in live : u < uniq + 1
      BY <2>1, <3>1
    <3> QED
      BY <2>1, <2>2, <3>2
  <2>4. /\ \A u \in live \ t.live : u = -1 \/ Aged(Table, u)
        /\ uniq' \in Int /\ uniq <= uniq' /\ t.live \subseteq live \cup {uniq}
    BY <2>1, <2>2
  <2>5. TableKept(-1)
    BY <2>1, <2>2, <2>3, <2>4, SetTableKeeps
  <2> QED
    BY <2>1, <2>2, <2>5
<1>6. CASE UNCHANGED <<tableVars, uniq>>
  BY <1>1, <1>6, TableUnchanged
<1> QED
  BY <1>3, <1>4, <1>5, <1>6

----------------------------------------------------------------------------
(* A step on a client that may free it whatever its age.                   *)
Addressed(v) ==
  v = -1 \/ \E i \in Slots : v = x_sr[i].uniq /\ (Disconnects(i) \/ Refuses(i))

(* A step that is not about the socket.                                    *)
QuietStep ==
  /\ \E v : TableKept(v) /\ Addressed(v)
  /\ OtherTypes' /\ UNCHANGED bindVars

(* A step that frees nobody but for its age.                               *)
LEMMA NobodyAddressed ==
  ASSUME TableKept(-1)
  PROVE  \E v : TableKept(v) /\ Addressed(v)
BY DEF Addressed

(* The types of the rest, before and after a step.                         *)
LEMMA OtherFacts ==
  ASSUME ServerInv
  PROVE  /\ OtherTypes /\ x_defaulttarget \in TargetValues
         /\ uniq \in UniqValues /\ loop \in Loops
         /\ ub \in BOOLEAN /\ freed \in BOOLEAN
BY Zenon DEF ServerInv, OtherTypes

(* The types of the rest after a step that changes no option.              *)
LEMMA OtherKept ==
  ASSUME ServerInv, UNCHANGED <<optVars, now, freed>>,
         x_defaulttarget' \in TargetValues, uniq' \in UniqValues,
         loop' \in Loops, ub' \in BOOLEAN
  PROVE  OtherTypes'
<1>1. OtherTypes
  BY OtherFacts
<1>2. /\ x_maxconnections' \in 1 .. MaxSlots /\ x_accept' \in BOOLEAN
      /\ x_timeout' \in Timeouts \cup {0} /\ now' \in 0 .. MaxTime
      /\ freed' \in BOOLEAN
  BY Zenon, <1>1 DEF OtherTypes, optVars
<1> QED
  BY Zenon, <1>2 DEF OtherTypes

(* The loops.                                                              *)
LEMMA LoopTypes ==
  /\ NoLoop \in Loops
  /\ [NoLoop EXCEPT !.op = "disconnect"] \in Loops
  /\ \A but \in Int, data \in Payloads :
       [op |-> "send", pos |-> 0, but |-> but, data |-> data] \in Loops
  /\ \A l \in Loops : l.pos \in Nat /\ [l EXCEPT !.pos = @ + 1] \in Loops
BY DEF NoLoop, Loops, Payloads

(* udpserver_fixindex yields a slot of the table.                          *)
LEMMA FixIndexFinds ==
  ASSUME ServerInv, NEW k \in Nat, FixIndex(k) >= 0
  PROVE  FixIndex(k) \in Slots
<1>1. /\ x_nconnections \in Nat
      /\ \A i \in 0 .. x_nconnections - 1 : i \in Slots
  BY TableFacts
<1>2. k \in 1 .. x_nconnections /\ FixIndex(k) = k - 1
  BY <1>1 DEF FixIndex
<1>3. k - 1 \in 0 .. x_nconnections - 1
  BY <1>1, <1>2
<1> QED
  BY <1>1, <1>2, <1>3

(* Datagrams, messages that add a client, and the look for expired ones.   *)
LEMMA AddStep ==
  ASSUME ServerInv, NEW a \in Addrs, Receive(a) \/ AddClient(a)
  PROVE  QuietStep
<1>1. /\ SenderAdd(a)
      /\ UNCHANGED <<bindVars, optVars, x_defaulttarget, now, loop, ub, freed>>
  BY Zenon DEF Receive, AddClient
<1>2. TableKept(-1) /\ uniq' \in UniqValues
  BY <1>1, SenderAddKeeps DEF optVars, UniqValues
<1>3. OtherTypes'
  BY <1>1, <1>2, OtherFacts, OtherKept
<1> QED
  BY <1>1, <1>2, <1>3, NobodyAddressed DEF QuietStep

(* udpserver_info.                                                         *)
LEMMA InfoStep ==
  ASSUME ServerInv, Info
  PROVE  QuietStep
<1>1. /\ SetTable(AutoRemove(Table))
      /\ UNCHANGED <<bindVars, optVars, x_defaulttarget, uniq, now, loop, ub,
                     freed>>
  BY Zenon DEF Info
<1>2. TableKept(-1)
  BY <1>1, LookKeeps DEF optVars
<1>3. OtherTypes'
  BY <1>1, OtherFacts, OtherKept
<1> QED
  BY <1>1, <1>2, <1>3, NobodyAddressed DEF QuietStep

(* Messages to one client.                                                 *)
LEMMA SendOneStep ==
  ASSUME ServerInv, NEW data \in Payloads,
         \/ DefaultSendOne(data)
         \/ \E k \in 1 .. MaxSlots : SendClient(k, data)
  PROVE  QuietStep
<1>1. PICK i \in Slots :
        /\ SendBytes(i, data)
        /\ UNCHANGED <<bindVars, optVars, x_defaulttarget, uniq, now, loop, freed>>
        /\ x_sr[i].uniq \in stopped => Refuses(i)
  <2>1. CASE DefaultSendOne(data)
    <3>1. /\ TargetIndex >= 0 /\ SendBytes(TargetIndex, data)
          /\ UNCHANGED <<bindVars, optVars, x_defaulttarget, uniq, now, loop,
                         freed>>
      BY Zenon, <2>1 DEF DefaultSendOne
    <3>2. TargetIndex \in Slots
      BY <3>1, TableFacts, TargetIndexFinds
    <3>3. x_sr[TargetIndex].uniq \in stopped => Refuses(TargetIndex)
      BY Zenon, <2>1 DEF Refuses
    <3> QED
      BY Zenon, <3>1, <3>2, <3>3
  <2>2. ASSUME NEW k \in 1 .. MaxSlots, SendClient(k, data)
        PROVE  \E i \in Slots :
                 /\ SendBytes(i, data)
                 /\ UNCHANGED <<bindVars, optVars, x_defaulttarget, uniq, now,
                                loop, freed>>
                 /\ x_sr[i].uniq \in stopped => Refuses(i)
    <3>1. /\ FixIndex(k) >= 0 /\ SendBytes(FixIndex(k), data)
          /\ UNCHANGED <<bindVars, optVars, x_defaulttarget, uniq, now, loop,
                         freed>>
      BY Zenon, <2>2 DEF SendClient
    <3>2. FixIndex(k) \in Slots
      BY <3>1, FixIndexFinds
    <3>3. x_sr[FixIndex(k)].uniq \in stopped => Refuses(FixIndex(k))
      BY Zenon, <2>2 DEF Refuses
    <3> QED
      BY Zenon, <3>1, <3>2, <3>3
  <2> QED
    BY Zenon, <2>1, <2>2
<1>2. /\ ub' \in BOOLEAN
      /\ \/ TableKept(-1)
         \/ TableKept(x_sr[i].uniq) /\ x_sr[i].uniq \in stopped
  BY <1>1, SendBytesKeeps DEF optVars
<1>3. OtherTypes'
  BY <1>1, <1>2, OtherFacts, OtherKept
<1>4. \E v : TableKept(v) /\ Addressed(v)
  BY Zenon, <1>1, <1>2 DEF Addressed
<1> QED
  BY <1>1, <1>3, <1>4 DEF QuietStep

(* Messages to all, or to all but one: the start of the loop.              *)
LEMMA SendAllStep ==
  ASSUME ServerInv, NEW data \in Payloads,
         Broadcast(data) \/ DefaultSendBut(data) \/ DefaultSendAll(data)
  PROVE  QuietStep
<1>1. CASE Broadcast(data) \/ DefaultSendAll(data)
  <2>1. /\ SetTable(AutoRemove(Table)) /\ StartSend(-1, data)
        /\ UNCHANGED <<bindVars, optVars, uniq, now, ub, freed>>
        /\ x_defaulttarget' = x_defaulttarget \/ x_defaulttarget' = 0
    BY Zenon, <1>1 DEF Broadcast, DefaultSendAll
  <2>2. TableKept(-1)
    BY <2>1, LookKeeps DEF optVars
  <2>3. loop' \in Loops
    BY <2>1, LoopTypes DEF StartSend
  <2>4. x_defaulttarget' \in TargetValues
    BY <2>1, OtherFacts DEF TargetValues
  <2>5. OtherTypes'
    BY <2>1, <2>3, <2>4, OtherFacts, OtherKept
  <2> QED
    BY <2>1, <2>2, <2>5, NobodyAddressed DEF QuietStep
<1>2. CASE DefaultSendBut(data)
  <2>1. /\ StartSend(TargetIndex, data)
        /\ UNCHANGED <<tableVars, bindVars, optVars, x_defaulttarget, uniq, now,
                       ub, freed>>
    BY Zenon, <1>2 DEF DefaultSendBut
  <2>2. TableKept(-1)
    BY <2>1, TableUnchanged DEF optVars
  <2>3. loop' \in Loops
    BY <2>1, LoopTypes, TableFacts, TargetIndexFinds DEF StartSend
  <2>4. OtherTypes'
    BY <2>1, <2>3, OtherFacts, OtherKept
  <2> QED
    BY <2>1, <2>2, <2>4, NobodyAddressed DEF QuietStep
<1> QED
  BY <1>1, <1>2

(* The loops, client by client.                                            *)
LEMMA LoopStep ==
  ASSUME ServerInv, SendStep \/ DisconnectStep
  PROVE  QuietStep
<1> DEFINE i == loop.pos
<1>1. /\ loop.pos < x_nconnections
      /\ loop' = [loop EXCEPT !.pos = @ + 1]
      /\ UNCHANGED <<bindVars, optVars, x_defaulttarget, uniq, now, freed>>
  BY Zenon DEF SendStep, DisconnectStep
<1>2. \/ UNCHANGED <<tableVars, ub>>
      \/ /\ SendBytes(i, loop.data)
         /\ x_sr[i].uniq \in stopped => Refuses(i)
      \/ Disconnect(i) /\ Disconnects(i)
  <2>1. CASE SendStep
    <3>1. loop.pos = loop.but \/ SendBytes(loop.pos, loop.data)
      BY Zenon, <2>1 DEF SendStep
    <3>2. loop.pos = loop.but => UNCHANGED <<tableVars, ub>>
      BY Zenon, <2>1 DEF SendStep
    <3>3. x_sr[i].uniq \in stopped /\ loop.pos # loop.but => Refuses(i)
      BY Zenon, <2>1 DEF Refuses
    <3> QED
      BY Zenon, <3>1, <3>2, <3>3
  <2>2. CASE DisconnectStep
    BY Zenon, <2>2 DEF DisconnectStep, Disconnects
  <2> QED
    BY Zenon, <2>1, <2>2
<1>3. i \in Slots /\ loop' \in Loops
  <2>1. loop.pos \in Nat /\ loop' \in Loops
    BY <1>1, LoopTypes, OtherFacts
  <2> QED
    BY <1>1, <2>1, TableFacts
<1> HIDE DEF i
<1>4. ub' \in BOOLEAN /\ \E v : TableKept(v) /\ Addressed(v)
  <2>1. CASE UNCHANGED <<tableVars, ub>>
    <3>1. TableKept(-1)
      BY <1>1, <2>1, TableUnchanged DEF optVars
    <3> QED
      BY <2>1, <3>1, OtherFacts, NobodyAddressed
  <2>2. CASE /\ SendBytes(i, loop.data)
             /\ x_sr[i].uniq \in stopped => Refuses(i)
    <3>1. /\ ub' \in BOOLEAN
          /\ \/ TableKept(-1)
             \/ TableKept(x_sr[i].uniq) /\ x_sr[i].uniq \in stopped
      BY <1>1, <1>3, <2>2, SendBytesKeeps DEF optVars
    <3> QED
      BY Zenon, <1>3, <2>2, <3>1 DEF Addressed
  <2>3. CASE Disconnect(i) /\ Disconnects(i)
    <3>1. TableKept(x_sr[i].uniq) /\ ub' \in BOOLEAN
      BY <1>1, <1>3, <2>3, DisconnectKeeps DEF optVars
    <3> QED
      BY Zenon, <1>3, <2>3, <3>1 DEF Addressed
  <2> QED
    BY <1>2, <2>1, <2>2, <2>3
<1>5. OtherTypes'
  BY <1>1, <1>3, <1>4, OtherFacts, OtherKept
<1> QED
  BY <1>1, <1>4, <1>5 DEF QuietStep

(* udpserver_disconnect_client.                                            *)
LEMMA DisconnectClientStep ==
  ASSUME ServerInv, NEW k \in 1 .. MaxSlots, DisconnectClient(k)
  PROVE  QuietStep
<1> DEFINE i == FixIndex(k)
<1>1. /\ i >= 0 /\ Disconnect(i)
      /\ UNCHANGED <<bindVars, optVars, x_defaulttarget, uniq, now, loop, freed>>
  BY Zenon DEF DisconnectClient
<1>2. i \in Slots
  BY <1>1, FixIndexFinds
<1>3. Disconnects(i)
  BY Zenon DEF Disconnects
<1> HIDE DEF i
<1>4. TableKept(x_sr[i].uniq) /\ ub' \in BOOLEAN
  BY <1>1, <1>2, DisconnectKeeps DEF optVars
<1>5. OtherTypes'
  BY <1>1, <1>4, OtherFacts, OtherKept
<1>6. \E v : TableKept(v) /\ Addressed(v)
  BY Zenon, <1>2, <1>3, <1>4 DEF Addressed
<1> QED
  BY <1>1, <1>5, <1>6 DEF QuietStep

(* The beginning of udpserver_disconnect_all, the end of any loop, and a   *)
(* default target that crashes.                                            *)
LEMMA ControlStep ==
  ASSUME ServerInv, DisconnectAll \/ LoopDone \/ DefaultSendCrashes
  PROVE  QuietStep
<1>1. UNCHANGED <<tableVars, bindVars, optVars, x_defaulttarget, uniq, now, freed>>
  BY Zenon DEF DisconnectAll, LoopDone, DefaultSendCrashes
<1>2. ub' = ub \/ ub' = TRUE
  BY Zenon DEF DisconnectAll, LoopDone, DefaultSendCrashes
<1>3. loop' = loop \/ loop' = NoLoop \/ loop' = [NoLoop EXCEPT !.op = "disconnect"]
  BY Zenon DEF DisconnectAll, LoopDone, DefaultSendCrashes
<1>4. ub' \in BOOLEAN /\ loop' \in Loops
  BY <1>2, <1>3, OtherFacts, LoopTypes
<1>5. OtherTypes'
  BY <1>1, <1>4, OtherFacts, OtherKept
<1>6. TableKept(-1)
  BY <1>1, TableUnchanged DEF optVars
<1> QED
  BY <1>1, <1>5, <1>6, NobodyAddressed DEF QuietStep

(* udpserver_defaulttarget *)
LEMMA DefaultTargetStep ==
  ASSUME ServerInv, NEW raw \in Targets, DefaultTarget(raw)
  PROVE  QuietStep
<1> DEFINE client == IF raw < 0 THEN -raw ELSE raw
<1>1. /\ client <= x_nconnections
      /\ IF client > 0 /\ x_sr[client - 1] = NoClient
         THEN ub' = TRUE /\ UNCHANGED x_defaulttarget
         ELSE /\ x_defaulttarget' = IF raw = 0 THEN 0
                                    ELSE IF raw > 0 THEN x_sr[client - 1].uniq
                                    ELSE -x_sr[client - 1].uniq
              /\ UNCHANGED ub
      /\ UNCHANGED <<tableVars, bindVars, optVars, uniq, now, loop, freed>>
  BY DEF DefaultTarget
<1>2. raw \in Int
  BY UdpNumbersAssumption
<1>3. client \in Nat /\ (raw # 0 => client > 0)
  BY <1>2
<1> HIDE DEF client
<1>4. x_defaulttarget' \in TargetValues /\ ub' \in BOOLEAN
  <2>1. CASE client > 0 /\ x_sr[client - 1] = NoClient
    BY <1>1, <2>1, OtherFacts
  <2>2. CASE raw = 0
    BY <1>1, <2>2, OtherFacts DEF TargetValues
  <2>3. CASE raw # 0 /\ x_sr[client - 1] # NoClient
    <3>1. client - 1 \in 0 .. x_nconnections - 1
      BY <1>1, <1>3, <2>3, TableFacts
    <3>2. x_sr[client - 1].uniq \in Uniqs
      BY <2>3, <3>1, TableFacts, ClientFields
    <3>3. /\ ub' = ub
          /\ \/ x_defaulttarget' = x_sr[client - 1].uniq
             \/ x_defaulttarget' = -x_sr[client - 1].uniq
      BY Zenon, <1>1, <2>3
    <3> QED
      BY <3>2, <3>3, OtherFacts DEF TargetValues
  <2> QED
    BY <1>3, <2>1, <2>2, <2>3
<1>5. OtherTypes'
  BY <1>1, <1>4, OtherFacts, OtherKept
<1>6. TableKept(-1)
  BY <1>1, TableUnchanged DEF optVars
<1> QED
  BY <1>1, <1>5, <1>6, NobodyAddressed DEF QuietStep

(* Options.  A changed x_timeout leaves standing what the last look for    *)
(* expired clients found out with the old one.                             *)
LEMMA OptionStep ==
  ASSUME ServerInv, \/ \E on \in BOOLEAN : Accept(on)
                    \/ \E ms \in Timeouts : Timeout(ms)
  PROVE  QuietStep
<1>1. /\ UNCHANGED <<tableVars, bindVars, x_maxconnections, x_defaulttarget, uniq,
                     now, loop, ub, freed>>
      /\ x_accept' \in BOOLEAN \/ x_accept' = x_accept
      /\ x_timeout' \in Timeouts \/ x_timeout' = x_timeout
  BY Zenon DEF Accept, Timeout
<1>2. OtherTypes
  BY OtherFacts
<1>3. /\ x_accept \in BOOLEAN /\ x_timeout \in Timeouts \cup {0}
      /\ x_maxconnections \in 1 .. MaxSlots /\ now \in 0 .. MaxTime
      /\ x_defaulttarget \in TargetValues /\ uniq \in UniqValues
      /\ loop \in Loops /\ ub \in BOOLEAN /\ freed \in BOOLEAN
  BY Zenon, <1>2 DEF OtherTypes
<1>4. x_accept' \in BOOLEAN /\ x_timeout' \in Timeouts \cup {0}
  BY Zenon, <1>1, <1>3
<1>5. OtherTypes'
  BY Zenon, <1>1, <1>3, <1>4 DEF OtherTypes
<1>6. TableKept(-1)
  BY <1>1, TableUnchanged
<1> QED
  BY <1>1, <1>5, <1>6, NobodyAddressed DEF QuietStep

(* udpserver_maxconnections: a client beyond the new capacity is forgotten *)
(* and not freed, which leaks it; the slots that remain are as good as     *)
(* before.                                                                 *)
LEMMA MaxConnectionsStep ==
  ASSUME ServerInv, NEW m \in Capacities, MaxConnections(m)
  PROVE  QuietStep
<1>1. /\ m >= x_nconnections /\ x_maxconnections' = m
      /\ x_sr' = [i \in Slots |-> IF i < m THEN x_sr[i] ELSE NoClient]
      /\ UNCHANGED <<x_nconnections, x_lastchecked, checkedwith, live, stopped,
                     openfds, bindVars, x_accept, x_timeout, x_defaulttarget,
                     uniq, now, loop, ub, freed>>
  BY DEF MaxConnections
<1>2. m \in 1 .. MaxSlots /\ m \in Nat
  BY UdpCapacityAssumption
<1>3. /\ x_sr \in [Slots -> Clients \cup {NoClient}]
      /\ x_nconnections \in 0 .. MaxSlots
      /\ live \subseteq Uniqs
      /\ x_lastchecked \in 0 .. now /\ checkedwith \in Int
  BY TableFacts DEF GoodTable, TableTypes, Table
<1>4. x_nconnections <= m
  BY <1>1, <1>2, TableFacts
<1>5. TableTypes(Table)'
  <2>1. x_sr' \in [Slots -> Clients \cup {NoClient}]
    BY <1>1, <1>3
  <2> QED
    BY <1>1, <1>3, <1>4, <2>1 DEF TableTypes, Table
<1>6. \A i \in Slots : x_sr'[i] = IF i < m THEN x_sr[i] ELSE NoClient
  BY <1>1
<1>7. SlotsLive(Table)'
  <2>1. \A j \in Slots : x_sr[j] # NoClient =>
          /\ x_sr[j].uniq \in live
          /\ \A k \in Slots : x_sr[k].uniq = x_sr[j].uniq => j = k
    BY TableFacts DEF GoodTable, SlotsLive, Table
  <2>2. \A j \in Slots : x_sr[j] # NoClient => x_sr[j].uniq # NoClient.uniq
    BY <1>3, ClientFields
  <2>3. \A j \in Slots : x_sr'[j] # NoClient =>
          /\ j < m /\ x_sr'[j].uniq \in live
          /\ \A k \in Slots : x_sr'[k].uniq = x_sr'[j].uniq => j = k
    BY <1>6, <2>1, <2>2
  <2> QED
    BY <1>1, <2>3 DEF SlotsLive, Table
<1>8. SlotsFresh(Table)'
  <2>1. (checkedwith > 0 /\ x_lastchecked = now) =>
          \A j \in Slots : x_sr[j] # NoClient => now - x_sr[j].seen <= checkedwith
    BY TableFacts DEF GoodTable, SlotsFresh, Table
  <2> QED
    BY <1>1, <1>6, <2>1 DEF SlotsFresh, Table
<1>9. TableKept(-1)
  <2>1. TableInv'
    BY <1>5, <1>7, <1>8 DEF TableInv, GoodTable
  <2>2. UniqInv' /\ stopped' \subseteq live' /\ FreedClients' = FreedClients
    BY <1>1, TableFacts DEF UniqInv, FreedClients
  <2> QED
    BY <1>1, <2>1, <2>2 DEF TableKept
<1>10. OtherTypes'
  <2>1. /\ OtherTypes /\ x_accept' = x_accept /\ x_timeout' = x_timeout
        /\ now' = now /\ freed' = freed
    BY <1>1, OtherFacts
  <2>2. /\ x_accept' \in BOOLEAN /\ x_timeout' \in Timeouts \cup {0}
        /\ now' \in 0 .. MaxTime
    BY Zenon, <2>1 DEF OtherTypes
  <2>3. /\ x_defaulttarget' \in TargetValues /\ uniq' \in UniqValues
        /\ loop' \in Loops /\ ub' \in BOOLEAN /\ freed' \in BOOLEAN
    BY Zenon, <1>1, OtherFacts
  <2> QED
    BY Zenon, <1>1, <1>2, <2>2, <2>3 DEF OtherTypes
<1> QED
  BY <1>1, <1>9, <1>10, NobodyAddressed DEF QuietStep

(* A send thread stops.                                                    *)
LEMMA SenderStopsStep ==
  ASSUME ServerInv, SenderStops
  PROVE  QuietStep
<1>1. /\ stopped' \subseteq stopped \cup live
      /\ UNCHANGED <<x_sr, x_nconnections, x_lastchecked, checkedwith, live,
                     openfds, bindVars, optVars, x_defaulttarget, uniq, now,
                     loop, ub, freed>>
  BY DEF SenderStops
<1>2. TableInv'
  <2>1. TableTypes(Table)'
    BY <1>1, TableFacts DEF GoodTable, TableTypes, Table, optVars
  <2>2. SlotsLive(Table)' /\ SlotsFresh(Table)'
    BY <1>1, TableFacts DEF GoodTable, SlotsLive, SlotsFresh, Table, optVars
  <2> QED
    BY <2>1, <2>2 DEF TableInv, GoodTable
<1>3. TableKept(-1)
  <2>1. UniqInv' /\ stopped' \subseteq live' /\ FreedClients' = FreedClients
    BY <1>1, TableFacts DEF UniqInv, FreedClients
  <2> QED
    BY <1>1, <1>2, <2>1 DEF TableKept
<1>4. OtherTypes'
  BY <1>1, OtherFacts, OtherKept
<1> QED
  BY <1>1, <1>3, <1>4, NobodyAddressed DEF QuietStep

(* Time passes: the last look for expired clients is no longer a look at   *)
(* this time.                                                              *)
LEMMA TickStep ==
  ASSUME ServerInv, Tick
  PROVE  QuietStep
<1>1. /\ now < MaxTime /\ now' = now + 1
      /\ UNCHANGED <<tableVars, bindVars, optVars, x_defaulttarget, uniq, loop,
                     ub, freed>>
  BY DEF Tick
<1>2. /\ x_sr \in [Slots -> Clients \cup {NoClient}]
      /\ x_nconnections \in 0 .. MaxSlots /\ x_nconnections <= x_maxconnections
      /\ live \subseteq Uniqs
      /\ x_lastchecked \in 0 .. now /\ checkedwith \in Int
  BY TableFacts DEF GoodTable, TableTypes, Table
<1>3. now \in Nat
  BY TableFacts, Numbers
<1>4. x_lastchecked \in 0 .. now' /\ x_lastchecked # now'
  BY <1>1, <1>2, <1>3
<1>5. TableInv'
  <2>1. TableTypes(Table)'
    BY <1>1, <1>2, <1>4 DEF TableTypes, Table, tableVars, optVars
  <2>2. SlotsLive(Table)'
    BY <1>1, TableFacts DEF GoodTable, SlotsLive, Table, tableVars, optVars
  <2>3. SlotsFresh(Table)'
    BY <1>1, <1>4 DEF SlotsFresh, Table, tableVars
  <2> QED
    BY <2>1, <2>2, <2>3 DEF TableInv, GoodTable
<1>6. TableKept(-1)
  <2>1. UniqInv' /\ stopped' \subseteq live' /\ FreedClients' = FreedClients
    BY <1>1, TableFacts DEF UniqInv, FreedClients, tableVars
  <2> QED
    BY <1>1, <1>5, <2>1 DEF TableKept, tableVars
<1>7. OtherTypes'
  <2>1. now' \in 0 .. MaxTime
    <3>1. MaxTime \in Nat
      BY UdpNumbersAssumption
    <3> QED
      BY <1>1, <1>3, <3>1
  <2>2. OtherTypes
    BY OtherFacts
  <2>3. /\ x_maxconnections' \in 1 .. MaxSlots /\ x_accept' \in BOOLEAN
        /\ x_timeout' \in Timeouts \cup {0}
    BY Zenon, <1>1, <2>2 DEF OtherTypes, optVars
  <2>4. /\ x_defaulttarget' \in TargetValues /\ uniq' \in UniqValues
        /\ loop' \in Loops /\ ub' \in BOOLEAN /\ freed' \in BOOLEAN
    BY Zenon, <1>1, OtherFacts
  <2> QED
    BY Zenon, <2>1, <2>3, <2>4 DEF OtherTypes
<1> QED
  BY <1>1, <1>6, <1>7, NobodyAddressed DEF QuietStep

----------------------------------------------------------------------------
(* udpserver_do_bind, and what it does to the socket and its poll function. *)
BindStep ==
  /\ UNCHANGED <<x_sr, x_nconnections, x_lastchecked, checkedwith, live, stopped,
                 optVars, x_defaulttarget, uniq, now, loop, ub, freed>>
  /\ \/ /\ x_connectsocket' = -1 /\ openfds' \subseteq openfds
        /\ x_receiver' = x_receiver /\ polled' = polled
     \/ /\ x_connectsocket' \in Fds /\ x_receiver' = x_connectsocket'
        /\ openfds' = (openfds \ {x_connectsocket}) \cup {x_connectsocket'}
        /\ polled' = Append(polled, x_connectsocket')
  /\ x_port' \in 0 .. PortMax /\ x_ifaddr' \in Ifs \cup {0}

(* The ports it may name, the one that says it has none included, fit the  *)
(* unsigned short that keeps them.                                         *)
LEMMA PortValues == NoPort \in 0 .. PortMax /\ Ports \subseteq 0 .. PortMax
<1>1. PortMax \in Nat
  BY DEF PortMax
<1>2. NoPort \in 0 .. PortMax
  BY <1>1 DEF NoPort
<1>3. Ports \subseteq 1 .. PortMax
  BY UdpNumbersAssumption
<1> QED
  BY <1>1, <1>2, <1>3

(* udpserver_do_bind does no more than that.                               *)
LEMMA BindIsStep ==
  ASSUME ServerInv, NEW p \in Ports \cup {0}, NEW i \in Ifs \cup {0},
         BindFails(p, i) \/ BindOpens(p, i)
  PROVE  BindStep
<1>1. x_port \in 0 .. PortMax /\ x_ifaddr \in Ifs \cup {0}
  BY DEF ServerInv, BindTypes
<1>2. UNCHANGED <<x_sr, x_nconnections, x_lastchecked, checkedwith, live, stopped,
                  optVars, x_defaulttarget, uniq, now, loop, ub, freed>>
  BY Zenon DEF BindFails, BindOpens
<1>3. CASE BindFails(p, i)
  <2>1. openfds' = openfds \ {x_connectsocket}
    BY Zenon, <1>3 DEF BindFails
  <2>2. CASE x_connectsocket = -1
    <3>1. UNCHANGED bindVars
      BY Zenon, <1>3, <2>2 DEF BindFails
    <3> QED
      BY <1>1, <1>2, <2>1, <2>2, <3>1 DEF BindStep, bindVars
  <2>3. CASE x_connectsocket # -1
    <3>1. /\ x_connectsocket' = -1 /\ x_port' = NoPort /\ x_ifaddr' = 0
          /\ UNCHANGED <<x_receiver, polled>>
      BY Zenon, <1>3, <2>3 DEF BindFails
    <3>2. NoPort \in 0 .. PortMax
      BY PortValues
    <3> QED
      BY <1>2, <2>1, <3>1, <3>2 DEF BindStep
  <2> QED
    BY <2>2, <2>3
<1>4. CASE BindOpens(p, i)
  <2>1. PICK fd \in Fds :
          /\ openfds' = (openfds \ {x_connectsocket}) \cup {fd}
          /\ x_connectsocket' = fd
          /\ x_receiver' = fd
          /\ polled' = Append(polled, fd)
    BY Zenon, <1>4 DEF BindOpens
  <2>2. x_port' \in (IF p = 0 THEN Ports ELSE {p}) /\ x_ifaddr' = i
    BY Zenon, <1>4 DEF BindOpens
  <2>3. x_port' \in Ports
    BY <2>2
  <2>4. x_port' \in 0 .. PortMax
    BY <2>3, PortValues
  <2> QED
    BY <1>2, <2>1, <2>2, <2>4 DEF BindStep
<1> QED
  BY <1>3, <1>4

(* Binding again leaves the table alone, and the types of the rest.        *)
LEMMA BindKeeps ==
  ASSUME ServerInv, BindStep
  PROVE  ServerInv'
<1>1. UNCHANGED <<x_sr, x_nconnections, x_lastchecked, checkedwith, live, stopped,
                  optVars, x_defaulttarget, uniq, now, loop, ub, freed>>
  BY Zenon DEF BindStep
<1>2. TableInv'
  <2>1. TableTypes(Table)'
    BY <1>1, TableFacts DEF GoodTable, TableTypes, Table, optVars
  <2>2. SlotsLive(Table)' /\ SlotsFresh(Table)'
    BY <1>1, TableFacts DEF GoodTable, SlotsLive, SlotsFresh, Table, optVars
  <2> QED
    BY <2>1, <2>2 DEF TableInv, GoodTable
<1>3. UniqInv' /\ stopped' \subseteq live'
  BY <1>1, TableFacts DEF UniqInv
<1>4. OtherTypes'
  BY <1>1, OtherFacts, OtherKept
<1>5. BindTypes'
  <2>1. /\ openfds \subseteq Fds /\ polled \in Seq(Fds)
        /\ x_receiver \in Fds \cup {-1}
    BY DEF ServerInv, BindTypes
  <2>2. /\ x_connectsocket' \in Fds \cup {-1} /\ x_receiver' \in Fds \cup {-1}
        /\ openfds' \subseteq Fds /\ polled' \in Seq(Fds)
    BY <2>1 DEF BindStep
  <2>3. x_port' \in 0 .. PortMax /\ x_ifaddr' \in Ifs \cup {0}
    BY DEF BindStep
  <2> QED
    BY <2>2, <2>3 DEF BindTypes
<1> QED
  BY <1>2, <1>3, <1>4, <1>5 DEF ServerInv

(* udpserver_free *)
LEMMA FreeKeeps ==
  ASSUME ServerInv, Free
  PROVE  ServerInv' /\ x_connectsocket' = -1 /\ freed' = TRUE
<1> DEFINE gone == {x_sr[i].uniq : i \in Slots}
<1>1. /\ live' = live \ gone /\ stopped' = stopped \ gone
      /\ openfds' \subseteq openfds
      /\ x_sr' = [i \in Slots |-> NoClient]
      /\ polled' = RemoveFirst(polled, x_receiver)
      /\ x_receiver' = -1 /\ x_connectsocket' = -1 /\ freed' = TRUE
      /\ UNCHANGED <<x_nconnections, x_lastchecked, checkedwith, x_port, x_ifaddr,
                     optVars, x_defaulttarget, uniq, now, loop, ub>>
  BY DEF Free
<1> HIDE DEF gone
<1>2. TableInv'
  <2>1. /\ x_nconnections \in 0 .. MaxSlots /\ x_nconnections <= x_maxconnections
        /\ live \subseteq Uniqs
        /\ x_lastchecked \in 0 .. now /\ checkedwith \in Int
    BY TableFacts DEF GoodTable, TableTypes, Table
  <2>2. TableTypes(Table)'
    BY <1>1, <2>1 DEF TableTypes, Table, optVars
  <2>3. SlotsLive(Table)' /\ SlotsFresh(Table)'
    BY <1>1 DEF SlotsLive, SlotsFresh, Table
  <2> QED
    BY <2>2, <2>3 DEF TableInv, GoodTable
<1>3. UniqInv' /\ stopped' \subseteq live'
  BY <1>1, TableFacts DEF UniqInv
<1>4. OtherTypes'
  <2>1. OtherTypes
    BY OtherFacts
  <2>2. /\ x_maxconnections' \in 1 .. MaxSlots /\ x_accept' \in BOOLEAN
        /\ x_timeout' \in Timeouts \cup {0} /\ now' \in 0 .. MaxTime
    BY Zenon, <1>1, <2>1 DEF OtherTypes, optVars
  <2>3. /\ x_defaulttarget' \in TargetValues /\ uniq' \in UniqValues
        /\ loop' \in Loops /\ ub' \in BOOLEAN /\ freed' \in BOOLEAN
    BY <1>1, OtherFacts
  <2> QED
    BY Zenon, <2>2, <2>3 DEF OtherTypes
<1>5. BindTypes'
  <2>1. /\ openfds \subseteq Fds /\ polled \in Seq(Fds)
        /\ x_port \in 0 .. PortMax /\ x_ifaddr \in Ifs \cup {0}
    BY DEF ServerInv, BindTypes
  <2>2. polled' \in Seq(Fds)
    BY <1>1, <2>1, RemoveFirstType
  <2> QED
    BY <1>1, <2>1, <2>2 DEF BindTypes
<1> QED
  BY <1>1, <1>2, <1>3, <1>4, <1>5 DEF ServerInv

----------------------------------------------------------------------------
(* Every step is about the table and the options, about the socket, or the *)
(* end of the object.                                                      *)
LEMMA StepCases ==
  ASSUME ServerInv, Next
  PROVE  QuietStep \/ BindStep \/ Free \/ UNCHANGED vars
<1>1. CASE \E a \in Addrs : Receive(a) \/ AddClient(a)
  BY <1>1, AddStep
<1>2. CASE Info
  BY <1>2, InfoStep
<1>3. CASE \E data \in Payloads :
             \/ Broadcast(data)
             \/ DefaultSendOne(data) \/ DefaultSendBut(data) \/ DefaultSendAll(data)
             \/ \E k \in 1 .. MaxSlots : SendClient(k, data)
  BY <1>3, SendOneStep, SendAllStep
<1>4. CASE SendStep \/ DisconnectStep
  BY <1>4, LoopStep
<1>5. CASE \E raw \in Targets : DefaultTarget(raw)
  BY <1>5, DefaultTargetStep
<1>6. CASE \E k \in 1 .. MaxSlots : DisconnectClient(k)
  BY <1>6, DisconnectClientStep
<1>7. CASE DisconnectAll \/ LoopDone \/ DefaultSendCrashes
  BY <1>7, ControlStep
<1>8. CASE \E port \in Ports \cup {0}, i \in Ifs \cup {0} :
             BindSame(port, i) \/ BindFails(port, i) \/ BindOpens(port, i)
  BY Zenon, <1>8, BindIsStep DEF BindSame
<1>9. CASE \/ \E on \in BOOLEAN : Accept(on)
           \/ \E ms \in Timeouts : Timeout(ms)
  BY <1>9, OptionStep
<1>10. CASE \E m \in Capacities : MaxConnections(m)
  BY <1>10, MaxConnectionsStep
<1>11. CASE SenderStops \/ Tick
  BY <1>11, SenderStopsStep, TickStep
<1> QED
  BY Zenon, <1>1, <1>2, <1>3, <1>4, <1>5, <1>6, <1>7, <1>8, <1>9, <1>10, <1>11
  DEF Next

(* A step that is not about the socket leaves all of the invariant.        *)
LEMMA QuietKeeps ==
  ASSUME ServerInv, QuietStep
  PROVE  ServerInv'
<1>1. /\ (\E v : TableKept(v)) /\ OtherTypes' /\ UNCHANGED bindVars
      /\ BindTypes
  BY Zenon DEF QuietStep, ServerInv
<1>2. TableInv' /\ UniqInv' /\ stopped' \subseteq live' /\ openfds' \subseteq openfds
  BY <1>1 DEF TableKept
<1>3. BindTypes'
  BY <1>1, <1>2 DEF BindTypes, bindVars
<1> QED
  BY Zenon, <1>1, <1>2, <1>3 DEF ServerInv

(* Nothing changes.                                                        *)
LEMMA StutterKeeps ==
  ASSUME ServerInv, UNCHANGED vars
  PROVE  ServerInv'
<1>1. /\ UNCHANGED <<tableVars, bindVars, optVars, x_defaulttarget, uniq, now,
                     loop, ub, freed>>
  BY DEF vars
<1>2. TableKept(-1)
  BY <1>1, TableUnchanged DEF optVars
<1>3. OtherTypes'
  BY <1>1, OtherFacts, OtherKept
<1> QED
  BY <1>1, <1>2, <1>3, NobodyAddressed, QuietKeeps DEF QuietStep

(* The invariant is kept by every step.                                    *)
LEMMA ServerInvInductive ==
  ServerInv /\ [Next]_vars => ServerInv'
BY StepCases, QuietKeeps, BindKeeps, FreeKeeps, StutterKeeps

(* udpserver_new.                                                          *)
LEMMA InitServerInv == Init => ServerInv
<1> SUFFICES ASSUME Init
             PROVE  ServerInv
  OBVIOUS
<1>1. /\ x_sr = [i \in Slots |-> NoClient]
      /\ x_nconnections = 0 /\ x_maxconnections = InitMax
      /\ x_lastchecked = 0 /\ checkedwith = 0 /\ now = 0
      /\ live = {} /\ stopped = {}
  BY DEF Init
<1>2. /\ MaxSlots \in Nat /\ InitMax \in 1 .. MaxSlots
      /\ MaxTime \in Nat /\ MaxClients \in Nat
  BY UdpCapacityAssumption, UdpNumbersAssumption
<1>3. TableInv
  <2>1. TableTypes(Table)
    BY <1>1, <1>2 DEF TableTypes, Table
  <2>2. SlotsLive(Table) /\ SlotsFresh(Table)
    BY <1>1 DEF SlotsLive, SlotsFresh, Table
  <2> QED
    BY <2>1, <2>2 DEF TableInv, GoodTable
<1>4. UniqInv /\ stopped \subseteq live
  BY <1>1 DEF UniqInv
<1>5. OtherTypes
  <2>1. x_maxconnections \in 1 .. MaxSlots /\ now \in 0 .. MaxTime
    BY <1>1, <1>2
  <2>2. x_accept \in BOOLEAN /\ ub \in BOOLEAN /\ freed \in BOOLEAN
    BY Zenon DEF Init
  <2>3. /\ x_timeout \in Timeouts \cup {0} /\ x_defaulttarget \in TargetValues
        /\ loop \in Loops
    BY LoopTypes DEF Init, TargetValues
  <2>4. uniq \in UniqValues
    BY <1>2 DEF Init, UniqValues, Uniqs, FirstUniq
  <2> QED
    BY Zenon, <2>1, <2>2, <2>3, <2>4 DEF OtherTypes
<1>6. BindTypes
  <2>1. /\ x_connectsocket = -1 /\ x_port = NoPort /\ x_ifaddr = 0
        /\ x_receiver = -1 /\ openfds = {} /\ polled = <<>>
    BY DEF Init
  <2> QED
    BY <2>1, PortValues DEF BindTypes
<1> QED
  BY Zenon, <1>3, <1>4, <1>5, <1>6 DEF ServerInv

----------------------------------------------------------------------------
(* The inductive invariant holds of every [udpserver], whatever datagrams, *)
(* messages, time-outs and stopped senders it meets.                       *)
THEOREM UdpServerInvariant == Spec => []ServerInv
BY InitServerInv, ServerInvInductive, PTL DEF Spec

(* Every variable of udpserver.c keeps its type: the counters their range, *)
(* x_port its 16 bits, the table its clients.                              *)
THEOREM UdpServerTypes == Spec => []TypeOK
<1>1. ServerInv => TypeOK
  <2> SUFFICES ASSUME ServerInv
               PROVE  TypeOK
    OBVIOUS
  <2>1. /\ x_sr \in [Slots -> Clients \cup {NoClient}]
        /\ x_nconnections \in 0 .. MaxSlots /\ x_lastchecked \in 0 .. now
        /\ live \subseteq Uniqs /\ checkedwith \in Int
    BY TableFacts DEF GoodTable, TableTypes, Table
  <2>2. OtherTypes /\ BindTypes /\ stopped \subseteq live
    BY Zenon DEF ServerInv
  <2>3. /\ x_maxconnections \in 1 .. MaxSlots
        /\ x_accept \in BOOLEAN /\ x_timeout \in Timeouts \cup {0}
        /\ now \in 0 .. MaxTime
        /\ x_defaulttarget \in TargetValues
        /\ uniq \in UniqValues
        /\ loop \in Loops
        /\ ub \in BOOLEAN /\ freed \in BOOLEAN
    BY Zenon, <2>2 DEF OtherTypes
  <2>4. /\ x_connectsocket \in Fds \cup {-1} /\ x_receiver \in Fds \cup {-1}
        /\ x_port \in 0 .. PortMax /\ x_ifaddr \in Ifs \cup {0}
        /\ openfds \subseteq Fds /\ polled \in Seq(Fds)
    BY Zenon, <2>2 DEF BindTypes
  <2> QED
    BY Zenon, <2>1, <2>2, <2>3, <2>4
    DEF TypeOK, TargetValues, UniqValues, Loops
<1> QED
  BY <1>1, UdpServerInvariant, PTL

(* udpserver_sender_remove leaves holes, udpserver_sender_autoremove moves *)
(* the clients, udpserver_sender_add overwrites the slot x_nconnections:   *)
(* no slot ever points to a freed client, none shares one with another,    *)
(* and x_nconnections stays within the capacity.                           *)
THEOREM UdpServerSlots == Spec => []SlotsHoldLiveClients
<1>1. ServerInv => SlotsHoldLiveClients
  <2> SUFFICES ASSUME ServerInv
               PROVE  SlotsHoldLiveClients
    OBVIOUS
  <2>1. \A i \in Slots : x_sr[i] # NoClient =>
          /\ i < x_maxconnections /\ x_sr[i].uniq \in live
          /\ \A j \in Slots : x_sr[j].uniq = x_sr[i].uniq => i = j
    BY TableFacts DEF GoodTable, SlotsLive, Table
  <2> QED
    BY <2>1, TableFacts DEF SlotsHoldLiveClients
<1> QED
  BY <1>1, UdpServerInvariant, PTL

(* udpserver_sender_autoremove returns at once when it was called before   *)
(* at this logical time.  Nothing that happens in between leaves it an     *)
(* expired client to find.                                                 *)
THEOREM UdpServerFresh == Spec => []CheckedIsFresh
<1>1. ServerInv => CheckedIsFresh
  <2> SUFFICES ASSUME ServerInv
               PROVE  CheckedIsFresh
    OBVIOUS
  <2>1. (checkedwith > 0 /\ x_lastchecked = now) =>
          \A i \in Slots : x_sr[i] # NoClient => now - x_sr[i].seen <= checkedwith
    BY TableFacts DEF GoodTable, SlotsFresh, Table
  <2> QED
    BY <2>1 DEF CheckedIsFresh
<1> QED
  BY <1>1, UdpServerInvariant, PTL

(* The socket the clients share stays polled and open however many of them *)
(* come and go, for whatever descriptors the operating system hands out.   *)
(* To free a client is to close the descriptor that has the client's       *)
(* number (udpserver_sender_free): only a socket with the number of a      *)
(* freed client can be lost.                                               *)
THEOREM UdpServerSocketOpen == Spec => []BoundSocketOpen
<1>1. Init => BoundSocketOpen
  BY DEF Init, BoundSocketOpen
<1>2. ServerInv /\ BoundSocketOpen /\ [Next]_vars => BoundSocketOpen'
  <2> SUFFICES ASSUME ServerInv, BoundSocketOpen, [Next]_vars
               PROVE  BoundSocketOpen'
    OBVIOUS
  <2>1. CASE QuietStep
    <3>1. /\ UNCHANGED bindVars
          /\ FreedClients \subseteq FreedClients'
          /\ openfds \ openfds' \subseteq FreedClients'
      BY <2>1 DEF QuietStep, TableKept
    <3>2. \A fd \in openfds \cup FreedClients : fd \in openfds' \cup FreedClients'
      BY <3>1
    <3> QED
      BY <3>1, <3>2 DEF BoundSocketOpen, bindVars
  <2>2. CASE BindStep
    <3>1. polled \in Seq(Fds)
      BY DEF ServerInv, BindTypes
    <3>2. CASE x_connectsocket' = -1
      BY <3>2 DEF BoundSocketOpen
    <3>3. CASE /\ x_connectsocket' \in Fds /\ x_receiver' = x_connectsocket'
               /\ openfds' = (openfds \ {x_connectsocket}) \cup {x_connectsocket'}
               /\ polled' = Append(polled, x_connectsocket')
      <4>1. /\ Len(polled') \in Nat /\ Len(polled') >= 1
            /\ polled'[Len(polled')] = x_connectsocket'
        BY <3>1, <3>3
      <4>2. Len(polled') \in 1 .. Len(polled')
        BY <4>1
      <4> QED
        BY <3>3, <4>1, <4>2 DEF BoundSocketOpen
    <3> QED
      BY <2>2, <3>2, <3>3 DEF BindStep
  <2>3. CASE Free
    BY <2>3, FreeKeeps DEF BoundSocketOpen
  <2>4. CASE UNCHANGED vars
    BY <2>4 DEF vars, bindVars, tableVars, BoundSocketOpen, FreedClients
  <2> QED
    BY <2>1, <2>2, <2>3, <2>4, StepCases
<1> QED
  BY <1>1, <1>2, UdpServerInvariant, PTL DEF Spec

(* No step of udpserver.c but the deletion of the object frees a client    *)
(* that was heard of within x_timeout, unless it is the step that          *)
(* disconnects this very client or that its stopped sender refuses.        *)
THEOREM UdpServerNobodyExpiresEarly == Spec => NobodyExpiresEarly
<1> DEFINE Early ==
      ~freed' =>
        \A i \in Slots :
          /\ x_sr[i].uniq \in live \ live'
          /\ x_timeout <= 0 \/ now - x_sr[i].seen <= x_timeout
          => Disconnects(i) \/ Refuses(i)
<1>1. ServerInv /\ [Next]_vars => [Early]_vars
  <2> SUFFICES ASSUME ServerInv, Next, ~freed',
                      NEW i \in Slots, x_sr[i].uniq \in live \ live',
                      x_timeout <= 0 \/ now - x_sr[i].seen <= x_timeout
               PROVE  Disconnects(i) \/ Refuses(i)
    OBVIOUS
  <2>1. PICK v : TableKept(v) /\ Addressed(v)
    <3>1. ~Free
      BY Zenon, FreeKeeps
    <3>2. ~BindStep /\ ~UNCHANGED vars
      BY DEF BindStep, vars, tableVars
    <3> QED
      BY <3>1, <3>2, StepCases DEF QuietStep
  <2>2. \A u \in live \ live' : u = v \/ Aged(Table, u)
    BY <2>1 DEF TableKept
  <2>3. /\ live \subseteq Uniqs
        /\ x_sr \in [Slots -> Clients \cup {NoClient}]
        /\ \A k \in Slots : x_sr[k] # NoClient =>
             \A l \in Slots : x_sr[l].uniq = x_sr[k].uniq => k = l
    BY TableFacts DEF GoodTable, SlotsLive, Table
  <2>4. x_timeout \in Int /\ now \in Int
    BY TableFacts, Numbers
  <2>5. x_sr[i] # NoClient /\ x_sr[i].uniq # -1 /\ x_sr[i].seen \in Int
    BY <2>3, ClientFields
  <2>6. ~Aged(Table, x_sr[i].uniq)
    <3> SUFFICES ASSUME x_timeout > 0,
                        NEW l \in Slots, x_sr[l] # NoClient,
                        x_sr[l].uniq = x_sr[i].uniq, Expired(x_sr[l])
                 PROVE  FALSE
      BY DEF Aged, Table
    <3>1. l = i
      BY <2>3, <2>5
    <3>2. now - x_sr[i].seen > x_timeout
      BY <3>1 DEF Expired
    <3> QED
      BY <2>4, <2>5, <3>2
  <2>7. x_sr[i].uniq = v
    BY <2>2, <2>6
  <2>8. PICK j \in Slots : v = x_sr[j].uniq /\ (Disconnects(j) \/ Refuses(j))
    BY Zenon, <2>1, <2>5, <2>7 DEF Addressed
  <2>9. i = j
    BY <2>3, <2>5, <2>7, <2>8
  <2> QED
    BY Zenon, <2>8, <2>9
<1>2. [Early]_vars => [~freed' =>
        \A i \in Slots :
          /\ x_sr[i].uniq \in live \ live'
          /\ x_timeout <= 0 \/ now - x_sr[i].seen <= x_timeout
          => Disconnects(i) \/ Refuses(i)]_vars
  OBVIOUS
<1> HIDE DEF Early
<1> QED
  BY <1>1, <1>2, UdpServerInvariant, PTL DEF Spec, NobodyExpiresEarly
============================================================================
