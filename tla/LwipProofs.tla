----------------------------- MODULE LwipProofs -----------------------------
(***************************************************************************)
(* Proofs about four parts of lwIP.  The ARP table is sound (ArpSound of   *)
(* module Etharp) for every network, size of the table and age, from an    *)
(* inductive invariant: what an entry says was heard as long ago as the    *)
(* entry is old.  IGMP answers the queries of the router (QueriesAnswered  *)
(* of module Igmp) for any groups and delays.  Sockets serve their readers *)
(* (ReadersAreServed of module Sockets): whatever the threads, the sockets *)
(* and the bytes, select wakes, recv does not wait with something in its   *)
(* hand, and the bytes are read in the order in which they came.  And who  *)
(* waits for the address of a name has an entry of the resolver that will  *)
(* end (NobodyWaitsForNothing of module Dns).                              *)
(***************************************************************************)
EXTENDS Etharp, Igmp, Sockets, Dns, FiniteSetTheorems, SequenceTheorems, WellFoundedInduction, TLAPS

(* ARP *)

Entry == [state : {"empty", "pending", "stable"}, ip : Hosts \cup {NoHost},
          mac : Macs \cup {NoHost}, ctime : Nat, q : Hosts \cup {NoHost}]

ArpTypeOK ==
    /\ table \in [Slots -> Entry]
    /\ cached \in Slots
    /\ heard \in [Hosts -> [mac : Macs \cup {NoHost}, age : Nat]]

(* Each entry by itself: its address, what it waits for, and its age.      *)
EntryOK(e) ==
    /\ e.state # "empty" => e.ip \in Hosts
    /\ e.state = "stable" => e.ctime < MaxAge
    /\ e.state = "pending" => e.ctime < MaxPending
    /\ e.q # NoHost => e.state = "pending" /\ e.q = e.ip

(* A stable entry is what its host said last.                              *)
Current(e, h) == e.state = "stable" => h[e.ip].mac = e.mac /\ h[e.ip].age = e.ctime

NoTwins(t) ==
    \A i, j \in Slots : i # j /\ t[i].state # "empty" /\ t[j].state # "empty" => t[i].ip # t[j].ip

ArpInv ==
    /\ ArpTypeOK
    /\ \A i \in Slots : EntryOK(table[i]) /\ Current(table[i], heard)
    /\ NoTwins(table)
    /\ SentToOwner

-----------------------------------------------------------------------------
(* The least element of a set of natural numbers, for Min.                 *)
LEMMA LeastExists ==
    ASSUME NEW S, S \subseteq Nat, S # {}
    PROVE  \E x \in S : \A y \in S : x <= y
<1>1. PICK x \in S : \A y \in S : ~(<<y, x>> \in OpToRel(<, Nat))
  BY NatLessThanWellFounded, WFMin, Zenon
<1>2. ASSUME NEW y \in S PROVE x <= y
  <2>1. ~(<<y, x>> \in OpToRel(<, Nat))
    BY <1>1
  <2>2. y \in Nat /\ x \in Nat
    OBVIOUS
  <2>3. ~(y < x)
    BY <2>1, <2>2 DEF OpToRel
  <2> QED BY <2>2, <2>3
<1> QED BY <1>2

LEMMA MinOfSlots ==
    ASSUME NEW S, S \subseteq Slots, S # {}
    PROVE  Min(S) \in S
<1>1. S \subseteq Nat
  BY DEF Slots
<1>2. \E x \in S : \A y \in S : x <= y
  BY <1>1, LeastExists
<1> QED BY <1>2 DEF Min

(* find_entry's oldest entry exists: ages have a bound.                    *)
LEMMA OldestOfSlots ==
    ASSUME NEW t \in [Slots -> Entry], NEW s, s \subseteq Slots, s # {},
           NEW B \in Nat, \A i \in s : t[i].ctime <= B
    PROVE  Oldest(t, s) \in s
<1> DEFINE Youth == {B - t[i].ctime : i \in s}
<1>1. \A i \in s : t[i].ctime \in Nat /\ i \in Nat /\ i <= TableSize
  BY DEF Slots, Entry
<1>2. Youth \subseteq Nat /\ Youth # {}
  BY <1>1
<1>3. PICK k \in Youth : \A y \in Youth : k <= y
  BY <1>2, LeastExists
<1> DEFINE Old == {i \in s : t[i].ctime = B - k}
<1> DEFINE Rank == {TableSize - i : i \in Old}
<1>4. Old # {}
  BY <1>1, <1>3
<1>5. Rank \subseteq Nat /\ Rank # {}
  BY <1>1, <1>4, ArpAssumption
<1>6. PICK r \in Rank : \A y \in Rank : r <= y
  BY <1>5, LeastExists
<1>7. PICK i \in Old : r = TableSize - i
  BY <1>6
<1>8. ASSUME NEW j \in s
      PROVE  t[j].ctime < t[i].ctime \/ (t[j].ctime = t[i].ctime /\ j <= i)
  <2>1. k <= B - t[j].ctime
    BY <1>3
  <2>2. CASE t[j].ctime = t[i].ctime
    <3>1. j \in Old
      BY <1>7, <2>2
    <3>2. r <= TableSize - j
      BY <1>6, <3>1
    <3> QED BY <1>1, <1>7, <2>2, <3>2, ArpAssumption
  <2>3. CASE t[j].ctime # t[i].ctime
    BY <1>1, <1>2, <1>3, <1>7, <2>1, <2>3
  <2> QED BY <2>2, <2>3
<1> HIDE DEF Youth, Old, Rank
<1>9. i \in s
  BY <1>7 DEF Old
<1> QED BY <1>8, <1>9 DEF Oldest

(* The least important entry is an entry, whatever the table holds.        *)
LEMMA VictimIsSlot ==
    ASSUME NEW t \in [Slots -> Entry], \A i \in Slots : EntryOK(t[i])
    PROVE  Victim(t) \in Slots
<1> DEFINE waiting == {i \in In(t, "pending") : t[i].q # NoHost}
<1> DEFINE idle == In(t, "pending") \ waiting
<1>1. \A i \in Slots : t[i].state \in {"empty", "pending", "stable"}
  BY DEF Entry
<1>2. In(t, "empty") \subseteq Slots /\ In(t, "stable") \subseteq Slots
        /\ idle \subseteq Slots /\ waiting \subseteq Slots
  BY DEF In
<1>3. CASE In(t, "empty") # {}
  <2>1. Min(In(t, "empty")) \in Slots
    BY <1>2, <1>3, MinOfSlots
  <2> QED BY <1>3, <2>1 DEF Victim
<1>4. MaxAge \in Nat /\ MaxPending \in Nat
  BY ArpAssumption
<1>5. CASE In(t, "empty") = {} /\ In(t, "stable") # {}
  <2>1. \A i \in In(t, "stable") : t[i].ctime <= MaxAge
    BY <1>4 DEF In, EntryOK, Entry
  <2>2. Oldest(t, In(t, "stable")) \in Slots
    BY <1>2, <1>4, <1>5, <2>1, OldestOfSlots
  <2> QED BY <1>5, <2>2 DEF Victim
<1>6. CASE In(t, "empty") = {} /\ In(t, "stable") = {}
  <2>1. \A i \in In(t, "pending") : t[i].ctime <= MaxPending
    BY <1>4 DEF In, EntryOK, Entry
  <2>2. 1 \in Slots
    BY ArpAssumption DEF Slots
  <2>3. idle # {} \/ waiting # {}
    BY <1>1, <1>6, <2>2 DEF In
  <2>4. idle # {} => Oldest(t, idle) \in Slots
    BY <1>2, <1>4, <2>1, OldestOfSlots
  <2>5. waiting # {} => Oldest(t, waiting) \in Slots
    BY <1>2, <1>4, <2>1, OldestOfSlots
  <2> QED BY <1>6, <2>3, <2>4, <2>5 DEF Victim
<1> QED BY <1>3, <1>5, <1>6

(* find_entry: the one entry of the address, or a fresh one in the place   *)
(* of the least important; the others stay as they are.                    *)
LEMMA FindEntryFinds ==
    ASSUME NEW t \in [Slots -> Entry], NEW ip \in Hosts,
           \A i \in Slots : EntryOK(t[i]), NoTwins(t),
           NEW i, NEW u, i = FindEntry(t, ip).i, u = FindEntry(t, ip).t
    PROVE  /\ i \in Slots /\ u \in [Slots -> Entry]
           /\ \A j \in Slots \ {i} :
                 u[j] = t[j] /\ (t[j].state # "empty" => t[j].ip # ip)
           /\ u[i].ip = ip
           /\ \/ u[i] = t[i] /\ t[i].state # "empty"
              \/ u[i] = [Free EXCEPT !.ip = ip] /\ Matching(t, ip) = {}
<1>1. CASE Matching(t, ip) # {}
  <2>1. Min(Matching(t, ip)) \in Matching(t, ip)
    BY <1>1, MinOfSlots DEF Matching
  <2>2. i = Min(Matching(t, ip)) /\ u = t
    BY <1>1 DEF FindEntry
  <2>3. i \in Slots /\ t[i].state # "empty" /\ t[i].ip = ip
    BY <2>1, <2>2 DEF Matching
  <2> QED BY <2>2, <2>3 DEF NoTwins
<1>2. CASE Matching(t, ip) = {}
  <2>1. i = Victim(t) /\ u = [t EXCEPT ![i] = [Free EXCEPT !.ip = ip]]
    BY <1>2 DEF FindEntry
  <2>2. i \in Slots
    BY <2>1, VictimIsSlot
  <2>3. [Free EXCEPT !.ip = ip] \in Entry
    BY DEF Free, Entry
  <2>4. [Free EXCEPT !.ip = ip].ip = ip
    BY DEF Free
  <2> QED BY <1>2, <2>1, <2>2, <2>3, <2>4 DEF Matching
<1> QED BY <1>1, <1>2

-----------------------------------------------------------------------------
LEMMA ArpInitial == ArpInit => ArpInv
<1> SUFFICES ASSUME ArpInit PROVE ArpInv
  OBVIOUS
<1>1. Free \in Entry /\ Free.state = "empty" /\ Free.q = NoHost
  BY DEF Free, Entry
<1>2. ArpTypeOK
  BY <1>1, ArpAssumption DEF ArpInit, ArpTypeOK, Slots
<1>3. \A i \in Slots : table[i] = Free
  BY DEF ArpInit
<1>4. (\A i \in Slots : EntryOK(table[i]) /\ Current(table[i], heard)) /\ NoTwins(table)
  BY <1>1, <1>3 DEF EntryOK, Current, NoTwins
<1>5. SentToOwner
  BY DEF ArpInit, SentToOwner
<1> QED BY <1>2, <1>4, <1>5 DEF ArpInv

(* The same of the table as it is: the entry found is right, and it is the *)
(* only one of the address.                                                *)
LEMMA Found ==
    ASSUME ArpInv, NEW ip \in Hosts,
           NEW i, NEW u, i = FindEntry(table, ip).i, u = FindEntry(table, ip).t
    PROVE  /\ i \in Slots /\ u \in [Slots -> Entry]
           /\ \A j \in Slots \ {i} :
                 u[j] = table[j] /\ (table[j].state # "empty" => table[j].ip # ip)
           /\ u[i].ip = ip /\ EntryOK(u[i]) /\ Current(u[i], heard)
<1>1. table \in [Slots -> Entry] /\ NoTwins(table)
  BY DEF ArpInv, ArpTypeOK
<1>2. \A j \in Slots : EntryOK(table[j]) /\ Current(table[j], heard)
  BY DEF ArpInv
<1>3. /\ i \in Slots /\ u \in [Slots -> Entry]
      /\ \A j \in Slots \ {i} :
            u[j] = table[j] /\ (table[j].state # "empty" => table[j].ip # ip)
      /\ u[i].ip = ip
      /\ \/ u[i] = table[i] /\ table[i].state # "empty"
         \/ u[i] = [Free EXCEPT !.ip = ip] /\ Matching(table, ip) = {}
  BY <1>1, <1>2, FindEntryFinds
<1>4. CASE u[i] = table[i]
  BY <1>2, <1>3, <1>4
<1>5. CASE u[i] = [Free EXCEPT !.ip = ip]
  <2>1. u[i].state = "empty" /\ u[i].q = NoHost
    BY <1>5 DEF Free
  <2>2. EntryOK(u[i]) /\ Current(u[i], heard)
    BY <2>1 DEF EntryOK, Current
  <2> QED BY <1>3, <2>2
<1> QED BY <1>3, <1>4, <1>5

(* An entry that is not stable is fresh or asked for a short while ago.    *)
LEMMA FreshOrPending ==
    ASSUME ArpInv, NEW ip \in Hosts,
           NEW i, NEW u, i = FindEntry(table, ip).i, u = FindEntry(table, ip).t,
           u[i].state # "stable"
    PROVE  u[i].ctime < MaxPending
<1>1. table \in [Slots -> Entry] /\ NoTwins(table) /\ \A j \in Slots : EntryOK(table[j])
  BY DEF ArpInv, ArpTypeOK
<1>2. /\ i \in Slots
      /\ \/ u[i] = table[i] /\ table[i].state # "empty"
         \/ u[i] = [Free EXCEPT !.ip = ip] /\ Matching(table, ip) = {}
  BY <1>1, FindEntryFinds
<1>3. CASE u[i] = table[i] /\ table[i].state # "empty"
  <2>1. table[i] \in Entry /\ EntryOK(table[i])
    BY <1>1, <1>2
  <2> QED BY <1>3, <2>1 DEF Entry, EntryOK
<1>4. CASE u[i] = [Free EXCEPT !.ip = ip]
  <2>1. u[i].ctime = 0
    BY <1>4 DEF Free
  <2> QED BY <2>1, ArpAssumption
<1> QED BY <1>2, <1>3, <1>4

(* The table find_entry gives, with ip's entry changed to a right one,     *)
(* when only what ip said may have changed.                                *)
LEMMA EntryChanged ==
    ASSUME ArpInv, NEW ip \in Hosts, NEW h,
           \A a \in Hosts \ {ip} : h[a] = heard[a],
           NEW i, NEW u, i = FindEntry(table, ip).i, u = FindEntry(table, ip).t,
           NEW e \in Entry, e.ip = ip, EntryOK(e), Current(e, h),
           NEW t, t = [u EXCEPT ![i] = e]
    PROVE  /\ t \in [Slots -> Entry]
           /\ \A j \in Slots : EntryOK(t[j]) /\ Current(t[j], h)
           /\ NoTwins(t)
<1>1. /\ i \in Slots /\ u \in [Slots -> Entry]
      /\ \A j \in Slots \ {i} :
            u[j] = table[j] /\ (table[j].state # "empty" => table[j].ip # ip)
  BY Found
<1>2. t \in [Slots -> Entry] /\ t[i] = e /\ \A j \in Slots \ {i} : t[j] = table[j]
  BY <1>1
<1>3. ASSUME NEW j \in Slots PROVE EntryOK(t[j]) /\ Current(t[j], h)
  <2>1. CASE j = i
    BY <1>2, <2>1
  <2>2. CASE j # i
    <3>1. EntryOK(table[j]) /\ Current(table[j], heard)
      BY DEF ArpInv
    <3>2. table[j].state # "empty" => table[j].ip # ip
      BY <1>1, <2>2
    <3> QED BY <1>2, <2>2, <3>1, <3>2 DEF EntryOK, Current
  <2> QED BY <2>1, <2>2
<1>4. NoTwins(t)
  <2>1. NoTwins(table)
    BY DEF ArpInv
  <2> QED BY <1>1, <1>2, <2>1 DEF NoTwins
<1> QED BY <1>2, <1>3, <1>4

(* A stable entry leads to where its host said last to be.                 *)
LEMMA SendIsSafe ==
    ASSUME ArpInv, NEW e, e.state = "stable", e.ip \in Hosts, EntryOK(e), Current(e, heard)
    PROVE  e.mac = heard[e.ip].mac /\ heard[e.ip].age < MaxAge
BY DEF EntryOK, Current

(* The conjuncts of the invariant, put together for the next state.        *)
LEMMA Together ==
    ASSUME table' \in [Slots -> Entry], cached' \in Slots,
           heard' \in [Hosts -> [mac : Macs \cup {NoHost}, age : Nat]],
           \A j \in Slots : EntryOK(table'[j]) /\ Current(table'[j], heard'),
           NoTwins(table'), SentToOwner'
    PROVE  ArpInv'
BY DEF ArpInv, ArpTypeOK, EntryOK, Current, NoTwins

-----------------------------------------------------------------------------
LEMMA OutputSafe == ASSUME ArpInv, NEW ip \in Hosts, Output(ip) PROVE ArpInv'
<1>1. PICK i, u : i = FindEntry(table, ip).i /\ u = FindEntry(table, ip).t
  OBVIOUS
<1>2. /\ i \in Slots /\ u \in [Slots -> Entry]
      /\ u[i].ip = ip /\ EntryOK(u[i]) /\ Current(u[i], heard)
  BY <1>1, Found
<1>3. heard' = heard /\ heard \in [Hosts -> [mac : Macs \cup {NoHost}, age : Nat]]
      /\ cached \in Slots /\ table \in [Slots -> Entry] /\ NoTwins(table)
  BY DEF Output, ArpInv, ArpTypeOK
<1>4. \A j \in Slots : EntryOK(table[j]) /\ Current(table[j], heard)
  BY DEF ArpInv
<1>5. CASE Hit(ip) /\ frames' = {Packet(ip, table[cached].mac)} /\ UNCHANGED <<table, cached>>
  <2>1. table[cached].mac = heard[ip].mac /\ heard[ip].age < MaxAge
    BY <1>3, <1>4, <1>5, SendIsSafe DEF Hit
  <2>2. SentToOwner'
    BY <1>3, <1>5, <2>1 DEF SentToOwner, Packet
  <2> QED BY <1>3, <1>4, <1>5, <2>2, Together
<1>6. CASE /\ u[i].state = "stable" /\ frames' = {Packet(ip, u[i].mac)}
           /\ cached' = i /\ table' = u
  <2>1. u[i].mac = heard[ip].mac /\ heard[ip].age < MaxAge
    BY <1>2, <1>6, SendIsSafe
  <2>2. SentToOwner'
    BY <1>3, <1>6, <2>1 DEF SentToOwner, Packet
  <2>3. u = [u EXCEPT ![i] = u[i]] /\ u[i] \in Entry
    BY <1>2
  <2>4. /\ u \in [Slots -> Entry] /\ NoTwins(u)
        /\ \A j \in Slots : EntryOK(u[j]) /\ Current(u[j], heard)
    BY <1>1, <1>2, <2>3, EntryChanged
  <2> QED BY <1>2, <1>3, <1>6, <2>2, <2>4, Together
<1>7. CASE /\ u[i].state # "stable" /\ frames' = {Request(ip)}
           /\ table' = [u EXCEPT ![i].state = "pending", ![i].q = ip] /\ UNCHANGED cached
  <2>1. SentToOwner'
    BY <1>7 DEF SentToOwner, Request
  <2>2. PICK e : e = [u[i] EXCEPT !.state = "pending", !.q = ip]
    OBVIOUS
  <2>3. u[i] \in Entry
    BY <1>2
  <2>4. e \in Entry /\ e.ip = ip /\ e.state = "pending" /\ e.q = ip /\ e.ctime = u[i].ctime
    BY <1>2, <2>2, <2>3 DEF Entry
  <2>5. u[i].ctime < MaxPending
    BY <1>1, <1>2, <1>7, FreshOrPending
  <2>6. EntryOK(e) /\ Current(e, heard)
    BY <2>4, <2>5 DEF EntryOK, Current
  <2>7. table' = [u EXCEPT ![i] = e]
    BY <1>2, <1>7, <2>2
  <2>8. /\ table' \in [Slots -> Entry] /\ NoTwins(table')
        /\ \A j \in Slots : EntryOK(table'[j]) /\ Current(table'[j], heard)
    BY <1>1, <2>4, <2>6, <2>7, EntryChanged
  <2> QED BY <1>3, <1>7, <2>1, <2>8, Together
<1> QED BY <1>1, <1>5, <1>6, <1>7 DEF Output

LEMMA QuerySafe == ASSUME ArpInv, NEW ip \in Hosts, Query(ip) PROVE ArpInv'
<1>1. PICK i, u : i = FindEntry(table, ip).i /\ u = FindEntry(table, ip).t
  OBVIOUS
<1>2. /\ i \in Slots /\ u \in [Slots -> Entry] /\ u[i] \in Entry
      /\ u[i].ip = ip /\ EntryOK(u[i]) /\ Current(u[i], heard)
  BY <1>1, Found
<1>3. heard' = heard /\ heard \in [Hosts -> [mac : Macs \cup {NoHost}, age : Nat]]
      /\ cached' = cached /\ cached \in Slots
  BY DEF Query, ArpInv, ArpTypeOK
<1>4. SentToOwner'
  BY DEF Query, SentToOwner, Request
<1>5. PICK e : e = [u[i] EXCEPT !.state = IF u[i].state = "empty" THEN "pending" ELSE u[i].state]
  OBVIOUS
<1>6. table' = [u EXCEPT ![i] = e]
  BY <1>1, <1>2, <1>5 DEF Query
<1>7. CASE u[i].state = "empty"
  <2>1. e \in Entry /\ e.ip = ip /\ e.state = "pending" /\ e.q = u[i].q /\ e.ctime = u[i].ctime
    BY <1>2, <1>5, <1>7 DEF Entry
  <2>2. u[i].ctime < MaxPending /\ u[i].q = NoHost
    BY <1>1, <1>2, <1>7, FreshOrPending DEF EntryOK
  <2>3. EntryOK(e) /\ Current(e, heard)
    BY <2>1, <2>2 DEF EntryOK, Current
  <2>4. /\ table' \in [Slots -> Entry] /\ NoTwins(table')
        /\ \A j \in Slots : EntryOK(table'[j]) /\ Current(table'[j], heard)
    BY <1>1, <1>6, <2>1, <2>3, EntryChanged
  <2> QED BY <1>3, <1>4, <2>4, Together
<1>8. CASE u[i].state # "empty"
  <2>1. e = u[i]
    BY <1>2, <1>5, <1>8 DEF Entry
  <2>2. /\ table' \in [Slots -> Entry] /\ NoTwins(table')
        /\ \A j \in Slots : EntryOK(table'[j]) /\ Current(table'[j], heard)
    BY <1>1, <1>2, <1>6, <2>1, EntryChanged
  <2> QED BY <1>3, <1>4, <2>2, Together
<1> QED BY <1>7, <1>8

LEMMA ArpInputSafe ==
    ASSUME ArpInv, NEW ip \in Hosts, NEW mac \in Macs,
           NEW forUs \in BOOLEAN, NEW request \in BOOLEAN, ArpInput(ip, mac, forUs, request)
    PROVE  ArpInv'
<1>1. PICK i, u : i = FindEntry(table, ip).i /\ u = FindEntry(table, ip).t
  OBVIOUS
<1>2. /\ i \in Slots /\ u \in [Slots -> Entry] /\ u[i] \in Entry
      /\ u[i].ip = ip /\ EntryOK(u[i])
  BY <1>1, Found
<1>3. heard \in [Hosts -> [mac : Macs \cup {NoHost}, age : Nat]]
      /\ cached' = cached /\ cached \in Slots /\ table \in [Slots -> Entry] /\ NoTwins(table)
  BY DEF ArpInput, ArpInv, ArpTypeOK
<1>4. /\ heard' = [heard EXCEPT ![ip] = [mac |-> mac, age |-> 0]]
      /\ heard' \in [Hosts -> [mac : Macs \cup {NoHost}, age : Nat]]
      /\ heard'[ip] = [mac |-> mac, age |-> 0]
      /\ \A a \in Hosts \ {ip} : heard'[a] = heard[a]
  BY <1>3 DEF ArpInput
<1>5. 0 < MaxAge /\ 0 < MaxPending
  BY ArpAssumption
<1>6. CASE /\ forUs \/ Matching(table, ip) # {}
           /\ table' = [u EXCEPT ![i] = Stable(u[i], mac)]
           /\ \A f \in frames' : f.kind = "packet" => f \in {Packet(p, mac) : p \in {u[i].q} \ {NoHost}}
  <2>1. PICK e : e = Stable(u[i], mac)
    OBVIOUS
  <2>2. e \in Entry /\ e.ip = ip /\ e.state = "stable" /\ e.mac = mac /\ e.ctime = 0 /\ e.q = NoHost
    BY <1>2, <2>1 DEF Stable, Entry
  <2>3. EntryOK(e) /\ Current(e, heard')
    BY <1>4, <1>5, <2>2 DEF EntryOK, Current
  <2>4. table' = [u EXCEPT ![i] = e]
    BY <1>6, <2>1
  <2>5. /\ table' \in [Slots -> Entry] /\ NoTwins(table')
        /\ \A j \in Slots : EntryOK(table'[j]) /\ Current(table'[j], heard')
    <3>1. PICK h : h = heard'
      OBVIOUS
    <3>2. /\ table' \in [Slots -> Entry] /\ NoTwins(table')
          /\ \A j \in Slots : EntryOK(table'[j]) /\ Current(table'[j], h)
      <4>1. \A a \in Hosts \ {ip} : h[a] = heard[a]
        BY <1>4, <3>1
      <4>2. Current(e, h)
        BY <2>3, <3>1
      <4> QED BY <1>1, <2>2, <2>3, <2>4, <4>1, <4>2, EntryChanged
    <3> QED BY <3>1, <3>2
  <2>6. u[i].q # NoHost => u[i].q = ip
    BY <1>2 DEF EntryOK
  <2>7. SentToOwner'
    BY <1>4, <1>5, <1>6, <2>6 DEF SentToOwner, Packet
  <2> QED BY <1>3, <1>4, <2>5, <2>7, Together
<1>7. CASE /\ Matching(table, ip) = {} /\ table' = table
           /\ \A f \in frames' : f.kind # "packet"
  <2>1. \A j \in Slots : table[j].state # "empty" => table[j].ip # ip /\ table[j].ip \in Hosts
    BY <1>7 DEF Matching, ArpInv, EntryOK
  <2>2. \A j \in Slots : EntryOK(table[j]) /\ Current(table[j], heard)
    BY DEF ArpInv
  <2>3. \A j \in Slots : Current(table[j], heard')
    BY <1>4, <2>1, <2>2 DEF Current
  <2>4. SentToOwner'
    BY <1>7 DEF SentToOwner
  <2> QED BY <1>3, <1>4, <1>7, <2>2, <2>3, <2>4, Together
<1>8. DEFINE answer == IF forUs /\ request THEN {Reply(ip, mac)} ELSE {}
<1>9. \A f \in answer : f.kind # "packet"
  BY DEF Reply
<1>10. \/ /\ forUs \/ Matching(table, ip) # {}
          /\ table' = [u EXCEPT ![i] = Stable(u[i], mac)]
          /\ frames' = answer \cup {Packet(p, mac) : p \in {u[i].q} \ {NoHost}}
       \/ /\ Matching(table, ip) = {} /\ table' = table /\ frames' = answer
  BY <1>1 DEF ArpInput
<1> QED BY <1>6, <1>7, <1>9, <1>10

LEMMA TimerSafe == ASSUME ArpInv, EtharpTmr PROVE ArpInv'
<1>1. /\ table \in [Slots -> Entry] /\ cached' = cached /\ cached \in Slots
      /\ heard \in [Hosts -> [mac : Macs \cup {NoHost}, age : Nat]] /\ NoTwins(table)
  BY DEF EtharpTmr, ArpInv, ArpTypeOK
<1>2. /\ heard' = [a \in Hosts |-> [heard[a] EXCEPT !.age = IF heard[a].age > MaxAge THEN heard[a].age ELSE heard[a].age + 1]]
      /\ table' = [j \in Slots |-> Aged(table[j])]
  BY DEF EtharpTmr
<1>3. ASSUME NEW a \in Hosts
      PROVE  /\ heard'[a] \in [mac : Macs \cup {NoHost}, age : Nat]
             /\ heard'[a].mac = heard[a].mac
             /\ heard[a].age < MaxAge => heard'[a].age = heard[a].age + 1
  BY <1>1, <1>2, ArpAssumption
<1>4. heard' \in [Hosts -> [mac : Macs \cup {NoHost}, age : Nat]]
  BY <1>2, <1>3
<1>5. Free \in Entry /\ Free.state = "empty" /\ Free.q = NoHost
  BY DEF Free, Entry
<1>6. ASSUME NEW j \in Slots
      PROVE  /\ table'[j] \in Entry
             /\ EntryOK(table'[j]) /\ Current(table'[j], heard')
             /\ table'[j].state # "empty" => table[j].state # "empty" /\ table'[j].ip = table[j].ip
  <2>1. table[j] \in Entry /\ table'[j] = Aged(table[j]) /\ EntryOK(table[j]) /\ Current(table[j], heard)
    BY <1>1, <1>2 DEF ArpInv
  <2>2. CASE table'[j] = table[j] /\ table[j].state = "empty"
    BY <2>1, <2>2 DEF EntryOK, Current
  <2>3. CASE table'[j] = Free
    BY <1>5, <2>3 DEF EntryOK, Current
  <2>4. CASE /\ table[j].state # "empty" /\ table'[j] = [table[j] EXCEPT !.ctime = table[j].ctime + 1]
             /\ ~Expired(table'[j])
    <3>1. /\ table'[j] \in Entry /\ table'[j].state = table[j].state /\ table'[j].ip = table[j].ip
          /\ table'[j].mac = table[j].mac /\ table'[j].q = table[j].q /\ table'[j].ctime = table[j].ctime + 1
      BY <2>1, <2>4 DEF Entry
    <3>2. table'[j].ctime < MaxAge /\ (table'[j].state = "pending" => table'[j].ctime < MaxPending)
      BY <2>4, <3>1, ArpAssumption DEF Expired, Entry
    <3>3. EntryOK(table'[j])
      BY <2>1, <2>4, <3>1, <3>2 DEF EntryOK
    <3>4. ASSUME table[j].state = "stable"
          PROVE  heard'[table[j].ip].mac = table[j].mac /\ heard'[table[j].ip].age = table[j].ctime + 1
      <4>1. table[j].ip \in Hosts /\ table[j].ctime < MaxAge
        BY <2>1, <2>4, <3>4 DEF EntryOK
      <4>2. heard[table[j].ip].mac = table[j].mac /\ heard[table[j].ip].age = table[j].ctime
        BY <2>1, <3>4 DEF Current
      <4> QED BY <1>3, <4>1, <4>2
    <3>5. Current(table'[j], heard')
      BY <3>1, <3>4 DEF Current
    <3> QED BY <2>4, <3>1, <3>3, <3>5
  <2> QED BY <2>1, <2>2, <2>3, <2>4 DEF Aged
<1>7. NoTwins(table')
  BY <1>1, <1>6 DEF NoTwins
<1>8. SentToOwner'
  BY DEF EtharpTmr, SentToOwner
<1>9. table' \in [Slots -> Entry]
  BY <1>2, <1>6
<1> QED BY <1>1, <1>4, <1>6, <1>7, <1>8, <1>9, Together

-----------------------------------------------------------------------------
(* What the table says of the network was heard as long ago as the entry   *)
(* is old, whatever is asked, answered and timed out (etharp.c).           *)
THEOREM ArpInvariant == ArpSpec => []ArpInv
<1>1. ASSUME ArpInv, ArpNext PROVE ArpInv'
  <2>1. CASE EtharpTmr
    BY <1>1, <2>1, TimerSafe
  <2>2. ASSUME NEW a \in Hosts, Output(a) PROVE ArpInv'
    BY <1>1, <2>2, OutputSafe
  <2>3. ASSUME NEW a \in Hosts, Query(a) PROVE ArpInv'
    BY <1>1, <2>3, QuerySafe
  <2>4. ASSUME NEW a \in Hosts, NEW m \in Macs, NEW forUs \in BOOLEAN, NEW request \in BOOLEAN,
               ArpInput(a, m, forUs, request)
        PROVE  ArpInv'
    BY <1>1, <2>4, ArpInputSafe
  <2> QED BY <1>1, <2>1, <2>2, <2>3, <2>4 DEF ArpNext
<1>2. ArpInv /\ UNCHANGED arpVars => ArpInv'
  BY DEF ArpInv, ArpTypeOK, EntryOK, Current, NoTwins, SentToOwner, arpVars
<1> QED BY ArpInitial, <1>1, <1>2, PTL DEF ArpSpec

(* The ARP table sends a packet only to the Ethernet address its           *)
(* destination gave last, has one entry per address, and lets a packet     *)
(* wait only for an answer that may still come, whatever the network, the  *)
(* size of the table and the ages.                                         *)
THEOREM ArpTableSound == ArpSpec => []ArpSound
<1>1. ASSUME ArpInv PROVE ArpSound
  <2>1. SentToOwner /\ NoTwins(table) /\ \A i \in Slots : EntryOK(table[i])
    BY <1>1 DEF ArpInv
  <2>2. OneEntryPerAddress
    BY <2>1 DEF NoTwins, OneEntryPerAddress
  <2>3. WaitsForItsAnswer
    BY <2>1 DEF EntryOK, WaitsForItsAnswer
  <2> QED BY <2>1, <2>2, <2>3 DEF ArpSound
<1> QED BY <1>1, ArpInvariant, PTL

-----------------------------------------------------------------------------
(* IGMP *)

Membership == [state : {"idle", "delaying"}, timer : Nat, last : BOOLEAN, use : Nat \ {0}]

IgmpTypeOK ==
    /\ DOMAIN joined \subseteq Groups \cup {AllSystems} /\ IsFiniteSet(DOMAIN joined)
    /\ joined = [g \in DOMAIN joined |-> joined[g]]
    /\ \A g \in DOMAIN joined : joined[g] \in Membership
    /\ joins \in [Groups -> Nat] /\ owed \in [Groups -> Nat]

\* The timer of an idle member is stopped.
IdleIsStopped == \A g \in DOMAIN joined : joined[g].state = "idle" => joined[g].timer = 0

\* Only members owe the router an answer.
MembersOwe == \A g \in Groups : owed[g] > 0 => g \in DOMAIN joined

IgmpInv == IgmpTypeOK /\ IdleIsStopped /\ MembersOwe /\ QueriesAnswered

\* The times igmp_start_timer chooses from.
LEMMA TimesOfDelay ==
    ASSUME NEW max \in Nat
    PROVE  /\ Times(max) \subseteq Nat
           /\ max > 1 => Times(max) \subseteq 1..max
BY IgmpAssumption DEF Times

\* What igmp_delaying_member does to one member.
DelayedTo(m, n, max) ==
    \/ n = m /\ (max > 1 => m.timer \in 1..max)
    \/ /\ m.state = "idle" \/ m.timer = 0 \/ max < m.timer
       /\ \E t \in Times(max) : n = [m EXCEPT !.state = "delaying", !.timer = t]

LEMMA DelayStep ==
    ASSUME IgmpTypeOK, NEW some, NEW max \in Nat, some \subseteq DOMAIN joined,
           Delay(some, max)
    PROVE  /\ DOMAIN joined' = DOMAIN joined
           /\ joined' = [g \in DOMAIN joined' |-> joined'[g]]
           /\ \A g \in DOMAIN joined : joined'[g] \in Membership
           /\ \A g \in DOMAIN joined \ some : joined'[g] = joined[g]
           /\ \A g \in some : DelayedTo(joined[g], joined'[g], max)
<1> DEFINE restarted == {g \in some : Restarts(joined[g], max)}
<1>1. PICK time \in [restarted -> Times(max)] :
         joined' = [g \in DOMAIN joined |->
             IF g \in restarted THEN [joined[g] EXCEPT !.state = "delaying", !.timer = time[g]]
             ELSE joined[g]]
  BY DEF Delay
<1>2. \A g \in some : joined[g] \in Membership
  BY DEF IgmpTypeOK
<1>3. \A g \in restarted : time[g] \in Times(max) /\ Restarts(joined[g], max)
  OBVIOUS
<1>4. \A g \in some : g \notin restarted => ~Restarts(joined[g], max)
  OBVIOUS
<1>5. restarted \subseteq some
  OBVIOUS
<1> HIDE DEF restarted
<1>6. DOMAIN joined' = DOMAIN joined /\ joined' = [g \in DOMAIN joined' |-> joined'[g]]
  BY <1>1
<1>7. \A g \in DOMAIN joined \ some : joined'[g] = joined[g]
  BY <1>1, <1>5
<1>8. ASSUME NEW g \in some
      PROVE  DelayedTo(joined[g], joined'[g], max) /\ joined'[g] \in Membership
  <2>0. joined[g] \in Membership /\ g \in DOMAIN joined
    BY <1>2
  <2>1. CASE g \in restarted
    <3>1. joined'[g] = [joined[g] EXCEPT !.state = "delaying", !.timer = time[g]]
      BY <1>1, <2>0, <2>1
    <3>2. time[g] \in Times(max) /\ time[g] \in Nat /\ Restarts(joined[g], max)
      BY <1>3, <2>1, TimesOfDelay
    <3>3. joined'[g] \in Membership
      BY <2>0, <3>1, <3>2 DEF Membership
    <3>4. joined[g].state = "idle" \/ joined[g].timer = 0 \/ max < joined[g].timer
      BY <3>2 DEF Restarts
    <3> QED BY <3>1, <3>2, <3>3, <3>4 DEF DelayedTo
  <2>2. CASE g \notin restarted
    <3>1. joined'[g] = joined[g] /\ ~Restarts(joined[g], max)
      BY <1>1, <1>4, <2>0, <2>2
    <3>2. joined[g].timer \in Nat /\ joined[g].timer # 0 /\ ~(max < joined[g].timer)
      BY <2>0, <3>1 DEF Restarts, Membership
    <3>3. joined[g].timer \in 1..max
      BY <3>2
    <3> QED BY <2>0, <3>1, <3>3 DEF DelayedTo
  <2> QED BY <2>1, <2>2
<1> QED BY <1>6, <1>7, <1>8 DEF IgmpTypeOK

\* A delay of some members, after which all of them owe an answer within it,
\* or what they owed, or nothing.
LEMMA DelayKeeps ==
    ASSUME IgmpInv, NEW some, NEW max \in Nat, some \subseteq DOMAIN joined,
           Delay(some, max), UNCHANGED joins, owed' \in [Groups -> Nat],
           \A g \in Groups \ some : owed'[g] = owed[g],
           \A g \in some \cap Groups :
              \/ owed'[g] = 0
              \/ owed'[g] = owed[g] /\ max > 1
              \/ owed'[g] = max /\ max > 1 /\ (owed[g] = 0 \/ max < owed[g])
    PROVE  IgmpInv'
<1> USE DEF IgmpInv
<1>1. /\ DOMAIN joined' = DOMAIN joined
      /\ joined' = [g \in DOMAIN joined' |-> joined'[g]]
      /\ \A g \in DOMAIN joined : joined'[g] \in Membership
      /\ \A g \in DOMAIN joined \ some : joined'[g] = joined[g]
      /\ \A g \in some : DelayedTo(joined[g], joined'[g], max)
  BY DelayStep
<1>2. IgmpTypeOK'
  BY <1>1 DEF IgmpTypeOK
<1>3. ASSUME NEW g \in some
      PROVE  /\ joined'[g].use = joined[g].use
             /\ joined'[g].state = "idle" => joined'[g] = joined[g]
  <2>1. joined[g] \in Membership /\ DelayedTo(joined[g], joined'[g], max)
    BY <1>1 DEF IgmpTypeOK
  <2> QED BY <2>1 DEF DelayedTo, Membership
<1>4. IdleIsStopped'
  BY <1>1, <1>3 DEF IdleIsStopped
<1>5. MembersOwe'
  BY <1>1 DEF MembersOwe
<1>6. ASSUME NEW g \in Groups, owed'[g] > 0
      PROVE  joined'[g].timer \in 1..owed'[g]
  <2>1. CASE g \notin some
    <3>1. owed'[g] = owed[g] /\ g \in DOMAIN joined /\ joined'[g] = joined[g]
      BY <1>1, <1>6, <2>1 DEF MembersOwe
    <3> QED BY <1>6, <3>1 DEF QueriesAnswered
  <2>2. CASE g \in some
    <3>0. /\ joined[g] \in Membership /\ DelayedTo(joined[g], joined'[g], max)
          /\ owed[g] \in Nat /\ owed'[g] \in Nat /\ joined[g].timer \in Nat
          /\ joined[g].state = "idle" => joined[g].timer = 0
      BY <1>1, <2>2 DEF IgmpTypeOK, IdleIsStopped, Membership
    <3>1. /\ max > 1
          /\ \/ owed'[g] = owed[g]
             \/ owed'[g] = max /\ (owed[g] = 0 \/ max < owed[g])
      BY <1>6, <2>2
    <3>2. owed[g] > 0 => joined[g].timer \in 1..owed[g]
      BY DEF QueriesAnswered
    <3>3. CASE joined'[g] = joined[g] /\ joined[g].timer \in 1..max
      BY <1>6, <3>0, <3>1, <3>2, <3>3
    <3>4. CASE /\ joined[g].state = "idle" \/ joined[g].timer = 0 \/ max < joined[g].timer
               /\ \E t \in Times(max) : joined'[g] = [joined[g] EXCEPT !.state = "delaying", !.timer = t]
      <4>1. joined'[g].timer \in 1..max
        BY <3>0, <3>1, <3>4, TimesOfDelay DEF Membership
      <4>2. joined[g].timer = 0 \/ max < joined[g].timer
        BY <3>0, <3>4
      <4> QED BY <1>6, <3>0, <3>1, <3>2, <4>1, <4>2
    <3> QED BY <3>0, <3>1, <3>3, <3>4 DEF DelayedTo
  <2> QED BY <2>1, <2>2
<1>7. QueriesAnswered'
  <2>1. ASSUME NEW g \in Groups
        PROVE  joins'[g] = IF g \in DOMAIN joined' THEN joined'[g].use ELSE 0
    <3>1. g \in DOMAIN joined => joined'[g].use = joined[g].use
      BY <1>1, <1>3
    <3> QED BY <1>1, <3>1 DEF QueriesAnswered
  <2>2. Cardinality(DOMAIN joined') <= GroupPool
    BY <1>1 DEF QueriesAnswered
  <2> QED BY <2>1, <2>2, <1>6 DEF QueriesAnswered
<1> QED BY <1>2, <1>4, <1>5, <1>7

LEMMA JoinKeeps ==
    ASSUME IgmpInv, NEW g \in Groups, Join(g)
    PROVE  IgmpInv'
<1> USE DEF IgmpInv
<1>0. /\ g \in DOMAIN joined => joined[g] \in Membership
      /\ joins[g] \in Nat /\ JoinDelay \in Nat /\ GroupPool \in Nat
      /\ Cardinality(DOMAIN joined) \in Nat
  BY IgmpAssumption, FS_CardinalityType DEF IgmpTypeOK
<1>1. CASE g \in DOMAIN joined
  <2>1. /\ joined' = [joined EXCEPT ![g].use = @ + 1] /\ joins' = [joins EXCEPT ![g] = @ + 1]
        /\ owed' = owed
    BY <1>1 DEF Join
  <2>2. /\ DOMAIN joined' = DOMAIN joined /\ joined' = [h \in DOMAIN joined' |-> joined'[h]]
        /\ joined'[g] = [joined[g] EXCEPT !.use = @ + 1]
        /\ \A h \in DOMAIN joined : h # g => joined'[h] = joined[h]
    BY <2>1, <1>1 DEF IgmpTypeOK
  <2>3. /\ joined'[g] \in Membership /\ joined'[g].use = joined[g].use + 1
        /\ joined'[g].timer = joined[g].timer /\ joined'[g].state = joined[g].state
    BY <2>2, <1>0, <1>1 DEF Membership
  <2>4. joins' \in [Groups -> Nat] /\ joins'[g] = joins[g] + 1
        /\ \A h \in Groups : h # g => joins'[h] = joins[h]
    BY <2>1 DEF IgmpTypeOK
  <2>5. IgmpTypeOK'
    BY <2>1, <2>2, <2>3, <2>4 DEF IgmpTypeOK
  <2>6. IdleIsStopped' /\ MembersOwe'
    BY <2>1, <2>2, <2>3 DEF IdleIsStopped, MembersOwe
  <2>7. ASSUME NEW h \in Groups
        PROVE  /\ joins'[h] = IF h \in DOMAIN joined' THEN joined'[h].use ELSE 0
               /\ owed'[h] > 0 => joined'[h].timer \in 1..owed'[h]
    <3>1. CASE h = g
      BY <3>1, <1>1, <2>1, <2>2, <2>3, <2>4 DEF QueriesAnswered
    <3>2. CASE h # g
      <4>1. h \in DOMAIN joined => joined'[h] = joined[h]
        BY <2>2, <3>2
      <4> QED BY <4>1, <3>2, <2>1, <2>2, <2>4 DEF QueriesAnswered, MembersOwe
    <3> QED BY <3>1, <3>2
  <2>8. QueriesAnswered'
    BY <2>2, <2>7 DEF QueriesAnswered
  <2> QED BY <2>5, <2>6, <2>8
<1>2. CASE g \notin DOMAIN joined /\ Cardinality(DOMAIN joined) = GroupPool
  BY <1>2 DEF Join, IgmpTypeOK, IdleIsStopped, MembersOwe, QueriesAnswered
<1>3. CASE g \notin DOMAIN joined /\ Cardinality(DOMAIN joined) # GroupPool
  <2>1. PICK t \in Times(JoinDelay) :
           joined' = [h \in DOMAIN joined \cup {g} |-> IF h # g THEN joined[h]
                      ELSE [state |-> "delaying", timer |-> t, last |-> TRUE, use |-> 1]]
    BY <1>3 DEF Join
  <2>2. joins' = [joins EXCEPT ![g] = @ + 1] /\ Reporting({g})
    BY <1>3 DEF Join
  <2>3. /\ DOMAIN joined' = DOMAIN joined \cup {g}
        /\ joined' = [h \in DOMAIN joined' |-> joined'[h]]
        /\ joined'[g] = [state |-> "delaying", timer |-> t, last |-> TRUE, use |-> 1]
        /\ \A h \in DOMAIN joined : h # g => joined'[h] = joined[h]
    BY <2>1
  <2>4. t \in Nat /\ TRUE \in BOOLEAN
    BY <1>0, TimesOfDelay
  <2>5. /\ joined'[g] \in Membership /\ joined'[g].use = 1 /\ joined'[g].state = "delaying"
    BY <2>3, <2>4 DEF Membership
  <2>6. /\ joins' \in [Groups -> Nat] /\ joins'[g] = joins[g] + 1
        /\ \A h \in Groups : h # g => joins'[h] = joins[h]
        /\ owed' \in [Groups -> Nat] /\ owed'[g] = 0
        /\ \A h \in Groups : h # g => owed'[h] = owed[h]
    BY <2>2 DEF IgmpTypeOK, Reporting
  <2>7. /\ IsFiniteSet(DOMAIN joined')
        /\ Cardinality(DOMAIN joined') = Cardinality(DOMAIN joined) + 1
    BY <2>3, <1>3, FS_AddElement DEF IgmpTypeOK
  <2>8. IgmpTypeOK'
    <3>1. \A h \in DOMAIN joined' : joined'[h] \in Membership
      BY <2>3, <2>5 DEF IgmpTypeOK
    <3>2. DOMAIN joined' \subseteq Groups \cup {AllSystems}
      BY <2>3 DEF IgmpTypeOK
    <3> QED BY <2>3, <2>6, <2>7, <3>1, <3>2 DEF IgmpTypeOK
  <2>9. IdleIsStopped' /\ MembersOwe'
    BY <2>3, <2>5, <2>6 DEF IdleIsStopped, MembersOwe
  <2>10. ASSUME NEW h \in Groups
         PROVE  /\ joins'[h] = IF h \in DOMAIN joined' THEN joined'[h].use ELSE 0
                /\ owed'[h] > 0 => joined'[h].timer \in 1..owed'[h]
    <3>1. CASE h = g
      <4>1. joins[g] = 0
        BY <1>3 DEF QueriesAnswered
      <4> QED BY <3>1, <4>1, <2>3, <2>5, <2>6
    <3>2. CASE h # g
      <4>1. h \in DOMAIN joined => joined'[h] = joined[h]
        BY <2>3, <3>2
      <4>2. h \in DOMAIN joined <=> h \in DOMAIN joined'
        BY <2>3, <3>2
      <4> QED BY <4>1, <4>2, <3>2, <2>6 DEF QueriesAnswered, MembersOwe
    <3> QED BY <3>1, <3>2
  <2>11. Cardinality(DOMAIN joined') <= GroupPool
    BY <1>0, <1>3, <2>7 DEF QueriesAnswered
  <2>12. QueriesAnswered'
    BY <2>10, <2>11 DEF QueriesAnswered
  <2> QED BY <2>8, <2>9, <2>12
<1> QED BY <1>1, <1>2, <1>3

LEMMA LeaveKeeps ==
    ASSUME IgmpInv, NEW g \in Groups, Leave(g)
    PROVE  IgmpInv'
<1> USE DEF IgmpInv
<1>0. /\ joins[g] \in Nat /\ joins[g] > 0 /\ joins' = [joins EXCEPT ![g] = @ - 1]
      /\ g \in DOMAIN joined /\ joined[g] \in Membership /\ joins[g] = joined[g].use
      /\ joined[g].use \in Nat \ {0}
  <2>1. joins[g] > 0 /\ joins' = [joins EXCEPT ![g] = @ - 1] /\ joins[g] \in Nat
    BY DEF Leave, IgmpTypeOK
  <2>2. g \in DOMAIN joined
    BY <2>1 DEF QueriesAnswered
  <2>3. joined[g] \in Membership
    BY <2>2 DEF IgmpTypeOK
  <2> QED BY <2>1, <2>2, <2>3 DEF QueriesAnswered, Membership
<1>1. /\ joins' \in [Groups -> Nat] /\ joins'[g] = joins[g] - 1
      /\ \A h \in Groups : h # g => joins'[h] = joins[h]
  BY <1>0 DEF IgmpTypeOK
<1>2. CASE joined[g].use <= 1
  <2>1. joined' = [h \in DOMAIN joined \ {g} |-> joined[h]] /\ owed' = [owed EXCEPT ![g] = 0]
    BY <1>2 DEF Leave
  <2>2. /\ DOMAIN joined' = DOMAIN joined \ {g}
        /\ joined' = [h \in DOMAIN joined' |-> joined'[h]]
        /\ \A h \in DOMAIN joined' : joined'[h] = joined[h]
    BY <2>1
  <2>3. /\ owed' \in [Groups -> Nat] /\ owed'[g] = 0
        /\ \A h \in Groups : h # g => owed'[h] = owed[h]
    BY <2>1 DEF IgmpTypeOK
  <2>4. /\ IsFiniteSet(DOMAIN joined')
        /\ Cardinality(DOMAIN joined') = Cardinality(DOMAIN joined) - 1
        /\ Cardinality(DOMAIN joined) \in Nat /\ GroupPool \in Nat
    BY <2>2, <1>0, FS_RemoveElement, FS_CardinalityType, IgmpAssumption DEF IgmpTypeOK
  <2>5. IgmpTypeOK'
    <3>1. \A h \in DOMAIN joined' : joined'[h] \in Membership
      BY <2>2 DEF IgmpTypeOK
    <3>2. DOMAIN joined' \subseteq Groups \cup {AllSystems}
      BY <2>2 DEF IgmpTypeOK
    <3> QED BY <2>2, <2>3, <2>4, <1>1, <3>1, <3>2 DEF IgmpTypeOK
  <2>6. IdleIsStopped' /\ MembersOwe'
    BY <2>2, <2>3 DEF IdleIsStopped, MembersOwe
  <2>7. ASSUME NEW h \in Groups
        PROVE  /\ joins'[h] = IF h \in DOMAIN joined' THEN joined'[h].use ELSE 0
               /\ owed'[h] > 0 => joined'[h].timer \in 1..owed'[h]
    <3>1. CASE h = g
      BY <3>1, <1>0, <1>1, <1>2, <2>2, <2>3
    <3>2. CASE h # g
      <4>1. h \in DOMAIN joined <=> h \in DOMAIN joined'
        BY <2>2, <3>2
      <4>2. h \in DOMAIN joined => joined'[h] = joined[h]
        BY <4>1, <2>2
      <4> QED BY <4>1, <4>2, <3>2, <1>1, <2>3 DEF QueriesAnswered, MembersOwe
    <3> QED BY <3>1, <3>2
  <2>8. Cardinality(DOMAIN joined') <= GroupPool
    BY <2>4 DEF QueriesAnswered
  <2>9. QueriesAnswered'
    BY <2>7, <2>8 DEF QueriesAnswered
  <2> QED BY <2>5, <2>6, <2>9
<1>3. CASE ~(joined[g].use <= 1)
  <2>1. joined' = [joined EXCEPT ![g].use = @ - 1] /\ owed' = owed
    BY <1>3 DEF Leave
  <2>2. /\ DOMAIN joined' = DOMAIN joined /\ joined' = [h \in DOMAIN joined' |-> joined'[h]]
        /\ joined'[g] = [joined[g] EXCEPT !.use = @ - 1]
        /\ \A h \in DOMAIN joined : h # g => joined'[h] = joined[h]
    BY <2>1, <1>0 DEF IgmpTypeOK
  <2>3. /\ joined'[g] \in Membership /\ joined'[g].use = joined[g].use - 1
        /\ joined'[g].timer = joined[g].timer /\ joined'[g].state = joined[g].state
    BY <2>2, <1>0, <1>3 DEF Membership
  <2>4. IgmpTypeOK'
    BY <2>1, <2>2, <2>3, <1>1 DEF IgmpTypeOK
  <2>5. IdleIsStopped' /\ MembersOwe'
    BY <2>1, <2>2, <2>3 DEF IdleIsStopped, MembersOwe
  <2>6. ASSUME NEW h \in Groups
        PROVE  /\ joins'[h] = IF h \in DOMAIN joined' THEN joined'[h].use ELSE 0
               /\ owed'[h] > 0 => joined'[h].timer \in 1..owed'[h]
    <3>1. CASE h = g
      BY <3>1, <1>0, <1>1, <2>1, <2>2, <2>3 DEF QueriesAnswered
    <3>2. CASE h # g
      <4>1. h \in DOMAIN joined => joined'[h] = joined[h]
        BY <2>2, <3>2
      <4> QED BY <4>1, <3>2, <2>1, <2>2, <1>1 DEF QueriesAnswered, MembersOwe
    <3> QED BY <3>1, <3>2
  <2>7. QueriesAnswered'
    BY <2>2, <2>6 DEF QueriesAnswered
  <2> QED BY <2>4, <2>5, <2>7
<1> QED BY <1>2, <1>3

\* A member whose report another host has sent.
LEMMA Stopped ==
    ASSUME NEW m \in Membership, NEW b \in BOOLEAN
    PROVE  /\ [m EXCEPT !.state = "idle", !.timer = 0, !.last = b] \in Membership
           /\ [m EXCEPT !.state = "idle", !.timer = 0, !.last = b].use = m.use
           /\ [m EXCEPT !.state = "idle", !.timer = 0, !.last = b].timer = 0
<1> DEFINE n == [m EXCEPT !.state = "idle"]
<1>1. n \in Membership /\ n.use = m.use
  BY DEF Membership
<1>2. [m EXCEPT !.state = "idle", !.timer = 0, !.last = b] = [n EXCEPT !.timer = 0, !.last = b]
  OBVIOUS
<1> HIDE DEF n
<1>3. /\ [n EXCEPT !.timer = 0, !.last = b] \in Membership
      /\ [n EXCEPT !.timer = 0, !.last = b].use = n.use
      /\ [n EXCEPT !.timer = 0, !.last = b].timer = 0
  BY <1>1 DEF Membership
<1> QED BY <1>1, <1>2, <1>3

LEMMA OtherReportsKeeps == IgmpInv /\ OtherReports => IgmpInv'
<1> SUFFICES ASSUME IgmpInv, OtherReports
             PROVE  IgmpInv'
  OBVIOUS
<1> USE DEF IgmpInv
<1>1. PICK g \in DOMAIN joined \ {AllSystems} :
         /\ joined' = IF joined[g].state # "delaying" THEN joined
                      ELSE [joined EXCEPT ![g].state = "idle", ![g].timer = 0, ![g].last = FALSE]
         /\ owed' = [owed EXCEPT ![g] = 0] /\ UNCHANGED <<up, link, joins>>
  BY DEF OtherReports
<1>2. joined[g] \in Membership /\ g \in Groups
  BY DEF IgmpTypeOK
<1>3. /\ DOMAIN joined' = DOMAIN joined /\ joined' = [h \in DOMAIN joined' |-> joined'[h]]
      /\ \A h \in DOMAIN joined : h # g => joined'[h] = joined[h]
      /\ \/ joined'[g] = joined[g]
         \/ joined'[g] = [joined[g] EXCEPT !.state = "idle", !.timer = 0, !.last = FALSE]
  <2>1. CASE joined[g].state # "delaying"
    BY <1>1, <2>1 DEF IgmpTypeOK
  <2>2. CASE joined[g].state = "delaying"
    BY <1>1, <2>2 DEF IgmpTypeOK
  <2> QED BY <2>1, <2>2
<1>4. /\ joined'[g] \in Membership /\ joined'[g].use = joined[g].use
      /\ joined'[g].state = "idle" => joined'[g].timer = 0
  <2>1. CASE joined'[g] = joined[g]
    BY <1>1, <1>2, <2>1 DEF IdleIsStopped
  <2>2. CASE joined'[g] = [joined[g] EXCEPT !.state = "idle", !.timer = 0, !.last = FALSE]
    <3>1. FALSE \in BOOLEAN
      OBVIOUS
    <3> QED BY <1>2, <2>2, <3>1, Stopped, Zenon
  <2> QED BY <1>3, <2>1, <2>2
<1>5. /\ owed' \in [Groups -> Nat] /\ owed'[g] = 0 /\ joins' = joins
      /\ \A h \in Groups : h # g => owed'[h] = owed[h]
  BY <1>1 DEF IgmpTypeOK
<1>6. IgmpTypeOK'
  BY <1>3, <1>4, <1>5 DEF IgmpTypeOK
<1>7. IdleIsStopped' /\ MembersOwe'
  BY <1>3, <1>4, <1>5 DEF IdleIsStopped, MembersOwe
<1>8. ASSUME NEW h \in Groups
      PROVE  /\ joins'[h] = IF h \in DOMAIN joined' THEN joined'[h].use ELSE 0
             /\ owed'[h] > 0 => joined'[h].timer \in 1..owed'[h]
  <2>1. CASE h = g
    BY <2>1, <1>2, <1>3, <1>4, <1>5 DEF QueriesAnswered
  <2>2. CASE h # g
    <3>1. h \in DOMAIN joined => joined'[h] = joined[h]
      BY <1>3, <2>2
    <3> QED BY <3>1, <2>2, <1>3, <1>5 DEF QueriesAnswered, MembersOwe
  <2> QED BY <2>1, <2>2
<1>9. QueriesAnswered'
  BY <1>3, <1>8 DEF QueriesAnswered
<1> QED BY <1>6, <1>7, <1>9

LEMMA IgmpTmrKeeps == IgmpInv /\ IgmpTmr => IgmpInv'
<1> SUFFICES ASSUME IgmpInv, IgmpTmr
             PROVE  IgmpInv'
  OBVIOUS
<1> USE DEF IgmpInv
<1> DEFINE due == {g \in DOMAIN joined : joined[g].timer = 1}
<1>1. /\ joined' = [g \in DOMAIN joined |->
             IF joined[g].timer = 0 THEN joined[g]
             ELSE [joined[g] EXCEPT !.timer = @ - 1, !.last = (@ \/ g \in due)]]
      /\ owed' = [g \in Groups |-> IF g \in due \/ owed[g] = 0 THEN 0 ELSE owed[g] - 1]
      /\ joins' = joins
  BY DEF IgmpTmr
<1>2. DOMAIN joined' = DOMAIN joined /\ joined' = [g \in DOMAIN joined' |-> joined'[g]]
  BY <1>1
<1>3. ASSUME NEW g \in DOMAIN joined
      PROVE  /\ joined'[g] \in Membership /\ joined'[g].use = joined[g].use
             /\ joined'[g].state = joined[g].state
             /\ joined[g].timer = 0 => joined'[g].timer = 0
             /\ joined[g].timer > 0 => joined'[g].timer = joined[g].timer - 1
  <2>1. joined[g] \in Membership /\ joined[g].timer \in Nat
    BY DEF IgmpTypeOK, Membership
  <2>2. CASE joined[g].timer = 0
    <3>1. joined'[g] = joined[g]
      BY <1>1, <2>2
    <3> QED BY <2>1, <2>2, <3>1
  <2>3. CASE joined[g].timer # 0
    <3> DEFINE last == joined[g].last \/ g \in due
    <3>1. joined'[g] = [joined[g] EXCEPT !.timer = @ - 1, !.last = last]
      BY <1>1, <2>3
    <3>2. last \in BOOLEAN
      OBVIOUS
    <3> HIDE DEF last
    <3>3. joined[g].timer - 1 \in Nat
      BY <2>1, <2>3
    <3> QED BY <2>1, <2>3, <3>1, <3>2, <3>3 DEF Membership
  <2> QED BY <2>2, <2>3
<1> HIDE DEF due
<1>a. ASSUME NEW g \in Groups
      PROVE  /\ owed[g] \in Nat /\ owed'[g] \in Nat
             /\ owed'[g] > 0 => owed[g] > 0 /\ g \notin due /\ owed'[g] = owed[g] - 1
  <2>1. owed'[g] = IF g \in due \/ owed[g] = 0 THEN 0 ELSE owed[g] - 1
    BY <1>1
  <2>2. owed[g] \in Nat
    BY DEF IgmpTypeOK
  <2> QED BY <2>1, <2>2
<1>4. owed' \in [Groups -> Nat]
  <2>1. owed' = [g \in Groups |-> owed'[g]]
    BY <1>1
  <2> QED BY <2>1, <1>a
<1>5. IgmpTypeOK'
  BY <1>1, <1>2, <1>3, <1>4 DEF IgmpTypeOK
<1>6. IdleIsStopped'
  BY <1>2, <1>3 DEF IdleIsStopped
<1>7. ASSUME NEW g \in Groups, owed'[g] > 0
      PROVE  g \in DOMAIN joined /\ joined'[g].timer \in 1..owed'[g]
  <2>1. owed[g] \in Nat /\ owed[g] > 0 /\ g \notin due /\ owed'[g] = owed[g] - 1
    BY <1>a, <1>7
  <2>2. g \in DOMAIN joined /\ joined[g].timer \in 1..owed[g] /\ joined[g].timer # 1
    BY <2>1 DEF MembersOwe, QueriesAnswered, due
  <2> QED BY <2>1, <2>2, <1>3
<1>8. QueriesAnswered' /\ MembersOwe'
  <2>1. \A g \in Groups : joins'[g] = IF g \in DOMAIN joined' THEN joined'[g].use ELSE 0
    BY <1>1, <1>2, <1>3 DEF QueriesAnswered
  <2>2. Cardinality(DOMAIN joined') <= GroupPool
    BY <1>2 DEF QueriesAnswered
  <2> QED BY <2>1, <2>2, <1>2, <1>7 DEF QueriesAnswered, MembersOwe
<1> QED BY <1>5, <1>6, <1>8

\* A query delays the members asked, and makes them owe.
LEMMA QueryKeeps ==
    ASSUME IgmpInv, NEW some, NEW max \in Nat, some \subseteq DOMAIN joined,
           Delay(some, max), Owing(some, max), UNCHANGED joins
    PROVE  IgmpInv'
<1>1. owed \in [Groups -> Nat]
  BY DEF IgmpInv, IgmpTypeOK
<1>2. ASSUME NEW g \in Groups
      PROVE  /\ owed'[g] \in Nat
             /\ g \notin some => owed'[g] = owed[g]
             /\ g \in some => \/ owed'[g] = 0
                              \/ owed'[g] = owed[g] /\ max > 1
                              \/ owed'[g] = max /\ max > 1 /\ (owed[g] = 0 \/ max < owed[g])
  BY <1>1 DEF Owing, Sooner
<1>3. owed' \in [Groups -> Nat]
  BY <1>2 DEF Owing
<1> QED BY <1>2, <1>3, DelayKeeps

LEMMA IgmpStep == IgmpInv /\ [IgmpNext]_igmpVars => IgmpInv'
<1> SUFFICES ASSUME IgmpInv, [IgmpNext]_igmpVars
             PROVE  IgmpInv'
  OBVIOUS
<1>1. ASSUME UNCHANGED <<joined, joins, owed>>
      PROVE  IgmpInv'
  BY <1>1 DEF IgmpInv, IgmpTypeOK, IdleIsStopped, MembersOwe, QueriesAnswered
<1>2. ASSUME Delay(DOMAIN joined, JoinDelay), UNCHANGED <<joins, owed>>
      PROVE  IgmpInv'
  <2>1. JoinDelay \in Nat /\ JoinDelay > 1 /\ owed \in [Groups -> Nat]
    BY IgmpAssumption DEF IgmpInv, IgmpTypeOK
  <2> QED BY <1>2, <2>1, DelayKeeps
<1>3. CASE NetifUp
  BY <1>1, <1>2, <1>3 DEF NetifUp
<1>4. CASE LinkUp
  BY <1>1, <1>2, <1>4 DEF LinkUp
<1>5. CASE NetifDown \/ LinkDown
  BY <1>1, <1>5 DEF NetifDown, LinkDown
<1>6. CASE \E g \in Groups : Join(g) \/ Leave(g)
  BY <1>6, JoinKeeps, LeaveKeeps
<1>7. CASE GeneralQuery
  <2>1. PICK response \in MaxResponses :
           LET max == IF response = 0 THEN V1Delay ELSE response
           IN  /\ Delay(DOMAIN joined \ {AllSystems}, max)
               /\ Owing(DOMAIN joined \ {AllSystems}, max)
               /\ UNCHANGED <<up, link, joins>>
    BY <1>7 DEF GeneralQuery
  <2> DEFINE max == IF response = 0 THEN V1Delay ELSE response
  <2>2. max \in Nat
    BY IgmpAssumption
  <2> HIDE DEF max
  <2>3. /\ Delay(DOMAIN joined \ {AllSystems}, max) /\ Owing(DOMAIN joined \ {AllSystems}, max)
        /\ UNCHANGED joins
    BY <2>1 DEF max
  <2> QED BY <2>2, <2>3, QueryKeeps
<1>8. CASE GroupQuery
  <2>1. PICK max \in MaxResponses, g \in DOMAIN joined \ {AllSystems} :
           Delay({g}, max) /\ Owing({g}, max) /\ UNCHANGED <<up, link, joins>>
    BY <1>8 DEF GroupQuery
  <2>2. max \in Nat /\ {g} \subseteq DOMAIN joined
    BY IgmpAssumption
  <2> QED BY <2>1, <2>2, QueryKeeps
<1> QED BY <1>1, <1>3, <1>4, <1>5, <1>6, <1>7, <1>8, OtherReportsKeeps, IgmpTmrKeeps
       DEF IgmpNext, igmpVars

LEMMA IgmpInitially == IgmpInit => IgmpInv
<1> SUFFICES ASSUME IgmpInit
             PROVE  IgmpInv
  OBVIOUS
<1> DEFINE first == [state |-> "idle", timer |-> 0, last |-> FALSE, use |-> 1]
<1>1. first \in Membership /\ first.state = "idle" /\ first.timer = 0
  <2>1. FALSE \in BOOLEAN
    OBVIOUS
  <2> QED BY <2>1 DEF Membership
<1> HIDE DEF first
<1>2. joined = [g \in {AllSystems} |-> first]
  BY DEF IgmpInit, first
<1>3. IsFiniteSet({AllSystems}) /\ Cardinality({AllSystems}) = 1
  BY FS_Singleton
<1>4. /\ DOMAIN joined = {AllSystems} /\ joined[AllSystems] = first
      /\ joined = [g \in DOMAIN joined |-> joined[g]]
  BY <1>2
<1>5. /\ joins = [g \in Groups |-> 0] /\ owed = [g \in Groups |-> 0]
      /\ AllSystems \notin Groups /\ GroupPool \in Nat \ {0}
  BY IgmpAssumption DEF IgmpInit
<1>6. IgmpTypeOK
  BY <1>1, <1>3, <1>4, <1>5 DEF IgmpTypeOK
<1> QED BY <1>1, <1>3, <1>4, <1>5, <1>6 DEF IgmpInv, IdleIsStopped, MembersOwe, QueriesAnswered

\* QueriesAnswered for any groups, pool and times of queries.
THEOREM RouterIsAnswered == IgmpSpec => []QueriesAnswered
<1>1. IgmpInv => QueriesAnswered
  BY DEF IgmpInv
<1> QED BY <1>1, IgmpInitially, IgmpStep, PTL DEF IgmpSpec

-----------------------------------------------------------------------------
(* Sockets *)

\* The types.
Item == [data : Seq(Nat), push : BOOLEAN]
Event == [fd : Fds, evt : {"RCVPLUS", "RCVMINUS", "SENDPLUS", "SENDMINUS", "ERROR", "NULL"}]
Socket == [open : BOOLEAN, rcvevent : Int, sendevent : BOOLEAN, errevent : BOOLEAN,
           last : Item, waiting : Int, fatal : BOOLEAN, over : BOOLEAN]
InList == {"count", "rescan", "wait", "uncount", "giveup", "leave", "delist"}
Selecting == {"scan", "enlist", "final"} \cup InList
Receiving == {"take", "fetch", "fetched", "copy"}
SocketCall ==
    [pc : {"idle"} \cup Selecting \cup Receiving, rs : SUBSET Fds, ws : SUBSET Fds,
     todo : SUBSET Fds, ready : SUBSET Fds, poll : BOOLEAN, fd : Nat, len : Nat, off : Nat,
     peek : BOOLEAN, hand : Item]
Callback == [events : Seq(Event), at : Callers \cup {NoCaller}, stale : BOOLEAN]

SocketTypeOK ==
    /\ sock \in [Fds -> Socket] /\ mbox \in [Fds -> Seq(Item)] /\ list \in Seq(Callers)
    /\ signalled \in [Callers -> BOOLEAN] /\ sem \in [Callers -> Nat]
    /\ call \in [Callers -> SocketCall] /\ cb \in [Actors -> Callback]
    /\ came \in [Fds -> Nat]

\* What the record of a call holds at each place of it.
ShapeOf(c) ==
    /\ c.todo \subseteq All(c)
    /\ c.pc = "wait" => c.todo = {} /\ c.ready = {}
    /\ c.pc \in Receiving => c.fd \in Fds /\ c.len > 0
    /\ c.pc \notin Receiving => c.len = 0
    /\ c.pc \notin Selecting => All(c) = {}
CallShape == \A t \in Callers : ShapeOf(call[t])

\* The entries of the list are those of the calls that are in it.
Enlisted ==
    /\ \A i, j \in 1..Len(list) : list[i] = list[j] => i = j
    /\ \A t \in Callers : call[t].pc \in InList <=> \E i \in 1..Len(list) : list[i] = t

\* A loop under way has an event, and an entry unless it has to begin again.
LoopsAt ==
    \A a \in Actors : cb[a].at # NoCaller =>
        /\ cb[a].events # <<>>
        /\ ~cb[a].stale => \E i \in 1..Len(list) : list[i] = cb[a].at

\* A receiving thread reports the buffer it has taken.
CallersReport ==
    \A t \in Callers : cb[t].events # <<>> =>
        /\ call[t].pc = "fetched"
        /\ cb[t].events = <<[fd |-> call[t].fd, evt |-> "RCVMINUS"]>>

\* A socket counts the calls that count on it.
Counted(t, fd) ==
    /\ fd \in All(call[t])
    /\ \/ call[t].pc \in {"rescan", "wait"}
       \/ call[t].pc = "count" /\ fd \notin call[t].todo
       \/ call[t].pc \in {"uncount", "giveup"} /\ fd \in call[t].todo
CountsRight ==
    \A fd \in Fds : sock[fd].waiting = Cardinality({t \in Callers : Counted(t, fd)})

\* A socket in use is open.
InUse ==
    \A t \in Callers :
        /\ \A fd \in All(call[t]) : sock[fd].open
        /\ call[t].pc \in Receiving => sock[call[t].fd].open

\* The semaphore of a call that was told of an event.
Signals ==
    \A t \in Callers :
        signalled[t] /\ call[t].pc \in {"count", "rescan", "wait"} => sem[t] > 0

\* An event the call waits for, and a loop that will come to its entry.
Awaited(t, fd) ==
    \/ fd \in call[t].rs /\ sock[fd].rcvevent > 0
    \/ fd \in call[t].ws /\ sock[fd].sendevent
Before(u, t) == \E i, j \in 1..Len(list) : i < j /\ list[i] = u /\ list[j] = t
WillTell(a, t, fd) ==
    /\ cb[a].at # NoCaller /\ Head(cb[a].events).fd = fd
    /\ cb[a].stale \/ Before(cb[a].at, t)

\* What a call counts on, and has looked at without success, it will be told.
Told ==
    \A t \in Callers, fd \in Fds :
        /\ call[t].pc \in {"rescan", "wait"} /\ call[t].ready = {} /\ ~signalled[t]
        /\ fd \in All(call[t]) \ call[t].todo /\ Awaited(t, fd)
        => \E a \in Actors : WillTell(a, t, fd)

SelectInv ==
    /\ SocketTypeOK /\ CallShape /\ Enlisted /\ LoopsAt /\ CallersReport /\ CountsRight /\ InUse
    /\ Signals /\ Told

LEMMA Constants ==
    /\ Eof \in Item /\ Fresh \in Socket /\ NoCall \in SocketCall
    /\ Quiet \in Callback
<1>1. Eof \in Item
  BY DEF Eof, Item
<1>2. FALSE \in BOOLEAN
  BY Zenon
<1>3. Fresh \in Socket
  BY <1>1, <1>2 DEF Fresh, Socket
<1>4. NoCall \in SocketCall
  BY <1>1, <1>2 DEF NoCall, SocketCall
<1>5. Quiet \in Callback
  BY <1>2 DEF Quiet, Callback
<1> QED BY <1>1, <1>3, <1>4, <1>5

\* The smallest of some sockets.
LEMMA LeastIsOne ==
    ASSUME NEW S, S \subseteq Fds, S # {}
    PROVE  Least(S) \in S
<1>1. \E n \in S : \A k \in S : n <= k
  BY SocketAssumption, LeastExists
<1> QED BY <1>1 DEF Least

\* Where a loop over the sockets leads.
Loops == {"scan", "count", "rescan", "uncount", "giveup", "final"}
LEMMA LoopLeads ==
    ASSUME NEW c \in SocketCall, c.pc \in Loops, c.todo = {}
    PROVE  /\ LoopDone(c) \in SocketCall
           /\ c.pc = "scan" => LoopDone(c) \in {NoCall, [c EXCEPT !.pc = "enlist"]}
           /\ c.pc = "count" =>
                 LoopDone(c) = [c EXCEPT !.ready = {}, !.pc = "rescan", !.todo = All(c)]
           /\ c.pc = "rescan" =>
                 LoopDone(c) = IF c.ready # {} THEN [c EXCEPT !.pc = "uncount", !.todo = All(c)]
                                               ELSE [c EXCEPT !.pc = "wait"]
           /\ c.pc = "uncount" => LoopDone(c) = [c EXCEPT !.pc = "leave"]
           /\ c.pc = "giveup" => LoopDone(c) = [c EXCEPT !.pc = "delist"]
           /\ c.pc = "final" => LoopDone(c) = NoCall
<1> USE DEF LoopDone, Begin, All
<1>1. CASE c.pc = "scan"
  <2>1. LoopDone(c) \in {NoCall, [c EXCEPT !.pc = "enlist"]}
    BY <1>1
  <2>2. [c EXCEPT !.pc = "enlist"] \in SocketCall
    BY DEF SocketCall, Selecting
  <2> QED BY <1>1, <2>1, <2>2, Constants
<1>2. CASE c.pc = "count"
  <2>1. LoopDone(c) = [c EXCEPT !.ready = {}, !.pc = "rescan", !.todo = All(c)]
    BY <1>2 DEF SocketCall
  <2>2. [c EXCEPT !.ready = {}, !.pc = "rescan", !.todo = All(c)] \in SocketCall
    BY DEF SocketCall, InList, Selecting
  <2> QED BY <1>2, <2>1, <2>2
<1>3. CASE c.pc = "rescan"
  <2>1. LoopDone(c) = IF c.ready # {} THEN [c EXCEPT !.pc = "uncount", !.todo = All(c)]
                                      ELSE [c EXCEPT !.pc = "wait"]
    BY <1>3 DEF SocketCall
  <2>2. /\ [c EXCEPT !.pc = "uncount", !.todo = All(c)] \in SocketCall
        /\ [c EXCEPT !.pc = "wait"] \in SocketCall
    BY DEF SocketCall, InList, Selecting
  <2> QED BY <1>3, <2>1, <2>2
<1>4. CASE c.pc = "uncount"
  <2>1. LoopDone(c) = [c EXCEPT !.pc = "leave"]
    BY <1>4 DEF SocketCall
  <2>2. [c EXCEPT !.pc = "leave"] \in SocketCall
    BY DEF SocketCall, InList, Selecting
  <2> QED BY <1>4, <2>1, <2>2
<1>5. CASE c.pc = "giveup"
  <2>1. LoopDone(c) = [c EXCEPT !.pc = "delist"]
    BY <1>5 DEF SocketCall
  <2>2. [c EXCEPT !.pc = "delist"] \in SocketCall
    BY DEF SocketCall, InList, Selecting
  <2> QED BY <1>5, <2>1, <2>2
<1>6. CASE c.pc = "final"
  BY <1>6, Constants
<1> QED BY <1>1, <1>2, <1>3, <1>4, <1>5, <1>6 DEF Loops

\* What a turn of such a loop makes of a call that looks at fd.
Delta(pc) == CASE pc = "count" -> 1 [] pc \in {"uncount", "giveup"} -> -1 [] OTHER -> 0
Looked(c, fd, n) ==
    /\ n.pc = c.pc /\ n.rs = c.rs /\ n.ws = c.ws /\ n.todo = c.todo \ {fd}
    /\ n.len = c.len /\ n.fd = c.fd /\ n.off = c.off /\ n.hand = c.hand
    /\ n.ready = IF /\ c.pc \in {"scan", "rescan", "final"}
                    /\ (fd \in c.rs /\ Readable(fd)) \/ (fd \in c.ws /\ sock[fd].sendevent)
                 THEN c.ready \cup {fd} ELSE c.ready

LEMMA LoopTurns ==
    ASSUME SocketTypeOK, NEW t \in Callers, LoopStep(t)
    PROVE  /\ call[t].pc \in Loops
           /\ \E fd \in call[t].todo, n \in SocketCall :
                 /\ Looked(call[t], fd, n)
                 /\ call' = [call EXCEPT ![t] = IF n.todo = {} THEN LoopDone(n) ELSE n]
                 /\ sock' = [sock EXCEPT ![fd].waiting = @ + Delta(call[t].pc)]
<1> DEFINE c == call[t]
           fd == Least(c.todo)
           r == (fd \in c.rs /\ Readable(fd)) \/ (fd \in c.ws /\ sock[fd].sendevent)
           ready == IF c.pc \in {"scan", "rescan", "final"} /\ r THEN c.ready \cup {fd} ELSE c.ready
           n == [c EXCEPT !.todo = c.todo \ {fd}, !.ready = ready]
<1>1. c \in SocketCall /\ c.todo # {} /\ c.pc \in Loops
  BY DEF LoopStep, SocketTypeOK, Loops
<1>2. fd \in c.todo /\ c.todo \subseteq Fds
  BY <1>1, LeastIsOne DEF SocketCall
<1>3. ready \subseteq Fds
  BY <1>1, <1>2 DEF SocketCall
<1>4. /\ call' = [call EXCEPT ![t] = IF n.todo = {} THEN LoopDone(n) ELSE n]
      /\ sock' = [sock EXCEPT ![fd].waiting = @ + Delta(c.pc)]
  BY DEF LoopStep, Delta
<1>5. n \in SocketCall /\ Looked(c, fd, n)
  <2>1. n.ready = ready
    BY <1>1 DEF SocketCall
  <2>2. Looked(c, fd, n)
    <3> HIDE DEF fd
    <3> QED BY <1>1, <2>1 DEF SocketCall, Looked
  <2> HIDE DEF fd, ready
  <2> QED BY <1>1, <1>3, <2>2 DEF SocketCall
<1> HIDE DEF n
<1> QED BY <1>1, <1>2, <1>4, <1>5

-----------------------------------------------------------------------------
\* Sequences: what is left of a buffer, a list without one of its entries.
LEMMA RestOf ==
    ASSUME NEW d \in Seq(Nat), NEW n \in 0..Len(d)
    PROVE  SubSeq(d, n + 1, Len(d)) \in Seq(Nat)
OBVIOUS

LEMMA Removed ==
    ASSUME NEW S, NEW q \in Seq(S), NEW i \in 1..Len(q)
    PROVE  /\ RemoveAt(q, i) \in Seq(S) /\ Len(RemoveAt(q, i)) = Len(q) - 1
           /\ \A j \in 1..(Len(q) - 1) : RemoveAt(q, i)[j] = IF j < i THEN q[j] ELSE q[j + 1]
<1> DEFINE front == SubSeq(q, 1, i - 1)
           back == SubSeq(q, i + 1, Len(q))
<1>1. front \in Seq(S) /\ Len(front) = i - 1 /\ \A j \in 1..(i - 1) : front[j] = q[j]
  OBVIOUS
<1>2. back \in Seq(S) /\ Len(back) = Len(q) - i /\ \A j \in 1..(Len(q) - i) : back[j] = q[i + j]
  OBVIOUS
<1>3. RemoveAt(q, i) = front \o back
  BY DEF RemoveAt
<1> HIDE DEF front, back
<1>4. front \o back \in Seq(S) /\ Len(front \o back) = Len(q) - 1
  BY <1>1, <1>2
<1>5. ASSUME NEW j \in 1..(Len(q) - 1)
      PROVE  (front \o back)[j] = IF j < i THEN q[j] ELSE q[j + 1]
  <2>1. CASE j < i
    BY <1>1, <1>2, <2>1
  <2>2. ASSUME j >= i
        PROVE  (front \o back)[j] = IF j < i THEN q[j] ELSE q[j + 1]
    <3>1. (front \o back)[j] = back[j - (i - 1)] /\ j - (i - 1) \in 1..(Len(q) - i)
      BY <1>1, <1>2, <2>2
    <3>2. i + (j - (i - 1)) = j + 1
      OBVIOUS
    <3> QED BY <1>2, <2>2, <3>1, <3>2
  <2>3. j < i \/ j >= i
    OBVIOUS
  <2> HIDE DEF front, back
  <2> QED BY <2>1, <2>2, <2>3, Zenon
<1> QED BY <1>3, <1>4, <1>5

LEMMA TailOf ==
    ASSUME NEW S, NEW q \in Seq(S), q # <<>>
    PROVE  Tail(q) \in Seq(S) /\ Head(q) \in S
OBVIOUS

LEMMA AppendTo ==
    ASSUME NEW S, NEW q \in Seq(S), NEW x \in S
    PROVE  Append(q, x) \in Seq(S) /\ Len(Append(q, x)) = Len(q) + 1
OBVIOUS

\* A field of a socket changes.
LEMMA SocketFields ==
    ASSUME NEW s \in Socket
    PROVE  /\ \A d \in Int : [s EXCEPT !.waiting = @ + d] \in Socket
           /\ \A d \in Int : [s EXCEPT !.rcvevent = d] \in Socket
           /\ \A b \in BOOLEAN : /\ [s EXCEPT !.sendevent = b] \in Socket
                                 /\ [s EXCEPT !.errevent = b] \in Socket
                                 /\ [s EXCEPT !.fatal = b] \in Socket
                                 /\ [s EXCEPT !.over = b] \in Socket
                                 /\ [s EXCEPT !.fatal = b, !.over = b] \in Socket
           /\ \A m \in Item : [s EXCEPT !.last = m] \in Socket
<1>1. \A d \in Int : [s EXCEPT !.rcvevent = d] \in Socket
  BY DEF Socket
<1>2. \A d \in Int : [s EXCEPT !.waiting = d] \in Socket
  BY DEF Socket
<1>3. s.waiting \in Int
  BY DEF Socket
<1>4. \A d \in Int : [s EXCEPT !.waiting = @ + d] \in Socket
  BY <1>2, <1>3
<1>5. \A b \in BOOLEAN : /\ [s EXCEPT !.sendevent = b] \in Socket
                         /\ [s EXCEPT !.errevent = b] \in Socket
                         /\ [s EXCEPT !.fatal = b] \in Socket
                         /\ [s EXCEPT !.over = b] \in Socket
  BY DEF Socket
<1>6. \A b \in BOOLEAN : [s EXCEPT !.fatal = b, !.over = b] \in Socket
  BY DEF Socket
<1>7. \A m \in Item : [s EXCEPT !.last = m] \in Socket
  BY DEF Socket
<1> QED BY <1>1, <1>4, <1>5, <1>6, <1>7

LEMMA DisturbedType == SocketTypeOK => Disturbed \in [Actors -> Callback]
<1> SUFFICES ASSUME SocketTypeOK, NEW a \in Actors
             PROVE  [cb[a] EXCEPT !.stale = cb[a].stale \/ cb[a].at # NoCaller] \in Callback
  BY DEF Disturbed
<1>1. cb[a] \in Callback
  BY DEF SocketTypeOK
<1>2. (cb[a].stale \/ cb[a].at # NoCaller) \in BOOLEAN
  BY <1>1, Zenon
<1> QED BY <1>1, <1>2 DEF Callback

\* The calls of select keep the types ...
LEMMA SelectTypes ==
    ASSUME SocketTypeOK, NEW t \in Callers,
           call[t].pc \in InList => \E i \in 1..Len(list) : list[i] = t,
           \/ \E rs, ws \in SUBSET Fds, poll \in BOOLEAN : SelectBegins(t, rs, ws, poll)
           \/ LoopStep(t) \/ Enlist(t) \/ WaitEnds(t) \/ Delist(t)
    PROVE  SocketTypeOK'
<1>0. call[t] \in SocketCall
  BY DEF SocketTypeOK
<1> DEFINE c == call[t]
<1>1. ASSUME NEW rs \in SUBSET Fds, NEW ws \in SUBSET Fds, NEW poll \in BOOLEAN,
             SelectBegins(t, rs, ws, poll)
      PROVE  SocketTypeOK'
  <2> DEFINE n == [NoCall EXCEPT !.pc = "scan", !.rs = rs, !.ws = ws, !.todo = rs \cup ws,
                                 !.poll = poll]
  <2>1. n \in SocketCall
    BY Constants DEF SocketCall, Selecting
  <2>2. call' = [call EXCEPT ![t] = n]
        /\ UNCHANGED <<sock, mbox, list, signalled, sem, cb, came>>
    BY <1>1 DEF SelectBegins
  <2> HIDE DEF n
  <2> QED BY <2>1, <2>2 DEF SocketTypeOK
<1>2. CASE LoopStep(t)
  <2>1. PICK fd \in c.todo, n \in SocketCall :
               /\ Looked(c, fd, n)
               /\ call' = [call EXCEPT ![t] = IF n.todo = {} THEN LoopDone(n) ELSE n]
               /\ sock' = [sock EXCEPT ![fd].waiting = @ + Delta(c.pc)]
    BY <1>2, LoopTurns
  <2>2. (IF n.todo = {} THEN LoopDone(n) ELSE n) \in SocketCall
    BY <1>2, <2>1, LoopTurns, LoopLeads DEF Looked
  <2>3. call' \in [Callers -> SocketCall]
    BY <2>1, <2>2 DEF SocketTypeOK
  <2>4. fd \in Fds /\ Delta(c.pc) \in Int
    BY <1>0 DEF SocketCall, Delta
  <2>5. [sock[fd] EXCEPT !.waiting = @ + Delta(c.pc)] \in Socket
    BY <2>4, SocketFields DEF SocketTypeOK, SocketCall
  <2>6. sock' \in [Fds -> Socket]
    BY <2>1, <2>4, <2>5 DEF SocketTypeOK
  <2> QED BY <1>2, <2>3, <2>6 DEF LoopStep, SocketTypeOK
<1>3. CASE Enlist(t)
  <2> DEFINE n == [c EXCEPT !.pc = "count", !.todo = All(c)]
  <2>1. n \in SocketCall
    BY <1>0 DEF SocketCall, All, Selecting, InList
  <2>2. /\ call' = [call EXCEPT ![t] = n] /\ list' = <<t>> \o list /\ cb' = Disturbed
        /\ signalled' = [signalled EXCEPT ![t] = FALSE] /\ sem' = [sem EXCEPT ![t] = 0]
        /\ UNCHANGED <<sock, mbox, came>>
    BY <1>3 DEF Enlist, Begin
  <2> HIDE DEF n
  <2>3. call' \in [Callers -> SocketCall] /\ sem' \in [Callers -> Nat]
    BY <2>1, <2>2 DEF SocketTypeOK
  <2>4. list' \in Seq(Callers)
    BY <2>2 DEF SocketTypeOK
  <2>5. cb' \in [Actors -> Callback]
    BY <2>2, DisturbedType
  <2>6. signalled' \in [Callers -> BOOLEAN]
    <3>1. FALSE \in BOOLEAN
      BY Zenon
    <3> QED BY <2>2, <3>1 DEF SocketTypeOK
  <2> QED BY <2>2, <2>3, <2>4, <2>5, <2>6 DEF SocketTypeOK
<1>4. CASE WaitEnds(t)
  <2>1. \A pc \in {"uncount", "giveup"} : Begin(c, pc) \in SocketCall
    BY <1>0 DEF SocketCall, All, Selecting, InList, Begin
  <2>2. \E pc \in {"uncount", "giveup"} : call' = [call EXCEPT ![t] = Begin(c, pc)]
    BY <1>4 DEF WaitEnds
  <2>3. call' \in [Callers -> SocketCall]
    BY <2>1, <2>2 DEF SocketTypeOK
  <2>4. sem' \in [Callers -> Nat]
    BY <1>4 DEF WaitEnds, SocketTypeOK
  <2> QED BY <1>4, <2>3, <2>4 DEF WaitEnds, SocketTypeOK
<1>5. CASE Delist(t)
  <2> DEFINE n == IF c.pc = "delist" THEN NoCall ELSE Begin([c EXCEPT !.ready = {}], "final")
  <2>1. n \in SocketCall
    BY <1>0, Constants DEF SocketCall, All, Selecting, InList, Begin
  <2>2. /\ call' = [call EXCEPT ![t] = n] /\ list' = RemoveAt(list, PlaceOf(t)) /\ cb' = Disturbed
        /\ UNCHANGED <<sock, mbox, signalled, sem, came>>
    BY <1>5 DEF Delist
  <2> HIDE DEF n
  <2>3. call' \in [Callers -> SocketCall]
    BY <2>1, <2>2 DEF SocketTypeOK
  <2>4. list' \in Seq(Callers)
    <3>1. \E i \in 1..Len(list) : list[i] = t
      BY <1>5 DEF Delist, InList
    <3>2. PlaceOf(t) \in 1..Len(list)
      BY <3>1 DEF PlaceOf
    <3> QED BY <2>2, <3>2, Removed DEF SocketTypeOK
  <2>5. cb' \in [Actors -> Callback]
    BY <2>2, DisturbedType
  <2> QED BY <2>2, <2>3, <2>4, <2>5 DEF SocketTypeOK
<1> QED BY <1>1, <1>2, <1>3, <1>4, <1>5

\* ... and so do those of recv, ...
LEMMA RecvTypes ==
    ASSUME SocketTypeOK, CallShape, NEW t \in Callers,
           \/ \E fd \in Fds, len \in 1..2, peek, poll \in BOOLEAN : RecvBegins(t, fd, len, peek, poll)
           \/ Take(t) \/ Fetch(t) \/ FetchedBuffer(t) \/ Copy(t)
    PROVE  SocketTypeOK'
<1> DEFINE c == call[t]
<1>0. c \in SocketCall /\ (c.pc \in Receiving => c.fd \in Fds /\ c.len > 0)
  BY DEF SocketTypeOK, CallShape, ShapeOf
<1>1. ASSUME NEW fd \in Fds, NEW len \in 1..2, NEW peek \in BOOLEAN, NEW poll \in BOOLEAN,
             RecvBegins(t, fd, len, peek, poll)
      PROVE  SocketTypeOK'
  <2> DEFINE n == [NoCall EXCEPT !.pc = "take", !.fd = fd, !.len = len, !.peek = peek, !.poll = poll]
  <2>1. n \in SocketCall
    <3>1. [NoCall EXCEPT !.pc = "take", !.fd = fd, !.len = len] \in SocketCall
      <4>1. fd \in Nat /\ len \in Nat
        BY SocketAssumption
      <4> QED BY <4>1, Constants DEF SocketCall, Receiving
    <3>2. \A m \in SocketCall : [m EXCEPT !.peek = peek, !.poll = poll] \in SocketCall
      BY DEF SocketCall
    <3>3. n = [[NoCall EXCEPT !.pc = "take", !.fd = fd, !.len = len]
                  EXCEPT !.peek = peek, !.poll = poll]
      BY DEF NoCall
    <3> QED BY <3>1, <3>2, <3>3
  <2>2. call' = [call EXCEPT ![t] = n]
        /\ UNCHANGED <<sock, mbox, list, signalled, sem, cb, came>>
    BY <1>1 DEF RecvBegins
  <2> HIDE DEF n
  <2> QED BY <2>1, <2>2 DEF SocketTypeOK
<1>2. CASE Take(t)
  <2>1. \E n \in {[c EXCEPT !.pc = "copy"], NoCall, [c EXCEPT !.pc = "fetch"]} :
           call' = [call EXCEPT ![t] = n]
    BY <1>2 DEF Take
  <2>2. {[c EXCEPT !.pc = "copy"], NoCall, [c EXCEPT !.pc = "fetch"]} \subseteq SocketCall
    BY <1>0, Constants DEF SocketCall, Receiving
  <2>3. call' \in [Callers -> SocketCall]
    BY <2>1, <2>2 DEF SocketTypeOK
  <2> QED BY <1>2, <2>3 DEF Take, SocketTypeOK
<1>3. CASE Fetch(t)
  <2> DEFINE fd == c.fd
  <2>1. fd \in Fds /\ mbox[fd] \in Seq(Item) /\ mbox[fd] # <<>>
    BY <1>0, <1>3 DEF Fetch, Receiving, SocketTypeOK
  <2>2. Tail(mbox[fd]) \in Seq(Item) /\ Head(mbox[fd]) \in Item
    BY <2>1, TailOf
  <2>3. /\ call' = [call EXCEPT ![t] = [c EXCEPT !.pc = "fetched", !.hand = Head(mbox[fd])]]
        /\ mbox' = [mbox EXCEPT ![fd] = Tail(@)]
        /\ cb' = [cb EXCEPT ![t] = [@ EXCEPT !.events = <<[fd |-> fd, evt |-> "RCVMINUS"]>>]]
        /\ UNCHANGED <<sock, list, signalled, sem, came>>
    BY <1>3 DEF Fetch, SocketTypeOK
  <2>4. [c EXCEPT !.pc = "fetched", !.hand = Head(mbox[fd])] \in SocketCall
    BY <1>0, <2>2 DEF SocketCall, Receiving
  <2>5. [cb[t] EXCEPT !.events = <<[fd |-> fd, evt |-> "RCVMINUS"]>>] \in Callback
    <3>1. <<[fd |-> fd, evt |-> "RCVMINUS"]>> \in Seq(Event)
      BY <2>1 DEF Event
    <3> QED BY <3>1 DEF SocketTypeOK, Callback, Actors
  <2> HIDE DEF fd
  <2>6. call' \in [Callers -> SocketCall]
    BY <2>3, <2>4 DEF SocketTypeOK
  <2>7. mbox' \in [Fds -> Seq(Item)]
    BY <2>1, <2>2, <2>3 DEF SocketTypeOK
  <2>8. cb' \in [Actors -> Callback]
    BY <2>3, <2>5 DEF SocketTypeOK
  <2> QED BY <2>3, <2>6, <2>7, <2>8 DEF SocketTypeOK
<1>4. CASE FetchedBuffer(t)
  <2>1. c.fd \in Fds /\ c.hand \in Item
    BY <1>0, <1>4 DEF FetchedBuffer, Receiving, SocketCall
  <2>2. \E n \in {NoCall, [c EXCEPT !.pc = "copy", !.hand = Eof]} :
            call' = [call EXCEPT ![t] = n]
    BY <1>4 DEF FetchedBuffer
  <2>3. {NoCall, [c EXCEPT !.pc = "copy", !.hand = Eof]} \subseteq SocketCall
    <3>1. c \in SocketCall /\ Eof \in Item /\ NoCall \in SocketCall
      BY <1>0, Constants
    <3> HIDE DEF c
    <3>2. [c EXCEPT !.pc = "copy", !.hand = Eof] \in SocketCall
      BY <3>1 DEF SocketCall, Receiving
    <3> QED BY <3>1, <3>2
  <2>4. call' \in [Callers -> SocketCall]
    BY <2>2, <2>3 DEF SocketTypeOK
  <2>5. \E s \in {[sock[c.fd] EXCEPT !.fatal = TRUE], [sock[c.fd] EXCEPT !.last = c.hand]} :
            sock' = [sock EXCEPT ![c.fd] = s]
    BY <1>4 DEF FetchedBuffer
  <2>6. {[sock[c.fd] EXCEPT !.fatal = TRUE], [sock[c.fd] EXCEPT !.last = c.hand]} \subseteq Socket
    <3>1. sock[c.fd] \in Socket
      BY <2>1 DEF SocketTypeOK
    <3>2. TRUE \in BOOLEAN
      BY Zenon
    <3> QED BY <2>1, <3>1, <3>2, SocketFields
  <2>7. sock' \in [Fds -> Socket]
    BY <2>5, <2>6 DEF SocketTypeOK
  <2> QED BY <1>4, <2>4, <2>7 DEF FetchedBuffer, SocketTypeOK
<1>5. CASE Copy(t)
  <2> DEFINE fd == c.fd
             s == sock[fd]
             d == s.last.data
             n == IF c.len < Len(d) THEN c.len ELSE Len(d)
             rest == SubSeq(d, n + 1, Len(d))
             done == n = c.len \/ s.last.push \/ s.rcvevent <= 0 \/ c.peek
             m == IF c.peek THEN s.last ELSE IF rest = <<>> THEN Eof ELSE [s.last EXCEPT !.data = rest]
             e == IF done THEN NoCall ELSE [c EXCEPT !.pc = "take", !.len = @ - n, !.off = @ + n]
  <2>1. fd \in Fds /\ s \in Socket /\ s.last \in Item /\ d \in Seq(Nat) /\ Len(d) \in Nat
    <3>1. fd \in Fds
      BY <1>0, <1>5 DEF Copy, Receiving
    <3>2. s \in Socket
      BY <3>1 DEF SocketTypeOK
    <3>3. s.last \in Item
      BY <3>2 DEF Socket
    <3>4. d \in Seq(Nat)
      BY <3>3 DEF Item
    <3> HIDE DEF fd, s, d
    <3>5. Len(d) \in Nat
      BY <3>4
    <3> QED BY <3>1, <3>2, <3>3, <3>4, <3>5
  <2>2. n \in 0..Len(d) /\ c.len \in Nat /\ n <= c.len
    BY <1>0, <2>1 DEF SocketCall
  <2>3. m \in Item
    <3>1. rest \in Seq(Nat)
      BY <2>1, <2>2, RestOf
    <3> HIDE DEF rest
    <3> QED BY <2>1, <3>1, Constants DEF Item
  <2>4. e \in SocketCall
    <3> HIDE DEF n, done
    <3>1. c.len - n \in Nat /\ c.off + n \in Nat
      BY <1>0, <2>1, <2>2 DEF SocketCall
    <3> QED BY <1>0, <3>1, Constants DEF SocketCall, Receiving
  <2>5. sock' = [sock EXCEPT ![fd] = [s EXCEPT !.last = m]] /\ call' = [call EXCEPT ![t] = e]
        /\ UNCHANGED <<mbox, list, signalled, sem, cb, came>>
    BY <1>5 DEF Copy
  <2>6. [s EXCEPT !.last = m] \in Socket
    <3> HIDE DEF s, m
    <3> QED BY <2>1, <2>3, SocketFields
  <2> HIDE DEF fd, s, m, e
  <2>7. sock' \in [Fds -> Socket]
    BY <2>5, <2>6 DEF SocketTypeOK
  <2>8. call' \in [Callers -> SocketCall]
    BY <2>4, <2>5 DEF SocketTypeOK
  <2> QED BY <2>5, <2>7, <2>8 DEF SocketTypeOK
<1> QED BY <1>1, <1>2, <1>3, <1>4, <1>5

\* ... opening and closing, ...
LEMMA OpenTypes ==
    ASSUME SocketTypeOK, NEW t \in Callers, Open(t) \/ \E fd \in Fds : Close(t, fd)
    PROVE  SocketTypeOK'
<1>1. PICK fd \in Fds, s \in {Fresh, [Fresh EXCEPT !.open = TRUE]} :
         /\ sock' = [sock EXCEPT ![fd] = s] /\ mbox' = [mbox EXCEPT ![fd] = <<>>]
         /\ came' = [came EXCEPT ![fd] = 0]
         /\ UNCHANGED <<list, signalled, sem, call, cb>>
  BY DEF Open, Close
<1>2. TRUE \in BOOLEAN
  BY Zenon
<1>3. s \in Socket
  BY <1>1, <1>2, Constants DEF Socket
<1>4. sock' \in [Fds -> Socket]
  BY <1>1, <1>3 DEF SocketTypeOK
<1>5. mbox' \in [Fds -> Seq(Item)]
  <2>1. <<>> \in Seq(Item)
    OBVIOUS
  <2> QED BY <1>1, <2>1 DEF SocketTypeOK
<1>6. came' \in [Fds -> Nat]
  BY <1>1 DEF SocketTypeOK
<1> QED BY <1>1, <1>4, <1>5, <1>6 DEF SocketTypeOK

\* ... the reports of the stack ...
LEMMA StackTypes ==
    ASSUME SocketTypeOK, Stack
    PROVE  SocketTypeOK'
<1> DEFINE Reported == {"RCVPLUS", "SENDPLUS", "SENDMINUS", "ERROR", "NULL"}
<1>0. /\ <<"RCVPLUS">> \in Seq(Reported) /\ <<"SENDMINUS">> \in Seq(Reported)
      /\ <<"SENDPLUS">> \in Seq(Reported)
      /\ <<"ERROR", "RCVPLUS", "SENDPLUS", "NULL">> \in Seq(Reported)
  OBVIOUS
<1>1. ASSUME NEW fd \in Fds, NEW evts \in Seq(Reported),
             Reports(fd, evts)
      PROVE  cb' \in [Actors -> Callback]
  <2> DEFINE q == [i \in 1..Len(evts) |-> [fd |-> fd, evt |-> evts[i]]]
  <2>1. q \in Seq(Event)
    <3>1. \A i \in 1..Len(evts) : [fd |-> fd, evt |-> evts[i]] \in Event
      BY DEF Event
    <3>2. Len(evts) \in Nat
      OBVIOUS
    <3> QED BY <3>1, <3>2
  <2>2. cb' = [cb EXCEPT ![Tcpip] = [@ EXCEPT !.events = q]]
    BY <1>1 DEF Reports, SocketTypeOK
  <2> HIDE DEF q
  <2>3. [cb[Tcpip] EXCEPT !.events = q] \in Callback
    BY <2>1 DEF SocketTypeOK, Callback, Actors
  <2> QED BY <2>2, <2>3 DEF SocketTypeOK
<1>2. ASSUME NEW fd \in Fds, NEW n \in 0..2, NEW push \in BOOLEAN, RecvTcp(fd, n, push)
      PROVE  SocketTypeOK'
  <2> DEFINE m == IF n = 0 THEN Eof ELSE [data |-> [i \in 1..n |-> came[fd] + i], push |-> push]
             over == n = 0
  <2>1. /\ mbox' = [mbox EXCEPT ![fd] = Append(@, m)] /\ came' = [came EXCEPT ![fd] = @ + n]
        /\ sock' = [sock EXCEPT ![fd] = [@ EXCEPT !.over = over]] /\ Reports(fd, <<"RCVPLUS">>)
        /\ UNCHANGED <<list, signalled, sem, call>>
    BY <1>2 DEF RecvTcp, SocketTypeOK
  <2>2. m \in Item
    <3>1. came[fd] \in Nat
      BY DEF SocketTypeOK
    <3>2. [i \in 1..n |-> came[fd] + i] \in Seq(Nat)
      BY <3>1
    <3> QED BY <3>2, Constants DEF Item
  <2>3. over \in BOOLEAN
    BY Zenon
  <2> HIDE DEF m, over
  <2>4. mbox' \in [Fds -> Seq(Item)]
    <3>1. Append(mbox[fd], m) \in Seq(Item)
      BY <2>2, AppendTo DEF SocketTypeOK
    <3> QED BY <2>1, <3>1 DEF SocketTypeOK
  <2>5. sock' \in [Fds -> Socket]
    BY <2>1, <2>3, SocketFields DEF SocketTypeOK
  <2>6. came' \in [Fds -> Nat]
    BY <2>1 DEF SocketTypeOK
  <2>7. cb' \in [Actors -> Callback]
    BY <2>1, <1>0, <1>1
  <2> QED BY <2>1, <2>4, <2>5, <2>6, <2>7 DEF SocketTypeOK
<1>3. ASSUME NEW fd \in Fds, BufferChanges(fd)
      PROVE  SocketTypeOK'
  <2>1. cb' \in [Actors -> Callback]
    <3>1. Reports(fd, <<"SENDMINUS">>) \/ Reports(fd, <<"SENDPLUS">>)
      BY <1>3 DEF BufferChanges
    <3> QED BY <3>1, <1>0, <1>1
  <2> QED BY <1>3, <2>1 DEF BufferChanges, SocketTypeOK
<1>4. ASSUME NEW fd \in Fds, ErrTcp(fd)
      PROVE  SocketTypeOK'
  <2>1. cb' \in [Actors -> Callback]
    <3>1. Reports(fd, <<"ERROR", "RCVPLUS", "SENDPLUS", "NULL">>)
      BY <1>4 DEF ErrTcp
    <3> QED BY <3>1, <1>0, <1>1
  <2>2. sock' = [sock EXCEPT ![fd] = [@ EXCEPT !.fatal = TRUE, !.over = TRUE]]
    BY <1>4 DEF ErrTcp, SocketTypeOK
  <2>3. TRUE \in BOOLEAN
    BY Zenon
  <2>4. sock' \in [Fds -> Socket]
    BY <2>2, <2>3, SocketFields DEF SocketTypeOK
  <2> QED BY <1>4, <2>1, <2>4 DEF ErrTcp, SocketTypeOK
<1> QED BY <1>2, <1>3, <1>4 DEF Stack

-----------------------------------------------------------------------------
\* What one turn of the loop of event_callback does: it comes to the entry u,
\* or to the end.
Advanced(a, u, s, fd) ==
    /\ cb' \in [Actors -> Callback] /\ \A b \in Actors : b # a => cb'[b] = cb[b]
    /\ signalled' \in [Callers -> BOOLEAN] /\ sem' \in [Callers -> Nat]
    /\ \A t \in Callers : signalled[t] => signalled'[t] /\ sem'[t] = sem[t]
    /\ \A t \in Callers : signalled'[t] /\ ~signalled[t] => sem'[t] > 0
    /\ u = NoCaller => /\ cb'[a].events = Tail(cb[a].events) /\ cb'[a].at = NoCaller
                       /\ UNCHANGED <<signalled, sem>>
    /\ u # NoCaller => /\ cb'[a].events = cb[a].events /\ cb'[a].at = u
                       /\ cb'[a].stale = FALSE
                       /\ \/ fd \in call[u].rs /\ s.rcvevent > 0
                          \/ fd \in call[u].ws /\ s.sendevent
                          => signalled'[u]

LEMMA Examined ==
    ASSUME SocketTypeOK, NEW a \in Actors, NEW u \in Callers \cup {NoCaller}, NEW s \in Socket,
           NEW fd \in Fds, cb[a].events # <<>>, Examine(a, u, s, fd)
    PROVE  Advanced(a, u, s, fd)
<1>0. cb[a] \in Callback /\ Tail(cb[a].events) \in Seq(Event)
  BY TailOf DEF SocketTypeOK, Callback
<1>f. FALSE \in BOOLEAN /\ TRUE \in BOOLEAN
  BY Zenon
<1>1. CASE u = NoCaller
  <2>1. /\ cb' = [cb EXCEPT ![a] = [Quiet EXCEPT !.events = Tail(cb[a].events)]]
        /\ UNCHANGED <<signalled, sem>>
    BY <1>1 DEF Examine
  <2>2. [Quiet EXCEPT !.events = Tail(cb[a].events)] \in Callback
    BY <1>0, <1>f DEF Quiet, Callback
  <2>3. cb' \in [Actors -> Callback]
    BY <2>1, <2>2 DEF SocketTypeOK
  <2>4. cb'[a].events = Tail(cb[a].events) /\ cb'[a].at = NoCaller
    BY <2>1 DEF SocketTypeOK, Quiet
  <2>5. \A b \in Actors : b # a => cb'[b] = cb[b]
    BY <2>1 DEF SocketTypeOK
  <2> QED BY <1>1, <2>1, <2>3, <2>4, <2>5 DEF SocketTypeOK, Advanced
<1>2. CASE u # NoCaller
  <2> DEFINE wanted == \/ s.rcvevent > 0 /\ fd \in call[u].rs
                       \/ s.sendevent /\ fd \in call[u].ws
  <2>1. /\ cb' = [cb EXCEPT ![a] = [@ EXCEPT !.at = u, !.stale = FALSE]]
        /\ IF ~signalled[u] /\ wanted
           THEN signalled' = [signalled EXCEPT ![u] = TRUE] /\ sem' = [sem EXCEPT ![u] = @ + 1]
           ELSE UNCHANGED <<signalled, sem>>
    BY <1>2 DEF Examine, SocketTypeOK
  <2> HIDE DEF wanted
  <2>2. u \in Callers
    BY <1>2
  <2>3. [cb[a] EXCEPT !.at = u, !.stale = FALSE] \in Callback
    BY <1>0, <1>f DEF Callback
  <2>4. cb' \in [Actors -> Callback]
    BY <2>1, <2>3 DEF SocketTypeOK
  <2>5. /\ cb'[a].events = cb[a].events /\ cb'[a].at = u /\ cb'[a].stale = FALSE
    BY <1>0, <2>1 DEF SocketTypeOK, Callback
  <2>6. /\ signalled' \in [Callers -> BOOLEAN]
        /\ wanted => signalled'[u]
        /\ \A t \in Callers : signalled[t] => signalled'[t]
        /\ \A t \in Callers : signalled'[t] /\ ~signalled[t] => t = u /\ sem' = [sem EXCEPT ![u] = @ + 1]
    <3>0. signalled \in [Callers -> BOOLEAN]
      BY DEF SocketTypeOK
    <3>1. CASE ~signalled[u] /\ wanted
      <4>1. signalled' = [signalled EXCEPT ![u] = TRUE] /\ sem' = [sem EXCEPT ![u] = @ + 1]
        BY <2>1, <3>1
      <4>2. /\ signalled' \in [Callers -> BOOLEAN] /\ signalled'[u]
            /\ \A t \in Callers : t # u => signalled'[t] = signalled[t]
        BY <4>1, <3>0, <2>2, <1>f
      <4> QED BY <4>1, <4>2, Zenon
    <3>2. CASE ~(~signalled[u] /\ wanted)
      <4>1. signalled' = signalled
        BY <2>1, <3>2
      <4> QED BY <4>1, <3>0, <3>2, Zenon
    <3> QED BY <3>1, <3>2
  <2>7. sem' \in [Callers -> Nat]
    <3>1. sem' = sem \/ sem' = [sem EXCEPT ![u] = @ + 1]
      BY <2>1
    <3>2. sem \in [Callers -> Nat]
      BY DEF SocketTypeOK
    <3>3. sem[u] + 1 \in Nat
      BY <2>2, <3>2
    <3>4. CASE sem' = [sem EXCEPT ![u] = @ + 1]
      BY <3>2, <3>3, <3>4
    <3> QED BY <3>1, <3>2, <3>4
  <2>8. \A t \in Callers : signalled[t] => sem'[t] = sem[t]
    BY <2>1, <2>2 DEF SocketTypeOK
  <2>9. \A t \in Callers : signalled'[t] /\ ~signalled[t] => sem'[t] > 0
    BY <2>6, <2>2 DEF SocketTypeOK
  <2>10. \A b \in Actors : b # a => cb'[b] = cb[b]
    BY <2>1 DEF SocketTypeOK
  <2> QED BY <1>2, <2>4, <2>5, <2>6, <2>7, <2>8, <2>9, <2>10 DEF wanted, Advanced
<1> QED BY <1>1, <1>2

\* An event changes what is counted and what may be written, and the mailbox.
LEMMA EventApplied ==
    ASSUME NEW s \in Socket, NEW e \in Event, e.evt # "NULL"
    PROVE  /\ Applied(s, e.evt) \in Socket
           /\ Applied(s, e.evt).waiting = s.waiting /\ Applied(s, e.evt).open = s.open
           /\ Applied(s, e.evt).fatal = s.fatal /\ Applied(s, e.evt).last = s.last
           /\ Applied(s, e.evt).rcvevent =
                 s.rcvevent + CASE e.evt = "RCVPLUS" -> 1 [] e.evt = "RCVMINUS" -> -1 [] OTHER -> 0
<1>0. s.rcvevent \in Int /\ FALSE \in BOOLEAN /\ TRUE \in BOOLEAN
  BY Zenon DEF Socket
<1>1. CASE e.evt = "RCVPLUS"
  <2>1. Applied(s, e.evt) = [s EXCEPT !.rcvevent = @ + 1]
    BY <1>1 DEF Applied
  <2>2. Applied(s, e.evt) \in Socket
    <3>1. s.rcvevent + 1 \in Int
      BY <1>0
    <3> DEFINE d == s.rcvevent + 1
    <3>2. Applied(s, e.evt) = [s EXCEPT !.rcvevent = d] /\ d \in Int
      BY <2>1, <3>1
    <3> HIDE DEF d
    <3> QED BY <3>2, SocketFields
  <2>3. /\ Applied(s, e.evt).waiting = s.waiting /\ Applied(s, e.evt).open = s.open
        /\ Applied(s, e.evt).fatal = s.fatal /\ Applied(s, e.evt).last = s.last
    BY <2>1 DEF Socket
  <2>4. Applied(s, e.evt).rcvevent = s.rcvevent + 1
    BY <1>0, <2>1 DEF Socket
  <2> QED BY <1>1, <2>2, <2>3, <2>4
<1>2. CASE e.evt = "RCVMINUS"
  <2>1. Applied(s, e.evt) = [s EXCEPT !.rcvevent = @ - 1]
    BY <1>2 DEF Applied
  <2>2. Applied(s, e.evt) \in Socket
    <3>1. s.rcvevent - 1 \in Int
      BY <1>0
    <3> DEFINE d == s.rcvevent - 1
    <3>2. Applied(s, e.evt) = [s EXCEPT !.rcvevent = d] /\ d \in Int
      BY <2>1, <3>1
    <3> HIDE DEF d
    <3> QED BY <3>2, SocketFields
  <2>3. /\ Applied(s, e.evt).waiting = s.waiting /\ Applied(s, e.evt).open = s.open
        /\ Applied(s, e.evt).fatal = s.fatal /\ Applied(s, e.evt).last = s.last
    BY <2>1 DEF Socket
  <2>4. Applied(s, e.evt).rcvevent = s.rcvevent + (-1)
    BY <1>0, <2>1 DEF Socket
  <2> QED BY <1>2, <2>2, <2>3, <2>4
<1>3. CASE e.evt = "SENDPLUS"
  <2>1. Applied(s, e.evt) = [s EXCEPT !.sendevent = TRUE]
    BY <1>3 DEF Applied
  <2>2. Applied(s, e.evt) \in Socket
    BY <1>0, <2>1, SocketFields
  <2>3. /\ Applied(s, e.evt).waiting = s.waiting /\ Applied(s, e.evt).open = s.open
        /\ Applied(s, e.evt).fatal = s.fatal /\ Applied(s, e.evt).last = s.last
    BY <2>1 DEF Socket
  <2>4. Applied(s, e.evt).rcvevent = s.rcvevent + 0
    BY <1>0, <2>1 DEF Socket
  <2> QED BY <1>3, <2>2, <2>3, <2>4
<1>4. CASE e.evt = "SENDMINUS"
  <2>1. Applied(s, e.evt) = [s EXCEPT !.sendevent = FALSE]
    BY <1>4 DEF Applied
  <2>2. Applied(s, e.evt) \in Socket
    BY <1>0, <2>1, SocketFields
  <2>3. /\ Applied(s, e.evt).waiting = s.waiting /\ Applied(s, e.evt).open = s.open
        /\ Applied(s, e.evt).fatal = s.fatal /\ Applied(s, e.evt).last = s.last
    BY <2>1 DEF Socket
  <2>4. Applied(s, e.evt).rcvevent = s.rcvevent + 0
    BY <1>0, <2>1 DEF Socket
  <2> QED BY <1>4, <2>2, <2>3, <2>4
<1>5. CASE e.evt = "ERROR"
  <2>1. Applied(s, e.evt) = [s EXCEPT !.errevent = TRUE]
    BY <1>5 DEF Applied
  <2>2. Applied(s, e.evt) \in Socket
    BY <1>0, <2>1, SocketFields
  <2>3. /\ Applied(s, e.evt).waiting = s.waiting /\ Applied(s, e.evt).open = s.open
        /\ Applied(s, e.evt).fatal = s.fatal /\ Applied(s, e.evt).last = s.last
    BY <2>1 DEF Socket
  <2>4. Applied(s, e.evt).rcvevent = s.rcvevent + 0
    BY <1>0, <2>1 DEF Socket
  <2> QED BY <1>5, <2>2, <2>3, <2>4
<1> QED BY <1>1, <1>2, <1>3, <1>4, <1>5 DEF Event

\* The list from its start and behind one of its entries.
LEMMA WayOfLoop ==
    ASSUME list \in Seq(Callers), Enlisted, NEW t \in Callers, NEW j \in 1..Len(list), list[j] = t
    PROVE  /\ FirstOf \in Callers /\ FirstOf # NoCaller
           /\ FirstOf = t \/ Before(FirstOf, t)
           /\ \A u : Before(u, t) => After(u) \in Callers /\ (After(u) = t \/ Before(After(u), t))
<1>0. Len(list) \in Nat /\ (\A i \in 1..Len(list) : list[i] \in Callers) /\ list # <<>>
  OBVIOUS
<1>1. FirstOf = list[1] /\ 1 \in 1..Len(list)
  BY <1>0 DEF FirstOf
<1>2. FirstOf = t \/ Before(FirstOf, t)
  BY <1>0, <1>1 DEF Before
<1>3. ASSUME NEW u, Before(u, t)
      PROVE  After(u) \in Callers /\ (After(u) = t \/ Before(After(u), t))
  <2>1. PICK i, k \in 1..Len(list) : i < k /\ list[i] = u /\ list[k] = t
    BY <1>3 DEF Before
  <2>2. PlaceOf(u) = i
    BY <2>1 DEF PlaceOf, Enlisted
  <2>3. After(u) = list[i + 1] /\ i + 1 \in 1..Len(list) /\ (i + 1 = k \/ i + 1 < k)
    BY <1>0, <2>1, <2>2 DEF After
  <2> QED BY <1>0, <2>1, <2>3 DEF Before
<1> QED BY <1>0, <1>1, <1>2, <1>3, SocketAssumption

\* A loop that is not to begin again comes to an entry or to the end.
LEMMA NextOfLoop ==
    ASSUME list \in Seq(Callers), Enlisted, NEW u, NEW i \in 1..Len(list), list[i] = u
    PROVE  After(u) = NoCaller \/ \E j \in 1..Len(list) : list[j] = After(u)
<1>0. Len(list) \in Nat /\ (\A k \in 1..Len(list) : list[k] \in Callers)
  OBVIOUS
<1>1. PlaceOf(u) = i
  BY DEF PlaceOf, Enlisted
<1>2. CASE i = Len(list)
  BY <1>1, <1>2 DEF After
<1>3. CASE i # Len(list)
  <2>1. After(u) = list[i + 1] /\ i + 1 \in 1..Len(list)
    BY <1>0, <1>1, <1>3 DEF After
  <2> QED BY <2>1
<1> QED BY <1>2, <1>3

\* Who counts on a socket is counted.
LEMMA CountedIsSeen ==
    ASSUME SocketTypeOK, CountsRight, NEW t \in Callers, NEW fd \in Fds, Counted(t, fd)
    PROVE  sock[fd].waiting # 0
<1> DEFINE S == {u \in Callers : Counted(u, fd)}
<1>1. IsFiniteSet(S)
  BY SocketAssumption, FS_Subset
<1>2. Cardinality(S) # 0
  BY <1>1, FS_EmptySet
<1> QED BY <1>2 DEF CountsRight

\* What is the same after an event: a turn of the loop of a leads to u.
Turn(a, u, fd) ==
    /\ UNCHANGED <<list, call>>
    /\ \A k \in Fds : sock'[k].waiting = sock[k].waiting /\ sock'[k].open = sock[k].open
                      /\ sock'[k].fatal = sock[k].fatal /\ (k # fd => sock'[k] = sock[k])
    /\ u = NoCaller \/ \E i \in 1..Len(list) : list[i] = u
    /\ Examine(a, u, sock'[fd], fd)

LEMMA TurnKeeps ==
    ASSUME SelectInv, NEW a \in Actors, cb[a].events # <<>>, NEW u, NEW fd \in Fds,
           sock' \in [Fds -> Socket], mbox' \in [Fds -> Seq(Item)], came' = came,
           fd = Head(cb[a].events).fd,
           Turn(a, u, fd),
           \A t \in Callers, k \in Fds :
               /\ call[t].pc \in {"rescan", "wait"} /\ k \in All(call[t]) \ call[t].todo
               /\ Awaited(t, k)'
               => \/ Awaited(t, k) /\ ~WillTell(a, t, k)
                  \/ fd = k /\ u \in Callers /\ (u = t \/ Before(u, t))
    PROVE  SelectInv'
<1>0. u \in Callers \cup {NoCaller} /\ sock'[fd] \in Socket /\ call' = call /\ list' = list
  BY DEF Turn, SelectInv, SocketTypeOK
<1>1. /\ cb' \in [Actors -> Callback] /\ \A b \in Actors : b # a => cb'[b] = cb[b]
      /\ signalled' \in [Callers -> BOOLEAN] /\ sem' \in [Callers -> Nat]
      /\ \A t \in Callers : signalled[t] => signalled'[t] /\ sem'[t] = sem[t]
      /\ \A t \in Callers : signalled'[t] /\ ~signalled[t] => sem'[t] > 0
      /\ u = NoCaller => /\ cb'[a].events = Tail(cb[a].events) /\ cb'[a].at = NoCaller
                         /\ UNCHANGED <<signalled, sem>>
      /\ u # NoCaller => /\ cb'[a].events = cb[a].events /\ cb'[a].at = u
                         /\ cb'[a].stale = FALSE
                         /\ \/ fd \in call[u].rs /\ sock'[fd].rcvevent > 0
                            \/ fd \in call[u].ws /\ sock'[fd].sendevent
                            => signalled'[u]
  <2> DEFINE s == sock'[fd]
  <2>1. Examine(a, u, s, fd) /\ SocketTypeOK /\ s \in Socket
    BY <1>0 DEF Turn, SelectInv
  <2> HIDE DEF s
  <2>2. Advanced(a, u, s, fd)
    BY <1>0, <2>1, Examined
  <2> QED BY <2>2 DEF s, Advanced
<1>2. SocketTypeOK'
  BY <1>0, <1>1 DEF SelectInv, SocketTypeOK
<1>3. CallShape' /\ Enlisted'
  BY <1>0 DEF SelectInv, CallShape, Enlisted
<1>4. LoopsAt'
  <2>1. ASSUME NEW b \in Actors, cb'[b].at # NoCaller
        PROVE  /\ cb'[b].events # <<>>
               /\ ~cb'[b].stale => \E i \in 1..Len(list) : list[i] = cb'[b].at
    <3>1. CASE b # a
      <4>1. cb'[b] = cb[b] /\ cb[b].at # NoCaller
        BY <1>1, <2>1, <3>1
      <4> QED BY <2>1, <4>1 DEF SelectInv, LoopsAt
    <3>2. CASE b = a
      BY <1>1, <2>1, <3>2 DEF Turn
    <3> QED BY <3>1, <3>2
  <2> QED BY <1>0, <2>1 DEF LoopsAt
<1>5. CallersReport'
  <2>1. ASSUME NEW t \in Callers, cb'[t].events # <<>>
        PROVE  /\ call[t].pc = "fetched"
               /\ cb'[t].events = <<[fd |-> call[t].fd, evt |-> "RCVMINUS"]>>
    <3>0. t \in Actors
      BY DEF Actors
    <3>1. CASE t # a
      BY <1>1, <2>1, <3>0, <3>1 DEF SelectInv, CallersReport
    <3>2. CASE t = a /\ u = NoCaller
      <4>1. cb[a].events = <<[fd |-> call[t].fd, evt |-> "RCVMINUS"]>>
        BY <3>2 DEF SelectInv, CallersReport
      <4>2. cb'[a].events = <<>>
        BY <1>1, <3>2, <4>1
      <4> QED BY <2>1, <3>2, <4>2
    <3>3. CASE t = a /\ u # NoCaller
      BY <1>1, <2>1, <3>3 DEF SelectInv, CallersReport
    <3> QED BY <3>1, <3>2, <3>3
  <2> QED BY <1>0, <2>1 DEF CallersReport
<1>6. CountsRight' /\ InUse'
  <2>1. \A k \in Fds : \A t \in Callers : Counted(t, k)' <=> Counted(t, k)
    BY <1>0 DEF Counted
  <2>2. \A k \in Fds : {t \in Callers : Counted(t, k)}' = {t \in Callers : Counted(t, k)}
    BY <2>1
  <2>3. CountsRight'
    BY <2>2 DEF CountsRight, Turn, SelectInv
  <2>4. \A t \in Callers : All(call[t]) \subseteq Fds /\ (call[t].pc \in Receiving => call[t].fd \in Fds)
    BY DEF SelectInv, SocketTypeOK, SocketCall, All, CallShape, ShapeOf
  <2> QED BY <1>0, <2>3, <2>4 DEF InUse, Turn, SelectInv
<1>7. Signals'
  BY <1>0, <1>1 DEF SelectInv, Signals
<1>8. Told'
  <2> SUFFICES ASSUME NEW t \in Callers, NEW k \in Fds,
                      call[t].pc \in {"rescan", "wait"}, call[t].ready = {}, ~signalled'[t],
                      k \in All(call[t]) \ call[t].todo, Awaited(t, k)'
               PROVE  \E b \in Actors : WillTell(b, t, k)'
    BY <1>0 DEF Told
  <2>1. \A b, v : Before(b, v)' <=> Before(b, v)
    BY <1>0 DEF Before
  <2>2. CASE Awaited(t, k) /\ ~WillTell(a, t, k)
    <3>1. ~signalled[t]
      BY <1>1
    <3>2. PICK b \in Actors : WillTell(b, t, k)
      BY <2>2, <3>1 DEF SelectInv, Told
    <3>3. b # a /\ cb'[b] = cb[b]
      BY <1>1, <2>2, <3>2
    <3> QED BY <2>1, <3>2, <3>3 DEF WillTell
  <2>3. CASE fd = k /\ u \in Callers /\ (u = t \/ Before(u, t))
    <3>1. u # NoCaller
      BY <2>3, SocketAssumption
    <3>2. u # t
      BY <1>0, <1>1, <2>3, <3>1 DEF Awaited
    <3> QED BY <1>1, <2>1, <2>3, <3>1, <3>2 DEF WillTell
  <2> QED BY <2>2, <2>3
<1> QED BY <1>2, <1>3, <1>4, <1>5, <1>6, <1>7, <1>8 DEF SelectInv

LEMMA EventSetKeeps == SelectInv /\ (\E a \in Actors : EventSet(a)) => SelectInv'
<1> SUFFICES ASSUME SelectInv, NEW a \in Actors, EventSet(a)
             PROVE  SelectInv'
  OBVIOUS
<1> DEFINE e == Head(cb[a].events)
           s == IF e.evt = "NULL" THEN sock[e.fd] ELSE Applied(sock[e.fd], e.evt)
           u == IF e.evt = "NULL" \/ s.waiting = 0 THEN NoCaller ELSE FirstOf
<1>1. /\ cb[a].events # <<>> /\ cb[a].at = NoCaller
      /\ sock' = [sock EXCEPT ![e.fd] = s]
      /\ mbox' = mbox \/ mbox' = [mbox EXCEPT ![e.fd] = Append(@, Eof)]
      /\ Examine(a, u, s, e.fd)
      /\ UNCHANGED <<list, call, came>>
  BY DEF EventSet, Busy
<1>2. e \in Event /\ e.fd \in Fds /\ sock[e.fd] \in Socket
  <2>1. cb[a].events \in Seq(Event)
    BY DEF SelectInv, SocketTypeOK, Callback
  <2>2. e \in Event
    BY <1>1, <2>1, TailOf
  <2> QED BY <2>2 DEF Event, SelectInv, SocketTypeOK
<1> HIDE DEF e
<1>3. s \in Socket /\ s.waiting = sock[e.fd].waiting /\ s.open = sock[e.fd].open
      /\ s.fatal = sock[e.fd].fatal
  BY <1>2, EventApplied
<1>4. e.evt = "NULL" => s = sock[e.fd]
  OBVIOUS
<1>5. u = NoCaller \/ (u = FirstOf /\ e.evt # "NULL" /\ s.waiting # 0)
  OBVIOUS
<1>6. u = NoCaller => e.evt = "NULL" \/ s.waiting = 0 \/ FirstOf = NoCaller
  OBVIOUS
<1> HIDE DEF s, u
<1>7. sock' \in [Fds -> Socket] /\ sock'[e.fd] = s /\ \A k \in Fds : k # e.fd => sock'[k] = sock[k]
  BY <1>1, <1>2, <1>3 DEF SelectInv, SocketTypeOK
<1>8. mbox' \in [Fds -> Seq(Item)]
  <2>1. Append(mbox[e.fd], Eof) \in Seq(Item)
    BY <1>2, Constants, AppendTo DEF SelectInv, SocketTypeOK
  <2> QED BY <1>1, <1>2, <2>1 DEF SelectInv, SocketTypeOK
<1>9. Turn(a, u, e.fd)
  <2>1. u = NoCaller \/ \E i \in 1..Len(list) : list[i] = u
    <3>1. list \in Seq(Callers)
      BY DEF SelectInv, SocketTypeOK
    <3>2. FirstOf = NoCaller \/ (FirstOf = list[1] /\ 1 \in 1..Len(list))
      BY <3>1 DEF FirstOf
    <3> QED BY <1>5, <3>2
  <2> QED BY <1>1, <1>2, <1>3, <1>7, <2>1 DEF Turn
<1>10. ASSUME NEW t \in Callers, NEW k \in Fds,
              call[t].pc \in {"rescan", "wait"}, k \in All(call[t]) \ call[t].todo, Awaited(t, k)'
       PROVE  \/ Awaited(t, k) /\ ~WillTell(a, t, k)
              \/ e.fd = k /\ u \in Callers /\ (u = t \/ Before(u, t))
  <2>1. ~WillTell(a, t, k)
    BY <1>1 DEF WillTell
  <2>2. CASE sock'[k] = sock[k]
    BY <1>1, <1>10, <2>1, <2>2 DEF Awaited
  <2>3. CASE sock'[k] # sock[k]
    <3>1. k = e.fd /\ e.evt # "NULL"
      BY <1>4, <1>7, <2>3
    <3>2. Counted(t, k)
      BY <1>10 DEF Counted
    <3>3. s.waiting # 0
      BY <1>3, <3>1, <3>2, CountedIsSeen DEF SelectInv
    <3>4. PICK j \in 1..Len(list) : list[j] = t
      BY <1>10 DEF SelectInv, Enlisted, InList
    <3>5. FirstOf \in Callers /\ FirstOf # NoCaller /\ (FirstOf = t \/ Before(FirstOf, t))
      BY <3>4, WayOfLoop DEF SelectInv, SocketTypeOK
    <3>6. u = FirstOf
      BY <1>5, <1>6, <3>1, <3>3, <3>5
    <3> QED BY <3>1, <3>5, <3>6
  <2> QED BY <2>2, <2>3
<1> DEFINE fd == e.fd
<1>11. fd \in Fds /\ fd = Head(cb[a].events).fd
  BY <1>2 DEF e
<1>12. Turn(a, u, fd)
  BY <1>9
<1>13. \A t \in Callers, k \in Fds :
           /\ call[t].pc \in {"rescan", "wait"} /\ k \in All(call[t]) \ call[t].todo
           /\ Awaited(t, k)'
           => \/ Awaited(t, k) /\ ~WillTell(a, t, k)
              \/ fd = k /\ u \in Callers /\ (u = t \/ Before(u, t))
  BY <1>10
<1>14. cb[a].events # <<>> /\ came' = came
  BY <1>1
<1> HIDE DEF fd
<1> QED BY <1>7, <1>8, <1>11, <1>12, <1>13, <1>14, TurnKeeps

LEMMA EventGoesOnKeeps == SelectInv /\ (\E a \in Actors : EventGoesOn(a)) => SelectInv'
<1> SUFFICES ASSUME SelectInv, NEW a \in Actors, EventGoesOn(a)
             PROVE  SelectInv'
  OBVIOUS
<1> DEFINE fd == Head(cb[a].events).fd
           u == IF cb[a].stale THEN FirstOf ELSE After(cb[a].at)
<1>1. /\ cb[a].events # <<>> /\ cb[a].at # NoCaller
      /\ Examine(a, u, sock[fd], fd) /\ UNCHANGED <<sock, mbox, list, call, came>>
  BY DEF EventGoesOn, Busy
<1>2. fd \in Fds
  <2>1. cb[a].events \in Seq(Event)
    BY DEF SelectInv, SocketTypeOK, Callback
  <2>2. Head(cb[a].events) \in Event
    BY <1>1, <2>1, TailOf
  <2> QED BY <2>2 DEF Event
<1>3. u = NoCaller \/ \E i \in 1..Len(list) : list[i] = u
  <2>0. list \in Seq(Callers) /\ Enlisted
    BY DEF SelectInv, SocketTypeOK
  <2>1. FirstOf = NoCaller \/ (FirstOf = list[1] /\ 1 \in 1..Len(list))
    BY <2>0 DEF FirstOf
  <2>2. CASE cb[a].stale
    BY <2>1, <2>2
  <2>3. CASE ~cb[a].stale
    <3>1. PICK i \in 1..Len(list) : list[i] = cb[a].at
      BY <1>1, <2>3 DEF SelectInv, LoopsAt
    <3>2. After(cb[a].at) = NoCaller \/ \E j \in 1..Len(list) : list[j] = After(cb[a].at)
      BY <2>0, <3>1, NextOfLoop
    <3> QED BY <2>3, <3>2
  <2> QED BY <2>2, <2>3
<1>4. ASSUME NEW t \in Callers, NEW k \in Fds, call[t].pc \in {"rescan", "wait"},
             k \in All(call[t]) \ call[t].todo, Awaited(t, k)'
      PROVE  \/ Awaited(t, k) /\ ~WillTell(a, t, k)
             \/ fd = k /\ u \in Callers /\ (u = t \/ Before(u, t))
  <2>1. Awaited(t, k)
    BY <1>1, <1>4 DEF Awaited
  <2>2. CASE WillTell(a, t, k)
    <3>1. PICK j \in 1..Len(list) : list[j] = t
      BY <1>4 DEF SelectInv, Enlisted, InList
    <3>2. /\ FirstOf \in Callers /\ (FirstOf = t \/ Before(FirstOf, t))
          /\ \A v : Before(v, t) => After(v) \in Callers /\ (After(v) = t \/ Before(After(v), t))
      BY <3>1, WayOfLoop DEF SelectInv, SocketTypeOK
    <3> QED BY <2>2, <3>2 DEF WillTell
  <2> QED BY <2>1, <2>2
<1> HIDE DEF u
<1>5. Turn(a, u, fd)
  <2> HIDE DEF fd
  <2> QED BY <1>1, <1>3 DEF Turn
<1>6. sock' \in [Fds -> Socket] /\ mbox' \in [Fds -> Seq(Item)] /\ came' = came
  BY <1>1 DEF SelectInv, SocketTypeOK
<1> QED BY <1>1, <1>2, <1>4, <1>5, <1>6, TurnKeeps

-----------------------------------------------------------------------------
\* What does not touch the list, nor the calls that are in it.
Aside ==
    /\ UNCHANGED <<list, signalled, sem>>
    /\ \A t \in Callers :
          call'[t] = call[t] \/ (call[t].pc \notin InList /\ call'[t].pc \notin InList)
    /\ \A fd \in Fds :
          \/ /\ sock'[fd].waiting = sock[fd].waiting /\ sock'[fd].rcvevent = sock[fd].rcvevent
             /\ sock'[fd].sendevent = sock[fd].sendevent
          \/ sock'[fd].waiting = 0 /\ \A t \in Callers : fd \notin All(call[t])
    /\ \A a \in Actors : IF cb[a].at # NoCaller THEN cb'[a] = cb[a] ELSE cb'[a].at = NoCaller

LEMMA AsideKeeps ==
    ASSUME SelectInv, Aside
    PROVE  Enlisted' /\ LoopsAt' /\ CountsRight' /\ Signals' /\ Told'
<1> USE DEF Aside
<1>1. \A t \in Callers : call'[t].pc \in InList <=> call[t].pc \in InList
  OBVIOUS
<1>2. Enlisted'
  BY <1>1 DEF SelectInv, Enlisted
<1>3. LoopsAt'
  BY DEF SelectInv, LoopsAt
<1>4. \A t \in Callers, fd \in Fds : Counted(t, fd)' <=> Counted(t, fd)
  BY DEF Counted, InList, All
<1>5. ASSUME NEW fd \in Fds
      PROVE  sock'[fd].waiting = Cardinality({t \in Callers : Counted(t, fd)'})
  <2>1. {t \in Callers : Counted(t, fd)'} = {t \in Callers : Counted(t, fd)}
    BY <1>4
  <2>2. CASE sock'[fd].waiting = sock[fd].waiting
    BY <2>1, <2>2 DEF SelectInv, CountsRight
  <2>3. CASE sock'[fd].waiting = 0 /\ \A t \in Callers : fd \notin All(call[t])
    <3>1. {t \in Callers : Counted(t, fd)} = {}
      BY <2>3 DEF Counted
    <3> QED BY <2>1, <2>3, <3>1, FS_EmptySet
  <2> QED BY <2>2, <2>3
<1>6. CountsRight'
  BY <1>5 DEF CountsRight
<1>7. Signals'
  BY DEF SelectInv, Signals, InList
<1>8. Told'
  <2> SUFFICES ASSUME NEW t \in Callers, NEW fd \in Fds,
                      call'[t].pc \in {"rescan", "wait"}, call'[t].ready = {}, ~signalled'[t],
                      fd \in All(call'[t]) \ call'[t].todo, Awaited(t, fd)'
               PROVE  \E a \in Actors : WillTell(a, t, fd)'
    BY DEF Told
  <2>1. call'[t] = call[t] /\ ~signalled[t]
    BY DEF InList
  <2>2. Awaited(t, fd)
    BY <2>1 DEF Awaited
  <2>3. PICK a \in Actors : WillTell(a, t, fd)
    BY <2>1, <2>2 DEF SelectInv, Told
  <2>4. cb'[a] = cb[a]
    BY <2>3 DEF WillTell
  <2> QED BY <2>3, <2>4 DEF WillTell, Before
<1> QED BY <1>2, <1>3, <1>6, <1>7, <1>8

\* A thread that reports nothing is at no place of the list.
LEMMA QuietIsNowhere ==
    ASSUME SelectInv, NEW a \in Actors, cb[a].events = <<>>
    PROVE  cb[a].at = NoCaller
BY DEF SelectInv, LoopsAt

LEMMA SelectBeginsKeeps ==
    ASSUME SelectInv, NEW t \in Callers, NEW rs \in SUBSET Fds, NEW ws \in SUBSET Fds,
           NEW poll \in BOOLEAN, SelectBegins(t, rs, ws, poll)
    PROVE  SelectInv'
<1> DEFINE n == [NoCall EXCEPT !.pc = "scan", !.rs = rs, !.ws = ws, !.todo = rs \cup ws,
                               !.poll = poll]
<1>1. /\ call' = [call EXCEPT ![t] = n] /\ call[t].pc = "idle"
      /\ \A fd \in rs \cup ws : sock[fd].open
      /\ UNCHANGED <<sock, list, signalled, sem, cb>>
  BY DEF SelectBegins
<1>2. n.pc = "scan" /\ n.todo = rs \cup ws /\ n.len = 0 /\ All(n) = rs \cup ws
  BY DEF NoCall, All
<1> HIDE DEF n
<1>3. call'[t] = n /\ \A u \in Callers : u # t => call'[u] = call[u]
  BY <1>1 DEF SelectInv, SocketTypeOK
<1>4. Aside
  BY <1>1, <1>2, <1>3 DEF Aside, InList
<1>5. SocketTypeOK'
  BY <1>1, SelectTypes DEF SelectInv, InList
<1>6. ShapeOf(n)
  BY <1>2 DEF ShapeOf, Receiving, Selecting
<1>7. CallShape'
  BY <1>3, <1>6 DEF SelectInv, CallShape
<1>8. CallersReport'
  BY <1>1, <1>3 DEF SelectInv, CallersReport
<1>9. InUse'
  BY <1>1, <1>2, <1>3 DEF SelectInv, InUse, Receiving
<1> QED BY <1>4, <1>5, <1>7, <1>8, <1>9, AsideKeeps DEF SelectInv

LEMMA EnlistKeeps ==
    ASSUME SelectInv, NEW t \in Callers, Enlist(t)
    PROVE  SelectInv'
<1> DEFINE c == call[t]
           n == Begin(c, "count")
<1>1. /\ c.pc = "enlist" /\ call' = [call EXCEPT ![t] = n] /\ list' = <<t>> \o list
      /\ cb' = Disturbed /\ signalled' = [signalled EXCEPT ![t] = FALSE]
      /\ UNCHANGED sock
  BY DEF Enlist
<1>0. c \in SocketCall /\ list \in Seq(Callers) /\ Len(list) \in Nat
  BY DEF SelectInv, SocketTypeOK
<1>2. n.pc = "count" /\ n.todo = All(c) /\ All(n) = All(c) /\ n.len = c.len
  BY <1>0 DEF Begin, All, SocketCall
<1>3. call'[t] = n /\ \A u \in Callers : u # t => call'[u] = call[u]
  BY <1>1 DEF SelectInv, SocketTypeOK
<1> HIDE DEF n
<1>4. SocketTypeOK'
  BY <1>1, SelectTypes DEF SelectInv, InList
<1>5. CallShape'
  <2>1. ShapeOf(c)
    BY DEF SelectInv, CallShape
  <2>2. ShapeOf(n)
    BY <1>1, <1>2, <2>1 DEF ShapeOf, Receiving, Selecting, InList
  <2> QED BY <1>3, <2>2 DEF SelectInv, CallShape
<1>6. Enlisted'
  <2>1. /\ Len(list') = Len(list) + 1 /\ list'[1] = t
        /\ \A i \in 1..Len(list) : list'[i + 1] = list[i]
        /\ \A i \in 1..Len(list') : i = 1 \/ (i - 1 \in 1..Len(list) /\ list'[i] = list[i - 1])
    BY <1>0, <1>1
  <2>2. ~\E i \in 1..Len(list) : list[i] = t
    BY <1>1 DEF SelectInv, Enlisted, InList
  <2>3. \A i, j \in 1..Len(list') : list'[i] = list'[j] => i = j
    <3> SUFFICES ASSUME NEW i \in 1..Len(list'), NEW j \in 1..Len(list'), list'[i] = list'[j]
                 PROVE  i = j
      OBVIOUS
    <3>1. \A k, l \in 1..Len(list) : list[k] = list[l] => k = l
      BY DEF SelectInv, Enlisted
    <3>2. i = 1 <=> j = 1
      BY <2>1, <2>2
    <3>3. CASE i # 1 /\ j # 1
      BY <2>1, <3>1, <3>3
    <3> QED BY <3>2, <3>3
  <2>4. ASSUME NEW u \in Callers
        PROVE  call'[u].pc \in InList <=> \E i \in 1..Len(list') : list'[i] = u
    <3>1. CASE u = t
      <4>1. 1 \in 1..Len(list')
        BY <1>0, <2>1
      <4> QED BY <1>2, <1>3, <2>1, <3>1, <4>1 DEF InList
    <3>2. CASE u # t
      <4>1. call'[u].pc \in InList <=> \E i \in 1..Len(list) : list[i] = u
        BY <1>3, <3>2 DEF SelectInv, Enlisted
      <4>2. \A i \in 1..Len(list) : i + 1 \in 1..Len(list')
        BY <1>0, <2>1
      <4> QED BY <2>1, <3>2, <4>1, <4>2
    <3> QED BY <3>1, <3>2
  <2> QED BY <2>3, <2>4 DEF Enlisted
<1>7. \A a \in Actors : /\ cb'[a].events = cb[a].events /\ cb'[a].at = cb[a].at
                        /\ cb[a].at # NoCaller => cb'[a].stale
  BY <1>1 DEF Disturbed, SelectInv, SocketTypeOK, Callback
<1>8. LoopsAt'
  BY <1>7 DEF SelectInv, LoopsAt
<1>9. CallersReport'
  BY <1>1, <1>3, <1>7 DEF SelectInv, CallersReport, Actors
<1>10. CountsRight'
  <2>1. \A u \in Callers, fd \in Fds : Counted(u, fd)' <=> Counted(u, fd)
    BY <1>1, <1>2, <1>3 DEF Counted
  <2>2. \A fd \in Fds : {u \in Callers : Counted(u, fd)'} = {u \in Callers : Counted(u, fd)}
    BY <2>1
  <2> QED BY <1>1, <2>2 DEF SelectInv, CountsRight
<1>11. InUse'
  BY <1>1, <1>2, <1>3 DEF SelectInv, InUse, Receiving
<1>12. Signals'
  <2>1. ASSUME NEW u \in Callers, signalled'[u], call'[u].pc \in {"count", "rescan", "wait"}
        PROVE  sem'[u] > 0
    <3>1. u # t
      BY <1>1, <2>1 DEF SelectInv, SocketTypeOK
    <3>2. signalled[u] /\ sem'[u] = sem[u] /\ call'[u] = call[u]
      BY <1>1, <1>3, <2>1, <3>1 DEF Enlist, SelectInv, SocketTypeOK
    <3> QED BY <2>1, <3>2 DEF SelectInv, Signals
  <2> QED BY <2>1 DEF Signals
<1>13. Told'
  <2> SUFFICES ASSUME NEW u \in Callers, NEW fd \in Fds,
                      call'[u].pc \in {"rescan", "wait"}, call'[u].ready = {}, ~signalled'[u],
                      fd \in All(call'[u]) \ call'[u].todo, Awaited(u, fd)'
               PROVE  \E a \in Actors : WillTell(a, u, fd)'
    BY DEF Told
  <2>1. u # t /\ call'[u] = call[u]
    BY <1>2, <1>3
  <2>2. ~signalled[u]
    BY <1>1, <2>1 DEF SelectInv, SocketTypeOK
  <2>3. Awaited(u, fd)
    BY <1>1, <2>1 DEF Awaited
  <2>4. PICK a \in Actors : WillTell(a, u, fd)
    BY <2>1, <2>2, <2>3 DEF SelectInv, Told
  <2> QED BY <1>7, <2>4 DEF WillTell
<1> QED BY <1>4, <1>5, <1>6, <1>8, <1>9, <1>10, <1>11, <1>12, <1>13 DEF SelectInv

LEMMA WaitEndsKeeps ==
    ASSUME SelectInv, NEW t \in Callers, WaitEnds(t)
    PROVE  SelectInv'
<1> DEFINE c == call[t]
<1>1. PICK pc \in {"uncount", "giveup"} : call' = [call EXCEPT ![t] = Begin(c, pc)]
  BY DEF WaitEnds
<1>2. /\ c.pc = "wait" /\ UNCHANGED <<sock, list, signalled, cb>>
      /\ sem' = sem \/ sem' = [sem EXCEPT ![t] = @ - 1]
  BY DEF WaitEnds
<1> DEFINE n == Begin(c, pc)
<1>0. c \in SocketCall
  BY DEF SelectInv, SocketTypeOK
<1>3. n.pc = pc /\ n.todo = All(c) /\ All(n) = All(c) /\ n.len = c.len
  BY <1>0 DEF Begin, All, SocketCall
<1>4. call'[t] = n /\ \A u \in Callers : u # t => call'[u] = call[u] /\ sem'[u] = sem[u]
  BY <1>1, <1>2 DEF SelectInv, SocketTypeOK
<1> HIDE DEF n
<1>5. SocketTypeOK'
  <2>1. call[t].pc \in InList => \E i \in 1..Len(list) : list[i] = t
    BY DEF SelectInv, Enlisted
  <2> QED BY <2>1, SelectTypes DEF SelectInv
<1>6. CallShape'
  <2>1. ShapeOf(c)
    BY DEF SelectInv, CallShape
  <2>2. ShapeOf(n)
    BY <1>2, <1>3, <2>1 DEF ShapeOf, Receiving, Selecting, InList
  <2> QED BY <1>4, <2>2 DEF SelectInv, CallShape
<1>7. Enlisted' /\ LoopsAt'
  BY <1>2, <1>3, <1>4 DEF SelectInv, Enlisted, LoopsAt, InList
<1>8. CallersReport'
  BY <1>2, <1>4 DEF SelectInv, CallersReport
<1>9. CountsRight'
  <2>1. \A u \in Callers, fd \in Fds : Counted(u, fd)' <=> Counted(u, fd)
    BY <1>2, <1>3, <1>4 DEF Counted
  <2>2. \A fd \in Fds : {u \in Callers : Counted(u, fd)'} = {u \in Callers : Counted(u, fd)}
    BY <2>1
  <2> QED BY <1>2, <2>2 DEF SelectInv, CountsRight
<1>10. InUse'
  BY <1>2, <1>3, <1>4 DEF SelectInv, InUse, Receiving
<1>11. Signals'
  BY <1>2, <1>3, <1>4 DEF SelectInv, Signals
<1>12. Told'
  <2> SUFFICES ASSUME NEW u \in Callers, NEW fd \in Fds,
                      call'[u].pc \in {"rescan", "wait"}, call'[u].ready = {}, ~signalled'[u],
                      fd \in All(call'[u]) \ call'[u].todo, Awaited(u, fd)'
               PROVE  \E a \in Actors : WillTell(a, u, fd)'
    BY DEF Told
  <2>1. u # t /\ call'[u] = call[u] /\ ~signalled[u]
    BY <1>2, <1>3, <1>4
  <2>2. Awaited(u, fd)
    BY <1>2, <2>1 DEF Awaited
  <2>3. PICK a \in Actors : WillTell(a, u, fd)
    BY <2>1, <2>2 DEF SelectInv, Told
  <2> QED BY <1>2, <2>3 DEF WillTell, Before
<1> QED BY <1>5, <1>6, <1>7, <1>8, <1>9, <1>10, <1>11, <1>12 DEF SelectInv

LEMMA DelistKeeps ==
    ASSUME SelectInv, NEW t \in Callers, Delist(t)
    PROVE  SelectInv'
<1> DEFINE c == call[t]
           n == IF c.pc = "delist" THEN NoCall ELSE Begin([c EXCEPT !.ready = {}], "final")
           p == PlaceOf(t)
<1>0. c \in SocketCall /\ list \in Seq(Callers) /\ Len(list) \in Nat
  BY DEF SelectInv, SocketTypeOK
<1>1. /\ c.pc \in {"leave", "delist"} /\ call' = [call EXCEPT ![t] = n]
      /\ list' = RemoveAt(list, p) /\ cb' = Disturbed
      /\ UNCHANGED <<sock, signalled, sem>>
  BY DEF Delist
<1>2. /\ n.pc \in {"idle", "final"} /\ n.len = 0 /\ n.todo \subseteq All(n) /\ All(n) \subseteq All(c)
      /\ n.pc = "idle" => All(n) = {}
  <2>1. ShapeOf(c)
    BY DEF SelectInv, CallShape
  <2>2. CASE c.pc = "delist"
    BY <2>2 DEF NoCall, All
  <2>3. CASE c.pc # "delist"
    <3>1. n = Begin([c EXCEPT !.ready = {}], "final")
      BY <2>3
    <3>2. n.pc = "final" /\ n.len = c.len /\ n.todo = All(c) /\ All(n) = All(c)
      BY <1>0, <3>1 DEF Begin, All, SocketCall
    <3> HIDE DEF n
    <3> QED BY <1>1, <2>1, <3>2 DEF ShapeOf, Receiving
  <2> QED BY <2>2, <2>3
<1>3. call'[t] = n /\ \A u \in Callers : u # t => call'[u] = call[u]
  BY <1>1 DEF SelectInv, SocketTypeOK
<1> HIDE DEF n
<1>4. p \in 1..Len(list) /\ list[p] = t
  <2>1. \E i \in 1..Len(list) : list[i] = t
    BY <1>1 DEF SelectInv, Enlisted, InList
  <2> QED BY <2>1 DEF PlaceOf
<1> HIDE DEF p
<1>5. SocketTypeOK'
  BY <1>4, SelectTypes DEF SelectInv
<1>6. CallShape'
  <2>1. ShapeOf(n)
    BY <1>2 DEF ShapeOf, Receiving, Selecting, InList
  <2> QED BY <1>3, <2>1 DEF SelectInv, CallShape
<1>7. /\ Len(list') = Len(list) - 1
      /\ \A j \in 1..Len(list') : list'[j] = IF j < p THEN list[j] ELSE list[j + 1]
  BY <1>0, <1>1, <1>4, Removed
<1>8. Enlisted'
  <2>1. \A i, j \in 1..Len(list) : list[i] = list[j] => i = j
    BY DEF SelectInv, Enlisted
  <2>2. \A i, j \in 1..Len(list') : list'[i] = list'[j] => i = j
    <3> SUFFICES ASSUME NEW i \in 1..Len(list'), NEW j \in 1..Len(list'), list'[i] = list'[j]
                 PROVE  i = j
      OBVIOUS
    <3> DEFINE i0 == IF i < p THEN i ELSE i + 1
               j0 == IF j < p THEN j ELSE j + 1
    <3>1. i0 \in 1..Len(list) /\ j0 \in 1..Len(list) /\ list[i0] = list[j0]
      BY <1>0, <1>4, <1>7
    <3>2. i0 = j0
      BY <2>1, <3>1
    <3> QED BY <1>0, <1>4, <1>7, <3>2
  <2>3. ASSUME NEW u \in Callers
        PROVE  call'[u].pc \in InList <=> \E i \in 1..Len(list') : list'[i] = u
    <3>1. CASE u = t
      <4>1. \A i \in 1..Len(list') : list'[i] # t
        <5> SUFFICES ASSUME NEW i \in 1..Len(list'), list'[i] = t
                     PROVE  FALSE
          OBVIOUS
        <5>1. CASE i < p
          BY <1>0, <1>4, <1>7, <2>1, <5>1
        <5>2. CASE i >= p
          <6>1. list[i + 1] = t /\ i + 1 \in 1..Len(list)
            BY <1>0, <1>4, <1>7, <5>2
          <6> QED BY <1>0, <1>4, <2>1, <5>2, <6>1
        <5> QED BY <1>0, <1>4, <1>7, <5>1, <5>2
      <4> QED BY <1>2, <1>3, <3>1, <4>1 DEF InList
    <3>2. CASE u # t
      <4>1. call'[u].pc \in InList <=> \E i \in 1..Len(list) : list[i] = u
        BY <1>3, <3>2 DEF SelectInv, Enlisted
      <4>2. ASSUME NEW i \in 1..Len(list), list[i] = u
            PROVE  \E j \in 1..Len(list') : list'[j] = u
        <5>1. CASE i < p
          BY <1>0, <1>4, <1>7, <4>2, <5>1
        <5>2. CASE i > p
          <6>1. i - 1 \in 1..Len(list') /\ list'[i - 1] = list[i]
            BY <1>0, <1>4, <1>7, <5>2
          <6> QED BY <4>2, <6>1
        <5> QED BY <1>0, <1>4, <3>2, <4>2, <5>1, <5>2
      <4>3. ASSUME NEW j \in 1..Len(list'), list'[j] = u
            PROVE  \E i \in 1..Len(list) : list[i] = u
        BY <1>0, <1>4, <1>7, <4>3
      <4> QED BY <4>1, <4>2, <4>3
    <3> QED BY <3>1, <3>2
  <2> QED BY <2>2, <2>3 DEF Enlisted
<1>9. \A a \in Actors : /\ cb'[a].events = cb[a].events /\ cb'[a].at = cb[a].at
                        /\ cb[a].at # NoCaller => cb'[a].stale
  BY <1>1 DEF Disturbed, SelectInv, SocketTypeOK, Callback
<1>10. LoopsAt'
  BY <1>9 DEF SelectInv, LoopsAt
<1>11. CallersReport'
  BY <1>1, <1>3, <1>9 DEF SelectInv, CallersReport, Actors
<1>12. CountsRight'
  <2>1. \A u \in Callers, fd \in Fds : Counted(u, fd)' <=> Counted(u, fd)
    BY <1>1, <1>2, <1>3 DEF Counted
  <2>2. \A fd \in Fds : {u \in Callers : Counted(u, fd)'} = {u \in Callers : Counted(u, fd)}
    BY <2>1
  <2> QED BY <1>1, <2>2 DEF SelectInv, CountsRight
<1>13. InUse'
  BY <1>1, <1>2, <1>3 DEF SelectInv, InUse, Receiving
<1>14. Signals'
  BY <1>1, <1>2, <1>3 DEF SelectInv, Signals
<1>15. Told'
  <2> SUFFICES ASSUME NEW u \in Callers, NEW fd \in Fds,
                      call'[u].pc \in {"rescan", "wait"}, call'[u].ready = {}, ~signalled'[u],
                      fd \in All(call'[u]) \ call'[u].todo, Awaited(u, fd)'
               PROVE  \E a \in Actors : WillTell(a, u, fd)'
    BY DEF Told
  <2>1. call'[u] = call[u] /\ ~signalled[u]
    BY <1>1, <1>2, <1>3
  <2>2. Awaited(u, fd)
    BY <1>1, <2>1 DEF Awaited
  <2>3. PICK a \in Actors : WillTell(a, u, fd)
    BY <2>1, <2>2 DEF SelectInv, Told
  <2> QED BY <1>9, <2>3 DEF WillTell
<1> QED BY <1>5, <1>6, <1>8, <1>10, <1>11, <1>12, <1>13, <1>14, <1>15 DEF SelectInv

\* Where a turn of a loop leads.
LEMMA LoopGoes ==
    ASSUME NEW c \in SocketCall, ShapeOf(c), c.pc \in Loops, NEW fd \in c.todo,
           NEW n \in SocketCall, Looked(c, fd, n),
           NEW m, m = IF n.todo = {} THEN LoopDone(n) ELSE n
    PROVE  /\ ShapeOf(m) /\ All(m) \subseteq All(c) /\ m.pc \notin Receiving
           /\ m.pc \in InList <=> c.pc \in InList
           /\ m.pc \in {"count", "rescan", "wait"} => c.pc \in {"count", "rescan"}
           /\ m.pc = "wait" \/ (m.pc = "rescan" /\ m.todo # All(m)) =>
                 /\ c.pc = "rescan" /\ m.rs = c.rs /\ m.ws = c.ws
                 /\ m.todo = c.todo \ {fd} /\ m.ready = n.ready
           /\ c.pc = "count" => All(m) = All(c) /\ \/ m.pc = "count" /\ m.todo = c.todo \ {fd}
                                                   \/ m.pc = "rescan" /\ c.todo = {fd}
           /\ c.pc = "rescan" => All(m) = All(c) /\ \/ m.pc \in {"rescan", "wait"}
                                                    \/ m.pc = "uncount" /\ m.todo = All(c)
           /\ c.pc \in {"uncount", "giveup"} =>
                 All(m) = All(c) /\ \/ m.pc = c.pc /\ m.todo = c.todo \ {fd}
                                    \/ m.pc \in {"leave", "delist"} /\ c.todo = {fd}
           /\ c.pc \in {"scan", "final"} => m.pc \in {"scan", "final", "idle", "enlist"}
<1>0. All(n) = All(c) /\ n.pc = c.pc /\ n.todo = c.todo \ {fd} /\ n.len = c.len
      /\ n.rs = c.rs /\ n.ws = c.ws
  BY DEF Looked, All
<1>s. c.todo \subseteq All(c) /\ c.len = 0
  BY DEF ShapeOf, Loops, Receiving
<1>1. CASE n.todo # {}
  <2>1. m = n
    BY <1>1
  <2> QED BY <1>0, <1>s, <1>1, <2>1 DEF ShapeOf, Loops, Receiving, Selecting, InList
<1>2. CASE n.todo = {}
  <2>0. m = LoopDone(n) /\ n.pc \in Loops
    BY <1>0, <1>2
  <2>1. CASE c.pc = "scan"
    <3>1. m = NoCall \/ m = [n EXCEPT !.pc = "enlist"]
      BY <1>0, <1>2, <2>0, <2>1, LoopLeads
    <3>2. CASE m = NoCall
      BY <1>0, <1>s, <2>1, <3>2 DEF NoCall, ShapeOf, Loops, Receiving, Selecting, InList, All
    <3>3. CASE m = [n EXCEPT !.pc = "enlist"]
      <4>1. m.pc = "enlist" /\ All(m) = All(c) /\ m.todo = {} /\ m.len = 0
        BY <1>0, <1>s, <1>2, <3>3 DEF SocketCall, All
      <4> QED BY <2>1, <4>1 DEF ShapeOf, Receiving, Selecting, InList
    <3> QED BY <3>1, <3>2, <3>3
  <2>2. CASE c.pc = "count"
    <3>1. m = [n EXCEPT !.ready = {}, !.pc = "rescan", !.todo = All(n)]
      BY <1>0, <1>2, <2>0, <2>2, LoopLeads
    <3>2. m.pc = "rescan" /\ All(m) = All(c) /\ m.todo = All(m) /\ m.len = 0
      BY <1>0, <1>s, <3>1 DEF SocketCall, All
    <3> QED BY <1>0, <1>2, <2>2, <3>2 DEF ShapeOf, Receiving, Selecting, InList
  <2>3. CASE c.pc = "rescan"
    <3>1. m = IF n.ready # {} THEN [n EXCEPT !.pc = "uncount", !.todo = All(n)]
                              ELSE [n EXCEPT !.pc = "wait"]
      BY <1>0, <1>2, <2>0, <2>3, LoopLeads
    <3>2. CASE n.ready # {}
      <4>1. m.pc = "uncount" /\ All(m) = All(c) /\ m.todo = All(m) /\ m.len = 0
        BY <1>0, <1>s, <3>1, <3>2 DEF SocketCall, All
      <4> QED BY <2>3, <4>1 DEF ShapeOf, Receiving, Selecting, InList
    <3>3. CASE n.ready = {}
      <4>1. m.pc = "wait" /\ All(m) = All(c) /\ m.todo = {} /\ m.len = 0 /\ m.ready = n.ready
            /\ m.rs = c.rs /\ m.ws = c.ws
        BY <1>0, <1>s, <1>2, <3>1, <3>3 DEF SocketCall, All
      <4> QED BY <1>0, <1>2, <2>3, <3>3, <4>1 DEF ShapeOf, Receiving, Selecting, InList
    <3> QED BY <3>2, <3>3
  <2>4. CASE c.pc \in {"uncount", "giveup"}
    <3>1. \E pc \in {"leave", "delist"} : m = [n EXCEPT !.pc = pc]
      BY <1>0, <1>2, <2>0, <2>4, LoopLeads
    <3>2. m.pc \in {"leave", "delist"} /\ All(m) = All(c) /\ m.todo = {} /\ m.len = 0
      BY <1>0, <1>s, <1>2, <3>1 DEF SocketCall, All
    <3> QED BY <1>0, <1>2, <2>4, <3>2 DEF ShapeOf, Receiving, Selecting, InList
  <2>5. CASE c.pc = "final"
    <3>1. m = NoCall
      BY <1>0, <1>2, <2>0, <2>5, LoopLeads
    <3> QED BY <2>5, <3>1 DEF NoCall, ShapeOf, Receiving, Selecting, InList, All
  <2> QED BY <2>1, <2>2, <2>3, <2>4, <2>5 DEF Loops
<1> QED BY <1>1, <1>2

LEMMA LoopStepKeeps ==
    ASSUME SelectInv, NEW t \in Callers, LoopStep(t)
    PROVE  SelectInv'
<1> DEFINE c == call[t]
<1>0. c \in SocketCall /\ ShapeOf(c)
  BY DEF SelectInv, SocketTypeOK, CallShape
<1>1. c.pc \in Loops
  BY LoopTurns DEF SelectInv
<1>2. PICK fd \in c.todo, n \in SocketCall :
         /\ Looked(c, fd, n)
         /\ call' = [call EXCEPT ![t] = IF n.todo = {} THEN LoopDone(n) ELSE n]
         /\ sock' = [sock EXCEPT ![fd].waiting = @ + Delta(c.pc)]
  BY LoopTurns DEF SelectInv
<1> DEFINE m == IF n.todo = {} THEN LoopDone(n) ELSE n
<1>3. /\ ShapeOf(m) /\ All(m) \subseteq All(c) /\ m.pc \notin Receiving
      /\ m.pc \in InList <=> c.pc \in InList
      /\ m.pc \in {"count", "rescan", "wait"} => c.pc \in {"count", "rescan"}
      /\ m.pc = "wait" \/ (m.pc = "rescan" /\ m.todo # All(m)) =>
            /\ c.pc = "rescan" /\ m.rs = c.rs /\ m.ws = c.ws
            /\ m.todo = c.todo \ {fd} /\ m.ready = n.ready
      /\ c.pc = "count" => All(m) = All(c) /\ \/ m.pc = "count" /\ m.todo = c.todo \ {fd}
                                              \/ m.pc = "rescan" /\ c.todo = {fd}
      /\ c.pc = "rescan" => All(m) = All(c) /\ \/ m.pc \in {"rescan", "wait"}
                                               \/ m.pc = "uncount" /\ m.todo = All(c)
      /\ c.pc \in {"uncount", "giveup"} =>
            All(m) = All(c) /\ \/ m.pc = c.pc /\ m.todo = c.todo \ {fd}
                               \/ m.pc \in {"leave", "delist"} /\ c.todo = {fd}
      /\ c.pc \in {"scan", "final"} => m.pc \in {"scan", "final", "idle", "enlist"}
  <2> HIDE DEF c
  <2> QED BY <1>0, <1>1, <1>2, LoopGoes
<1>4. /\ call'[t] = m /\ \A u \in Callers : u # t => call'[u] = call[u]
      /\ UNCHANGED <<list, signalled, sem, cb>>
  BY <1>2 DEF LoopStep, SelectInv, SocketTypeOK
<1> HIDE DEF m
<1>5. fd \in Fds /\ fd \in All(c) /\ c.todo \subseteq All(c)
  BY <1>0 DEF SocketCall, ShapeOf
<1>6. /\ sock'[fd].waiting = sock[fd].waiting + Delta(c.pc)
      /\ \A k \in Fds : k # fd => sock'[k] = sock[k]
      /\ \A k \in Fds : sock'[k].open = sock[k].open /\ sock'[k].rcvevent = sock[k].rcvevent
                        /\ sock'[k].sendevent = sock[k].sendevent /\ sock'[k].fatal = sock[k].fatal
  BY <1>2, <1>5 DEF SelectInv, SocketTypeOK, Socket
<1>7. SocketTypeOK'
  <2>1. c.pc \in InList => \E i \in 1..Len(list) : list[i] = t
    BY DEF SelectInv, Enlisted
  <2> QED BY <2>1, SelectTypes DEF SelectInv
<1>8. CallShape'
  BY <1>3, <1>4 DEF SelectInv, CallShape
<1>9. Enlisted' /\ LoopsAt'
  BY <1>3, <1>4 DEF SelectInv, Enlisted, LoopsAt
<1>10. CallersReport'
  <2>1. c.pc # "fetched"
    BY <1>1 DEF Loops
  <2> QED BY <1>4, <2>1 DEF SelectInv, CallersReport
<1>11. CountsRight'
  <2> SUFFICES ASSUME NEW k \in Fds
               PROVE  sock'[k].waiting = Cardinality({u \in Callers : Counted(u, k)'})
    BY DEF CountsRight
  <2> DEFINE S == {u \in Callers : Counted(u, k)}
             T == {u \in Callers : Counted(u, k)'}
  <2>1. IsFiniteSet(S) /\ sock[k].waiting = Cardinality(S) /\ Cardinality(S) \in Nat
    BY SocketAssumption, FS_Subset, FS_CardinalityType DEF SelectInv, CountsRight
  <2>2. \A u \in Callers : u # t => (u \in T <=> u \in S)
    BY <1>4 DEF Counted
  <2>3. CASE k # fd \/ c.pc \in {"scan", "rescan", "final"}
    <3>1. t \in T <=> t \in S
      <4>1. CASE c.pc = "count"
        BY <1>3, <1>4, <2>3, <4>1 DEF Counted
      <4>2. CASE c.pc = "rescan"
        BY <1>3, <1>4, <2>3, <4>2 DEF Counted
      <4>3. CASE c.pc \in {"uncount", "giveup"}
        BY <1>3, <1>4, <2>3, <4>3 DEF Counted
      <4>4. CASE c.pc \in {"scan", "final"}
        BY <1>3, <1>4, <2>3, <4>4 DEF Counted
      <4> QED BY <1>1, <4>1, <4>2, <4>3, <4>4 DEF Loops
    <3>2. T = S
      BY <2>2, <3>1
    <3>3. sock'[k].waiting = sock[k].waiting
      <4>1. CASE k # fd
        BY <1>6, <4>1
      <4>2. CASE k = fd
        <5>1. Delta(c.pc) = 0
          BY <2>3, <4>2 DEF Delta
        <5>2. sock[fd].waiting \in Int
          BY <1>5 DEF SelectInv, SocketTypeOK, Socket
        <5> QED BY <1>6, <4>2, <5>1, <5>2
      <4> QED BY <4>1, <4>2
    <3> QED BY <2>1, <3>2, <3>3
  <2>4. CASE k = fd /\ c.pc = "count"
    <3>1. t \in T /\ t \notin S
      BY <1>3, <1>4, <1>5, <2>4 DEF Counted
    <3>2. T = S \cup {t}
      BY <2>2, <3>1
    <3>3. Cardinality(T) = Cardinality(S) + 1
      BY <2>1, <3>1, <3>2, FS_AddElement
    <3>4. Delta(c.pc) = 1
      BY <2>4 DEF Delta
    <3> QED BY <1>6, <2>1, <2>4, <3>3, <3>4
  <2>5. CASE k = fd /\ c.pc \in {"uncount", "giveup"}
    <3>1. t \in S /\ t \notin T
      BY <1>3, <1>4, <1>5, <2>5 DEF Counted
    <3>2. T = S \ {t}
      BY <2>2, <3>1
    <3>3. Cardinality(T) = Cardinality(S) - 1
      BY <2>1, <3>1, <3>2, FS_RemoveElement
    <3>4. Delta(c.pc) = -1
      BY <2>5 DEF Delta
    <3> QED BY <1>6, <2>1, <2>5, <3>3, <3>4
  <2> QED BY <1>1, <2>3, <2>4, <2>5 DEF Loops
<1>12. InUse'
  <2>1. ASSUME NEW u \in Callers
        PROVE  /\ \A k \in All(call'[u]) : k \in Fds /\ k \in All(call[u])
               /\ call'[u].pc \in Receiving => call'[u] = call[u] /\ call[u].fd \in Fds
    <3>1. All(call[u]) \subseteq Fds /\ ShapeOf(call[u])
      BY DEF SelectInv, SocketTypeOK, SocketCall, All, CallShape
    <3> QED BY <1>3, <1>4, <3>1 DEF ShapeOf
  <2> QED BY <1>6, <2>1 DEF SelectInv, InUse
<1>13. Signals'
  BY <1>3, <1>4 DEF SelectInv, Signals
<1>14. Told'
  <2> SUFFICES ASSUME NEW u \in Callers, NEW k \in Fds,
                      call'[u].pc \in {"rescan", "wait"}, call'[u].ready = {}, ~signalled'[u],
                      k \in All(call'[u]) \ call'[u].todo, Awaited(u, k)'
               PROVE  \E a \in Actors : WillTell(a, u, k)'
    BY DEF Told
  <2>1. /\ call[u].pc \in {"rescan", "wait"} /\ call[u].ready = {} /\ ~signalled[u]
        /\ k \in All(call[u]) \ call[u].todo /\ Awaited(u, k)
    <3>1. CASE u # t
      BY <1>4, <1>6, <3>1 DEF Awaited
    <3>2. CASE u = t
      <4>1. /\ c.pc = "rescan" /\ m.rs = c.rs /\ m.ws = c.ws
            /\ m.todo = c.todo \ {fd} /\ m.ready = n.ready
        BY <1>3, <1>4, <3>2
      <4>2. k \in All(c) /\ ~signalled[t]
        BY <1>3, <1>4, <3>2
      <4>3. Awaited(t, k)
        BY <1>4, <1>6, <3>2, <4>1 DEF Awaited
      <4>4. n.ready = {}
        BY <1>4, <3>2, <4>1
      <4>5. n.ready = IF (fd \in c.rs /\ Readable(fd)) \/ (fd \in c.ws /\ sock[fd].sendevent)
                      THEN c.ready \cup {fd} ELSE c.ready
        BY <1>2, <4>1 DEF Looked
      <4>6. c.ready = {} /\ ~Awaited(t, fd)
        BY <4>4, <4>5 DEF Awaited, Readable
      <4>7. k \notin c.todo
        BY <1>4, <3>2, <4>1, <4>3, <4>6
      <4> QED BY <3>2, <4>1, <4>2, <4>3, <4>6, <4>7
    <3> QED BY <3>1, <3>2
  <2>2. PICK a \in Actors : WillTell(a, u, k)
    BY <2>1 DEF SelectInv, Told
  <2> QED BY <1>4, <2>2 DEF WillTell, Before
<1> QED BY <1>7, <1>8, <1>9, <1>10, <1>11, <1>12, <1>13, <1>14 DEF SelectInv

\* Sockets that no select sees change.
SameEvents ==
    \A k \in Fds : /\ sock'[k].waiting = sock[k].waiting /\ sock'[k].open = sock[k].open
                   /\ sock'[k].rcvevent = sock[k].rcvevent
                   /\ sock'[k].sendevent = sock[k].sendevent

LEMMA NotSeen ==
    ASSUME SocketTypeOK, NEW fd \in Fds, NEW s, sock' = [sock EXCEPT ![fd] = s],
           s.waiting = sock[fd].waiting, s.open = sock[fd].open,
           s.rcvevent = sock[fd].rcvevent, s.sendevent = sock[fd].sendevent
    PROVE  SameEvents
BY DEF SocketTypeOK, SameEvents

LEMMA GivesFields ==
    ASSUME SocketTypeOK, NEW fd \in Fds, NEW x,
           \/ sock' = [sock EXCEPT ![fd] = [@ EXCEPT !.fatal = x]]
           \/ sock' = [sock EXCEPT ![fd] = [@ EXCEPT !.last = x]]
           \/ sock' = [sock EXCEPT ![fd] = [@ EXCEPT !.over = x]]
           \/ sock' = [sock EXCEPT ![fd] = [[@ EXCEPT !.fatal = x] EXCEPT !.over = x]]
    PROVE  SameEvents
<1>0. sock[fd] \in Socket
  BY DEF SocketTypeOK
<1>1. ASSUME sock' = [sock EXCEPT ![fd] = [sock[fd] EXCEPT !.fatal = x]] PROVE SameEvents
  <2> DEFINE s == [sock[fd] EXCEPT !.fatal = x]
  <2>1. /\ s.waiting = sock[fd].waiting /\ s.open = sock[fd].open
        /\ s.rcvevent = sock[fd].rcvevent /\ s.sendevent = sock[fd].sendevent
    BY <1>0 DEF Socket
  <2>2. sock' = [sock EXCEPT ![fd] = s]
    BY <1>1
  <2> HIDE DEF s
  <2> QED BY <2>1, <2>2, NotSeen
<1>2. ASSUME sock' = [sock EXCEPT ![fd] = [sock[fd] EXCEPT !.last = x]] PROVE SameEvents
  <2> DEFINE s == [sock[fd] EXCEPT !.last = x]
  <2>1. /\ s.waiting = sock[fd].waiting /\ s.open = sock[fd].open
        /\ s.rcvevent = sock[fd].rcvevent /\ s.sendevent = sock[fd].sendevent
    BY <1>0 DEF Socket
  <2>2. sock' = [sock EXCEPT ![fd] = s]
    BY <1>2
  <2> HIDE DEF s
  <2> QED BY <2>1, <2>2, NotSeen
<1>3. ASSUME sock' = [sock EXCEPT ![fd] = [sock[fd] EXCEPT !.over = x]] PROVE SameEvents
  <2> DEFINE s == [sock[fd] EXCEPT !.over = x]
  <2>1. /\ s.waiting = sock[fd].waiting /\ s.open = sock[fd].open
        /\ s.rcvevent = sock[fd].rcvevent /\ s.sendevent = sock[fd].sendevent
    BY <1>0 DEF Socket
  <2>2. sock' = [sock EXCEPT ![fd] = s]
    BY <1>3
  <2> HIDE DEF s
  <2> QED BY <2>1, <2>2, NotSeen
<1>4. ASSUME sock' = [sock EXCEPT ![fd] = [[sock[fd] EXCEPT !.fatal = x] EXCEPT !.over = x]] PROVE SameEvents
  <2> DEFINE s == [[sock[fd] EXCEPT !.fatal = x] EXCEPT !.over = x]
  <2>1. /\ s.waiting = sock[fd].waiting /\ s.open = sock[fd].open
        /\ s.rcvevent = sock[fd].rcvevent /\ s.sendevent = sock[fd].sendevent
    BY <1>0 DEF Socket
  <2>2. sock' = [sock EXCEPT ![fd] = s]
    BY <1>4
  <2> HIDE DEF s
  <2> QED BY <2>1, <2>2, NotSeen
<1> QED BY <1>1, <1>2, <1>3, <1>4

\* What the steps of a receive have in common: t goes to n.
RecvMoves(t, n) ==
    /\ call[t].pc \in {"idle"} \cup Receiving /\ n.pc \in {"idle"} \cup Receiving /\ ShapeOf(n)
    /\ call' = [call EXCEPT ![t] = n]
    /\ n.pc \in Receiving => sock[n.fd].open
    /\ SameEvents /\ UNCHANGED <<list, signalled, sem>>
    /\ cb[t].events = <<>>
    /\ \/ cb' = cb
       \/ /\ n.pc = "fetched"
          /\ cb' = [cb EXCEPT ![t] = [@ EXCEPT !.events = <<[fd |-> n.fd, evt |-> "RCVMINUS"]>>]]

LEMMA RecvMovesKeep ==
    ASSUME SelectInv, SocketTypeOK', NEW t \in Callers, NEW n, RecvMoves(t, n)
    PROVE  SelectInv'
<1>1. call'[t] = n /\ \A u \in Callers : u # t => call'[u] = call[u]
  BY DEF RecvMoves, SelectInv, SocketTypeOK
<1>2. cb[t].at = NoCaller /\ t \in Actors
  BY QuietIsNowhere DEF RecvMoves, Actors
<1>3. /\ \A a \in Actors : a # t => cb'[a] = cb[a]
      /\ cb'[t].at = NoCaller
      /\ cb'[t].events = <<>> \/ /\ n.pc = "fetched"
                                 /\ cb'[t].events = <<[fd |-> n.fd, evt |-> "RCVMINUS"]>>
  BY <1>2 DEF RecvMoves, SelectInv, SocketTypeOK, Callback
<1>4. call[t].pc \notin InList /\ n.pc \notin InList
  BY DEF RecvMoves, Receiving, InList
<1>5. Aside
  <2>1. \A a \in Actors : IF cb[a].at # NoCaller THEN cb'[a] = cb[a] ELSE cb'[a].at = NoCaller
    BY <1>2, <1>3
  <2> QED BY <1>1, <1>4, <2>1 DEF RecvMoves, Aside, SameEvents
<1>6. CallShape'
  BY <1>1 DEF RecvMoves, SelectInv, CallShape
<1>7. CallersReport'
  <2>1. ASSUME NEW u \in Callers, cb'[u].events # <<>>
        PROVE  /\ call'[u].pc = "fetched"
               /\ cb'[u].events = <<[fd |-> call'[u].fd, evt |-> "RCVMINUS"]>>
    BY <1>1, <1>3, <2>1 DEF SelectInv, CallersReport, Actors
  <2> QED BY <2>1 DEF CallersReport
<1>8. InUse'
  <2>1. ASSUME NEW u \in Callers
        PROVE  /\ \A fd \in All(call'[u]) : sock'[fd].open
               /\ call'[u].pc \in Receiving => sock'[call'[u].fd].open
    <3>1. CASE u = t
      <4>1. All(n) = {} /\ (n.pc \in Receiving => n.fd \in Fds /\ sock[n.fd].open)
        BY DEF RecvMoves, ShapeOf, Receiving, Selecting, InList
      <4> QED BY <1>1, <3>1, <4>1 DEF RecvMoves, SameEvents
    <3>2. CASE u # t
      <4>1. All(call[u]) \subseteq Fds /\ (call[u].pc \in Receiving => call[u].fd \in Fds)
        BY DEF SelectInv, SocketTypeOK, SocketCall, All, CallShape, ShapeOf
      <4> QED BY <1>1, <3>2, <4>1 DEF RecvMoves, SelectInv, InUse, SameEvents
    <3> QED BY <3>1, <3>2
  <2> QED BY <2>1 DEF InUse
<1> QED BY <1>5, <1>6, <1>7, <1>8, AsideKeeps DEF SelectInv

LEMMA RecvKeeps ==
    ASSUME SelectInv, NEW t \in Callers,
           \/ \E fd \in Fds, len \in 1..2, peek, poll \in BOOLEAN : RecvBegins(t, fd, len, peek, poll)
           \/ Take(t) \/ Fetch(t) \/ FetchedBuffer(t) \/ Copy(t)
    PROVE  SelectInv'
<1> DEFINE c == call[t]
<1>0. c \in SocketCall /\ ShapeOf(c) /\ (c.pc \in Receiving => c.fd \in Fds /\ sock[c.fd].open)
  BY DEF SelectInv, SocketTypeOK, CallShape, InUse, ShapeOf
<1>q. c.pc # "fetched" => cb[t].events = <<>>
  BY DEF SelectInv, CallersReport
<1>i. ShapeOf(NoCall) /\ NoCall.pc = "idle"
  BY DEF NoCall, ShapeOf, Receiving, Selecting, InList, All
<1>1. SocketTypeOK'
  BY RecvTypes DEF SelectInv
<1>2. ASSUME NEW fd \in Fds, NEW len \in 1..2, NEW peek \in BOOLEAN, NEW poll \in BOOLEAN,
             RecvBegins(t, fd, len, peek, poll)
      PROVE  \E n : RecvMoves(t, n)
  <2> DEFINE n == [NoCall EXCEPT !.pc = "take", !.fd = fd, !.len = len, !.peek = peek, !.poll = poll]
  <2>1. n.pc = "take" /\ n.fd = fd /\ n.len = len /\ n.todo = {} /\ All(n) = {}
    BY DEF NoCall, All
  <2>2. /\ c.pc = "idle" /\ sock[fd].open /\ call' = [call EXCEPT ![t] = n]
        /\ UNCHANGED <<sock, list, signalled, sem, cb>>
    BY <1>2 DEF RecvBegins
  <2> HIDE DEF n
  <2>3. ShapeOf(n)
    BY <2>1 DEF ShapeOf, Receiving, Selecting, InList
  <2>4. RecvMoves(t, n)
    BY <1>q, <2>1, <2>2, <2>3 DEF RecvMoves, Receiving, SameEvents
  <2> QED BY <2>4
<1>3. CASE Take(t)
  <2>1. PICK n \in {[c EXCEPT !.pc = "copy"], NoCall, [c EXCEPT !.pc = "fetch"]} :
           call' = [call EXCEPT ![t] = n]
    BY <1>3 DEF Take
  <2>2. c.pc = "take" /\ UNCHANGED <<sock, list, signalled, sem, cb>>
    BY <1>3 DEF Take
  <2>3. ShapeOf(n) /\ n.pc \in {"idle"} \cup Receiving /\ (n.pc \in Receiving => n.fd = c.fd)
    <3>1. CASE n = NoCall
      BY <1>i, <3>1 DEF Receiving
    <3>2. CASE n # NoCall
      <4>1. n.pc \in {"copy", "fetch"} /\ n.fd = c.fd /\ n.len = c.len /\ n.todo = c.todo /\ All(n) = All(c)
        BY <1>0, <2>1, <3>2 DEF SocketCall, All
      <4> QED BY <1>0, <2>2, <4>1 DEF ShapeOf, Receiving, Selecting, InList
    <3> QED BY <3>1, <3>2
  <2>4. RecvMoves(t, n)
    BY <1>0, <1>q, <2>1, <2>2, <2>3 DEF RecvMoves, Receiving, SameEvents
  <2> QED BY <1>1, <2>4, RecvMovesKeep
<1>4. CASE Fetch(t)
  <2> DEFINE n == [c EXCEPT !.pc = "fetched", !.hand = Head(mbox[c.fd])]
  <2>1. /\ c.pc = "fetch" /\ call' = [call EXCEPT ![t] = n]
        /\ cb' = [cb EXCEPT ![t] = [@ EXCEPT !.events = <<[fd |-> c.fd, evt |-> "RCVMINUS"]>>]]
        /\ UNCHANGED <<sock, list, signalled, sem>>
    BY <1>4 DEF Fetch, SelectInv, SocketTypeOK
  <2>2. n.pc = "fetched" /\ n.fd = c.fd /\ n.len = c.len /\ n.todo = c.todo /\ All(n) = All(c)
    BY <1>0 DEF SocketCall, All
  <2> HIDE DEF n
  <2>3. ShapeOf(n)
    BY <1>0, <2>1, <2>2 DEF ShapeOf, Receiving, Selecting, InList
  <2>4. RecvMoves(t, n)
    BY <1>0, <1>q, <2>1, <2>2, <2>3 DEF RecvMoves, Receiving, SameEvents
  <2> QED BY <1>1, <2>4, RecvMovesKeep
<1>5. CASE FetchedBuffer(t)
  <2>1. PICK n \in {NoCall, [c EXCEPT !.pc = "copy", !.hand = Eof]} :
            call' = [call EXCEPT ![t] = n]
    BY <1>5 DEF FetchedBuffer
  <2>2. /\ c.pc = "fetched" /\ cb[t].events = <<>> /\ UNCHANGED <<list, signalled, sem, cb>>
        /\ \/ sock' = [sock EXCEPT ![c.fd] = [@ EXCEPT !.fatal = TRUE]]
           \/ sock' = [sock EXCEPT ![c.fd] = [@ EXCEPT !.last = c.hand]]
    BY <1>0, <1>5 DEF FetchedBuffer, Busy, SelectInv, SocketTypeOK, Receiving
  <2>3. ShapeOf(n) /\ n.pc \in {"idle"} \cup Receiving /\ (n.pc \in Receiving => n.fd = c.fd)
    <3>1. CASE n = NoCall
      BY <1>i, <3>1 DEF Receiving
    <3>2. CASE n # NoCall
      <4>1. n.pc = "copy" /\ n.fd = c.fd /\ n.len = c.len /\ n.todo = c.todo /\ All(n) = All(c)
        BY <1>0, <2>1, <3>2 DEF SocketCall, All
      <4> QED BY <1>0, <2>2, <4>1 DEF ShapeOf, Receiving, Selecting, InList
    <3> QED BY <3>1, <3>2
  <2>4. SameEvents
    <3>1. CASE sock' = [sock EXCEPT ![c.fd] = [@ EXCEPT !.fatal = TRUE]]
      BY <1>0, <2>2, <3>1, GivesFields DEF Receiving, SelectInv, SocketTypeOK
    <3>2. CASE sock' = [sock EXCEPT ![c.fd] = [@ EXCEPT !.last = c.hand]]
      BY <1>0, <2>2, <3>2, GivesFields DEF Receiving, SelectInv, SocketTypeOK
    <3> QED BY <2>2, <3>1, <3>2
  <2>5. RecvMoves(t, n)
    BY <1>0, <2>1, <2>2, <2>3, <2>4 DEF RecvMoves, Receiving
  <2> QED BY <1>1, <2>5, RecvMovesKeep
<1>6. CASE Copy(t)
  <2>1. PICK d, m : /\ call' = [call EXCEPT ![t] = IF d THEN NoCall ELSE
                                    [c EXCEPT !.pc = "take", !.len = @ - m, !.off = @ + m]]
                    /\ m = IF c.len < Len(sock[c.fd].last.data) THEN c.len
                           ELSE Len(sock[c.fd].last.data)
                    /\ ~d => m # c.len
    BY <1>6 DEF Copy
  <2> DEFINE n == IF d THEN NoCall ELSE [c EXCEPT !.pc = "take", !.len = @ - m, !.off = @ + m]
  <2>2. PICK x : sock' = [sock EXCEPT ![c.fd] = [@ EXCEPT !.last = x]]
    BY <1>0, <1>6 DEF Copy, SelectInv, SocketTypeOK, Receiving
  <2>3. c.pc = "copy" /\ UNCHANGED <<list, signalled, sem, cb>>
    BY <1>6 DEF Copy
  <2>4. ShapeOf(n) /\ n.pc \in {"idle"} \cup Receiving /\ (n.pc \in Receiving => n.fd = c.fd)
    <3>1. CASE d
      BY <1>i, <3>1 DEF Receiving
    <3>2. CASE ~d
      <4>1. Len(sock[c.fd].last.data) \in Nat /\ c.len \in Nat
        BY <1>0, <2>3 DEF SelectInv, SocketTypeOK, Socket, Item, SocketCall, Receiving
      <4>2. c.len - m > 0
        BY <2>1, <3>2, <4>1
      <4>3. n = [c EXCEPT !.pc = "take", !.len = @ - m, !.off = @ + m]
        BY <3>2
      <4> HIDE DEF n
      <4>4. n.pc = "take" /\ n.fd = c.fd /\ n.len = c.len - m /\ n.todo = c.todo /\ All(n) = All(c)
        BY <1>0, <4>3 DEF SocketCall, All
      <4> QED BY <1>0, <2>3, <4>2, <4>4 DEF ShapeOf, Receiving, Selecting, InList
    <3> QED BY <3>1, <3>2
  <2> HIDE DEF n
  <2>5. SameEvents
    BY <1>0, <2>2, <2>3, GivesFields DEF Receiving, SelectInv, SocketTypeOK
  <2>6. RecvMoves(t, n)
    <3>1. call' = [call EXCEPT ![t] = n]
      BY <2>1 DEF n
    <3> QED BY <1>0, <1>q, <2>3, <2>4, <2>5, <3>1 DEF RecvMoves, Receiving
  <2> QED BY <1>1, <2>6, RecvMovesKeep
<1> QED BY <1>1, <1>2, <1>3, <1>4, <1>5, <1>6, RecvMovesKeep

\* Sockets are opened and closed when no call uses them.
LEMMA OpenKeeps ==
    ASSUME SelectInv, NEW t \in Callers, Open(t) \/ \E fd \in Fds : Close(t, fd)
    PROVE  SelectInv'
<1>1. SocketTypeOK'
  BY OpenTypes DEF SelectInv
<1>2. PICK fd \in Fds, s \in {Fresh, [Fresh EXCEPT !.open = TRUE]} :
         /\ sock' = [sock EXCEPT ![fd] = s]
         /\ UNCHANGED <<list, signalled, sem, call, cb>>
         /\ ~sock[fd].open \/ InNoCall(fd)
  BY DEF Open, Close
<1>3. \A u \in Callers : fd \notin All(call[u]) /\ (call[u].pc \in Receiving => call[u].fd # fd)
  BY <1>2 DEF SelectInv, InUse, InNoCall, CallShape, ShapeOf
<1>4. s.waiting = 0
  BY <1>2 DEF Fresh
<1>5. sock'[fd] = s /\ \A k \in Fds : k # fd => sock'[k] = sock[k]
  BY <1>2 DEF SelectInv, SocketTypeOK
<1>6. Aside
  BY <1>2, <1>3, <1>4, <1>5 DEF Aside
<1>7. CallShape' /\ CallersReport'
  BY <1>2 DEF SelectInv, CallShape, CallersReport
<1>8. InUse'
  <2>1. \A u \in Callers : All(call[u]) \subseteq Fds /\ (call[u].pc \in Receiving => call[u].fd \in Fds)
    BY DEF SelectInv, SocketTypeOK, SocketCall, All, CallShape, ShapeOf
  <2> QED BY <1>2, <1>3, <1>5, <2>1 DEF SelectInv, InUse
<1> QED BY <1>1, <1>6, <1>7, <1>8, AsideKeeps DEF SelectInv

\* The stack reports only after its last report is done.
LEMMA StackKeeps ==
    ASSUME SelectInv, Stack
    PROVE  SelectInv'
<1>1. SocketTypeOK'
  BY StackTypes DEF SelectInv
<1>2. PICK q : cb' = [cb EXCEPT ![Tcpip] = [@ EXCEPT !.events = q]]
  <2>1. \E fd, evts : Reports(fd, evts)
    BY DEF Stack, RecvTcp, BufferChanges, ErrTcp
  <2> QED BY <2>1 DEF Reports, SelectInv, SocketTypeOK
<1>3. cb[Tcpip].events = <<>> /\ UNCHANGED <<list, signalled, sem, call>>
  BY DEF Stack, RecvTcp, BufferChanges, ErrTcp, Busy
<1>4. SameEvents
  <2>1. PICK fd \in Fds : \/ \E n \in 0..2, push \in BOOLEAN : RecvTcp(fd, n, push)
                         \/ BufferChanges(fd) \/ ErrTcp(fd)
    BY DEF Stack
  <2>2. ASSUME NEW n \in 0..2, NEW push \in BOOLEAN, RecvTcp(fd, n, push) PROVE SameEvents
    <3>1. sock' = [sock EXCEPT ![fd] = [@ EXCEPT !.over = (n = 0)]]
      BY <2>2 DEF RecvTcp, SelectInv, SocketTypeOK
    <3> QED BY <3>1, GivesFields DEF SelectInv
  <2>3. CASE BufferChanges(fd)
    BY <2>3 DEF BufferChanges, SameEvents
  <2>4. CASE ErrTcp(fd)
    <3>1. sock' = [sock EXCEPT ![fd] = [[@ EXCEPT !.fatal = TRUE] EXCEPT !.over = TRUE]]
      BY <2>4 DEF ErrTcp, SelectInv, SocketTypeOK
    <3> QED BY <3>1, GivesFields DEF SelectInv
  <2> QED BY <2>1, <2>2, <2>3, <2>4
<1>5. cb[Tcpip].at = NoCaller /\ Tcpip \in Actors /\ Tcpip \notin Callers
  BY <1>3, QuietIsNowhere, SocketAssumption DEF Actors, Tcpip
<1>6. cb'[Tcpip].at = NoCaller /\ \A a \in Actors : a # Tcpip => cb'[a] = cb[a]
  BY <1>2, <1>5 DEF SelectInv, SocketTypeOK, Callback
<1>7. Aside
  <2>1. \A a \in Actors : IF cb[a].at # NoCaller THEN cb'[a] = cb[a] ELSE cb'[a].at = NoCaller
    BY <1>5, <1>6
  <2> QED BY <1>3, <1>4, <2>1 DEF Aside, SameEvents
<1>8. CallShape'
  BY <1>3 DEF SelectInv, CallShape
<1>9. CallersReport'
  BY <1>3, <1>5, <1>6 DEF SelectInv, CallersReport, Actors
<1>10. InUse'
  <2>1. \A u \in Callers : All(call[u]) \subseteq Fds /\ (call[u].pc \in Receiving => call[u].fd \in Fds)
    BY DEF SelectInv, SocketTypeOK, SocketCall, All, CallShape, ShapeOf
  <2> QED BY <1>3, <1>4, <2>1 DEF SelectInv, InUse, SameEvents
<1> QED BY <1>1, <1>7, <1>8, <1>9, <1>10, AsideKeeps DEF SelectInv

LEMMA SelectInvInit == SocketInit => SelectInv
<1> SUFFICES ASSUME SocketInit PROVE SelectInv
  OBVIOUS
<1>0. /\ NoCall.pc = "idle" /\ NoCall.todo = {} /\ NoCall.len = 0 /\ All(NoCall) = {}
      /\ Quiet.events = <<>> /\ Quiet.at = NoCaller /\ Fresh.waiting = 0
  BY DEF NoCall, All, Quiet, Fresh
<1>1. /\ \A t \in Callers : call[t] = NoCall /\ signalled[t] = FALSE
      /\ \A a \in Actors : cb[a] = Quiet
      /\ \A fd \in Fds : sock[fd] = Fresh
      /\ list = <<>> /\ Callers \subseteq Actors
  BY DEF SocketInit, Actors
<1>2. SocketTypeOK
  <2>1. FALSE \in BOOLEAN
    BY Zenon
  <2> QED BY <2>1, Constants DEF SocketInit, SocketTypeOK
<1>3. CallShape
  BY <1>0, <1>1 DEF CallShape, ShapeOf, Receiving, Selecting, InList
<1>4. Enlisted
  BY <1>0, <1>1 DEF Enlisted, InList
<1>5. LoopsAt /\ CallersReport
  BY <1>0, <1>1 DEF LoopsAt, CallersReport
<1>6. CountsRight
  <2>1. \A fd \in Fds : {t \in Callers : Counted(t, fd)} = {}
    BY <1>0, <1>1 DEF Counted
  <2> QED BY <1>0, <1>1, <2>1, FS_EmptySet DEF CountsRight
<1>7. InUse
  BY <1>0, <1>1 DEF InUse, Receiving
<1>8. Signals /\ Told
  BY <1>0, <1>1 DEF Signals, Told
<1> QED BY <1>2, <1>3, <1>4, <1>5, <1>6, <1>7, <1>8 DEF SelectInv

LEMMA SelectInvStep == SelectInv /\ [SocketNext]_socketVars => SelectInv'
<1> SUFFICES ASSUME SelectInv, [SocketNext]_socketVars PROVE SelectInv'
  OBVIOUS
<1>1. CASE \E a \in Actors : EventSet(a) \/ EventGoesOn(a)
  BY <1>1, EventSetKeeps, EventGoesOnKeeps
<1>2. ASSUME NEW t \in Callers, Caller(t) PROVE SelectInv'
  <2>1. ASSUME NEW rs \in SUBSET Fds, NEW ws \in SUBSET Fds, NEW poll \in BOOLEAN,
               SelectBegins(t, rs, ws, poll)
        PROVE  SelectInv'
    BY <2>1, SelectBeginsKeeps
  <2>2. CASE LoopStep(t) \/ Enlist(t) \/ WaitEnds(t) \/ Delist(t)
    BY <2>2, LoopStepKeeps, EnlistKeeps, WaitEndsKeeps, DelistKeeps
  <2>3. CASE \/ \E fd \in Fds, len \in 1..2, peek, poll \in BOOLEAN : RecvBegins(t, fd, len, peek, poll)
             \/ Take(t) \/ Fetch(t) \/ FetchedBuffer(t) \/ Copy(t)
    BY <2>3, RecvKeeps
  <2>4. CASE Open(t) \/ \E fd \in Fds : Close(t, fd)
    BY <2>4, OpenKeeps
  <2> QED BY <1>2, <2>1, <2>2, <2>3, <2>4 DEF Caller
<1>3. CASE Stack
  BY <1>3, StackKeeps
<1>4. CASE UNCHANGED socketVars
  <2>1. /\ sock' = sock /\ mbox' = mbox /\ list' = list /\ signalled' = signalled
        /\ sem' = sem /\ call' = call /\ cb' = cb /\ came' = came
    BY <1>4 DEF socketVars
  <2>2. SocketTypeOK' /\ CallShape' /\ CallersReport' /\ InUse'
    BY <2>1 DEF SelectInv, SocketTypeOK, CallShape, CallersReport, InUse
  <2>3. Aside
    BY <2>1 DEF Aside
  <2> QED BY <2>2, <2>3, AsideKeeps DEF SelectInv
<1> QED BY <1>1, <1>2, <1>3, <1>4 DEF SocketNext

LEMMA SelectInvWakes == SelectInv => SelectWakes
<1> SUFFICES ASSUME SelectInv, NEW t \in Callers, call[t].pc = "wait", sem[t] = 0,
                    NEW fd \in All(call[t]),
                    ~ (fd \in call[t].rs => sock[fd].rcvevent <= 0)
                    \/ ~ (fd \in call[t].ws => ~sock[fd].sendevent)
             PROVE  \E a \in Actors : Busy(a) /\ cb[a].at # NoCaller /\ Head(cb[a].events).fd = fd
  BY DEF SelectWakes
<1>1. ~signalled[t]
  BY DEF SelectInv, Signals
<1>2. call[t].todo = {} /\ call[t].ready = {}
  BY DEF SelectInv, CallShape, ShapeOf
<1>3. fd \in Fds
  BY DEF SelectInv, SocketTypeOK, SocketCall, All
<1>4. Awaited(t, fd)
  BY <1>3 DEF Awaited, SelectInv, SocketTypeOK, Socket
<1>5. PICK a \in Actors : WillTell(a, t, fd)
  BY <1>1, <1>2, <1>3, <1>4 DEF SelectInv, Told
<1> QED BY <1>5 DEF WillTell, SelectInv, LoopsAt, Busy

\* No wakeup is lost.
THEOREM SelectAlwaysWakes == SocketSpec => []SelectWakes
<1>1. SocketSpec => []SelectInv
  BY SelectInvInit, SelectInvStep, PTL DEF SocketSpec
<1> QED BY <1>1, SelectInvWakes, PTL

-----------------------------------------------------------------------------
(* The bytes of a connection *)

\* Runs of bytes.
LEMMA EmptyRun ==
    ASSUME NEW a \in Nat
    PROVE  IsRun(<<>>, a, a) /\ \A b \in Nat : IsRun(<<>>, a, b) => a = b
<1>1. IsRun(<<>>, a, a)
  <2>1. [i \in 1..(a - a) |-> a + i] = <<>>
    OBVIOUS
  <2> QED BY <2>1 DEF IsRun
<1>2. ASSUME NEW b \in Nat, IsRun(<<>>, a, b) PROVE a = b
  <2>1. DOMAIN <<>> = 1..(b - a)
    BY <1>2 DEF IsRun
  <2> QED BY <1>2, <2>1 DEF IsRun
<1> QED BY <1>1, <1>2

LEMMA CountUp ==
    ASSUME NEW a \in Nat, NEW d \in Nat, NEW p, p = [i \in 1..d |-> a + i]
    PROVE  p \in Seq(Nat) /\ Len(p) = d
<1>1. p \in [1..d -> Nat]
  OBVIOUS
<1> QED BY <1>1

LEMMA CutRun ==
    ASSUME NEW p, NEW a \in Nat, NEW b \in Nat, IsRun(p, a, b), NEW k \in 0..Len(p)
    PROVE  /\ Len(p) = b - a /\ p \in Seq(Nat)
           /\ IsRun(SubSeq(p, 1, k), a, a + k) /\ IsRun(SubSeq(p, k + 1, Len(p)), a + k, b)
<1>1. p = [i \in 1..(b - a) |-> a + i] /\ b - a \in Nat
  BY DEF IsRun
<1>2. Len(p) = b - a /\ p \in Seq(Nat)
  <2> DEFINE d == b - a
  <2>1. d \in Nat /\ p = [i \in 1..d |-> a + i]
    BY <1>1
  <2> HIDE DEF d
  <2>2. Len(p) = d /\ p \in Seq(Nat)
    BY <2>1, CountUp
  <2> QED BY <2>2 DEF d
<1>3. IsRun(SubSeq(p, 1, k), a, a + k)
  <2>1. SubSeq(p, 1, k) = [i \in 1..k |-> p[i]]
    BY <1>2
  <2>2. [i \in 1..k |-> p[i]] = [i \in 1..((a + k) - a) |-> a + i]
    BY <1>1, <1>2
  <2> QED BY <2>1, <2>2 DEF IsRun
<1>4. IsRun(SubSeq(p, k + 1, Len(p)), a + k, b)
  <2>1. SubSeq(p, k + 1, Len(p)) = [i \in 1..(Len(p) - k) |-> p[k + i]]
    BY <1>2
  <2>2. [i \in 1..(Len(p) - k) |-> p[k + i]] = [i \in 1..(b - (a + k)) |-> (a + k) + i]
    BY <1>1, <1>2
  <2> QED BY <1>2, <2>1, <2>2 DEF IsRun
<1> QED BY <1>2, <1>3, <1>4

LEMMA JoinRuns ==
    ASSUME NEW a \in Nat, NEW b \in Nat, NEW c \in Nat, NEW p, NEW q, IsRun(p, a, b), IsRun(q, b, c)
    PROVE  IsRun(p \o q, a, c)
<1>1. p = [i \in 1..(b - a) |-> a + i] /\ b - a \in Nat
  BY DEF IsRun
<1>2. q = [i \in 1..(c - b) |-> b + i] /\ c - b \in Nat
  BY DEF IsRun
<1>3. p \in Seq(Nat) /\ q \in Seq(Nat) /\ Len(p) = b - a /\ Len(q) = c - b
  BY <1>1, <1>2, CountUp
<1> DEFINE s == p \o q
<1>4. s \in Seq(Nat) /\ Len(s) = c - a
  BY <1>3
<1>5. \A i \in 1..(c - a) : s[i] = IF i <= b - a THEN p[i] ELSE q[i - (b - a)]
  BY <1>3
<1> HIDE DEF s
<1>6. \A i \in 1..(c - a) : s[i] = a + i
  BY <1>1, <1>2, <1>5
<1>7. s = [i \in 1..(c - a) |-> a + i]
  BY <1>4, <1>6
<1> QED BY <1>1, <1>2, <1>7 DEF IsRun, s

LEMMA NoBytes == InOrder(<<>>, <<>>, <<>>, <<>>, 0)
<1> DEFINE cut == [i \in 0..0 |-> 0]
<1>1. Len(<<>>) = 0
  OBVIOUS
<1>2. cut \in [0..Len(<<>>) -> 0..0] /\ cut[0] = 0 /\ cut[Len(<<>>)] = 0
  BY <1>1
<1>3. 1..Len(<<>>) = {}
  BY <1>1
<1> HIDE DEF cut
<1>4. BoxRun(<<>>, 0, 0)
  BY <1>2, <1>3 DEF BoxRun
<1> QED BY <1>4, EmptyRun DEF InOrder

\* What arrives goes to the end of the mailbox.
LEMMA BoxFills ==
    ASSUME NEW box \in Seq(Item), NEW c \in Nat, NEW n \in Nat, NEW k \in Nat,
           NEW item \in Item, BoxRun(box, c, n), IsRun(item.data, n, n + k)
    PROVE  BoxRun(Append(box, item), c, n + k)
<1>1. PICK cut \in [0..Len(box) -> 0..n] :
         /\ cut[0] = c /\ cut[Len(box)] = n
         /\ \A i \in 1..Len(box) : IsRun(box[i].data, cut[i - 1], cut[i])
  BY DEF BoxRun
<1> DEFINE m == Len(box)
           new == Append(box, item)
           f == [i \in 0..(m + 1) |-> IF i = m + 1 THEN n + k ELSE cut[i]]
<1>2. m \in Nat /\ Len(new) = m + 1
  OBVIOUS
<1>3. \A i \in 1..m : new[i] = box[i]
  OBVIOUS
<1>4. new[m + 1] = item
  OBVIOUS
<1> HIDE DEF new
<1>5. f \in [0..(m + 1) -> 0..(n + k)] /\ f[m + 1] = n + k
  BY <1>2
<1>6. \A i \in 0..m : f[i] = cut[i]
  BY <1>2
<1> HIDE DEF f
<1>7. \A i \in 1..(m + 1) : IsRun(new[i].data, f[i - 1], f[i])
  <2>1. ASSUME NEW i \in 1..m PROVE IsRun(new[i].data, f[i - 1], f[i])
    <3>1. i - 1 \in 0..m /\ i \in 0..m
      BY <1>2
    <3>2. f[i - 1] = cut[i - 1] /\ f[i] = cut[i]
      BY <1>6, <3>1
    <3> QED BY <1>1, <1>3, <3>2
  <2>2. IsRun(new[m + 1].data, f[(m + 1) - 1], f[m + 1])
    <3>1. f[(m + 1) - 1] = n
      <4>1. (m + 1) - 1 = m /\ m \in 0..m
        BY <1>2
      <4> QED BY <1>1, <1>6, <4>1
    <3> QED BY <1>4, <1>5, <3>1
  <2> QED BY <1>2, <2>1, <2>2
<1>8. f[0] = c
  BY <1>1, <1>2, <1>6
<1>9. BoxRun(new, c, n + k)
  <2> HIDE DEF m
  <2> QED BY <1>2, <1>5, <1>7, <1>8 DEF BoxRun
<1> QED BY <1>9 DEF new

LEMMA BytesArrive ==
    ASSUME NEW read, NEW kept, NEW hand, NEW box \in Seq(Item), NEW n \in Nat, NEW k \in Nat,
           NEW item \in Item, InOrder(read, kept, hand, box, n), IsRun(item.data, n, n + k)
    PROVE  InOrder(read, kept, hand, Append(box, item), n + k)
<1>1. PICK a \in 0..n, b \in 0..n, c \in 0..n :
         IsRun(read, 0, a) /\ IsRun(kept, a, b) /\ IsRun(hand, b, c) /\ BoxRun(box, c, n)
  BY DEF InOrder
<1>2. BoxRun(Append(box, item), c, n + k)
  <2>1. c \in Nat
    OBVIOUS
  <2> QED BY <1>1, <2>1, BoxFills
<1>3. a \in 0..(n + k) /\ b \in 0..(n + k) /\ c \in 0..(n + k)
  OBVIOUS
<1> QED BY <1>1, <1>2, <1>3 DEF InOrder

\* The first buffer of the mailbox goes into an empty hand.
LEMMA BoxDrains ==
    ASSUME NEW box \in Seq(Item), box # <<>>, NEW c \in Nat, NEW n \in Nat, BoxRun(box, c, n)
    PROVE  \E d \in 0..n : IsRun(Head(box).data, c, d) /\ BoxRun(Tail(box), d, n)
<1>1. PICK cut \in [0..Len(box) -> 0..n] :
         /\ cut[0] = c /\ cut[Len(box)] = n
         /\ \A i \in 1..Len(box) : IsRun(box[i].data, cut[i - 1], cut[i])
  BY DEF BoxRun
<1> DEFINE m == Len(box)
           rest == Tail(box)
           f == [i \in 0..(m - 1) |-> cut[i + 1]]
<1>2. m \in Nat /\ m >= 1 /\ Len(rest) = m - 1 /\ Head(box) = box[1]
  OBVIOUS
<1>3. \A i \in 1..(m - 1) : rest[i] = box[i + 1]
  OBVIOUS
<1> HIDE DEF rest
<1>5. f \in [0..(m - 1) -> 0..n] /\ f[0] = cut[1]
  BY <1>2
<1>6. f[m - 1] = n
  BY <1>1, <1>2
<1>7. ASSUME NEW i \in 1..(m - 1) PROVE IsRun(rest[i].data, f[i - 1], f[i])
  <2>1. i + 1 \in 1..m /\ (i + 1) - 1 = i /\ i - 1 \in 0..(m - 1) /\ i \in 0..(m - 1) /\ (i - 1) + 1 = i
    BY <1>2
  <2>2. f[i - 1] = cut[i] /\ f[i] = cut[i + 1]
    BY <2>1
  <2> HIDE DEF f
  <2> QED BY <1>1, <1>3, <2>1, <2>2
<1> HIDE DEF f
<1>8. IsRun(Head(box).data, c, cut[1]) /\ cut[1] \in 0..n
  BY <1>1, <1>2
<1>9. BoxRun(rest, cut[1], n)
  <2> HIDE DEF m
  <2> QED BY <1>2, <1>5, <1>6, <1>7 DEF BoxRun
<1> QED BY <1>8, <1>9 DEF rest

LEMMA BytesFetched ==
    ASSUME NEW read, NEW kept, NEW box \in Seq(Item), box # <<>>, NEW n \in Nat,
           InOrder(read, kept, <<>>, box, n)
    PROVE  InOrder(read, kept, Head(box).data, Tail(box), n)
<1>1. PICK a \in 0..n, b \in 0..n, c \in 0..n :
         IsRun(read, 0, a) /\ IsRun(kept, a, b) /\ IsRun(<<>>, b, c) /\ BoxRun(box, c, n)
  BY DEF InOrder
<1>2. b \in Nat /\ c \in Nat
  OBVIOUS
<1>3. b = c
  BY <1>1, <1>2, EmptyRun
<1>4. PICK d \in 0..n : IsRun(Head(box).data, c, d) /\ BoxRun(Tail(box), d, n)
  BY <1>1, <1>2, BoxDrains
<1> QED BY <1>1, <1>3, <1>4 DEF InOrder

\* A socket that keeps nothing keeps what was in the hand.
LEMMA BytesKept ==
    ASSUME NEW read, NEW hand, NEW box, NEW n \in Nat, InOrder(read, <<>>, hand, box, n)
    PROVE  InOrder(read, hand, <<>>, box, n)
<1>1. PICK a \in 0..n, b \in 0..n, c \in 0..n :
         IsRun(read, 0, a) /\ IsRun(<<>>, a, b) /\ IsRun(hand, b, c) /\ BoxRun(box, c, n)
  BY DEF InOrder
<1>2. a \in Nat /\ b \in Nat /\ c \in Nat
  OBVIOUS
<1>3. a = b /\ IsRun(<<>>, c, c)
  BY <1>1, <1>2, EmptyRun
<1> QED BY <1>1, <1>3 DEF InOrder

\* A reader copies the first k bytes of what the socket keeps.
LEMMA BytesCopied ==
    ASSUME NEW read, NEW kept, NEW hand, NEW box, NEW n \in Nat, InOrder(read, kept, hand, box, n),
           NEW k \in 0..Len(kept)
    PROVE  InOrder(read \o SubSeq(kept, 1, k), SubSeq(kept, k + 1, Len(kept)), hand, box, n)
<1>1. PICK a \in 0..n, b \in 0..n, c \in 0..n :
         IsRun(read, 0, a) /\ IsRun(kept, a, b) /\ IsRun(hand, b, c) /\ BoxRun(box, c, n)
  BY DEF InOrder
<1>0. a \in Nat /\ b \in Nat /\ 0 \in Nat
  OBVIOUS
<1>2. /\ Len(kept) = b - a /\ IsRun(SubSeq(kept, 1, k), a, a + k)
      /\ IsRun(SubSeq(kept, k + 1, Len(kept)), a + k, b)
  BY <1>0, <1>1, CutRun
<1>3. a + k \in 0..n /\ a + k \in Nat
  BY <1>1, <1>2
<1>4. IsRun(read \o SubSeq(kept, 1, k), 0, a + k)
  BY <1>0, <1>1, <1>2, <1>3, JoinRuns
<1> QED BY <1>1, <1>2, <1>3, <1>4 DEF InOrder

-----------------------------------------------------------------------------
\* What keeps the bytes in order, and a reader that has read from waiting.

\* One thread receives from a socket at a time.
OneReader ==
    \A t, u \in Callers :
        call[t].pc \in Receiving /\ call[u].pc \in Receiving /\ call[t].fd = call[u].fd => t = u

\* A buffer is in a hand only until its event is reported, and a socket that
\* keeps bytes is not asked for more.
Hands ==
    \A t \in Callers :
        /\ call[t].pc # "fetched" => call[t].hand = Eof
        /\ call[t].pc \in {"fetch", "fetched"} => sock[call[t].fd].last = Eof

\* The stack reports one event, or those of an error, of an open socket.
StackReports ==
    \A i \in 1..Len(cb[Tcpip].events) :
        LET e == cb[Tcpip].events[i]
        IN  /\ sock[e.fd].open
            /\ \/ sock[e.fd].fatal
               \/ Len(cb[Tcpip].events) = 1 /\ e.evt \in {"RCVPLUS", "SENDPLUS", "SENDMINUS"}

\* A buffer is put into the mailbox before it is counted, and taken out before
\* it is no longer: what is counted is in the mailbox, but for these two.
ToCome(fd) == /\ cb[Tcpip].events # <<>> /\ cb[Tcpip].at = NoCaller
              /\ Head(cb[Tcpip].events) = [fd |-> fd, evt |-> "RCVPLUS"]
ToGo(fd) == \E t \in Callers : cb[t].events # <<>> /\ cb[t].at = NoCaller /\ call[t].fd = fd
CountOfBox ==
    \A fd \in Fds : ~sock[fd].fatal =>
        /\ sock[fd].rcvevent <= Len(mbox[fd]) + 1
        /\ ToCome(fd) \/ ~ToGo(fd) => sock[fd].rcvevent <= Len(mbox[fd])
        /\ ToCome(fd) /\ ~ToGo(fd) => sock[fd].rcvevent < Len(mbox[fd])

\* A receive that goes on has seen that there is more.
SeenMore ==
    \A t \in Callers :
        /\ call[t].pc = "take" /\ call[t].off > 0 =>
              sock[call[t].fd].fatal \/ sock[call[t].fd].rcvevent > 0
        /\ call[t].pc = "fetch" /\ call[t].off > 0 => mbox[call[t].fd] # <<>>

ReadInv ==
    /\ reads \in [Fds -> Seq(Nat)]
    /\ OneReader /\ Hands /\ StackReports /\ CountOfBox /\ SeenMore /\ BytesInOrder

-----------------------------------------------------------------------------
\* What is in the hands of the calls c.
LEMMA HandOfOne ==
    ASSUME NEW c, NEW t \in Callers, \A u \in Callers : u # t /\ c[u].fd = c[t].fd => c[u].hand = Eof
    PROVE  InHand(c, c[t].fd) = c[t].hand.data
<1> DEFINE held == {u \in Callers : c[u].fd = c[t].fd /\ c[u].hand # Eof}
<1>1. CASE c[t].hand = Eof
  <2>1. held = {} /\ Eof.data = <<>>
    BY <1>1 DEF Eof
  <2> QED BY <1>1, <2>1 DEF InHand
<1>2. CASE c[t].hand # Eof
  <2>1. held = {t}
    BY <1>2
  <2>2. (CHOOSE u \in held : TRUE) = t
    BY <2>1
  <2> QED BY <2>1, <2>2 DEF InHand
<1> QED BY <1>1, <1>2

LEMMA NoHand ==
    ASSUME NEW c, NEW fd, \A u \in Callers : c[u].fd = fd => c[u].hand = Eof
    PROVE  InHand(c, fd) = <<>>
<1>1. {u \in Callers : c[u].fd = fd /\ c[u].hand # Eof} = {}
  OBVIOUS
<1> QED BY <1>1 DEF InHand

LEMMA SameHand ==
    ASSUME NEW c, NEW d, NEW fd,
           \A u \in Callers : \/ c[u].fd = d[u].fd /\ c[u].hand = d[u].hand
                              \/ (c[u].fd # fd \/ c[u].hand = Eof) /\ (d[u].fd # fd \/ d[u].hand = Eof)
    PROVE  InHand(c, fd) = InHand(d, fd)
<1> DEFINE held(x) == {u \in Callers : x[u].fd = fd /\ x[u].hand # Eof}
<1>1. held(c) = held(d)
  OBVIOUS
<1>2. \A u \in held(c) : c[u].hand = d[u].hand
  OBVIOUS
<1>3. CASE held(c) = {}
  BY <1>1, <1>3 DEF InHand
<1>4. CASE held(c) # {}
  <2>1. (CHOOSE u \in held(c) : TRUE) \in held(c)
    BY <1>4
  <2>2. (CHOOSE u \in held(c) : TRUE) = (CHOOSE u \in held(d) : TRUE)
    BY <1>1
  <2>3. /\ InHand(c, fd) = c[CHOOSE u \in held(c) : TRUE].hand.data
        /\ InHand(d, fd) = d[CHOOSE u \in held(d) : TRUE].hand.data
    BY <1>1, <1>4 DEF InHand
  <2> QED BY <1>2, <2>1, <2>2, <2>3
<1> QED BY <1>3, <1>4

LEMMA ReadInvInit == SocketInit => ReadInv
<1> SUFFICES ASSUME SocketInit PROVE ReadInv
  OBVIOUS
<1>0. /\ NoCall.pc = "idle" /\ NoCall.hand = Eof /\ Fresh.last = Eof /\ Eof.data = <<>>
      /\ Fresh.rcvevent = 0 /\ Quiet.events = <<>> /\ Quiet.at = NoCaller
  BY DEF NoCall, Quiet, Fresh, Eof
<1>1. /\ \A t \in Callers : call[t] = NoCall
      /\ \A a \in Actors : cb[a] = Quiet
      /\ \A fd \in Fds : sock[fd] = Fresh /\ mbox[fd] = <<>> /\ reads[fd] = <<>> /\ came[fd] = 0
      /\ Callers \subseteq Actors /\ Tcpip \in Actors
  BY DEF SocketInit, Actors
<1>2. OneReader /\ Hands /\ SeenMore
  BY <1>0, <1>1 DEF OneReader, Hands, SeenMore, Receiving
<1>3. StackReports
  <2>1. 1..Len(cb[Tcpip].events) = {}
    BY <1>0, <1>1
  <2> QED BY <2>1 DEF StackReports
<1>4. CountOfBox
  <2>1. \A fd \in Fds : ~ToCome(fd) /\ ~ToGo(fd) /\ Len(mbox[fd]) = 0
    BY <1>0, <1>1 DEF ToCome, ToGo
  <2> QED BY <1>0, <1>1, <2>1 DEF CountOfBox
<1>5. BytesInOrder
  <2>1. \A fd \in Fds : InHand(call, fd) = <<>>
    BY <1>0, <1>1, NoHand
  <2> QED BY <1>0, <1>1, <2>1, NoBytes DEF BytesInOrder
<1>6. reads \in [Fds -> Seq(Nat)]
  BY DEF SocketInit
<1> QED BY <1>2, <1>3, <1>4, <1>5, <1>6 DEF ReadInv

\* The events that are left when the first has been dealt with.
LEMMA EventsLeft ==
    ASSUME SocketTypeOK, NEW a \in Actors, cb[a].events # <<>>
    PROVE  /\ Head(cb[a].events) = cb[a].events[1] /\ 1 \in 1..Len(cb[a].events)
           /\ cb[a].events[1] \in Event
           /\ Len(Tail(cb[a].events)) = Len(cb[a].events) - 1
           /\ \A i \in 1..Len(Tail(cb[a].events)) :
                 /\ i + 1 \in 1..Len(cb[a].events) /\ Len(cb[a].events) # 1
                 /\ Tail(cb[a].events)[i] = cb[a].events[i + 1]
           /\ Tail(cb[a].events) # <<>> =>
                 /\ Head(Tail(cb[a].events)) = cb[a].events[2] /\ 2 \in 1..Len(cb[a].events)
                 /\ Len(cb[a].events) # 1
<1> DEFINE q == cb[a].events
<1>1. q \in Seq(Event) /\ q # <<>>
  BY DEF SocketTypeOK, Callback
<1> HIDE DEF q
<1>2. /\ Head(q) = q[1] /\ 1 \in 1..Len(q) /\ q[1] \in Event /\ Len(Tail(q)) = Len(q) - 1
      /\ Tail(q) \in Seq(Event)
  BY <1>1
<1>3. ASSUME NEW i \in 1..Len(Tail(q))
      PROVE  i + 1 \in 1..Len(q) /\ Len(q) # 1 /\ Tail(q)[i] = q[i + 1]
  <2>1. i \in 1..(Len(q) - 1) /\ Len(q) \in Nat
    BY <1>1, <1>2
  <2>2. Tail(q)[i] = q[i + 1]
    BY <1>1, <2>1
  <2> QED BY <2>1, <2>2
<1>4. Tail(q) # <<>> => Head(Tail(q)) = q[2] /\ 2 \in 1..Len(q) /\ Len(q) # 1
  BY <1>1, <1>2
<1> QED BY <1>2, <1>3, <1>4 DEF q

\* Where a loop leads holds no buffer, if the call did not, and does not receive.
LEMMA LoopDoneIs ==
    ASSUME NEW n \in SocketCall, n.pc \in Loops, n.hand = Eof
    PROVE  LoopDone(n).pc \notin Receiving /\ LoopDone(n).hand = Eof
<1>i. NoCall.pc = "idle" /\ NoCall.hand = Eof
  BY DEF NoCall
<1>1. CASE n.pc = "scan"
  <2>1. [n EXCEPT !.pc = "enlist"].pc = "enlist" /\ [n EXCEPT !.pc = "enlist"].hand = Eof
    BY DEF SocketCall
  <2>2. LoopDone(n) \in {NoCall, [n EXCEPT !.pc = "enlist"]}
    BY <1>1 DEF LoopDone
  <2> QED BY <1>i, <2>1, <2>2 DEF Receiving
<1>2. CASE n.pc = "count"
  <2>1. LoopDone(n) = [[n EXCEPT !.ready = {}] EXCEPT !.pc = "rescan", !.todo = n.rs \cup n.ws]
    BY <1>2 DEF LoopDone, Begin, All, SocketCall
  <2> DEFINE m == [[n EXCEPT !.ready = {}] EXCEPT !.pc = "rescan", !.todo = n.rs \cup n.ws]
  <2>2. m.pc = "rescan" /\ m.hand = Eof
    BY DEF SocketCall
  <2> QED BY <2>1, <2>2 DEF Receiving
<1>3. CASE n.pc = "rescan"
  <2>1. LoopDone(n) \in {[n EXCEPT !.pc = "uncount", !.todo = n.rs \cup n.ws], [n EXCEPT !.pc = "wait"]}
    BY <1>3 DEF LoopDone, Begin, All
  <2>2. CASE LoopDone(n) = [n EXCEPT !.pc = "uncount", !.todo = n.rs \cup n.ws]
    BY <2>2 DEF SocketCall, Receiving
  <2>3. CASE LoopDone(n) = [n EXCEPT !.pc = "wait"]
    BY <2>3 DEF SocketCall, Receiving
  <2> QED BY <2>1, <2>2, <2>3
<1>4. CASE n.pc \in {"uncount", "giveup"}
  <2>1. LoopDone(n) \in {[n EXCEPT !.pc = "leave"], [n EXCEPT !.pc = "delist"]}
    BY <1>4 DEF LoopDone
  <2>2. CASE LoopDone(n) = [n EXCEPT !.pc = "leave"]
    BY <2>2 DEF SocketCall, Receiving
  <2>3. CASE LoopDone(n) = [n EXCEPT !.pc = "delist"]
    BY <2>3 DEF SocketCall, Receiving
  <2> QED BY <2>1, <2>2, <2>3
<1>5. CASE n.pc = "final"
  BY <1>5, <1>i DEF LoopDone, Receiving
<1> QED BY <1>1, <1>2, <1>3, <1>4, <1>5 DEF Loops

\* What the events become when a loop looks at the entry of u.
LEMMA ExaminedEvents ==
    ASSUME SocketTypeOK, NEW a \in Actors, NEW u, NEW s, NEW fd, Examine(a, u, s, fd)
    PROVE  /\ \A b \in Actors : b # a => cb'[b] = cb[b]
           /\ \/ cb'[a].events = cb[a].events /\ cb'[a].at = u /\ u # NoCaller
              \/ cb'[a].events = Tail(cb[a].events) /\ cb'[a].at = NoCaller
<1>1. CASE u = NoCaller
  <2>1. cb' = [cb EXCEPT ![a] = [Quiet EXCEPT !.events = Tail(cb[a].events)]]
    BY <1>1 DEF Examine
  <2>2. /\ [Quiet EXCEPT !.events = Tail(cb[a].events)].events = Tail(cb[a].events)
        /\ [Quiet EXCEPT !.events = Tail(cb[a].events)].at = NoCaller
    BY DEF Quiet
  <2> QED BY <2>1, <2>2 DEF SocketTypeOK
<1>2. CASE u # NoCaller
  <2>1. cb' = [cb EXCEPT ![a] = [@ EXCEPT !.at = u, !.stale = FALSE]]
    BY <1>2 DEF Examine, SocketTypeOK
  <2>2. /\ [cb[a] EXCEPT !.at = u, !.stale = FALSE].events = cb[a].events
        /\ [cb[a] EXCEPT !.at = u, !.stale = FALSE].at = u
    BY DEF SocketTypeOK, Callback
  <2> QED BY <1>2, <2>1, <2>2 DEF SocketTypeOK
<1> QED BY <1>1, <1>2

\* What does not touch the bytes, nor the calls that receive.
ReadAside ==
    /\ UNCHANGED <<mbox, came, reads>>
    /\ \A fd \in Fds : /\ sock'[fd].last = sock[fd].last /\ sock'[fd].open = sock[fd].open
                       /\ sock'[fd].rcvevent = sock[fd].rcvevent /\ sock'[fd].fatal = sock[fd].fatal
    /\ \A t \in Callers :
          \/ call'[t] = call[t]
          \/ call[t].pc \notin Receiving /\ call'[t].pc \notin Receiving /\ call'[t].hand = Eof
    /\ \A a \in Actors :
          \/ cb'[a].events = cb[a].events /\ (cb'[a].at = NoCaller <=> cb[a].at = NoCaller)
          \/ /\ cb[a].at # NoCaller /\ cb'[a].at = NoCaller
             /\ cb[a].events # <<>> /\ cb'[a].events = Tail(cb[a].events)

LEMMA ReadAsideKeeps ==
    ASSUME SelectInv, ReadInv, ReadAside
    PROVE  ReadInv'
<1>0. Callers \subseteq Actors /\ Tcpip \in Actors
  BY DEF Actors
<1>t. SocketTypeOK
  BY DEF SelectInv
<1>f. \A t \in Callers : call[t].pc \in Receiving => call[t].fd \in Fds
  BY DEF SelectInv, CallShape, ShapeOf
<1>1. OneReader'
  BY DEF ReadInv, OneReader, ReadAside
<1>2. Hands'
  <2> SUFFICES ASSUME NEW t \in Callers
               PROVE  /\ call'[t].pc # "fetched" => call'[t].hand = Eof
                      /\ call'[t].pc \in {"fetch", "fetched"} => sock'[call'[t].fd].last = Eof
    BY DEF Hands
  <2>1. CASE call'[t] = call[t]
    BY <1>f, <2>1 DEF ReadInv, Hands, ReadAside, Receiving
  <2>2. CASE call'[t] # call[t]
    BY <2>2 DEF ReadAside, Receiving
  <2> QED BY <2>1, <2>2
<1>3. \A i \in 1..Len(cb[Tcpip].events) : cb[Tcpip].events[i].fd \in Fds
  <2>1. cb[Tcpip].events \in Seq(Event)
    BY <1>0 DEF SelectInv, SocketTypeOK, Callback
  <2>2. \A i \in 1..Len(cb[Tcpip].events) : cb[Tcpip].events[i] \in Event
    BY <2>1
  <2> QED BY <2>2 DEF Event
<1>4. StackReports'
  <2>1. CASE cb'[Tcpip].events = cb[Tcpip].events
    BY <1>3, <2>1 DEF ReadInv, StackReports, ReadAside
  <2>2. CASE cb[Tcpip].events # <<>> /\ cb'[Tcpip].events = Tail(cb[Tcpip].events)
    <3>1. \A i \in 1..Len(cb'[Tcpip].events) :
             /\ i + 1 \in 1..Len(cb[Tcpip].events) /\ Len(cb[Tcpip].events) # 1
             /\ cb'[Tcpip].events[i] = cb[Tcpip].events[i + 1]
      BY <1>0, <1>t, <2>2, EventsLeft
    <3> QED BY <1>3, <3>1 DEF ReadInv, StackReports, ReadAside
  <2> QED BY <1>0, <2>1, <2>2 DEF ReadAside
<1>5. CountOfBox'
  <2> SUFFICES ASSUME NEW fd \in Fds, ~sock[fd].fatal
               PROVE  (ToCome(fd)' => ToCome(fd)) /\ (ToGo(fd) => ToGo(fd)')
    BY DEF ReadInv, CountOfBox, ReadAside
  <2>1. ASSUME ToCome(fd)' PROVE ToCome(fd)
    <3>1. CASE cb'[Tcpip].events = cb[Tcpip].events /\ cb[Tcpip].at = NoCaller
      BY <2>1, <3>1 DEF ToCome
    <3>2. CASE cb[Tcpip].events # <<>> /\ cb'[Tcpip].events = Tail(cb[Tcpip].events)
      <4>1. /\ cb[Tcpip].events[2].fd = fd /\ 2 \in 1..Len(cb[Tcpip].events)
            /\ Len(cb[Tcpip].events) # 1
        BY <1>0, <1>t, <2>1, <3>2, EventsLeft DEF ToCome
      <4> QED BY <4>1 DEF ReadInv, StackReports
    <3> QED BY <1>0, <2>1, <3>1, <3>2 DEF ReadAside, ToCome
  <2>2. ASSUME ToGo(fd) PROVE ToGo(fd)'
    <3>1. PICK t \in Callers : cb[t].events # <<>> /\ cb[t].at = NoCaller /\ call[t].fd = fd
      BY <2>2 DEF ToGo
    <3>2. call'[t] = call[t]
      BY <3>1 DEF SelectInv, CallersReport, ReadAside, Receiving
    <3>3. cb'[t].events # <<>> /\ cb'[t].at = NoCaller
      BY <1>0, <3>1 DEF ReadAside
    <3> QED BY <3>1, <3>2, <3>3 DEF ToGo
  <2> QED BY <2>1, <2>2
<1>6. SeenMore'
  BY <1>f DEF ReadInv, SeenMore, ReadAside, Receiving
<1>7. BytesInOrder'
  <2>1. ASSUME NEW fd \in Fds PROVE InHand(call', fd) = InHand(call, fd)
    <3>1. \A u \in Callers : \/ call'[u].fd = call[u].fd /\ call'[u].hand = call[u].hand
                             \/ call'[u].hand = Eof /\ call[u].hand = Eof
      BY DEF ReadInv, Hands, ReadAside, Receiving
    <3> QED BY <3>1, SameHand
  <2> QED BY <2>1 DEF ReadInv, BytesInOrder, ReadAside
<1>8. reads' \in [Fds -> Seq(Nat)]
  BY DEF ReadInv, ReadAside
<1> QED BY <1>1, <1>2, <1>4, <1>5, <1>6, <1>7, <1>8 DEF ReadInv

\* The steps of lwip_select, and of a loop over the list, are of this kind.
LEMMA SelectReads ==
    ASSUME SelectInv, ReadInv, NEW t \in Callers,
           \/ \E rs, ws \in SUBSET Fds, poll \in BOOLEAN : SelectBegins(t, rs, ws, poll)
           \/ LoopStep(t) \/ Enlist(t) \/ WaitEnds(t) \/ Delist(t)
    PROVE  ReadInv'
<1> DEFINE c == call[t]
<1>0. c \in SocketCall
  BY DEF SelectInv, SocketTypeOK
<1>i. NoCall.pc = "idle" /\ NoCall.hand = Eof
  BY DEF NoCall
<1>1. PICK n : call' = [call EXCEPT ![t] = n] /\ c.pc \notin Receiving /\ n.pc \notin Receiving
               /\ n.hand = Eof
  <2>1. ASSUME NEW rs \in SUBSET Fds, NEW ws \in SUBSET Fds, NEW poll \in BOOLEAN,
               SelectBegins(t, rs, ws, poll)
        PROVE  \E n : /\ call' = [call EXCEPT ![t] = n] /\ c.pc \notin Receiving
                      /\ n.pc \notin Receiving /\ n.hand = Eof
    <3> DEFINE n == [NoCall EXCEPT !.pc = "scan", !.rs = rs, !.ws = ws, !.todo = rs \cup ws,
                                   !.poll = poll]
    <3>1. n.pc = "scan" /\ n.hand = Eof
      BY DEF NoCall
    <3>2. call' = [call EXCEPT ![t] = n] /\ c.pc = "idle"
      BY <2>1 DEF SelectBegins
    <3> HIDE DEF n
    <3> QED BY <3>1, <3>2 DEF Receiving
  <2>2. CASE LoopStep(t)
    <3>1. c.pc \in Loops
      BY <2>2, LoopTurns DEF SelectInv
    <3>2. PICK fd \in c.todo, n \in SocketCall :
             /\ Looked(c, fd, n)
             /\ call' = [call EXCEPT ![t] = IF n.todo = {} THEN LoopDone(n) ELSE n]
      BY <2>2, LoopTurns DEF SelectInv
    <3>3. n.pc = c.pc
      BY <3>2 DEF Looked
    <3>4. n.hand = Eof
      <4>1. n.hand = c.hand
        BY <3>2 DEF Looked
      <4> QED BY <3>1, <4>1 DEF ReadInv, Hands, Loops
    <3>5. LoopDone(n).pc \notin Receiving /\ LoopDone(n).hand = Eof
      BY <1>i, <3>1, <3>3, <3>4, LoopDoneIs
    <3> DEFINE m == IF n.todo = {} THEN LoopDone(n) ELSE n
    <3>6. m.pc \notin Receiving /\ m.hand = Eof /\ c.pc \notin Receiving
      BY <3>1, <3>3, <3>4, <3>5 DEF Loops, Receiving
    <3>7. call' = [call EXCEPT ![t] = m]
      BY <3>2
    <3> HIDE DEF m
    <3> QED BY <3>6, <3>7
  <2>3. ASSUME NEW pc \in {"count", "uncount", "giveup"}, c.pc \in {"enlist", "wait"},
               call' = [call EXCEPT ![t] = Begin(c, pc)]
        PROVE  \E n : /\ call' = [call EXCEPT ![t] = n] /\ c.pc \notin Receiving
                      /\ n.pc \notin Receiving /\ n.hand = Eof
    <3>1. Begin(c, pc).pc = pc /\ Begin(c, pc).hand = c.hand
      BY <1>0 DEF Begin, SocketCall
    <3>2. c.hand = Eof
      BY <2>3 DEF ReadInv, Hands
    <3> QED BY <2>3, <3>1, <3>2 DEF Receiving
  <2>4. CASE Enlist(t)
    BY <2>3, <2>4 DEF Enlist
  <2>5. CASE WaitEnds(t)
    BY <2>3, <2>5 DEF WaitEnds
  <2>6. CASE Delist(t)
    <3> DEFINE n == IF c.pc = "delist" THEN NoCall ELSE Begin([c EXCEPT !.ready = {}], "final")
    <3>1. call' = [call EXCEPT ![t] = n] /\ c.pc \in {"leave", "delist"}
      BY <2>6 DEF Delist
    <3>2. c.hand = Eof
      BY <3>1 DEF ReadInv, Hands
    <3>3. Begin([c EXCEPT !.ready = {}], "final").pc = "final"
          /\ Begin([c EXCEPT !.ready = {}], "final").hand = c.hand
      BY <1>0 DEF Begin, SocketCall
    <3>4. n.pc \notin Receiving /\ n.hand = Eof
      BY <1>i, <3>2, <3>3 DEF Receiving
    <3> HIDE DEF n
    <3> QED BY <3>1, <3>4 DEF Receiving
  <2> QED BY <2>1, <2>2, <2>4, <2>5, <2>6
<1>2. \A u \in Callers : \/ call'[u] = call[u]
                         \/ call[u].pc \notin Receiving /\ call'[u].pc \notin Receiving /\ call'[u].hand = Eof
  BY <1>1 DEF SelectInv, SocketTypeOK
<1>3. UNCHANGED <<mbox, came, reads>>
  BY DEF SelectBegins, LoopStep, Enlist, WaitEnds, Delist
<1>4. \A a \in Actors : cb'[a].events = cb[a].events /\ cb'[a].at = cb[a].at
  <2>1. cb' = cb \/ cb' = Disturbed
    BY DEF SelectBegins, LoopStep, Enlist, WaitEnds, Delist
  <2>2. \A a \in Actors : Disturbed[a].events = cb[a].events /\ Disturbed[a].at = cb[a].at
    BY DEF Disturbed, SelectInv, SocketTypeOK, Callback
  <2> QED BY <2>1, <2>2
<1>5. \A fd \in Fds : /\ sock'[fd].last = sock[fd].last /\ sock'[fd].open = sock[fd].open
                      /\ sock'[fd].rcvevent = sock[fd].rcvevent /\ sock'[fd].fatal = sock[fd].fatal
  <2>1. CASE UNCHANGED sock
    BY <2>1
  <2>2. CASE LoopStep(t)
    <3>1. PICK fd \in Fds : sock' = [sock EXCEPT ![fd].waiting = @ + Delta(call[t].pc)]
      <4>1. c.todo \subseteq Fds
        BY <1>0 DEF SocketCall
      <4> QED BY <2>2, <4>1, LoopTurns DEF SelectInv
    <3> QED BY <3>1 DEF SelectInv, SocketTypeOK, Socket
  <2> QED BY <2>1, <2>2 DEF SelectBegins, LoopStep, Enlist, WaitEnds, Delist
<1> QED BY <1>2, <1>3, <1>4, <1>5, ReadAsideKeeps DEF ReadAside

LEMMA EventGoesOnReads == SelectInv /\ ReadInv /\ (\E a \in Actors : EventGoesOn(a)) => ReadInv'
<1> SUFFICES ASSUME SelectInv, ReadInv, NEW a \in Actors, EventGoesOn(a)
             PROVE  ReadInv'
  OBVIOUS
<1> DEFINE fd == Head(cb[a].events).fd
           u == IF cb[a].stale THEN FirstOf ELSE After(cb[a].at)
<1>1. /\ cb[a].events # <<>> /\ cb[a].at # NoCaller
      /\ Examine(a, u, sock[fd], fd) /\ UNCHANGED <<sock, mbox, call, came, reads>>
  BY DEF EventGoesOn, Busy
<1> HIDE DEF u, fd
<1>2. /\ \A b \in Actors : b # a => cb'[b] = cb[b]
      /\ \/ cb'[a].events = cb[a].events /\ cb'[a].at = u /\ u # NoCaller
         \/ cb'[a].events = Tail(cb[a].events) /\ cb'[a].at = NoCaller
  BY <1>1, ExaminedEvents DEF SelectInv
<1>3. ReadAside
  BY <1>1, <1>2 DEF ReadAside
<1> QED BY <1>3, ReadAsideKeeps

\* An event is applied: a buffer is counted, or no longer.
LEMMA EventSetReads == SelectInv /\ ReadInv /\ (\E a \in Actors : EventSet(a)) => ReadInv'
<1> SUFFICES ASSUME SelectInv, ReadInv, NEW a \in Actors, EventSet(a)
             PROVE  ReadInv'
  OBVIOUS
<1>t. SocketTypeOK /\ Callers \subseteq Actors /\ Tcpip \in Actors /\ Tcpip \notin Callers
  BY SocketAssumption DEF SelectInv, Actors, Tcpip
<1> DEFINE e == Head(cb[a].events)
           k == e.fd
           s == IF e.evt = "NULL" THEN sock[k] ELSE Applied(sock[k], e.evt)
           u == IF e.evt = "NULL" \/ s.waiting = 0 THEN NoCaller ELSE FirstOf
           d == CASE e.evt = "RCVPLUS" -> 1 [] e.evt = "RCVMINUS" -> -1 [] OTHER -> 0
<1>1. /\ cb[a].events # <<>> /\ cb[a].at = NoCaller
      /\ sock' = [sock EXCEPT ![k] = s]
      /\ mbox' = mbox \/ (e.evt = "NULL" /\ mbox' = [mbox EXCEPT ![k] = Append(@, Eof)])
      /\ Examine(a, u, s, k) /\ UNCHANGED <<call, came, reads>>
  BY DEF EventSet, Busy
<1>2. e = cb[a].events[1] /\ 1 \in 1..Len(cb[a].events) /\ e \in Event
  BY <1>1, <1>t, EventsLeft
<1>3. k \in Fds
  BY <1>2 DEF Event
<1>4. /\ s.last = sock[k].last /\ s.open = sock[k].open /\ s.fatal = sock[k].fatal
      /\ s.rcvevent = sock[k].rcvevent + d
  <2>1. sock[k] \in Socket
    BY <1>3, <1>t DEF SocketTypeOK
  <2>2. CASE e.evt = "NULL"
    <3>1. d = 0 /\ sock[k].rcvevent \in Int
      BY <2>1, <2>2 DEF Socket
    <3> QED BY <2>2, <3>1
  <2>3. CASE e.evt # "NULL"
    BY <1>2, <2>1, <2>3, EventApplied
  <2> QED BY <2>2, <2>3
<1>5. /\ \A b \in Actors : b # a => cb'[b] = cb[b]
      /\ \/ cb'[a].events = cb[a].events /\ cb'[a].at # NoCaller
         \/ cb'[a].events = Tail(cb[a].events) /\ cb'[a].at = NoCaller
  BY <1>1, <1>t, ExaminedEvents
<1>6. d \in {-1, 0, 1} /\ (d = 1 <=> e.evt = "RCVPLUS") /\ (d = -1 <=> e.evt = "RCVMINUS")
  OBVIOUS
<1> HIDE DEF s, u, d
<1>7. /\ \A fd \in Fds : /\ sock'[fd].last = sock[fd].last /\ sock'[fd].open = sock[fd].open
                         /\ sock'[fd].fatal = sock[fd].fatal
                         /\ fd # k => sock'[fd].rcvevent = sock[fd].rcvevent
      /\ sock'[k].rcvevent = sock[k].rcvevent + d
  BY <1>1, <1>3, <1>4, <1>t DEF SocketTypeOK
<1>8. \A fd \in Fds : /\ Len(mbox[fd]) \in Nat /\ Len(mbox'[fd]) \in Nat /\ Len(mbox'[fd]) >= Len(mbox[fd])
                      /\ mbox[fd] # <<>> => mbox'[fd] # <<>>
                      /\ sock[fd].rcvevent \in Int /\ sock'[fd].rcvevent \in Int
  <2> SUFFICES ASSUME NEW fd \in Fds
               PROVE  /\ Len(mbox[fd]) \in Nat /\ Len(mbox'[fd]) \in Nat /\ Len(mbox'[fd]) >= Len(mbox[fd])
                      /\ mbox[fd] # <<>> => mbox'[fd] # <<>>
                      /\ sock[fd].rcvevent \in Int /\ sock'[fd].rcvevent \in Int
    OBVIOUS
  <2>1. mbox[fd] \in Seq(Item) /\ sock[fd].rcvevent \in Int
    BY <1>t DEF SocketTypeOK, Socket
  <2>2. mbox'[fd] \in {mbox[fd], Append(mbox[fd], Eof)}
    BY <1>1, <1>t DEF SocketTypeOK
  <2>3. Append(mbox[fd], Eof) \in Seq(Item) /\ Len(Append(mbox[fd], Eof)) = Len(mbox[fd]) + 1
    BY <2>1, Constants, AppendTo
  <2>4. sock'[fd].rcvevent \in Int
    <3>1. sock[k].rcvevent \in Int
      BY <1>3, <1>t DEF SocketTypeOK, Socket
    <3>2. sock[k].rcvevent + d \in Int
      BY <1>6, <3>1
    <3>3. sock'[fd].rcvevent \in {sock[fd].rcvevent, sock[k].rcvevent + d}
      BY <1>7
    <3> QED BY <2>1, <3>2, <3>3
  <2> QED BY <2>1, <2>2, <2>3, <2>4
<1>9. OneReader'
  BY <1>1 DEF ReadInv, OneReader
<1>10. \A t \in Callers : call[t].pc \in Receiving => call[t].fd \in Fds
  BY DEF SelectInv, CallShape, ShapeOf
<1>11. Hands'
  BY <1>1, <1>7, <1>10 DEF ReadInv, Hands, Receiving
<1>12. StackReports'
  <2>0. \A i \in 1..Len(cb[Tcpip].events) : cb[Tcpip].events[i].fd \in Fds
    <3>1. cb[Tcpip].events \in Seq(Event)
      BY <1>t DEF SocketTypeOK, Callback
    <3>2. \A i \in 1..Len(cb[Tcpip].events) : cb[Tcpip].events[i] \in Event
      BY <3>1
    <3> QED BY <3>2 DEF Event
  <2>1. CASE cb'[Tcpip].events = cb[Tcpip].events
    BY <1>7, <2>0, <2>1 DEF ReadInv, StackReports
  <2>2. CASE cb[Tcpip].events # <<>> /\ cb'[Tcpip].events = Tail(cb[Tcpip].events)
    <3>1. \A i \in 1..Len(cb'[Tcpip].events) :
             /\ i + 1 \in 1..Len(cb[Tcpip].events) /\ Len(cb[Tcpip].events) # 1
             /\ cb'[Tcpip].events[i] = cb[Tcpip].events[i + 1]
      BY <1>t, <2>2, EventsLeft
    <3> QED BY <1>7, <2>0, <3>1 DEF ReadInv, StackReports
  <2> QED BY <1>1, <1>5, <1>t, <2>1, <2>2
<1>13. BytesInOrder'
  <2> SUFFICES ASSUME NEW fd \in Fds
               PROVE  InOrder(reads'[fd], sock'[fd].last.data, InHand(call', fd), mbox'[fd], came'[fd])
    BY DEF BytesInOrder
  <2>1. InOrder(reads[fd], sock[fd].last.data, InHand(call, fd), mbox[fd], came[fd])
    BY DEF ReadInv, BytesInOrder
  <2>2. InOrder(reads[fd], sock[fd].last.data, InHand(call, fd), Append(mbox[fd], Eof), came[fd])
    <3>1. mbox[fd] \in Seq(Item) /\ came[fd] \in Nat /\ Eof \in Item
      BY <1>t, Constants DEF SocketTypeOK
    <3>2. came[fd] + 0 = came[fd] /\ IsRun(Eof.data, came[fd], came[fd])
      BY <3>1, EmptyRun DEF Eof
    <3>3. 0 \in Nat /\ IsRun(Eof.data, came[fd], came[fd] + 0)
      BY <3>2
    <3>4. InOrder(reads[fd], sock[fd].last.data, InHand(call, fd), Append(mbox[fd], Eof), came[fd] + 0)
      BY <2>1, <3>1, <3>3, BytesArrive
    <3> QED BY <3>2, <3>4
  <2>3. mbox'[fd] \in {mbox[fd], Append(mbox[fd], Eof)}
    BY <1>1, <1>t DEF SocketTypeOK
  <2> QED BY <1>1, <1>7, <2>1, <2>2, <2>3
<1>r. reads' \in [Fds -> Seq(Nat)]
  BY <1>1 DEF ReadInv
<1>14. CASE a = Tcpip
  <2>1. sock[k].fatal \/ (Len(cb[a].events) = 1 /\ e.evt \in {"RCVPLUS", "SENDPLUS", "SENDMINUS"})
    BY <1>2, <1>14 DEF ReadInv, StackReports
  <2>2. CountOfBox'
    <3> SUFFICES ASSUME NEW fd \in Fds, ~sock[fd].fatal
                 PROVE  /\ sock'[fd].rcvevent <= Len(mbox'[fd]) + 1
                        /\ ToCome(fd)' \/ ~ToGo(fd)' => sock'[fd].rcvevent <= Len(mbox'[fd])
                        /\ ToCome(fd)' /\ ~ToGo(fd)' => sock'[fd].rcvevent < Len(mbox'[fd])
      BY <1>7 DEF CountOfBox
    <3>1. ToGo(fd)' <=> ToGo(fd)
      BY <1>1, <1>5, <1>14, <1>t DEF ToGo
    <3>2. ~ToCome(fd)'
      <4> SUFFICES ASSUME ToCome(fd)' PROVE FALSE
        OBVIOUS
      <4>0. /\ cb'[a].events # <<>> /\ cb'[a].at = NoCaller
            /\ Head(cb'[a].events) = [fd |-> fd, evt |-> "RCVPLUS"]
        BY <1>14 DEF ToCome
      <4>a. cb'[a].events = Tail(cb[a].events)
        BY <1>5, <4>0, Zenon
      <4>b. [fd |-> fd, evt |-> "RCVPLUS"].fd = fd
        OBVIOUS
      <4>1. cb'[a].events = Tail(cb[a].events) /\ Tail(cb[a].events) # <<>>
            /\ Head(Tail(cb[a].events)).fd = fd
        BY <4>0, <4>a, <4>b, Zenon
      <4>2. /\ cb[a].events[2].fd = fd /\ 2 \in 1..Len(cb[a].events) /\ Len(cb[a].events) # 1
        BY <1>1, <1>t, <4>1, EventsLeft
      <4> QED BY <1>14, <4>2 DEF ReadInv, StackReports
    <3>3. /\ sock[fd].rcvevent <= Len(mbox[fd]) + 1
          /\ ToCome(fd) \/ ~ToGo(fd) => sock[fd].rcvevent <= Len(mbox[fd])
          /\ ToCome(fd) /\ ~ToGo(fd) => sock[fd].rcvevent < Len(mbox[fd])
      BY DEF ReadInv, CountOfBox
    <3>4. CASE sock'[fd].rcvevent <= sock[fd].rcvevent
      <4>1. ~ToGo(fd) => sock'[fd].rcvevent <= Len(mbox'[fd])
        <5>1. ASSUME ~ToGo(fd) PROVE sock[fd].rcvevent <= Len(mbox[fd])
          BY <3>3, <5>1
        <5>2. ASSUME sock[fd].rcvevent <= Len(mbox[fd]) PROVE sock'[fd].rcvevent <= Len(mbox'[fd])
          BY <1>8, <3>4, <5>2
        <5> QED BY <5>1, <5>2
      <4>2. sock'[fd].rcvevent <= Len(mbox'[fd]) + 1
        BY <1>8, <3>3, <3>4
      <4> QED BY <3>1, <3>2, <4>1, <4>2
    <3>5. CASE ~(sock'[fd].rcvevent <= sock[fd].rcvevent)
      <4>1. fd = k /\ d = 1
        BY <1>6, <1>7, <1>8, <3>5
      <4>2. ToCome(fd)
        <5>1. e = [fd |-> fd, evt |-> "RCVPLUS"]
          BY <1>2, <1>6, <4>1 DEF Event
        <5> QED BY <1>1, <1>14, <5>1 DEF ToCome
      <4>3. sock'[fd].rcvevent = sock[fd].rcvevent + 1
        BY <1>7, <4>1
      <4>4. ~ToGo(fd) => sock'[fd].rcvevent <= Len(mbox'[fd])
        BY <1>8, <3>3, <4>2, <4>3
      <4>5. sock'[fd].rcvevent <= Len(mbox'[fd]) + 1
        BY <1>8, <3>3, <4>2, <4>3
      <4> QED BY <3>1, <3>2, <4>4, <4>5
    <3> QED BY <3>4, <3>5
  <2>3. SeenMore'
    <3> SUFFICES ASSUME NEW t \in Callers
                 PROVE  /\ call[t].pc = "take" /\ call[t].off > 0 =>
                              sock'[call[t].fd].fatal \/ sock'[call[t].fd].rcvevent > 0
                        /\ call[t].pc = "fetch" /\ call[t].off > 0 => mbox'[call[t].fd] # <<>>
      BY <1>1 DEF SeenMore
    <3>1. ASSUME call[t].pc = "take", call[t].off > 0
          PROVE  sock'[call[t].fd].fatal \/ sock'[call[t].fd].rcvevent > 0
      <4>1. call[t].fd \in Fds /\ (sock[call[t].fd].fatal \/ sock[call[t].fd].rcvevent > 0)
        BY <1>10, <3>1 DEF ReadInv, SeenMore, Receiving
      <4>2. CASE sock[call[t].fd].fatal
        BY <1>7, <4>1, <4>2
      <4>3. CASE ~sock[call[t].fd].fatal /\ call[t].fd # k
        BY <1>7, <4>1, <4>3
      <4>4. CASE ~sock[call[t].fd].fatal /\ call[t].fd = k
        <5>1. d \in {0, 1}
          BY <1>6, <2>1, <4>4
        <5>2. sock[k].rcvevent > 0
          BY <4>1, <4>4
        <5>3. sock'[k].rcvevent > 0
          BY <1>3, <1>7, <1>8, <5>1, <5>2
        <5> QED BY <4>4, <5>3
      <4> QED BY <4>2, <4>3, <4>4
    <3>2. ASSUME call[t].pc = "fetch", call[t].off > 0 PROVE mbox'[call[t].fd] # <<>>
      BY <1>8, <1>10, <3>2 DEF ReadInv, SeenMore, Receiving
    <3> QED BY <3>1, <3>2
  <2> QED BY <1>r, <1>9, <1>11, <1>12, <1>13, <2>2, <2>3 DEF ReadInv
<1>15. CASE a # Tcpip
  <2>1. a \in Callers
    BY <1>15 DEF Actors
  <2>2. /\ call[a].pc = "fetched" /\ call[a].fd = k /\ e.evt = "RCVMINUS"
        /\ Tail(cb[a].events) = <<>>
    <3>1. call[a].pc = "fetched" /\ cb[a].events = <<[fd |-> call[a].fd, evt |-> "RCVMINUS"]>>
      BY <1>1, <2>1 DEF SelectInv, CallersReport
    <3> QED BY <3>1
  <2>3. d = -1 /\ mbox' = mbox
    BY <1>1, <1>6, <2>2
  <2>4. ~(cb'[a].events # <<>> /\ cb'[a].at = NoCaller)
    BY <1>5, <2>2
  <2>5. CountOfBox'
    <3> SUFFICES ASSUME NEW fd \in Fds, ~sock[fd].fatal
                 PROVE  /\ sock'[fd].rcvevent <= Len(mbox[fd]) + 1
                        /\ ToCome(fd)' \/ ~ToGo(fd)' => sock'[fd].rcvevent <= Len(mbox[fd])
                        /\ ToCome(fd)' /\ ~ToGo(fd)' => sock'[fd].rcvevent < Len(mbox[fd])
      BY <1>7, <2>3 DEF CountOfBox
    <3>1. ToCome(fd)' <=> ToCome(fd)
      BY <1>5, <1>15, <1>t DEF ToCome
    <3>2. /\ sock[fd].rcvevent <= Len(mbox[fd]) + 1
          /\ ToCome(fd) \/ ~ToGo(fd) => sock[fd].rcvevent <= Len(mbox[fd])
          /\ ToCome(fd) /\ ~ToGo(fd) => sock[fd].rcvevent < Len(mbox[fd])
      BY DEF ReadInv, CountOfBox
    <3>3. CASE fd # k
      <4>1. ToGo(fd)' <=> ToGo(fd)
        <5>1. \A t \in Callers : t # a => cb'[t] = cb[t]
          BY <1>5, <1>t
        <5> QED BY <1>1, <2>2, <3>3, <5>1 DEF ToGo
      <4>2. sock'[fd].rcvevent = sock[fd].rcvevent
        BY <1>7, <3>3
      <4> QED BY <3>1, <3>2, <4>1, <4>2
    <3>4. CASE fd = k
      <4>1. sock'[fd].rcvevent = sock[fd].rcvevent - 1
        BY <1>7, <1>8, <2>3, <3>4
      <4>2. ToGo(fd)
        BY <1>1, <2>1, <2>2, <3>4 DEF ToGo
      <4>3. sock'[fd].rcvevent <= Len(mbox[fd])
        BY <1>8, <3>2, <4>1
      <4>4. ToCome(fd) => sock'[fd].rcvevent < Len(mbox[fd])
        BY <1>8, <3>2, <4>1
      <4>5. sock'[fd].rcvevent <= Len(mbox[fd]) + 1
        BY <1>8, <3>2, <4>1
      <4> QED BY <3>1, <4>3, <4>4, <4>5
    <3> QED BY <3>3, <3>4
  <2>6. SeenMore'
    <3>1. \A t \in Callers : call[t].pc \in {"take", "fetch"} => call[t].fd # k
      BY <2>1, <2>2 DEF ReadInv, OneReader, Receiving
    <3> QED BY <1>1, <1>7, <1>10, <2>3, <3>1 DEF ReadInv, SeenMore, Receiving
  <2> QED BY <1>r, <1>9, <1>11, <1>12, <1>13, <2>5, <2>6 DEF ReadInv
<1> QED BY <1>14, <1>15

\* No one else has anything of the socket a call receives from in its hand.
LEMMA OthersReceiveElsewhere ==
    ASSUME ReadInv, NEW t \in Callers, call[t].pc \in Receiving
    PROVE  \A u \in Callers : u # t /\ call[u].fd = call[t].fd =>
              call[u].pc \notin Receiving /\ call[u].hand = Eof
BY DEF ReadInv, OneReader, Hands, Receiving

\* A call that is not about to report moves, and so do not the bytes.
MovesOnly(t, n) ==
    /\ call' = [call EXCEPT ![t] = n] /\ UNCHANGED <<sock, mbox, came, reads, cb>>
    /\ call[t].hand = Eof /\ n.hand = Eof /\ n.pc # "fetched" /\ cb[t].events = <<>>
    /\ n.pc \in Receiving =>
          \A u \in Callers : u # t /\ call[u].fd = n.fd => call[u].pc \notin Receiving
    /\ n.pc = "fetch" => sock[n.fd].last = Eof
    /\ n.pc = "take" /\ n.off > 0 => sock[n.fd].fatal \/ sock[n.fd].rcvevent > 0
    /\ n.pc = "fetch" /\ n.off > 0 => mbox[n.fd] # <<>>

LEMMA MovesOnlyKeeps ==
    ASSUME SelectInv, ReadInv, NEW t \in Callers, NEW n, MovesOnly(t, n)
    PROVE  ReadInv'
<1>1. call'[t] = n /\ \A u \in Callers : u # t => call'[u] = call[u]
  BY DEF MovesOnly, SelectInv, SocketTypeOK
<1>2. OneReader'
  BY <1>1 DEF MovesOnly, ReadInv, OneReader
<1>3. Hands'
  BY <1>1 DEF MovesOnly, ReadInv, Hands
<1>4. StackReports'
  BY DEF MovesOnly, ReadInv, StackReports
<1>5. CountOfBox'
  <2>1. \A fd \in Fds : (ToGo(fd)' <=> ToGo(fd)) /\ (ToCome(fd)' <=> ToCome(fd))
    BY <1>1 DEF MovesOnly, ToGo, ToCome
  <2> QED BY <2>1 DEF MovesOnly, ReadInv, CountOfBox
<1>6. SeenMore'
  BY <1>1 DEF MovesOnly, ReadInv, SeenMore
<1>7. BytesInOrder'
  <2>1. \A u \in Callers : \/ call'[u].fd = call[u].fd /\ call'[u].hand = call[u].hand
                           \/ call'[u].hand = Eof /\ call[u].hand = Eof
    BY <1>1 DEF MovesOnly
  <2>2. \A fd \in Fds : InHand(call', fd) = InHand(call, fd)
    BY <2>1, SameHand
  <2> QED BY <2>2 DEF MovesOnly, ReadInv, BytesInOrder
<1>8. reads' \in [Fds -> Seq(Nat)]
  BY DEF MovesOnly, ReadInv
<1> QED BY <1>2, <1>3, <1>4, <1>5, <1>6, <1>7, <1>8 DEF ReadInv

LEMMA RecvBeginsReads ==
    ASSUME SelectInv, ReadInv, NEW t \in Callers, NEW fd \in Fds, NEW len \in 1..2,
           NEW peek \in BOOLEAN, NEW poll \in BOOLEAN, RecvBegins(t, fd, len, peek, poll)
    PROVE  ReadInv'
<1> DEFINE n == [NoCall EXCEPT !.pc = "take", !.fd = fd, !.len = len, !.peek = peek, !.poll = poll]
<1>1. n.pc = "take" /\ n.fd = fd /\ n.off = 0 /\ n.hand = Eof
  BY DEF NoCall
<1>2. /\ call[t].pc = "idle" /\ call' = [call EXCEPT ![t] = n] /\ UNCHANGED <<sock, mbox, came, reads, cb>>
      /\ \A u \in Callers : call[u].len = 0 \/ call[u].fd # fd
  BY DEF RecvBegins
<1> HIDE DEF n
<1>3. \A u \in Callers : call[u].pc \in Receiving => call[u].len # 0
  BY DEF SelectInv, SocketTypeOK, SocketCall, CallShape, ShapeOf
<1>4. call[t].hand = Eof /\ cb[t].events = <<>>
  BY <1>2 DEF SelectInv, CallersReport, ReadInv, Hands
<1>5. MovesOnly(t, n)
  BY <1>1, <1>2, <1>3, <1>4 DEF MovesOnly
<1> QED BY <1>5, MovesOnlyKeeps

LEMMA TakeReads ==
    ASSUME SelectInv, ReadInv, NEW t \in Callers, Take(t)
    PROVE  ReadInv'
<1> DEFINE c == call[t]
           s == sock[c.fd]
<1>0. /\ c \in SocketCall /\ c.pc = "take" /\ c.fd \in Fds /\ c.hand = Eof /\ cb[t].events = <<>>
      /\ UNCHANGED <<sock, mbox, came, reads, cb>>
  BY DEF Take, SelectInv, SocketTypeOK, CallShape, ShapeOf, Receiving, ReadInv, Hands, CallersReport
<1>i. NoCall.pc = "idle" /\ NoCall.hand = Eof
  BY DEF NoCall
<1>1. \/ call' = [call EXCEPT ![t] = [c EXCEPT !.pc = "copy"]]
      \/ call' = [call EXCEPT ![t] = NoCall]
      \/ call' = [call EXCEPT ![t] = [c EXCEPT !.pc = "fetch"]] /\ s.last = Eof /\ ~s.fatal
  BY DEF Take
<1>2. CASE call' = [call EXCEPT ![t] = [c EXCEPT !.pc = "copy"]]
  <2> DEFINE n == [c EXCEPT !.pc = "copy"]
  <2>1. n.pc = "copy" /\ n.fd = c.fd /\ n.hand = Eof
    BY <1>0 DEF SocketCall
  <2>2. call' = [call EXCEPT ![t] = n]
    BY <1>2
  <2> HIDE DEF n
  <2>3. MovesOnly(t, n)
    BY <1>0, <2>1, <2>2, OthersReceiveElsewhere DEF MovesOnly, Receiving
  <2> QED BY <2>3, MovesOnlyKeeps
<1>3. CASE call' = [call EXCEPT ![t] = NoCall]
  <2>1. MovesOnly(t, NoCall)
    BY <1>0, <1>3, <1>i DEF MovesOnly, Receiving
  <2> QED BY <2>1, MovesOnlyKeeps
<1>4. CASE call' = [call EXCEPT ![t] = [c EXCEPT !.pc = "fetch"]] /\ s.last = Eof /\ ~s.fatal
  <2> DEFINE n == [c EXCEPT !.pc = "fetch"]
  <2>1. n.pc = "fetch" /\ n.fd = c.fd /\ n.hand = Eof /\ n.off = c.off
    BY <1>0 DEF SocketCall
  <2>2. call' = [call EXCEPT ![t] = n]
    BY <1>4
  <2> HIDE DEF n
  <2>3. ASSUME c.off > 0 PROVE mbox[c.fd] # <<>>
    <3>1. s.rcvevent > 0
      BY <1>0, <1>4, <2>3 DEF ReadInv, SeenMore
    <3>2. ~ToGo(c.fd)
      <4> SUFFICES ASSUME ToGo(c.fd) PROVE FALSE
        OBVIOUS
      <4>1. PICK u \in Callers : cb[u].events # <<>> /\ call[u].fd = c.fd
        BY DEF ToGo
      <4>2. u # t /\ call[u].pc = "fetched"
        BY <1>0, <4>1 DEF SelectInv, CallersReport
      <4> QED BY <1>0, <4>1, <4>2, OthersReceiveElsewhere DEF Receiving
    <3>3. s.rcvevent <= Len(mbox[c.fd])
      BY <1>0, <1>4, <3>2 DEF ReadInv, CountOfBox
    <3>4. s.rcvevent \in Int /\ mbox[c.fd] \in Seq(Item)
      BY <1>0 DEF SelectInv, SocketTypeOK, Socket
    <3>5. Len(mbox[c.fd]) # 0
      BY <3>1, <3>3, <3>4
    <3> QED BY <3>5
  <2>4. MovesOnly(t, n)
    BY <1>0, <1>4, <2>1, <2>2, <2>3, OthersReceiveElsewhere DEF MovesOnly, Receiving
  <2> QED BY <2>4, MovesOnlyKeeps
<1> QED BY <1>1, <1>2, <1>3, <1>4

LEMMA FetchReads ==
    ASSUME SelectInv, ReadInv, NEW t \in Callers, Fetch(t)
    PROVE  ReadInv'
<1> DEFINE c == call[t]
           n == [c EXCEPT !.pc = "fetched", !.hand = Head(mbox[c.fd])]
<1>0. /\ c \in SocketCall /\ c.pc = "fetch" /\ c.fd \in Fds /\ c.hand = Eof /\ cb[t].events = <<>>
      /\ t \in Actors /\ Tcpip # t
  BY SocketAssumption
     DEF Fetch, SelectInv, SocketTypeOK, CallShape, ShapeOf, Receiving, ReadInv, Hands, CallersReport,
         Actors, Tcpip
<1>m. mbox[c.fd] # <<>> /\ mbox[c.fd] \in Seq(Item) /\ Len(mbox[c.fd]) \in Nat
  BY <1>0 DEF Fetch, SelectInv, SocketTypeOK
<1>1. /\ call' = [call EXCEPT ![t] = n] /\ mbox' = [mbox EXCEPT ![c.fd] = Tail(@)]
      /\ UNCHANGED <<sock, came, reads>>
      /\ cb' = [cb EXCEPT ![t] = [@ EXCEPT !.events = <<[fd |-> c.fd, evt |-> "RCVMINUS"]>>]]
  BY DEF Fetch, SelectInv, SocketTypeOK
<1>2. n.pc = "fetched" /\ n.fd = c.fd /\ n.hand = Head(mbox[c.fd])
  BY <1>0 DEF SocketCall
<1> HIDE DEF n
<1>3. call'[t] = n /\ \A u \in Callers : u # t => call'[u] = call[u]
  BY <1>1 DEF SelectInv, SocketTypeOK
<1>4. /\ cb'[t].events # <<>> /\ cb'[t].at = NoCaller
      /\ \A a \in Actors : a # t => cb'[a] = cb[a]
  <2>1. cb[t].at = NoCaller
    BY <1>0, QuietIsNowhere
  <2> QED BY <1>0, <1>1, <2>1 DEF SelectInv, SocketTypeOK, Callback
<1>5. /\ mbox'[c.fd] = Tail(mbox[c.fd]) /\ Len(mbox'[c.fd]) = Len(mbox[c.fd]) - 1
      /\ \A fd \in Fds : fd # c.fd => mbox'[fd] = mbox[fd]
  BY <1>0, <1>1, <1>m DEF SelectInv, SocketTypeOK
<1>6. \A u \in Callers : u # t /\ call[u].fd = c.fd => call[u].pc \notin Receiving /\ call[u].hand = Eof
  BY <1>0, OthersReceiveElsewhere DEF Receiving
<1>7. OneReader'
  BY <1>2, <1>3, <1>6 DEF ReadInv, OneReader
<1>8. Hands'
  BY <1>0, <1>1, <1>2, <1>3 DEF ReadInv, Hands
<1>9. StackReports'
  BY <1>0, <1>1, <1>4 DEF ReadInv, StackReports, Actors, Tcpip
<1>10. CountOfBox'
  <2> SUFFICES ASSUME NEW fd \in Fds, ~sock[fd].fatal
               PROVE  /\ sock[fd].rcvevent <= Len(mbox'[fd]) + 1
                      /\ ToCome(fd)' \/ ~ToGo(fd)' => sock[fd].rcvevent <= Len(mbox'[fd])
                      /\ ToCome(fd)' /\ ~ToGo(fd)' => sock[fd].rcvevent < Len(mbox'[fd])
    BY <1>1 DEF CountOfBox
  <2>1. ToCome(fd)' <=> ToCome(fd)
    BY <1>0, <1>4 DEF ToCome, Actors, Tcpip
  <2>2. /\ sock[fd].rcvevent <= Len(mbox[fd]) + 1
        /\ ToCome(fd) \/ ~ToGo(fd) => sock[fd].rcvevent <= Len(mbox[fd])
        /\ ToCome(fd) /\ ~ToGo(fd) => sock[fd].rcvevent < Len(mbox[fd])
    BY DEF ReadInv, CountOfBox
  <2>3. CASE fd # c.fd
    <3>1. ToGo(fd)' <=> ToGo(fd)
      BY <1>0, <1>2, <1>3, <1>4, <2>3 DEF ToGo, Actors
    <3> QED BY <1>5, <2>1, <2>2, <2>3, <3>1
  <2>4. CASE fd = c.fd
    <3>1. ToGo(fd)'
      BY <1>2, <1>3, <1>4, <2>4 DEF ToGo
    <3>2. ~ToGo(fd)
      <4> SUFFICES ASSUME ToGo(fd) PROVE FALSE
        OBVIOUS
      <4>1. PICK u \in Callers : cb[u].events # <<>> /\ call[u].fd = c.fd
        BY <2>4 DEF ToGo
      <4>2. u # t /\ call[u].pc = "fetched"
        BY <1>0, <4>1 DEF SelectInv, CallersReport
      <4> QED BY <1>6, <4>1, <4>2 DEF Receiving
    <3>3. sock[fd].rcvevent \in Int
      BY DEF SelectInv, SocketTypeOK, Socket
    <3>4. sock[fd].rcvevent <= Len(mbox[fd])
      BY <2>2, <3>2
    <3>a. Len(mbox'[fd]) = Len(mbox[fd]) - 1 /\ Len(mbox[fd]) \in Nat
      <4>1. Len(mbox'[c.fd]) = Len(mbox[c.fd]) - 1
        BY <1>5
      <4> QED BY <1>m, <2>4, <4>1
    <3>5. sock[fd].rcvevent <= Len(mbox'[fd]) + 1
      BY <3>a, <3>3, <3>4
    <3>6. ASSUME ToCome(fd) PROVE sock[fd].rcvevent <= Len(mbox'[fd])
      <4>1. sock[fd].rcvevent < Len(mbox[fd])
        BY <2>2, <3>2, <3>6
      <4> QED BY <3>a, <3>3, <4>1
    <3> QED BY <2>1, <3>1, <3>5, <3>6
  <2> QED BY <2>3, <2>4
<1>11. SeenMore'
  <2>1. \A u \in Callers : call[u].pc \in {"take", "fetch"} => call[u].fd \in Fds
    BY DEF SelectInv, CallShape, ShapeOf, Receiving
  <2> QED BY <1>1, <1>2, <1>3, <1>5, <1>6, <2>1 DEF ReadInv, SeenMore, Receiving
<1>12. BytesInOrder'
  <2> SUFFICES ASSUME NEW fd \in Fds
               PROVE  InOrder(reads[fd], sock[fd].last.data, InHand(call', fd), mbox'[fd], came[fd])
    BY <1>1 DEF BytesInOrder
  <2>1. InOrder(reads[fd], sock[fd].last.data, InHand(call, fd), mbox[fd], came[fd])
    BY DEF ReadInv, BytesInOrder
  <2>2. CASE fd # c.fd
    <3>1. InHand(call', fd) = InHand(call, fd)
      BY <1>2, <1>3, <2>2, SameHand
    <3> QED BY <1>5, <2>1, <2>2, <3>1
  <2>3. CASE fd = c.fd
    <3>1. InHand(call, fd) = <<>>
      BY <1>0, <1>6, <2>3, NoHand
    <3>2. InHand(call', call'[t].fd) = call'[t].hand.data
      <4>1. \A u \in Callers : u # t /\ call'[u].fd = call'[t].fd => call'[u].hand = Eof
        BY <1>2, <1>3, <1>6
      <4> QED BY <4>1, HandOfOne
    <3>3. InHand(call', fd) = Head(mbox[fd]).data
      BY <1>2, <1>3, <2>3, <3>2
    <3>4. came[fd] \in Nat
      BY DEF SelectInv, SocketTypeOK
    <3>5. InOrder(reads[fd], sock[fd].last.data, Head(mbox[fd]).data, Tail(mbox[fd]), came[fd])
      BY <1>m, <2>1, <2>3, <3>1, <3>4, BytesFetched
    <3> QED BY <1>5, <2>3, <3>3, <3>5
  <2> QED BY <2>2, <2>3
<1>13. reads' \in [Fds -> Seq(Nat)]
  BY <1>1 DEF ReadInv
<1> QED BY <1>7, <1>8, <1>9, <1>10, <1>11, <1>12, <1>13 DEF ReadInv

LEMMA FetchedBufferReads ==
    ASSUME SelectInv, ReadInv, NEW t \in Callers, FetchedBuffer(t)
    PROVE  ReadInv'
<1> DEFINE c == call[t]
<1>0. /\ c \in SocketCall /\ c.pc = "fetched" /\ c.fd \in Fds /\ cb[t].events = <<>>
      /\ sock[c.fd].last = Eof /\ UNCHANGED <<mbox, came, reads, cb>> /\ sock \in [Fds -> Socket]
  BY DEF FetchedBuffer, Busy, SelectInv, SocketTypeOK, CallShape, ShapeOf, Receiving, ReadInv, Hands
<1>i. NoCall.pc = "idle" /\ NoCall.hand = Eof
  BY DEF NoCall
<1>1. PICK n, s : /\ call' = [call EXCEPT ![t] = n] /\ sock' = [sock EXCEPT ![c.fd] = s]
                  /\ n.hand = Eof /\ n.pc \in {"idle", "copy"} /\ (n.pc = "copy" => n.fd = c.fd)
                  /\ s.open = sock[c.fd].open /\ s.rcvevent = sock[c.fd].rcvevent
                  /\ (sock[c.fd].fatal => s.fatal)
                  /\ s.last.data = c.hand.data
  <2>1. CASE c.hand = Eof
    <3> DEFINE s == [sock[c.fd] EXCEPT !.fatal = TRUE]
    <3>1. s.open = sock[c.fd].open /\ s.rcvevent = sock[c.fd].rcvevent /\ s.fatal /\ s.last = sock[c.fd].last
      BY <1>0 DEF Socket
    <3>2. call' = [call EXCEPT ![t] = NoCall] /\ sock' = [sock EXCEPT ![c.fd] = s]
      BY <1>0, <2>1 DEF FetchedBuffer
    <3> HIDE DEF s
    <3> QED BY <1>0, <1>i, <2>1, <3>1, <3>2
  <2>2. CASE c.hand # Eof
    <3> DEFINE s == [sock[c.fd] EXCEPT !.last = c.hand]
               n == [c EXCEPT !.pc = "copy", !.hand = Eof]
    <3>1. s.open = sock[c.fd].open /\ s.rcvevent = sock[c.fd].rcvevent /\ s.fatal = sock[c.fd].fatal
          /\ s.last = c.hand
      BY <1>0 DEF Socket
    <3>2. n.pc = "copy" /\ n.hand = Eof /\ n.fd = c.fd
      BY <1>0 DEF SocketCall
    <3>3. call' = [call EXCEPT ![t] = n] /\ sock' = [sock EXCEPT ![c.fd] = s]
      BY <1>0, <2>2 DEF FetchedBuffer
    <3> HIDE DEF s, n
    <3> QED BY <3>1, <3>2, <3>3
  <2> QED BY <2>1, <2>2
<1>3. call'[t] = n /\ \A u \in Callers : u # t => call'[u] = call[u]
  BY <1>1 DEF SelectInv, SocketTypeOK
<1>4. sock'[c.fd] = s /\ \A fd \in Fds : fd # c.fd => sock'[fd] = sock[fd]
  BY <1>0, <1>1
<1>5. \A fd \in Fds : /\ sock'[fd].open = sock[fd].open /\ sock'[fd].rcvevent = sock[fd].rcvevent
                      /\ (sock[fd].fatal => sock'[fd].fatal)
  BY <1>1, <1>4
<1>6. \A u \in Callers : u # t /\ call[u].fd = c.fd => call[u].pc \notin Receiving /\ call[u].hand = Eof
  BY <1>0, OthersReceiveElsewhere DEF Receiving
<1>f. \A u \in Callers : call[u].pc \in Receiving => call[u].fd \in Fds
  BY DEF SelectInv, CallShape, ShapeOf
<1>7. OneReader'
  BY <1>0, <1>1, <1>3 DEF ReadInv, OneReader, Receiving
<1>8. Hands'
  BY <1>1, <1>3, <1>4, <1>6, <1>f DEF ReadInv, Hands, Receiving
<1>9. StackReports'
  <2>1. cb[Tcpip].events \in Seq(Event)
    BY DEF SelectInv, SocketTypeOK, Callback, Actors
  <2>2. \A i \in 1..Len(cb[Tcpip].events) : cb[Tcpip].events[i].fd \in Fds
    <3>1. \A i \in 1..Len(cb[Tcpip].events) : cb[Tcpip].events[i] \in Event
      BY <2>1
    <3> QED BY <3>1 DEF Event
  <2> QED BY <1>0, <1>5, <2>2 DEF ReadInv, StackReports
<1>10. CountOfBox'
  <2>1. \A fd \in Fds : (ToGo(fd)' <=> ToGo(fd)) /\ (ToCome(fd)' <=> ToCome(fd))
    BY <1>0, <1>3 DEF ToGo, ToCome
  <2> QED BY <1>0, <1>5, <2>1 DEF ReadInv, CountOfBox
<1>11. SeenMore'
  BY <1>0, <1>1, <1>3, <1>5, <1>f DEF ReadInv, SeenMore, Receiving
<1>12. BytesInOrder'
  <2> SUFFICES ASSUME NEW fd \in Fds
               PROVE  InOrder(reads[fd], sock'[fd].last.data, InHand(call', fd), mbox[fd], came[fd])
    BY <1>0 DEF BytesInOrder
  <2>1. InOrder(reads[fd], sock[fd].last.data, InHand(call, fd), mbox[fd], came[fd])
    BY DEF ReadInv, BytesInOrder
  <2>2. CASE fd # c.fd
    <3>1. InHand(call', fd) = InHand(call, fd)
      <4>1. \A u \in Callers : \/ call'[u].fd = call[u].fd /\ call'[u].hand = call[u].hand
                               \/ call'[u].hand = Eof /\ call[u].fd # fd
        BY <1>1, <1>3, <2>2
      <4> QED BY <4>1, SameHand
    <3> QED BY <1>4, <2>1, <2>2, <3>1
  <2>3. CASE fd = c.fd
    <3>1. InHand(call, call[t].fd) = call[t].hand.data
      <4>1. \A u \in Callers : u # t /\ call[u].fd = call[t].fd => call[u].hand = Eof
        BY <1>6
      <4> QED BY <4>1, HandOfOne
    <3>2. InHand(call', fd) = <<>>
      <4>1. \A u \in Callers : call'[u].fd = fd => call'[u].hand = Eof
        BY <1>1, <1>3, <1>6, <2>3
      <4> QED BY <4>1, NoHand
    <3>3. sock[fd].last.data = <<>> /\ came[fd] \in Nat
      BY <1>0, <2>3 DEF Eof, SelectInv, SocketTypeOK
    <3>4. InOrder(reads[fd], c.hand.data, <<>>, mbox[fd], came[fd])
      BY <2>1, <2>3, <3>1, <3>3, BytesKept
    <3> QED BY <1>1, <1>4, <2>3, <3>2, <3>4
  <2> QED BY <2>2, <2>3
<1>13. reads' \in [Fds -> Seq(Nat)]
  BY <1>0 DEF ReadInv
<1> QED BY <1>7, <1>8, <1>9, <1>10, <1>11, <1>12, <1>13 DEF ReadInv

LEMMA CopyReads ==
    ASSUME SelectInv, ReadInv, NEW t \in Callers, Copy(t)
    PROVE  ReadInv'
<1> DEFINE c == call[t]
           s == sock[c.fd]
           d == s.last.data
           k == IF c.len < Len(d) THEN c.len ELSE Len(d)
           rest == SubSeq(d, k + 1, Len(d))
           done == k = c.len \/ s.last.push \/ s.rcvevent <= 0 \/ c.peek
           kept == IF c.peek THEN s.last ELSE IF rest = <<>> THEN Eof ELSE [s.last EXCEPT !.data = rest]
           n == IF done THEN NoCall ELSE [c EXCEPT !.pc = "take", !.len = @ - k, !.off = @ + k]
<1>0. /\ c \in SocketCall /\ c.pc = "copy" /\ c.fd \in Fds /\ c.hand = Eof /\ cb[t].events = <<>>
      /\ UNCHANGED <<mbox, came, cb>> /\ sock \in [Fds -> Socket] /\ s \in Socket
  BY DEF Copy, SelectInv, SocketTypeOK, CallShape, ShapeOf, Receiving, ReadInv, Hands, CallersReport
<1>i. NoCall.pc = "idle" /\ NoCall.hand = Eof
  BY DEF NoCall
<1>1. /\ call' = [call EXCEPT ![t] = n] /\ sock' = [sock EXCEPT ![c.fd] = [@ EXCEPT !.last = kept]]
      /\ reads' = [reads EXCEPT ![c.fd] = IF c.peek THEN @ ELSE @ \o SubSeq(d, 1, k)]
  BY <1>0 DEF Copy
<1>2. d \in Seq(Nat) /\ Len(d) \in Nat /\ c.len \in Nat /\ k \in 0..Len(d)
  BY <1>0 DEF Socket, Item, SocketCall
<1> HIDE DEF k
<1>3. kept.data = IF c.peek THEN d ELSE rest
  <2>1. [s.last EXCEPT !.data = rest].data = rest
    BY <1>0 DEF Socket, Item
  <2>2. Eof.data = <<>>
    BY DEF Eof
  <2> QED BY <2>1, <2>2
<1> HIDE DEF kept, rest, d
<1>4. /\ [s EXCEPT !.last = kept].last = kept /\ [s EXCEPT !.last = kept].open = s.open
      /\ [s EXCEPT !.last = kept].fatal = s.fatal /\ [s EXCEPT !.last = kept].rcvevent = s.rcvevent
  BY <1>0 DEF Socket
<1>5. /\ sock'[c.fd] = [s EXCEPT !.last = kept]
      /\ \A fd \in Fds : fd # c.fd => sock'[fd] = sock[fd]
  BY <1>0, <1>1
<1>6. \A fd \in Fds : /\ sock'[fd].open = sock[fd].open /\ sock'[fd].rcvevent = sock[fd].rcvevent
                      /\ sock'[fd].fatal = sock[fd].fatal
  BY <1>4, <1>5
<1>7. /\ n.hand = Eof /\ n.pc \in {"idle", "take"} /\ (n.pc = "take" => n.fd = c.fd)
      /\ n.pc = "take" => ~(s.rcvevent <= 0)
  <2>1. CASE done
    BY <1>i, <2>1
  <2>2. CASE ~done
    <3> DEFINE m == [c EXCEPT !.pc = "take", !.len = @ - k, !.off = @ + k]
    <3>1. m.pc = "take" /\ m.fd = c.fd /\ m.hand = Eof
      BY <1>0 DEF SocketCall
    <3>2. n = m /\ ~(s.rcvevent <= 0)
      BY <2>2
    <3> HIDE DEF m, n
    <3> QED BY <3>1, <3>2
  <2> QED BY <2>1, <2>2
<1> HIDE DEF n
<1>8. call'[t] = n /\ \A u \in Callers : u # t => call'[u] = call[u]
  BY <1>1 DEF SelectInv, SocketTypeOK
<1>9. \A u \in Callers : u # t /\ call[u].fd = c.fd => call[u].pc \notin Receiving /\ call[u].hand = Eof
  BY <1>0, OthersReceiveElsewhere DEF Receiving
<1>f. \A u \in Callers : call[u].pc \in Receiving => call[u].fd \in Fds
  BY DEF SelectInv, CallShape, ShapeOf
<1>10. OneReader'
  <2>1. \A u \in Callers : u # t /\ call'[t].pc \in Receiving /\ call'[u].fd = call'[t].fd =>
                              call'[u].pc \notin Receiving
    BY <1>7, <1>8, <1>9 DEF Receiving
  <2>2. ASSUME NEW u \in Callers, NEW v \in Callers, call'[u].pc \in Receiving,
               call'[v].pc \in Receiving, call'[u].fd = call'[v].fd
        PROVE  u = v
    BY <1>8, <2>1, <2>2 DEF ReadInv, OneReader
  <2> QED BY <2>2 DEF OneReader
<1>11. Hands'
  BY <1>5, <1>7, <1>8, <1>9, <1>f DEF ReadInv, Hands, Receiving
<1>12. StackReports'
  <2>1. cb[Tcpip].events \in Seq(Event)
    BY DEF SelectInv, SocketTypeOK, Callback, Actors
  <2>2. \A i \in 1..Len(cb[Tcpip].events) : cb[Tcpip].events[i].fd \in Fds
    <3>1. \A i \in 1..Len(cb[Tcpip].events) : cb[Tcpip].events[i] \in Event
      BY <2>1
    <3> QED BY <3>1 DEF Event
  <2> QED BY <1>0, <1>6, <2>2 DEF ReadInv, StackReports
<1>13. CountOfBox'
  <2>1. \A fd \in Fds : (ToGo(fd)' <=> ToGo(fd)) /\ (ToCome(fd)' <=> ToCome(fd))
    BY <1>0, <1>8 DEF ToGo, ToCome
  <2> QED BY <1>0, <1>6, <2>1 DEF ReadInv, CountOfBox
<1>14. SeenMore'
  <2> SUFFICES ASSUME NEW u \in Callers
               PROVE  /\ call'[u].pc = "take" /\ call'[u].off > 0 =>
                            sock'[call'[u].fd].fatal \/ sock'[call'[u].fd].rcvevent > 0
                      /\ call'[u].pc = "fetch" /\ call'[u].off > 0 => mbox[call'[u].fd] # <<>>
    BY <1>0 DEF SeenMore
  <2>1. CASE u = t
    <3>1. s.rcvevent \in Int
      BY <1>0 DEF Socket
    <3>2. n.pc = "take" => s.rcvevent > 0
      BY <1>7, <3>1
    <3> QED BY <1>0, <1>6, <1>7, <1>8, <2>1, <3>2
  <2>2. CASE u # t
    BY <1>6, <1>8, <1>f, <2>2 DEF ReadInv, SeenMore, Receiving
  <2> QED BY <2>1, <2>2
<1>15. BytesInOrder'
  <2>1. \A fd \in Fds : InHand(call', fd) = InHand(call, fd)
    <3>1. \A u \in Callers : \/ call'[u].fd = call[u].fd /\ call'[u].hand = call[u].hand
                             \/ call'[u].hand = Eof /\ call[u].hand = Eof
      BY <1>0, <1>7, <1>8
    <3> QED BY <3>1, SameHand
  <2>2. \A fd \in Fds : InOrder(reads[fd], sock[fd].last.data, InHand(call, fd), mbox[fd], came[fd])
    BY DEF ReadInv, BytesInOrder
  <2>3. reads \in [Fds -> Seq(Nat)]
    BY DEF ReadInv
  <2>4. \A fd \in Fds \ {c.fd} : reads'[fd] = reads[fd]
    BY <1>1, <2>3
  <2>5. InOrder(reads'[c.fd], sock'[c.fd].last.data, InHand(call, c.fd), mbox[c.fd], came[c.fd])
    <3>1. sock'[c.fd].last.data = kept.data
      BY <1>4, <1>5
    <3>2. InOrder(reads[c.fd], d, InHand(call, c.fd), mbox[c.fd], came[c.fd])
      BY <1>0, <2>2 DEF d
    <3>3. CASE c.peek
      <4>1. reads'[c.fd] = reads[c.fd]
        BY <1>0, <1>1, <2>3, <3>3
      <4> QED BY <1>3, <3>1, <3>2, <3>3, <4>1
    <3>4. CASE ~c.peek
      <4>1. reads'[c.fd] = reads[c.fd] \o SubSeq(d, 1, k)
        BY <1>0, <1>1, <2>3, <3>4
      <4>2. came[c.fd] \in Nat
        BY <1>0 DEF SelectInv, SocketTypeOK
      <4>3. InOrder(reads[c.fd] \o SubSeq(d, 1, k), SubSeq(d, k + 1, Len(d)), InHand(call, c.fd),
                    mbox[c.fd], came[c.fd])
        BY <1>2, <3>2, <4>2, BytesCopied
      <4> QED BY <1>3, <3>1, <3>4, <4>1, <4>3 DEF rest
    <3> QED BY <3>3, <3>4
  <2> SUFFICES ASSUME NEW fd \in Fds
               PROVE  InOrder(reads'[fd], sock'[fd].last.data, InHand(call', fd), mbox[fd], came[fd])
    BY <1>0 DEF BytesInOrder
  <2>6. CASE fd # c.fd
    BY <1>5, <2>1, <2>2, <2>4, <2>6
  <2>7. CASE fd = c.fd
    BY <2>1, <2>5, <2>7
  <2> QED BY <2>6, <2>7
<1>16. reads' \in [Fds -> Seq(Nat)]
  <2>1. reads \in [Fds -> Seq(Nat)] /\ SubSeq(d, 1, k) \in Seq(Nat)
    BY <1>2 DEF ReadInv
  <2> DEFINE r == IF c.peek THEN reads[c.fd] ELSE reads[c.fd] \o SubSeq(d, 1, k)
  <2>2. r \in Seq(Nat)
    BY <1>0, <2>1
  <2>3. reads' = [reads EXCEPT ![c.fd] = r]
    BY <1>1
  <2> HIDE DEF r
  <2> QED BY <2>1, <2>2, <2>3
<1> QED BY <1>10, <1>11, <1>12, <1>13, <1>14, <1>15, <1>16 DEF ReadInv

\* A socket that no call uses is given away empty.
LEMMA OpenReads ==
    ASSUME SelectInv, ReadInv, NEW t \in Callers, Open(t) \/ \E fd \in Fds : Close(t, fd)
    PROVE  ReadInv'
<1>1. PICK fd \in Fds, s \in {Fresh, [Fresh EXCEPT !.open = TRUE]} :
         /\ sock' = [sock EXCEPT ![fd] = s] /\ mbox' = [mbox EXCEPT ![fd] = <<>>]
         /\ came' = [came EXCEPT ![fd] = 0] /\ reads' = [reads EXCEPT ![fd] = <<>>]
         /\ UNCHANGED <<call, cb>>
         /\ ~sock[fd].open \/ InNoCall(fd)
  BY DEF Open, Close
<1>2. s.last = Eof /\ s.rcvevent = 0 /\ Eof.data = <<>>
  <2>1. Fresh.last = Eof /\ Fresh.rcvevent = 0 /\ Eof.data = <<>>
    BY DEF Fresh, Eof
  <2>2. [Fresh EXCEPT !.open = TRUE].last = Eof /\ [Fresh EXCEPT !.open = TRUE].rcvevent = 0
    BY DEF Fresh
  <2> QED BY <1>1, <2>1, <2>2
<1>3. /\ sock'[fd] = s /\ mbox'[fd] = <<>> /\ came'[fd] = 0 /\ reads'[fd] = <<>>
      /\ \A k \in Fds \ {fd} : /\ sock'[k] = sock[k] /\ mbox'[k] = mbox[k] /\ came'[k] = came[k]
                               /\ reads'[k] = reads[k]
      /\ reads' \in [Fds -> Seq(Nat)]
  BY <1>1 DEF ReadInv, SelectInv, SocketTypeOK
<1>4. \A u \in Callers : call[u].pc \in Receiving => call[u].fd \in Fds \ {fd}
  BY <1>1 DEF SelectInv, InUse, InNoCall, CallShape, ShapeOf
<1>5. \A i \in 1..Len(cb[Tcpip].events) : cb[Tcpip].events[i].fd \in Fds \ {fd}
  <2>1. cb[Tcpip].events \in Seq(Event)
    BY DEF SelectInv, SocketTypeOK, Callback, Actors
  <2>2. \A i \in 1..Len(cb[Tcpip].events) : cb[Tcpip].events[i].fd \in Fds
    <3>1. \A i \in 1..Len(cb[Tcpip].events) : cb[Tcpip].events[i] \in Event
      BY <2>1
    <3> QED BY <3>1 DEF Event
  <2>3. \A i \in 1..Len(cb[Tcpip].events) : cb[Tcpip].events[i].fd # fd
    <3>1. CASE ~sock[fd].open
      BY <3>1 DEF ReadInv, StackReports
    <3>2. CASE InNoCall(fd)
      BY <3>2 DEF InNoCall, Actors
    <3> QED BY <1>1, <3>1, <3>2
  <2> QED BY <2>2, <2>3
<1>6. OneReader'
  BY <1>1 DEF ReadInv, OneReader
<1>7. Hands'
  BY <1>1, <1>3, <1>4 DEF ReadInv, Hands, Receiving
<1>8. StackReports'
  <2> SUFFICES ASSUME NEW i \in 1..Len(cb[Tcpip].events)
               PROVE  LET e == cb[Tcpip].events[i]
                      IN  /\ sock'[e.fd].open
                          /\ \/ sock'[e.fd].fatal
                             \/ Len(cb[Tcpip].events) = 1 /\ e.evt \in {"RCVPLUS", "SENDPLUS", "SENDMINUS"}
    BY <1>1 DEF StackReports
  <2>1. sock'[cb[Tcpip].events[i].fd] = sock[cb[Tcpip].events[i].fd]
    BY <1>3, <1>5
  <2> QED BY <2>1 DEF ReadInv, StackReports
<1>9. CountOfBox'
  <2> SUFFICES ASSUME NEW k \in Fds, ~sock'[k].fatal
               PROVE  /\ sock'[k].rcvevent <= Len(mbox'[k]) + 1
                      /\ ToCome(k) \/ ~ToGo(k) => sock'[k].rcvevent <= Len(mbox'[k])
                      /\ ToCome(k) /\ ~ToGo(k) => sock'[k].rcvevent < Len(mbox'[k])
    BY <1>1 DEF CountOfBox, ToCome, ToGo
  <2>1. CASE k # fd
    BY <1>3, <2>1 DEF ReadInv, CountOfBox
  <2>2. CASE k = fd
    <3>1. ~ToCome(k)
      <4> SUFFICES ASSUME ToCome(k) PROVE FALSE
        OBVIOUS
      <4>1. cb[Tcpip].events # <<>> /\ Head(cb[Tcpip].events).fd = k
        BY DEF ToCome
      <4>2. Head(cb[Tcpip].events) = cb[Tcpip].events[1] /\ 1 \in 1..Len(cb[Tcpip].events)
        BY <4>1, EventsLeft DEF SelectInv, Actors
      <4> QED BY <1>5, <2>2, <4>1, <4>2
    <3>2. Len(mbox'[k]) = 0 /\ sock'[k].rcvevent = 0
      BY <1>2, <1>3, <2>2
    <3> QED BY <3>1, <3>2
  <2> QED BY <2>1, <2>2
<1>10. SeenMore'
  BY <1>1, <1>3, <1>4 DEF ReadInv, SeenMore, Receiving
<1>11. BytesInOrder'
  <2> SUFFICES ASSUME NEW k \in Fds
               PROVE  InOrder(reads'[k], sock'[k].last.data, InHand(call, k), mbox'[k], came'[k])
    BY <1>1 DEF BytesInOrder
  <2>1. CASE k # fd
    BY <1>3, <2>1 DEF ReadInv, BytesInOrder
  <2>2. CASE k = fd
    <3>1. \A u \in Callers : call[u].fd = k => call[u].hand = Eof
      BY <1>4, <2>2 DEF ReadInv, Hands, Receiving
    <3>2. InHand(call, k) = <<>>
      BY <3>1, NoHand
    <3> QED BY <1>2, <1>3, <2>2, <3>2, NoBytes
  <2> QED BY <2>1, <2>2
<1> QED BY <1>3, <1>6, <1>7, <1>8, <1>9, <1>10, <1>11 DEF ReadInv

\* The stack puts what arrives into the mailbox, and reports it.
LEMMA StackReads ==
    ASSUME SelectInv, ReadInv, Stack
    PROVE  ReadInv'
<1>1. PICK fd \in Fds : \/ \E n \in 0..2, push \in BOOLEAN : RecvTcp(fd, n, push)
                        \/ BufferChanges(fd) \/ ErrTcp(fd)
  BY DEF Stack
<1>t. Tcpip \in Actors /\ Tcpip \notin Callers /\ Callers \subseteq Actors
  BY SocketAssumption DEF Actors, Tcpip
<1>2. /\ cb[Tcpip].events = <<>> /\ UNCHANGED <<call, reads>> /\ sock[fd].open
      /\ \A a \in Callers : cb'[a] = cb[a]
  BY <1>1, <1>t DEF RecvTcp, BufferChanges, ErrTcp, Busy, Reports, SelectInv, SocketTypeOK
<1>3. cb'[Tcpip].at = NoCaller
  <2>1. cb[Tcpip].at = NoCaller
    BY <1>2, <1>t, QuietIsNowhere
  <2>2. PICK q : cb' = [cb EXCEPT ![Tcpip] = [@ EXCEPT !.events = q]]
    BY <1>1 DEF RecvTcp, BufferChanges, ErrTcp, Reports, SelectInv, SocketTypeOK
  <2> QED BY <1>t, <2>1, <2>2 DEF SelectInv, SocketTypeOK, Callback
<1>4. \A k \in Fds : ToGo(k)' <=> ToGo(k)
  BY <1>2 DEF ToGo
<1>5. \A k \in Fds : ~ToCome(k)
  BY <1>2 DEF ToCome
<1>f. \A u \in Callers : call[u].pc \in Receiving => call[u].fd \in Fds
  BY DEF SelectInv, CallShape, ShapeOf
<1>o. \A k \in Fds : /\ Len(mbox[k]) \in Nat /\ sock[k].rcvevent \in Int
                     /\ mbox[k] \in Seq(Item) /\ came[k] \in Nat
  BY DEF SelectInv, SocketTypeOK, Socket
<1>b. \A k \in Fds : InOrder(reads[k], sock[k].last.data, InHand(call, k), mbox[k], came[k])
  BY DEF ReadInv, BytesInOrder
<1>c. \A k \in Fds : ~sock[k].fatal =>
         /\ sock[k].rcvevent <= Len(mbox[k]) + 1
         /\ ~ToGo(k) => sock[k].rcvevent <= Len(mbox[k])
  BY DEF ReadInv, CountOfBox
<1>s. \A k \in Fds : /\ sock'[k].last = sock[k].last /\ sock'[k].open = sock[k].open
                     /\ sock'[k].rcvevent = sock[k].rcvevent /\ (sock[k].fatal => sock'[k].fatal)
  <2>1. ASSUME NEW n \in 0..2, NEW push \in BOOLEAN, RecvTcp(fd, n, push)
        PROVE  sock' = [sock EXCEPT ![fd] = [@ EXCEPT !.over = (n = 0)]]
    BY <2>1 DEF RecvTcp, SelectInv, SocketTypeOK
  <2>2. CASE ErrTcp(fd)
    <3>1. sock' = [sock EXCEPT ![fd] = [[@ EXCEPT !.fatal = TRUE] EXCEPT !.over = TRUE]]
      BY <2>2 DEF ErrTcp, SelectInv, SocketTypeOK
    <3> DEFINE s == [[sock[fd] EXCEPT !.fatal = TRUE] EXCEPT !.over = TRUE]
    <3>2. /\ s.last = sock[fd].last /\ s.open = sock[fd].open
          /\ s.rcvevent = sock[fd].rcvevent /\ s.fatal
      BY DEF SelectInv, SocketTypeOK, Socket
    <3>3. sock' = [sock EXCEPT ![fd] = s]
      BY <3>1
    <3> HIDE DEF s
    <3> QED BY <3>2, <3>3 DEF SelectInv, SocketTypeOK
  <2>3. ASSUME NEW x, sock' = [sock EXCEPT ![fd] = [@ EXCEPT !.over = x]]
        PROVE  \A k \in Fds : /\ sock'[k].last = sock[k].last /\ sock'[k].open = sock[k].open
                              /\ sock'[k].rcvevent = sock[k].rcvevent /\ (sock[k].fatal => sock'[k].fatal)
    <3> DEFINE s == [sock[fd] EXCEPT !.over = x]
    <3>2. /\ s.last = sock[fd].last /\ s.open = sock[fd].open
          /\ s.rcvevent = sock[fd].rcvevent /\ s.fatal = sock[fd].fatal
      BY DEF SelectInv, SocketTypeOK, Socket
    <3>3. sock' = [sock EXCEPT ![fd] = s]
      BY <2>3
    <3> HIDE DEF s
    <3> QED BY <3>2, <3>3 DEF SelectInv, SocketTypeOK
  <2>4. CASE BufferChanges(fd)
    BY <2>4 DEF BufferChanges
  <2> QED BY <1>1, <2>1, <2>2, <2>3, <2>4
<1>6. OneReader'
  BY <1>2 DEF ReadInv, OneReader
<1>7. Hands'
  BY <1>2, <1>s, <1>f DEF ReadInv, Hands, Receiving
<1>r. reads' \in [Fds -> Seq(Nat)]
  BY <1>2 DEF ReadInv
<1>8. ASSUME \/ UNCHANGED <<mbox, came>>
             \/ \E k \in Fds, x \in Item : mbox' = [mbox EXCEPT ![k] = Append(@, x)]
      PROVE  SeenMore'
  <2>1. \A k \in Fds : mbox[k] # <<>> => mbox'[k] # <<>>
    <3>1. ASSUME NEW k \in Fds, NEW x \in Item, mbox' = [mbox EXCEPT ![k] = Append(@, x)]
          PROVE  mbox'[k] # <<>> /\ \A j \in Fds : j # k => mbox'[j] = mbox[j]
      <4>1. mbox[k] \in Seq(Item) /\ mbox'[k] = Append(mbox[k], x)
        BY <1>o, <3>1 DEF SelectInv, SocketTypeOK
      <4>2. Len(Append(mbox[k], x)) = Len(mbox[k]) + 1
        BY <4>1, AppendTo
      <4>3. Len(mbox'[k]) # 0
        BY <1>o, <4>1, <4>2
      <4> QED BY <3>1, <4>3 DEF SelectInv, SocketTypeOK
    <3> QED BY <1>8, <3>1
  <2> QED BY <1>2, <1>s, <1>f, <2>1 DEF ReadInv, SeenMore, Receiving
<1>9. ASSUME NEW n \in 0..2, NEW push \in BOOLEAN, RecvTcp(fd, n, push)
      PROVE  ReadInv'
  <2> DEFINE x == IF n = 0 THEN Eof ELSE [data |-> [i \in 1..n |-> came[fd] + i], push |-> push]
  <2>1. /\ mbox' = [mbox EXCEPT ![fd] = Append(@, x)] /\ came' = [came EXCEPT ![fd] = @ + n]
        /\ Reports(fd, <<"RCVPLUS">>)
    BY <1>9 DEF RecvTcp
  <2>2. sock' = [sock EXCEPT ![fd] = [@ EXCEPT !.over = (n = 0)]]
    BY <1>9 DEF RecvTcp, SelectInv, SocketTypeOK
  <2>3. \A k \in Fds : sock'[k].fatal = sock[k].fatal
    BY <2>2 DEF SelectInv, SocketTypeOK, Socket
  <2>4. x \in Item /\ IsRun(x.data, came[fd], came[fd] + n)
    <3>1. CASE n = 0
      <4>1. x.data = <<>> /\ came[fd] + n = came[fd]
        BY <1>o, <3>1 DEF Eof
      <4> QED BY <1>o, <3>1, <4>1, Constants, EmptyRun
    <3>2. CASE n # 0
      <4>1. x.data = [i \in 1..n |-> came[fd] + i]
        BY <3>2
      <4>2. (came[fd] + n) - came[fd] = n /\ came[fd] <= came[fd] + n
        BY <1>o
      <4>3. [i \in 1..n |-> came[fd] + i] \in Seq(Nat)
        BY <1>o
      <4>4. x \in Item
        BY <3>2, <4>3 DEF Item
      <4> QED BY <4>1, <4>2, <4>4 DEF IsRun
    <3> QED BY <3>1, <3>2
  <2> HIDE DEF x
  <2>5. /\ mbox'[fd] = Append(mbox[fd], x) /\ came'[fd] = came[fd] + n
        /\ \A k \in Fds : k # fd => mbox'[k] = mbox[k] /\ came'[k] = came[k]
        /\ Len(mbox'[fd]) = Len(mbox[fd]) + 1
    <3>1. mbox'[fd] = Append(mbox[fd], x) /\ came'[fd] = came[fd] + n
      BY <2>1 DEF SelectInv, SocketTypeOK
    <3>2. \A k \in Fds : k # fd => mbox'[k] = mbox[k] /\ came'[k] = came[k]
      BY <2>1 DEF SelectInv, SocketTypeOK
    <3>3. Len(Append(mbox[fd], x)) = Len(mbox[fd]) + 1
      BY <1>o, <2>4, AppendTo
    <3> QED BY <3>1, <3>2, <3>3
  <2>6. cb'[Tcpip].events = [i \in 1..1 |-> [fd |-> fd, evt |-> "RCVPLUS"]]
    <3>1. [i \in 1..Len(<<"RCVPLUS">>) |-> [fd |-> fd, evt |-> <<"RCVPLUS">>[i]]]
             = [i \in 1..1 |-> [fd |-> fd, evt |-> "RCVPLUS"]]
      OBVIOUS
    <3> QED BY <1>t, <2>1, <3>1 DEF Reports, SelectInv, SocketTypeOK, Callback
  <2>7. /\ Len(cb'[Tcpip].events) = 1 /\ cb'[Tcpip].events[1] = [fd |-> fd, evt |-> "RCVPLUS"]
        /\ Head(cb'[Tcpip].events) = [fd |-> fd, evt |-> "RCVPLUS"]
    BY <2>6
  <2>8. StackReports'
    <3>1. \A i \in 1..Len(cb'[Tcpip].events) :
             cb'[Tcpip].events[i].fd = fd /\ cb'[Tcpip].events[i].evt = "RCVPLUS"
      BY <2>7
    <3> QED BY <1>2, <1>s, <2>7, <3>1 DEF StackReports
  <2>9. CountOfBox'
    <3> SUFFICES ASSUME NEW k \in Fds, ~sock[k].fatal
                 PROVE  /\ sock[k].rcvevent <= Len(mbox'[k]) + 1
                        /\ ToCome(k)' \/ ~ToGo(k) => sock[k].rcvevent <= Len(mbox'[k])
                        /\ ToCome(k)' /\ ~ToGo(k) => sock[k].rcvevent < Len(mbox'[k])
      BY <1>s, <1>4, <2>3 DEF CountOfBox
    <3>1. CASE k = fd
      <4>1. sock[k].rcvevent <= Len(mbox'[k])
        BY <1>o, <1>c, <2>5, <3>1
      <4>2. sock[k].rcvevent <= Len(mbox'[k]) + 1
        BY <1>o, <1>c, <2>5, <3>1
      <4>3. ASSUME ~ToGo(k) PROVE sock[k].rcvevent < Len(mbox'[k])
        <5>1. sock[k].rcvevent <= Len(mbox[k])
          BY <1>c, <4>3
        <5> QED BY <1>o, <2>5, <3>1, <5>1
      <4> QED BY <4>1, <4>2, <4>3
    <3>2. CASE k # fd
      <4>1. ~ToCome(k)'
        BY <2>7, <3>2 DEF ToCome
      <4> QED BY <1>c, <2>5, <3>2, <4>1
    <3> QED BY <3>1, <3>2
  <2>10. SeenMore'
    BY <1>8, <2>1, <2>4
  <2>11. BytesInOrder'
    <3> SUFFICES ASSUME NEW k \in Fds
                 PROVE  InOrder(reads[k], sock[k].last.data, InHand(call, k), mbox'[k], came'[k])
      BY <1>2, <1>s DEF BytesInOrder
    <3>1. CASE k # fd
      BY <1>b, <2>5, <3>1
    <3>2. CASE k = fd
      <4>1. n \in Nat
        OBVIOUS
      <4>2. InOrder(reads[fd], sock[fd].last.data, InHand(call, fd), Append(mbox[fd], x), came[fd] + n)
        BY <1>b, <1>o, <2>4, <4>1, BytesArrive
      <4> QED BY <2>5, <3>2, <4>2
    <3> QED BY <3>1, <3>2
  <2> QED BY <1>6, <1>7, <1>r, <2>8, <2>9, <2>10, <2>11 DEF ReadInv
<1>10. CASE BufferChanges(fd) \/ ErrTcp(fd)
  <2>1. UNCHANGED <<mbox, came>>
    BY <1>10 DEF BufferChanges, ErrTcp
  <2>2. SeenMore' /\ BytesInOrder'
    BY <1>2, <1>8, <1>b, <1>s, <2>1 DEF BytesInOrder
  <2>3. CASE BufferChanges(fd)
    <3>1. PICK evt \in {"SENDMINUS", "SENDPLUS"} : Reports(fd, <<evt>>)
      BY <2>3 DEF BufferChanges
    <3>2. cb'[Tcpip].events = [i \in 1..1 |-> [fd |-> fd, evt |-> evt]]
      <4>1. [i \in 1..Len(<<evt>>) |-> [fd |-> fd, evt |-> <<evt>>[i]]] = [i \in 1..1 |-> [fd |-> fd, evt |-> evt]]
        OBVIOUS
      <4> QED BY <1>t, <3>1, <4>1 DEF Reports, SelectInv, SocketTypeOK, Callback
    <3>3. /\ Len(cb'[Tcpip].events) = 1 /\ cb'[Tcpip].events[1] = [fd |-> fd, evt |-> evt]
          /\ Head(cb'[Tcpip].events) = [fd |-> fd, evt |-> evt]
      BY <3>2
    <3>4. StackReports'
      <4>1. \A i \in 1..Len(cb'[Tcpip].events) :
               cb'[Tcpip].events[i].fd = fd /\ cb'[Tcpip].events[i].evt = evt
        BY <3>3
      <4> QED BY <1>2, <1>s, <3>1, <3>3, <4>1 DEF StackReports
    <3>5. \A k \in Fds : ~ToCome(k)'
      <4>1. [fd |-> fd, evt |-> evt].evt # "RCVPLUS"
        BY <3>1
      <4>2. \A k \in Fds : [fd |-> k, evt |-> "RCVPLUS"] # [fd |-> fd, evt |-> evt]
        BY <3>1
      <4> QED BY <3>3, <4>2 DEF ToCome
    <3>6. sock' = sock
      BY <2>3 DEF BufferChanges
    <3>7. CountOfBox'
      BY <1>c, <1>4, <2>1, <3>5, <3>6 DEF CountOfBox
    <3> QED BY <1>6, <1>7, <1>r, <2>2, <3>4, <3>7 DEF ReadInv
  <2>4. CASE ErrTcp(fd)
    <3>1. Reports(fd, <<"ERROR", "RCVPLUS", "SENDPLUS", "NULL">>)
      BY <2>4 DEF ErrTcp
    <3>2. \A i \in 1..Len(cb'[Tcpip].events) : cb'[Tcpip].events[i].fd = fd
      <4> DEFINE m == Len(<<"ERROR", "RCVPLUS", "SENDPLUS", "NULL">>)
                 q == [i \in 1..m |-> [fd |-> fd, evt |-> <<"ERROR", "RCVPLUS", "SENDPLUS", "NULL">>[i]]]
      <4>1. cb'[Tcpip].events = q
        BY <1>t, <3>1 DEF Reports, SelectInv, SocketTypeOK, Callback
      <4>2. m = 4
        OBVIOUS
      <4> HIDE DEF m
      <4>3. Len(q) = m /\ \A i \in 1..m : q[i].fd = fd
        BY <4>2
      <4> QED BY <4>1, <4>3
    <3>3. sock'[fd].fatal
      <4>1. sock' = [sock EXCEPT ![fd] = [[@ EXCEPT !.fatal = TRUE] EXCEPT !.over = TRUE]]
        BY <2>4 DEF ErrTcp, SelectInv, SocketTypeOK
      <4> QED BY <4>1 DEF SelectInv, SocketTypeOK, Socket
    <3>4. StackReports'
      BY <1>2, <1>s, <3>2, <3>3 DEF StackReports
    <3>5. CountOfBox'
      <4> SUFFICES ASSUME NEW k \in Fds, ~sock'[k].fatal
                   PROVE  ~ToCome(k)' /\ ~sock[k].fatal
        BY <1>c, <1>4, <1>s, <2>1 DEF CountOfBox
      <4>1. k # fd /\ ~sock[k].fatal
        BY <1>s, <3>3
      <4>2. ASSUME ToCome(k)' PROVE FALSE
        <5>1. cb'[Tcpip].events # <<>> /\ Head(cb'[Tcpip].events) = [fd |-> k, evt |-> "RCVPLUS"]
          BY <4>2 DEF ToCome
        <5>2. cb'[Tcpip].events \in Seq(Event)
          BY <1>t, StackTypes DEF SelectInv, SocketTypeOK, Callback
        <5>3. Head(cb'[Tcpip].events) = cb'[Tcpip].events[1] /\ 1 \in 1..Len(cb'[Tcpip].events)
          BY <5>1, <5>2
        <5>4. [fd |-> k, evt |-> "RCVPLUS"].fd = k
          OBVIOUS
        <5> QED BY <3>2, <4>1, <5>1, <5>3, <5>4
      <4> QED BY <4>1, <4>2
    <3> QED BY <1>6, <1>7, <1>r, <2>2, <3>4, <3>5 DEF ReadInv
  <2> QED BY <1>10, <2>3, <2>4
<1> QED BY <1>1, <1>9, <1>10

LEMMA ReadInvStep == SelectInv /\ ReadInv /\ [SocketNext]_socketVars => ReadInv'
<1> SUFFICES ASSUME SelectInv, ReadInv, [SocketNext]_socketVars PROVE ReadInv'
  OBVIOUS
<1>1. CASE \E a \in Actors : EventSet(a) \/ EventGoesOn(a)
  BY <1>1, EventSetReads, EventGoesOnReads
<1>2. ASSUME NEW t \in Callers, Caller(t) PROVE ReadInv'
  BY <1>2, SelectReads, RecvBeginsReads, TakeReads, FetchReads, FetchedBufferReads, CopyReads,
     OpenReads DEF Caller
<1>3. CASE Stack
  BY <1>3, StackReads
<1>4. CASE UNCHANGED socketVars
  <2>1. ReadAside
    BY <1>4 DEF socketVars, ReadAside
  <2> QED BY <2>1, ReadAsideKeeps
<1> QED BY <1>1, <1>2, <1>3, <1>4 DEF SocketNext

LEMMA ServedByInvariants == SelectInv /\ ReadInv => ReadersAreServed
<1>1. SelectInv /\ ReadInv => BytesInOrder /\ NoWaitWithData
  BY DEF ReadInv, SeenMore, NoWaitWithData
<1> QED BY <1>1, SelectInvWakes DEF ReadersAreServed

\* Whatever the threads and the stack do, no wakeup is lost in lwip_select, no
\* byte in lwip_recv, and no receive that has read something blocks for more.
THEOREM ReadersAlwaysServed == SocketSpec => []ReadersAreServed
<1>1. SocketSpec => []SelectInv
  BY SelectInvInit, SelectInvStep, PTL DEF SocketSpec
<1>2. SocketInit => ReadInv
  BY ReadInvInit
<1>3. SelectInv /\ ReadInv /\ [SocketNext]_socketVars => ReadInv'
  BY ReadInvStep
<1> QED BY <1>1, <1>2, <1>3, ServedByInvariants, PTL DEF SocketSpec

-----------------------------------------------------------------------------
(* The resolver *)

\* The names of all labels that occur, and the types.
Labels == UNION {{n[i] : i \in DOMAIN n} : n \in Names}
Name == Seq(Labels)
Resolution ==
    [state : {"unused", "asking", "done"}, name : Name, len : Nat, numdns : Nat, tmr : Nat,
     retries : Nat, seqno : Nat, ttl : Nat, ipaddr : Name, found : Askers \cup {NoAsker}]

Asker == [waits : BOOLEAN, name : Name, got : Name]

DnsTypeOK ==
    /\ dns_table \in [Entries -> Resolution] /\ dns_seqno \in Nat
    /\ asker \in [Askers -> Asker]
    /\ asked \subseteq [id : Entries, name : Name, from : Nat]

\* An entry that asks is for a thread that waits, and can go on asking.
AsksFor(e, threads) == e.state = "asking" =>
    /\ e.found \in Askers /\ threads[e.found].waits
    /\ NameOf(e) = threads[e.found].name
    /\ e.tmr > 0 /\ e.retries < DnsRetries

\* No thread has two entries, and one that waits has one.
OneEntry(t) ==
    \A i, j \in Entries :
        t[i].state = "asking" /\ t[j].state = "asking" /\ t[i].found = t[j].found => i = j
HasEntry(t, a) == \E i \in Entries : t[i].state = "asking" /\ t[i].found = a

DnsInv ==
    /\ DnsTypeOK
    /\ \A i \in Entries : AsksFor(dns_table[i], asker)
    /\ OneEntry(dns_table)
    /\ \A a \in Askers : asker[a].waits => HasEntry(dns_table, a)

LEMMA NamesAreNames == Names \subseteq Name
<1>1. SUFFICES ASSUME NEW n \in Names PROVE n \in Name
  OBVIOUS
<1>2. n \in Seq({n[i] : i \in DOMAIN n}) /\ {n[i] : i \in DOMAIN n} \subseteq Labels
  BY DnsAssumption DEF Labels
<1> QED BY <1>2 DEF Name

\* The buffer of an entry holds the name that was written into it.
LEMMA WrittenName ==
    ASSUME NEW n \in Name, NEW old \in Name
    PROVE  /\ Overwritten(old, n) \in Name
           /\ SubSeq(Overwritten(old, n), 1, Len(n)) = n
<1> DEFINE rest == SubSeq(old, Len(n) + 1, Len(old))
<1>1. rest \in Name
  <2>1. \A i \in (Len(n) + 1)..Len(old) : old[i] \in Labels
    BY DEF Name
  <2> QED BY <2>1, SubSeqProperties DEF Name
<1>2. Overwritten(old, n) = n \o rest /\ n \o rest \in Name
  BY <1>1 DEF Overwritten, Name
<1>3. \A i \in 1..Len(n) : (n \o rest)[i] = n[i] /\ (n \o rest)[i] \in Labels
  BY <1>1 DEF Name
<1> HIDE DEF rest
<1>4. /\ SubSeq(n \o rest, 1, Len(n)) \in Seq(Labels)
      /\ Len(SubSeq(n \o rest, 1, Len(n))) = Len(n)
      /\ \A i \in 1..Len(n) : SubSeq(n \o rest, 1, Len(n))[i] = n[i]
  <2>1. Len(n) \in Nat
    BY DEF Name
  <2> DEFINE m == Len(n)
             q == n \o rest
  <2>2. /\ SubSeq(q, 1, m) \in Seq(Labels)
        /\ Len(SubSeq(q, 1, m)) = IF 1 <= m THEN m - 1 + 1 ELSE 0
        /\ \A i \in 1..(m - 1 + 1) : SubSeq(q, 1, m)[i] = q[1 + i - 1]
    <3>1. \A i \in 1..m : q[i] \in Labels
      BY <1>3
    <3> HIDE DEF q, m
    <3>2. m \in Int
      BY <2>1 DEF m
    <3> QED BY <3>1, <3>2, SubSeqProperties
  <2>3. \A i \in 1..m : 1 + i - 1 = i /\ i \in 1..(m - 1 + 1)
    BY <2>1
  <2> QED BY <1>3, <2>1, <2>2, <2>3
<1>5. SubSeq(n \o rest, 1, Len(n)) = n
  BY <1>4 DEF Name
<1> QED BY <1>2, <1>5

LEMMA LeastOfSome ==
    ASSUME NEW S, S \subseteq Nat, S # {}
    PROVE  Min(S) \in S
BY LeastExists DEF Min

\* The oldest of the entries that are done is one of the table.
LEMMA OldestIsEntry == DnsTypeOK => OldestDone \in Entries
<1> SUFFICES ASSUME DnsTypeOK PROVE OldestDone \in Entries
  OBVIOUS
<1>0. Entries \subseteq Nat /\ 0 \in Entries /\ \A i \in Entries : dns_table[i].seqno \in Nat
  BY DnsAssumption DEF Entries, DnsTypeOK, Resolution
<1>1. CASE Replaceable = {}
  BY <1>0, <1>1 DEF OldestDone
<1>2. CASE Replaceable # {}
  <2> DEFINE oldest == {i \in Replaceable : \A j \in Replaceable : Age(j) <= Age(i)}
  <2>1. Replaceable \subseteq Entries
    BY DEF Replaceable
  <2>2. PICK i \in Replaceable : \A j \in Replaceable : dns_table[i].seqno <= dns_table[j].seqno
    <3> DEFINE ages == {dns_table[i].seqno : i \in Replaceable}
    <3>1. ages \subseteq Nat /\ ages # {}
      BY <1>0, <1>2, <2>1
    <3>2. PICK x \in ages : \A y \in ages : x <= y
      BY <3>1, LeastExists
    <3> QED BY <3>2
  <2>3. i \in oldest
    BY <1>0, <2>1, <2>2 DEF Age, DnsTypeOK
  <2>4. Min(oldest) \in oldest
    BY <1>0, <2>1, <2>3, LeastOfSome
  <2> QED BY <1>2, <2>1, <2>4 DEF OldestDone
<1> QED BY <1>1, <1>2

-----------------------------------------------------------------------------
LEMMA UnusedEntry == Unused \in Resolution /\ Unused.state = "unused"
<1>1. <<>> \in Name
  BY DEF Name
<1> QED BY <1>1 DEF Unused, Resolution

LEMMA DnsInvInit == DnsInit => DnsInv
<1> SUFFICES ASSUME DnsInit PROVE DnsInv
  OBVIOUS
<1>1. Unused \in Resolution /\ <<>> \in Name
  BY UnusedEntry DEF Name
<1>2. DnsTypeOK
  BY <1>1 DEF DnsInit, DnsTypeOK, Asker
<1>3. \A i \in Entries : dns_table[i].state # "asking"
  BY DEF DnsInit, Unused
<1> QED BY <1>2, <1>3 DEF DnsInit, DnsInv, AsksFor, OneEntry

\* The threads after one was woken.
LEMMA WokenIs ==
    ASSUME NEW t \in [Askers -> Asker], NEW a \in Askers, NEW addr \in Name
    PROVE  LET w == Woken(t, a, addr)
           IN  /\ w \in [Askers -> Asker]
               /\ ~w[a].waits /\ w[a].name = t[a].name
               /\ \A b \in Askers : b # a => w[b] = t[b]
<1> DEFINE r == [t[a] EXCEPT !.waits = FALSE, !.got = addr]
<1>1. a # NoAsker
  BY DnsAssumption
<1>2. Woken(t, a, addr) = [t EXCEPT ![a].waits = FALSE, ![a].got = addr]
  BY <1>1 DEF Woken
<1>3. Woken(t, a, addr) = [t EXCEPT ![a] = r]
  BY <1>2 DEF Asker
<1>4. r \in Asker /\ r.waits = FALSE /\ r.name = t[a].name
  BY DEF Asker
<1> QED BY <1>3, <1>4

\* A thread that does not wait gives its question to an entry nobody waits for.
LEMMA AskKeeps ==
    ASSUME DnsInv, NEW a \in Askers, NEW n \in Names, Ask(a, n)
    PROVE  DnsInv'
<1> DEFINE known == {i \in Entries : dns_table[i].state = "done" /\ NameOf(dns_table[i]) = n}
           asks  == [asker EXCEPT ![a].name = n]
<1>0. /\ n \in Name /\ <<>> \in Name /\ a # NoAsker /\ ~asker[a].waits
      /\ Entries \subseteq Nat
  <2>1. n \in Name
    BY NamesAreNames
  <2>2. <<>> \in Name
    BY DEF Name
  <2>3. a # NoAsker /\ Entries \subseteq Nat
    BY DnsAssumption DEF Entries
  <2> QED BY <2>1, <2>2, <2>3 DEF Ask
<1>1. \A i \in Entries : dns_table[i].state = "asking" => dns_table[i].found # a
  BY <1>0 DEF DnsInv, AsksFor
<1>2. CASE dns_table' = dns_table /\ asked' = asked /\ dns_seqno' = dns_seqno
           /\ \E addr \in Name : asker' = Woken(asks, a, addr)
  <2>1. PICK addr \in Name : asker' = Woken(asks, a, addr)
    BY <1>2
  <2>2. /\ asker' \in [Askers -> Asker] /\ ~asker'[a].waits
        /\ \A b \in Askers : b # a => asker'[b] = asker[b]
    <3>1. asks \in [Askers -> Asker] /\ \A b \in Askers : b # a => asks[b] = asker[b]
      BY <1>0 DEF DnsInv, DnsTypeOK, Asker
    <3> HIDE DEF asks
    <3> QED BY <2>1, <3>1, WokenIs
  <2>3. DnsTypeOK'
    BY <1>0, <1>2, <2>2 DEF DnsInv, DnsTypeOK
  <2>4. \A i \in Entries : AsksFor(dns_table[i], asker')
    BY <1>1, <2>2 DEF DnsInv, DnsTypeOK, AsksFor
  <2>5. \A b \in Askers : asker'[b].waits => HasEntry(dns_table, b)
    BY <2>2 DEF DnsInv, DnsTypeOK
  <2> QED BY <1>2, <2>3, <2>4, <2>5 DEF DnsInv
<1>3. CASE \E i \in Usable :
                /\ asker' = [asks EXCEPT ![a].waits = TRUE, ![a].got = <<>>]
                /\ dns_table' = [dns_table EXCEPT ![i] =
                      [dns_table[i] EXCEPT
                          !.state = "asking", !.name = Overwritten(dns_table[i].name, n), !.len = Len(n),
                          !.numdns = 0, !.tmr = 1, !.retries = 0, !.seqno = dns_seqno, !.found = a]]
                /\ dns_seqno' = (dns_seqno + 1) % SeqSpace
                /\ \/ asked' = asked \cup {[id |-> i, name |-> n, from |-> 0]} /\ server' = 0
                   \/ UNCHANGED <<asked, server>>
  <2>1. PICK i \in Usable :
                /\ asker' = [asks EXCEPT ![a].waits = TRUE, ![a].got = <<>>]
                /\ dns_table' = [dns_table EXCEPT ![i] =
                      [dns_table[i] EXCEPT
                          !.state = "asking", !.name = Overwritten(dns_table[i].name, n), !.len = Len(n),
                          !.numdns = 0, !.tmr = 1, !.retries = 0, !.seqno = dns_seqno, !.found = a]]
                /\ dns_seqno' = (dns_seqno + 1) % SeqSpace
                /\ \/ asked' = asked \cup {[id |-> i, name |-> n, from |-> 0]}
                   \/ asked' = asked
    BY <1>3
  <2>2. i \in Entries /\ dns_table[i].state # "asking"
    BY OldestIsEntry DEF Usable, FirstUnused, DnsInv
  <2> DEFINE e == dns_table[i]
             f == [e EXCEPT !.state = "asking", !.name = Overwritten(e.name, n), !.len = Len(n),
                            !.numdns = 0, !.tmr = 1, !.retries = 0, !.seqno = dns_seqno, !.found = a]
  <2>3. e \in Resolution
    BY <2>2 DEF DnsInv, DnsTypeOK
  <2>4. dns_table' = [dns_table EXCEPT ![i] = f]
    BY <2>1
  <2>5. /\ f \in Resolution /\ NameOf(f) = n
        /\ f.state = "asking" /\ f.tmr = 1 /\ f.retries = 0 /\ f.found = a
    <3>1. e.name \in Name
      BY <2>3 DEF Resolution
    <3>2. Overwritten(e.name, n) \in Name /\ SubSeq(Overwritten(e.name, n), 1, Len(n)) = n
      BY <1>0, <3>1, WrittenName
    <3>3. Len(n) \in Nat /\ dns_seqno \in Nat
      BY <1>0 DEF Name, DnsInv, DnsTypeOK
    <3>4. /\ f \in Resolution /\ f.name = Overwritten(e.name, n) /\ f.len = Len(n)
          /\ f.state = "asking" /\ f.tmr = 1 /\ f.retries = 0 /\ f.found = a
      BY <2>3, <3>2, <3>3 DEF Resolution
    <3> HIDE DEF f
    <3> QED BY <3>2, <3>4 DEF NameOf
  <2>6. /\ asker' \in [Askers -> Asker] /\ asker'[a].waits /\ asker'[a].name = n
        /\ \A b \in Askers : b # a => asker'[b] = asker[b]
    <3> DEFINE r == [asker[a] EXCEPT !.name = n]
               s == [r EXCEPT !.waits = TRUE, !.got = <<>>]
    <3>1. asks = [asker EXCEPT ![a] = r] /\ r \in Asker
      BY <1>0 DEF DnsInv, DnsTypeOK, Asker
    <3>2. s \in Asker /\ s.waits = TRUE /\ s.name = n
      BY <1>0 DEF DnsInv, DnsTypeOK, Asker
    <3>3. asks \in [Askers -> Asker] /\ asks[a] = r
      BY <3>1 DEF DnsInv, DnsTypeOK
    <3> HIDE DEF asks, r
    <3>4. asker' = [asks EXCEPT ![a] = s]
      BY <2>1, <3>3 DEF Asker
    <3>5. \A b \in Askers : b # a => asks[b] = asker[b]
      BY <3>1 DEF DnsInv, DnsTypeOK
    <3> HIDE DEF s
    <3> QED BY <3>2, <3>3, <3>4, <3>5
  <2>7. asked' \subseteq [id : Entries, name : Name, from : Nat]
    BY <1>0, <2>1, <2>2 DEF DnsInv, DnsTypeOK
  <2>8. dns_seqno' \in Nat
    BY <2>1, DnsAssumption DEF DnsInv, DnsTypeOK
  <2>9. DnsTypeOK'
    BY <1>0, <2>4, <2>5, <2>6, <2>7, <2>8 DEF DnsInv, DnsTypeOK
  <2>10. AsksFor(f, asker')
    <3>2. asker'[a].waits /\ asker'[a].name = n
      BY <2>6
    <3> HIDE DEF f
    <3> QED BY <2>5, <3>2, DnsAssumption DEF AsksFor
  <2>11. \A j \in Entries : AsksFor(dns_table'[j], asker')
    <3> SUFFICES ASSUME NEW j \in Entries, j # i PROVE AsksFor(dns_table[j], asker')
      BY <2>4, <2>10 DEF DnsInv, DnsTypeOK
    <3> QED BY <1>1, <2>6 DEF DnsInv, DnsTypeOK, AsksFor
  <2>12. OneEntry(dns_table')
    BY <1>1, <2>2, <2>4 DEF DnsInv, DnsTypeOK, OneEntry
  <2>13. \A b \in Askers : asker'[b].waits => HasEntry(dns_table', b)
    BY <2>2, <2>4, <2>6 DEF DnsInv, DnsTypeOK, HasEntry
  <2> QED BY <2>9, <2>11, <2>12, <2>13 DEF DnsInv
<1>4. CASE known # {}
  <2>1. Min(known) \in known
    BY <1>0, <1>4, LeastOfSome
  <2>2. dns_table[Min(known)].ipaddr \in Name
    BY <2>1 DEF DnsInv, DnsTypeOK, Resolution
  <2> QED BY <1>2, <1>4, <2>2 DEF Ask
<1>5. CASE known = {} /\ Usable = {}
  BY <1>0, <1>2, <1>5 DEF Ask
<1>6. CASE known = {} /\ Usable # {}
  BY <1>3, <1>6 DEF Ask
<1> QED BY <1>4, <1>5, <1>6

LEMMA FlushedEntry ==
    ASSUME NEW e \in Resolution
    PROVE  Flushed(e) \in Resolution /\ Flushed(e).state = "unused"
BY UnusedEntry DEF Flushed, Resolution

\* An entry after dns_check_entry.
LEMMA CheckedEntry ==
    ASSUME NEW e \in Resolution, e.state = "asking" => e.tmr > 0 /\ e.retries < DnsRetries
    PROVE  /\ Checked(e) \in Resolution
           /\ GivesUp(e) => e.state = "asking" /\ Checked(e).state # "asking"
           /\ e.state = "asking" /\ ~GivesUp(e) => 
                /\ Checked(e).state = "asking" /\ Checked(e).found = e.found
                /\ Checked(e).name = e.name /\ Checked(e).len = e.len
                /\ Checked(e).tmr > 0 /\ Checked(e).retries < DnsRetries
           /\ e.state # "asking" => Checked(e).state # "asking"
<1>1. CASE GivesUp(e) \/ (e.state = "done" /\ e.ttl = 1)
  BY <1>1, FlushedEntry DEF Checked, GivesUp, Spent, Due
<1>2. CASE ~(GivesUp(e) \/ (e.state = "done" /\ e.ttl = 1)) /\ Spent(e)
  <2>1. Checked(e) = [e EXCEPT !.numdns = e.numdns + 1, !.tmr = 1, !.retries = 0]
    BY <1>2 DEF Checked, Resolution
  <2>2. e.state = "asking" /\ DnsRetries > 0
    BY <1>2, DnsAssumption DEF Spent, Due
  <2>3. e.numdns + 1 \in Nat
    BY DEF Resolution
  <2> DEFINE f == [e EXCEPT !.numdns = e.numdns + 1, !.tmr = 1, !.retries = 0]
  <2>4. f \in Resolution /\ f.state = e.state /\ f.found = e.found /\ f.name = e.name
        /\ f.len = e.len /\ f.tmr = 1 /\ f.retries = 0
    BY <2>3 DEF Resolution
  <2>5. Checked(e) = f
    BY <2>1
  <2> HIDE DEF f
  <2> QED BY <1>2, <2>2, <2>4, <2>5
<1>3. CASE ~(GivesUp(e) \/ (e.state = "done" /\ e.ttl = 1)) /\ ~Spent(e) /\ Due(e)
  <2>1. Checked(e) = [e EXCEPT !.retries = e.retries + 1, !.tmr = e.retries + 1]
    BY <1>3 DEF Checked, Resolution
  <2>2. e.retries + 1 # DnsRetries /\ e.retries < DnsRetries
    BY <1>3 DEF Spent, Due
  <2>3. DnsRetries \in Nat /\ e.retries \in Nat /\ e.state = "asking"
    BY <1>3, DnsAssumption DEF Due, Resolution
  <2>4. e.retries + 1 \in Nat /\ e.retries + 1 > 0 /\ e.retries + 1 < DnsRetries
    BY <2>2, <2>3
  <2> QED BY <1>3, <2>1, <2>3, <2>4 DEF Resolution
<1>4. CASE ~(GivesUp(e) \/ (e.state = "done" /\ e.ttl = 1)) /\ ~Spent(e) /\ ~Due(e)
  <2>1. CASE e.state = "asking"
    BY <1>4, <2>1 DEF Checked, Due, Resolution
  <2>2. CASE e.state = "done"
    <3>1. (e.ttl + TtlSpace - 1) % TtlSpace \in Nat
      BY DnsAssumption DEF Resolution
    <3>2. Checked(e) = [e EXCEPT !.ttl = (e.ttl + TtlSpace - 1) % TtlSpace]
      BY <1>4, <2>2 DEF Checked, Resolution
    <3> QED BY <1>4, <2>2, <3>1, <3>2 DEF Resolution
  <2>3. CASE e.state = "unused"
    BY <1>4, <2>3 DEF Checked
  <2> QED BY <2>1, <2>2, <2>3 DEF Resolution
<1> QED BY <1>1, <1>2, <1>3, <1>4

\* Once a second: who is given up is told.
LEMMA DnsTmrKeeps ==
    ASSUME DnsInv, DnsTmr
    PROVE  DnsInv'
<1> DEFINE given == {dns_table[i].found : i \in {j \in Entries : GivesUp(dns_table[j])}}
<1>0. <<>> \in Name /\ \A a \in Askers : a # NoAsker
  BY DnsAssumption DEF Name
<1>1. /\ dns_table' = [i \in Entries |-> Checked(dns_table[i])] /\ dns_seqno' = dns_seqno
      /\ asker' = [a \in Askers |-> IF a \in given THEN Woken(asker, a, <<>>)[a] ELSE asker[a]]
  BY DEF DnsTmr
<1>2. \A a \in Askers : /\ asker'[a] \in Asker
                        /\ a \in given => ~asker'[a].waits
                        /\ a \notin given => asker'[a] = asker[a]
  <2> SUFFICES ASSUME NEW a \in Askers
               PROVE  /\ asker'[a] \in Asker
                      /\ a \in given => ~asker'[a].waits
                      /\ a \notin given => asker'[a] = asker[a]
    OBVIOUS
  <2>1. asker \in [Askers -> Asker]
    BY DEF DnsInv, DnsTypeOK
  <2>2. Woken(asker, a, <<>>)[a] \in Asker /\ ~Woken(asker, a, <<>>)[a].waits
    BY <1>0, <2>1, WokenIs
  <2> HIDE DEF given
  <2> QED BY <1>1, <2>1, <2>2
<1>3. \A i \in Entries : LET e == dns_table[i] IN
           /\ dns_table'[i] = Checked(e)
           /\ Checked(e) \in Resolution
           /\ GivesUp(e) => e.state = "asking" /\ Checked(e).state # "asking"
           /\ e.state = "asking" /\ ~GivesUp(e) => 
                /\ Checked(e).state = "asking" /\ Checked(e).found = e.found
                /\ Checked(e).name = e.name /\ Checked(e).len = e.len
                /\ Checked(e).tmr > 0 /\ Checked(e).retries < DnsRetries
           /\ e.state # "asking" => Checked(e).state # "asking"
  <2> SUFFICES ASSUME NEW i \in Entries PROVE LET e == dns_table[i] IN
           /\ dns_table'[i] = Checked(e)
           /\ Checked(e) \in Resolution
           /\ GivesUp(e) => e.state = "asking" /\ Checked(e).state # "asking"
           /\ e.state = "asking" /\ ~GivesUp(e) => 
                /\ Checked(e).state = "asking" /\ Checked(e).found = e.found
                /\ Checked(e).name = e.name /\ Checked(e).len = e.len
                /\ Checked(e).tmr > 0 /\ Checked(e).retries < DnsRetries
           /\ e.state # "asking" => Checked(e).state # "asking"
    OBVIOUS
  <2>1. /\ dns_table[i] \in Resolution
        /\ dns_table[i].state = "asking" => dns_table[i].tmr > 0 /\ dns_table[i].retries < DnsRetries
    BY DEF DnsInv, DnsTypeOK, AsksFor
  <2> QED BY <1>1, <2>1, CheckedEntry
<1>4. asked' \subseteq [id : Entries, name : Name, from : Nat]
  <2> DEFINE sending == {i \in Entries : Resends(dns_table[i])}
             query(i) == [id |-> i, name |-> NameOf(dns_table[i]), from |-> dns_table[i].numdns]
  <2>1. PICK sent \in SUBSET sending : asked' = asked \cup {query(i) : i \in sent}
    BY DEF DnsTmr
  <2>2. \A i \in sending : query(i) \in [id : Entries, name : Name, from : Nat]
    <3> SUFFICES ASSUME NEW i \in Entries, Resends(dns_table[i])
                 PROVE  query(i) \in [id : Entries, name : Name, from : Nat]
      OBVIOUS
    <3>1. dns_table[i].state = "asking" /\ dns_table[i] \in Resolution
      BY DEF Resends, Due, DnsInv, DnsTypeOK
    <3>2. dns_table[i].found \in Askers /\ NameOf(dns_table[i]) = asker[dns_table[i].found].name
      BY <3>1 DEF DnsInv, AsksFor
    <3>3. asker[dns_table[i].found].name \in Name
      BY <3>2 DEF DnsInv, DnsTypeOK, Asker
    <3> QED BY <3>1, <3>2, <3>3 DEF Resolution
  <2> QED BY <2>1, <2>2 DEF DnsInv, DnsTypeOK
<1>5. DnsTypeOK'
  <2> HIDE DEF given
  <2> QED BY <1>1, <1>2, <1>3, <1>4 DEF DnsInv, DnsTypeOK
<1>6. \A i \in Entries : dns_table[i].state = "asking" /\ ~GivesUp(dns_table[i]) => dns_table[i].found \notin given
  BY <1>3 DEF DnsInv, OneEntry
<1>7. \A i \in Entries : AsksFor(dns_table'[i], asker')
  <2> SUFFICES ASSUME NEW i \in Entries, dns_table'[i].state = "asking"
               PROVE  AsksFor(dns_table'[i], asker')
    BY DEF AsksFor
  <2>1. dns_table[i].state = "asking" /\ ~GivesUp(dns_table[i])
    BY <1>3
  <2>2. asker'[dns_table[i].found] = asker[dns_table[i].found] /\ AsksFor(dns_table[i], asker)
    BY <1>2, <1>6, <2>1 DEF DnsInv, AsksFor
  <2> QED BY <1>3, <2>1, <2>2 DEF AsksFor, NameOf
<1>8. OneEntry(dns_table')
  BY <1>3 DEF DnsInv, OneEntry
<1>9. ASSUME NEW a \in Askers, asker'[a].waits PROVE HasEntry(dns_table', a)
  <2>1. a \notin given /\ asker[a].waits
    <3> HIDE DEF given
    <3> QED BY <1>2, <1>9
  <2>2. PICK i \in Entries : dns_table[i].state = "asking" /\ dns_table[i].found = a
    BY <2>1 DEF DnsInv, HasEntry
  <2>3. ~GivesUp(dns_table[i])
    BY <2>1, <2>2
  <2> QED BY <1>3, <2>2, <2>3 DEF HasEntry
<1> QED BY <1>5, <1>7, <1>8, <1>9 DEF DnsInv

\* An answer wakes the thread of its entry, which is given up.
LEMMA AnswerKeeps ==
    ASSUME DnsInv, Answered
    PROVE  DnsInv'
<1>0. <<>> \in Name /\ \A a \in Askers : a # NoAsker
  BY DnsAssumption DEF Name
<1>1. PICK m \in asked : DnsRecv(m) /\ asked' \in {asked, asked \ {m}} /\ dns_seqno' = dns_seqno
  BY DEF Answered
<1>2. m.id \in Entries /\ m.name \in Name
  BY DEF DnsInv, DnsTypeOK
<1> DEFINE e == dns_table[m.id]
<1>3. CASE dns_table' = dns_table /\ asker' = asker
  BY <1>1, <1>3 DEF DnsInv, DnsTypeOK
<1>4. CASE e.state = "asking" /\ \E f \in Resolution, addr \in Name :
               f.state # "asking" /\ dns_table' = [dns_table EXCEPT ![m.id] = f]
               /\ asker' = Woken(asker, e.found, addr)
  <2>1. PICK f \in Resolution, addr \in Name :
               f.state # "asking" /\ dns_table' = [dns_table EXCEPT ![m.id] = f]
               /\ asker' = Woken(asker, e.found, addr)
    BY <1>4
  <2> DEFINE a == e.found
  <2>2. /\ a \in Askers /\ asker' \in [Askers -> Asker] /\ ~asker'[a].waits
        /\ \A b \in Askers : b # a => asker'[b] = asker[b]
    <3>1. a \in Askers
      BY <1>2, <1>4 DEF DnsInv, AsksFor
    <3> QED BY <2>1, <3>1, WokenIs DEF DnsInv, DnsTypeOK
  <2>3. DnsTypeOK'
    BY <1>1, <1>2, <2>1, <2>2 DEF DnsInv, DnsTypeOK
  <2>4. \A i \in Entries : dns_table'[i].state = "asking" =>
            i # m.id /\ dns_table'[i] = dns_table[i] /\ dns_table[i].found # a
    BY <1>2, <1>4, <2>1 DEF DnsInv, DnsTypeOK, OneEntry
  <2>5. \A i \in Entries : AsksFor(dns_table'[i], asker')
    BY <2>2, <2>4 DEF DnsInv, DnsTypeOK, AsksFor
  <2>6. OneEntry(dns_table')
    BY <2>4 DEF DnsInv, OneEntry
  <2>7. ASSUME NEW b \in Askers, asker'[b].waits PROVE HasEntry(dns_table', b)
    <3>1. b # a /\ asker[b].waits
      BY <2>2, <2>7 DEF DnsInv, DnsTypeOK
    <3>2. PICK i \in Entries : dns_table[i].state = "asking" /\ dns_table[i].found = b
      BY <3>1 DEF DnsInv, HasEntry
    <3> QED BY <2>1, <3>1, <3>2 DEF DnsInv, DnsTypeOK, HasEntry
  <2> QED BY <2>3, <2>5, <2>6, <2>7 DEF DnsInv
<1>5. CASE e.state = "asking" /\ m.from = server
  <2>1. e \in Resolution /\ Flushed(e) \in Resolution /\ Flushed(e).state = "unused"
    BY <1>2, FlushedEntry DEF DnsInv, DnsTypeOK
  <2>2. CASE dns_table' = [dns_table EXCEPT ![m.id] = Flushed(e)] /\ asker' = Woken(asker, e.found, <<>>)
    BY <1>0, <1>4, <1>5, <2>1, <2>2
  <2>3. ASSUME NEW ttl \in Ttls,
               dns_table' = [dns_table EXCEPT ![m.id] =
                   [Flushed(e) EXCEPT !.state = "done", !.seqno = e.seqno, !.ttl = ttl, !.ipaddr = m.name]],
               asker' = Woken(asker, e.found, m.name)
        PROVE  DnsInv'
    <3> DEFINE f == [Flushed(e) EXCEPT !.state = "done", !.seqno = e.seqno, !.ttl = ttl, !.ipaddr = m.name]
    <3>1. ttl \in Nat
      BY DnsAssumption
    <3>2. f \in Resolution /\ f.state = "done"
      BY <1>2, <2>1, <3>1 DEF Resolution
    <3> QED BY <1>2, <1>4, <1>5, <2>3, <3>2
  <2> QED BY <1>1, <1>5, <2>2, <2>3 DEF DnsRecv
<1> QED BY <1>1, <1>3, <1>5 DEF DnsRecv

LEMMA DnsInvStep == DnsInv /\ [DnsNext]_dnsVars => DnsInv'
<1> SUFFICES ASSUME DnsInv, [DnsNext]_dnsVars PROVE DnsInv'
  OBVIOUS
<1>1. CASE Asks
  BY <1>1, AskKeeps DEF Asks
<1>2. CASE DnsTmr
  BY <1>2, DnsTmrKeeps
<1>3. CASE Answered
  BY <1>3, AnswerKeeps
<1>4. CASE UNCHANGED dnsVars
  BY <1>4 DEF dnsVars, DnsInv, DnsTypeOK
<1> QED BY <1>1, <1>2, <1>3, <1>4 DEF DnsNext

LEMMA DnsInvWaits == DnsInv => NobodyWaitsForNothing
<1> SUFFICES ASSUME DnsInv, NEW a \in Askers
             PROVE  LET its == {i \in Entries : dns_table[i].state = "asking" /\ dns_table[i].found = a}
                    IN  /\ asker[a].waits <=> its # {}
                        /\ Cardinality(its) <= 1
                        /\ \A i \in its : /\ NameOf(dns_table[i]) = asker[a].name
                                          /\ dns_table[i].tmr > 0 /\ dns_table[i].retries < DnsRetries
  BY DEF NobodyWaitsForNothing
<1> DEFINE its == {i \in Entries : dns_table[i].state = "asking" /\ dns_table[i].found = a}
<1>1. asker[a].waits <=> its # {}
  BY DEF DnsInv, HasEntry, AsksFor
<1>2. Cardinality(its) <= 1
  <2>1. \A i, j \in its : i = j
    BY DEF DnsInv, OneEntry
  <2> HIDE DEF its
  <2>2. CASE its = {}
    BY <2>2, FS_EmptySet
  <2>3. CASE its # {}
    <3>1. PICK i \in its : its = {i}
      BY <2>1, <2>3
    <3>2. Cardinality({i}) = 1
      BY FS_Singleton
    <3> QED BY <3>1, <3>2
  <2> QED BY <2>2, <2>3
<1>3. \A i \in its : /\ NameOf(dns_table[i]) = asker[a].name
                     /\ dns_table[i].tmr > 0 /\ dns_table[i].retries < DnsRetries
  BY DEF DnsInv, AsksFor
<1> QED BY <1>1, <1>2, <1>3

(* dns.c, whatever is asked, lost, late or answered wrongly: a thread that *)
(* waits in netconn_gethostbyname has exactly one entry that asks for its  *)
(* name and will end, and an entry that asks calls a thread that waits.    *)
THEOREM NobodyEverWaitsForNothing == DnsSpec => []NobodyWaitsForNothing
<1>1. DnsInit => DnsInv
  BY DnsInvInit
<1>2. DnsInv /\ [DnsNext]_dnsVars => DnsInv'
  BY DnsInvStep
<1>3. DnsInv => NobodyWaitsForNothing
  BY DnsInvWaits
<1> QED BY <1>1, <1>2, <1>3, PTL DEF DnsSpec
=============================================================================
