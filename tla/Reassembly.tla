----------------------------- MODULE Reassembly -----------------------------
(* The reassembly of IP fragments (ip_frag.c): a list of the datagrams     *)
(* under way, the newest first, each with the chain of its fragments in    *)
(* the order of their offsets. The network loses, repeats and reorders     *)
(* fragments, and a datagram it repeats may have been cut another way.     *)
EXTENDS Integers, Sequences, FiniteSets, FiniteSetsExt, SequencesExt

CONSTANTS
    NoDatagram,
    Cuts,           \* for each datagram, the fragments that may arrive: from, to, last
    NumReassdata,   \* MEMP_NUM_REASSDATA
    MaxPbufs,       \* IP_REASS_MAX_PBUFS
    ReassAge        \* IP_REASS_MAXAGE

Datagrams == DOMAIN Cuts

ASSUME ReassemblyAssumption ==
    /\ {NumReassdata, MaxPbufs, ReassAge} \subseteq Nat \ {0}
    /\ \A d \in Datagrams : \A f \in Cuts[d] :
          /\ f \in [from : Nat, to : Nat, last : BOOLEAN]
          /\ f.from < f.to /\ (f.from = 0 => ~f.last)
          /\ f.last => \A g \in Cuts[d] : g.to <= f.to

VARIABLES
    reassdatagrams, \* the list: datagram, timer, chain of fragments, last one seen
    pbufcount,      \* ip_reass_pbufcount
    handed,         \* the datagram handed up last, of its fragments
    unlinked        \* a datagram was freed and left in the list

reassVars == <<reassdatagrams, pbufcount, handed, unlinked>>

ReassInit == reassdatagrams = <<>> /\ pbufcount = 0 /\ handed = [id |-> NoDatagram, chain |-> <<>>] /\ unlinked = FALSE

At(list, d) == {i \in DOMAIN list : list[i].id = d}
EntryOf(list, d) == CHOOSE i \in At(list, d) : TRUE

Held(list) ==
    LET held[i \in 0..Len(list)] == IF i = 0 THEN 0 ELSE held[i - 1] + Len(list[i].chain)
    IN  held[Len(list)]

(* ip_reass_remove_oldest_datagram: the last of those with the least timer *)
(* that are not the fragment's own.                                        *)
OldestOther(list, d) ==
    LET others == DOMAIN list \ At(list, d)
    IN  CHOOSE i \in others : \A j \in others :
            list[i].timer < list[j].timer \/ (list[i].timer = list[j].timer /\ j <= i)

(* Its prev is the last but one of the list, whichever the oldest is.      *)
Misses(list, d) == OldestOther(list, d) \notin {1, Len(list)}

(* What is left of the list when room for d was made, if there is another. *)
Room(list, d) ==
    IF DOMAIN list = At(list, d) THEN list ELSE RemoveAt(list, OldestOther(list, d))

-----------------------------------------------------------------------------
(* ip_reass_chain_frag_into_datagram_and_validate                          *)

Before(chain, f) == {i \in DOMAIN chain : chain[i].from <= f.from}
Place(chain, f)  == Cardinality(Before(chain, f)) + 1

(* Two fragments are thrown away if they overlap, but not the following    *)
(* one with a new lowest.                                                  *)
Overlaps(chain, f) ==
    LET p == Place(chain, f)
    IN  \/ \E i \in Before(chain, f) : f.from = chain[i].from \/ f.from < chain[i].to
        \/ p \in 2..Len(chain) /\ f.to > chain[p].from

Chained(chain, f) == InsertAt(chain, Place(chain, f), f)

(* No holes: between the fragments before the new one, after it, and, only *)
(* if it is the last, right before it.                                     *)
Valid(chain, f) ==
    LET p    == Place(chain, f)
        all  == Chained(chain, f)
        joins(i) == all[i].to = all[i + 1].from
    IN  /\ all[1].from = 0
        /\ \A i \in 1..(Len(all) - 1) : (i # p - 1 \/ p = Len(all)) => joins(i)

-----------------------------------------------------------------------------
Fresh(d) == [id |-> d, timer |-> ReassAge, chain |-> <<>>, last |-> FALSE]

(* Slip: a fragment that is thrown away stays counted.                     *)
Uncounted_slip(chain, f) == 0

(* freepbuf takes a fragment that is thrown away off the count.            *)
Uncounted(chain, f) == IF Overlaps(chain, f) THEN 1 ELSE 0

(* ip_reass of fragment f of datagram d. Room is made if there are too     *)
(* many pbufs, and again if a new datagram finds no entry free.            *)
Receive(d, f) ==
    LET made  == IF pbufcount + 1 > MaxPbufs THEN Room(reassdatagrams, d) ELSE reassdatagrams
        new   == At(made, d) = {}
        again == IF new /\ Len(made) >= NumReassdata THEN Room(made, d) ELSE made
        list  == IF new THEN <<Fresh(d)>> \o again ELSE again
        i     == EntryOf(list, d)
        seen  == list[i].last \/ f.last
        chain == list[i].chain
        count == pbufcount - (Held(reassdatagrams) - Held(made))
    IN  /\ ~unlinked
        /\ unlinked' = (made # reassdatagrams /\ Misses(reassdatagrams, d))
        /\ IF unlinked' THEN UNCHANGED <<reassdatagrams, pbufcount, handed>>
           ELSE IF count + 1 > MaxPbufs THEN
             reassdatagrams' = made /\ pbufcount' = count /\ UNCHANGED handed
           ELSE
             /\ LET taken == count - (Held(made) - Held(again)) + 1 - Uncounted(chain, f)
                IN  IF Overlaps(chain, f) THEN
                      /\ reassdatagrams' = [list EXCEPT ![i].last = seen]
                      /\ pbufcount' = taken /\ UNCHANGED handed
                    ELSE IF seen /\ Valid(chain, f) THEN
                      /\ reassdatagrams' = RemoveAt(list, i)
                      /\ handed' = [id |-> d, chain |-> Chained(chain, f)]
                      /\ pbufcount' = taken - Len(handed'.chain)
                    ELSE
                      /\ reassdatagrams' = [list EXCEPT ![i].last = seen, ![i].chain = Chained(chain, f)]
                      /\ pbufcount' = taken /\ UNCHANGED handed

FragmentArrives == \E d \in Datagrams : \E f \in Cuts[d] : Receive(d, f)

(* Those whose time has not run out, with a second less.                   *)
Ticked(list) ==
    LET ticked[i \in 0..Len(list)] ==
            IF i = 0 THEN <<>>
            ELSE IF list[i].timer > 0 THEN Append(ticked[i - 1], [list[i] EXCEPT !.timer = @ - 1])
            ELSE ticked[i - 1]
    IN  ticked[Len(list)]

(* ip_reass_tmr                                                            *)
ReassTmr ==
    /\ ~unlinked /\ reassdatagrams # <<>>
    /\ reassdatagrams' = Ticked(reassdatagrams)
    /\ pbufcount' = pbufcount - (Held(reassdatagrams) - Held(reassdatagrams'))
    /\ UNCHANGED <<handed, unlinked>>

ReassNext == FragmentArrives \/ ReassTmr
ReassSpec == ReassInit /\ [][ReassNext]_reassVars

-----------------------------------------------------------------------------
Joined(chain) == \A i \in 1..(Len(chain) - 1) : chain[i].to = chain[i + 1].from
Apart(chain)  == \A i \in 1..(Len(chain) - 1) : chain[i].to <= chain[i + 1].from

(* One datagram is cut one way if no two of its fragments overlap.         *)
OneCut(d) == \A f, g \in Cuts[d] : f = g \/ f.to <= g.from \/ g.to <= f.from

(* Whatever is lost, repeated, reordered and thrown away: every pbuf is    *)
(* counted, a datagram has one entry, none that is complete keeps waiting, *)
(* and one handed up runs from its first fragment to its last, in order.   *)
ReassemblySound ==
    /\ pbufcount = Held(reassdatagrams) /\ pbufcount <= MaxPbufs
    /\ Len(reassdatagrams) <= NumReassdata
    /\ \A i \in DOMAIN reassdatagrams :
          LET e == reassdatagrams[i]
          IN  /\ At(reassdatagrams, e.id) = {i} /\ e.chain # <<>>
              /\ ~(Head(e.chain).from = 0 /\ Last(e.chain).last /\ Joined(e.chain))
    /\ handed.chain # <<>> =>
          /\ Head(handed.chain).from = 0 /\ Apart(handed.chain)
          /\ OneCut(handed.id) => Last(handed.chain).last
=============================================================================
