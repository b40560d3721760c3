-------------------------------- MODULE Dns --------------------------------
(* The resolver of lwIP (dns.c): a table of names, asked for or answered,  *)
(* whose index is the id of the query, and the threads that wait in        *)
(* netconn_gethostbyname for an entry's callback. The network loses,       *)
(* repeats and delays. A name is a sequence of labels of one length, and   *)
(* the address of a name is the name.                                      *)
EXTENDS Integers, Sequences, FiniteSets, FiniteSetsExt

CONSTANTS
    Askers, NoAsker,
    Names,
    DnsTable,       \* DNS_TABLE_SIZE
    Servers,        \* servers that are configured, of DNS_MAX_SERVERS
    DnsRetries,     \* DNS_MAX_RETRIES
    Ttls, TtlSpace, \* times to live of the records; of an u32
    SeqSpace        \* of the u8 dns_seqno

ASSUME DnsAssumption ==
    /\ {DnsTable, Servers, DnsRetries, TtlSpace, SeqSpace} \subseteq Nat \ {0}
    /\ Ttls \subseteq 0..(TtlSpace - 1)
    /\ NoAsker \notin Askers
    /\ \A n \in Names : n \in Seq({n[i] : i \in DOMAIN n})

Entries == 0..(DnsTable - 1)

VARIABLES
    dns_table,  \* name is the whole buffer: what a longer name has left is behind len
    dns_seqno,
    asker,      \* each thread: what it asks for, whether it waits, what it was given
    asked,      \* queries that were sent and may still be answered
    server      \* the one dns_pcb is connected to

dnsVars == <<dns_table, dns_seqno, asker, asked, server>>

Unused == [state |-> "unused", name |-> <<>>, len |-> 0, numdns |-> 0, tmr |-> 0, retries |-> 0,
           seqno |-> 0, ttl |-> 0, ipaddr |-> <<>>, found |-> NoAsker]

DnsInit ==
    /\ dns_table = [i \in Entries |-> Unused] /\ dns_seqno = 0
    /\ asker = [a \in Askers |-> [waits |-> FALSE, name |-> <<>>, got |-> <<>>]]
    /\ asked = {} /\ server = 0

NameOf(e) == SubSeq(e.name, 1, e.len)

(* What is kept of an entry that is flushed: the other fields are set      *)
(* before they are read.                                                   *)
Flushed(e) == [Unused EXCEPT !.name = e.name, !.len = e.len]

(* do_dns_found, and do_gethostbyname when it does not wait: the thread    *)
(* wakes with an address, or with none.                                    *)
Woken(threads, a, addr) ==
    IF a = NoAsker THEN threads ELSE [threads EXCEPT ![a].waits = FALSE, ![a].got = addr]

-----------------------------------------------------------------------------
(* dns_enqueue: the first unused entry, or the oldest that is done. The    *)
(* difference of two u8 is an int, and not positive once dns_seqno wraps.  *)
Age(i) == dns_seqno - dns_table[i].seqno
Replaceable == {i \in Entries : dns_table[i].state = "done" /\ Age(i) > 0}
OldestDone == IF Replaceable = {} THEN 0
          ELSE Min({i \in Replaceable : \A j \in Replaceable : Age(j) <= Age(i)})
FirstUnused == {i \in Entries : /\ dns_table[i].state = "unused"
                                /\ \A j \in 0..(i - 1) : dns_table[j].state # "unused"}

(* Slip: the oldest entry is not looked at again.                          *)
Usable_slip == IF FirstUnused # {} THEN FirstUnused ELSE {OldestDone}

Usable == IF FirstUnused # {} THEN FirstUnused
          ELSE {i \in {OldestDone} : dns_table[i].state = "done"}

Overwritten(old, n) == n \o SubSeq(old, Len(n) + 1, Len(old))

(* dns_gethostbyname and, without an answer in the table, dns_enqueue,     *)
(* which sends the first query if there is memory for it.                  *)
Ask(a, n) ==
    LET known == {i \in Entries : dns_table[i].state = "done" /\ NameOf(dns_table[i]) = n}
        asks  == [asker EXCEPT ![a].name = n]
    IN  /\ ~asker[a].waits
        /\ IF known # {}
           THEN /\ asker' = Woken(asks, a, dns_table[Min(known)].ipaddr)
                /\ UNCHANGED <<dns_table, dns_seqno, asked, server>>
           ELSE IF Usable = {}
           THEN asker' = Woken(asks, a, <<>>) /\ UNCHANGED <<dns_table, dns_seqno, asked, server>>
           ELSE \E i \in Usable :
                /\ asker' = [asks EXCEPT ![a].waits = TRUE, ![a].got = <<>>]
                /\ dns_table' = [dns_table EXCEPT ![i] =
                      [dns_table[i] EXCEPT
                          !.state = "asking", !.name = Overwritten(dns_table[i].name, n), !.len = Len(n),
                          !.numdns = 0, !.tmr = 1, !.retries = 0, !.seqno = dns_seqno, !.found = a]]
                /\ dns_seqno' = (dns_seqno + 1) % SeqSpace
                /\ \/ asked' = asked \cup {[id |-> i, name |-> n, from |-> 0]} /\ server' = 0
                   \/ UNCHANGED <<asked, server>>

Asks == \E a \in Askers, n \in Names : Ask(a, n)

-----------------------------------------------------------------------------
(* dns_check_entry, once a second                                          *)

Due(e) == e.state = "asking" /\ e.tmr = 1
Spent(e) == Due(e) /\ e.retries + 1 = DnsRetries
GivesUp(e) == Spent(e) /\ e.numdns + 1 >= Servers
Resends(e) == Due(e) /\ ~Spent(e)

Checked(e) ==
    IF GivesUp(e) \/ (e.state = "done" /\ e.ttl = 1)
    THEN Flushed(e)
    ELSE IF Spent(e) THEN [e EXCEPT !.numdns = @ + 1, !.tmr = 1, !.retries = 0]
    ELSE IF Due(e) THEN [e EXCEPT !.retries = @ + 1, !.tmr = e.retries + 1]
    ELSE IF e.state = "asking" THEN [e EXCEPT !.tmr = @ - 1]
    ELSE IF e.state = "done" THEN [e EXCEPT !.ttl = (@ + TtlSpace - 1) % TtlSpace]
    ELSE e

(* The queries that are sent; the last of them connects dns_pcb.           *)
DnsTmr ==
    LET sending == {i \in Entries : Resends(dns_table[i])}
        given   == {dns_table[i].found : i \in {j \in Entries : GivesUp(dns_table[j])}}
        query(i) == [id |-> i, name |-> NameOf(dns_table[i]), from |-> dns_table[i].numdns]
    IN  /\ \E i \in Entries : dns_table[i].state # "unused"
        /\ dns_table' = [i \in Entries |-> Checked(dns_table[i])]
        /\ asker' = [a \in Askers |-> IF a \in given THEN Woken(asker, a, <<>>)[a] ELSE asker[a]]
        /\ \E sent \in SUBSET sending :
              /\ asked' = asked \cup {query(i) : i \in sent}
              /\ server' = IF sent = {} THEN server ELSE dns_table[Max(sent)].numdns
        /\ UNCHANGED dns_seqno

-----------------------------------------------------------------------------
(* dns_compare_name stops with the question, and does not stop with the    *)
(* name: it goes on into what was in the buffer before.                    *)
SameName(e, question) ==
    /\ Len(question) <= Len(e.name)
    /\ SubSeq(e.name, 1, Len(question)) = question

(* dns_recv of an answer: with an address, or an error or none.            *)
DnsRecv(m) ==
    LET e == dns_table[m.id]
    IN  IF m.from # server \/ e.state # "asking" THEN UNCHANGED <<dns_table, asker>>
        ELSE \/ /\ dns_table' = [dns_table EXCEPT ![m.id] = Flushed(e)]
                /\ asker' = Woken(asker, e.found, <<>>)
             \/ /\ SameName(e, m.name)
                /\ \E ttl \in Ttls :
                      dns_table' = [dns_table EXCEPT ![m.id] =
                          [Flushed(e) EXCEPT !.state = "done", !.seqno = e.seqno, !.ttl = ttl,
                                             !.ipaddr = m.name]]
                /\ asker' = Woken(asker, e.found, m.name)

Answered == \E m \in asked :
    /\ DnsRecv(m) /\ asked' \in {asked, asked \ {m}}
    /\ UNCHANGED <<dns_seqno, server>>

DnsNext == Asks \/ DnsTmr \/ Answered
DnsSpec == DnsInit /\ [][DnsNext]_dnsVars

-----------------------------------------------------------------------------
(* A thread that waits is the one an entry for its name will call, which   *)
(* has a query out or a retry left; nobody else is called.                 *)
NobodyWaitsForNothing ==
    \A a \in Askers :
        LET its == {i \in Entries : dns_table[i].state = "asking" /\ dns_table[i].found = a}
        IN  /\ asker[a].waits <=> its # {}
            /\ Cardinality(its) <= 1
            /\ \A i \in its : /\ NameOf(dns_table[i]) = asker[a].name
                              /\ dns_table[i].tmr > 0 /\ dns_table[i].retries < DnsRetries
=============================================================================
