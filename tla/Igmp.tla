-------------------------------- MODULE Igmp --------------------------------
(* Group membership (igmp.c) on the one interface, as the interface comes  *)
(* up and down (netif.c), sockets join and leave groups, a router queries  *)
(* and other hosts report.                                                 *)
EXTENDS Integers, FiniteSets

CONSTANTS
    Groups, AllSystems,  \* the groups that may be joined; 224.0.0.1
    GroupPool,           \* MEMP_NUM_IGMP_GROUP
    JoinDelay, V1Delay,  \* IGMP_JOIN_DELAYING_MEMBER_TMR, IGMP_V1_DELAYING_MEMBER_TMR
    MaxResponses,        \* response times of queries, 0 of a version 1 router
    WildTimer,           \* a time beyond all those
    MaxJoins             \* bound: joins of one group, and reports not yet looked at

ASSUME IgmpAssumption ==
    /\ AllSystems \notin Groups /\ GroupPool \in Nat \ {0}
    /\ {JoinDelay, V1Delay} \subseteq Nat \ {0, 1}
    /\ MaxResponses \subseteq Nat /\ WildTimer \in Nat

VARIABLES
    joined,   \* igmp_group_list: state, timer, last_reporter_flag and use of each group
    up, link, \* NETIF_FLAG_UP, NETIF_FLAG_LINK_UP
    joins,    \* how often each group was joined and not left
    owed      \* for each group, the time left to answer the router, 0 if nothing is owed

igmpVars == <<joined, up, link, joins, owed>>

(* netif_add calls igmp_start.                                             *)
IgmpInit ==
    /\ joined = [g \in {AllSystems} |-> [state |-> "idle", timer |-> 0, last |-> FALSE, use |-> 1]]
    /\ up = FALSE /\ link = FALSE
    /\ joins = [g \in Groups |-> 0]
    /\ owed = [g \in Groups |-> 0]

(* igmp_start_timer. For 0, which becomes 1, and 1 the remainder is by 0:  *)
(* undefined, and what the processor makes of it is any random number.     *)
Times(max) == IF max <= 1 THEN {1, WildTimer} ELSE 1..(max - 1)

(* Slip: a timer that runs is left alone.                                  *)
Restarts_slip(group, max) ==
    \/ group.state = "idle"
    \/ group.state = "delaying" /\ group.timer = 0

(* The condition of igmp_delaying_member.                                  *)
Restarts(group, max) ==
    \/ group.state = "idle"
    \/ group.state = "delaying" /\ (group.timer = 0 \/ max < group.timer)

(* igmp_delaying_member of each of some groups.                            *)
Delay(some, max) ==
    LET restarted == {g \in some : Restarts(joined[g], max)}
    IN  \E time \in [restarted -> Times(max)] :
           joined' = [g \in DOMAIN joined |->
               IF g \in restarted THEN [joined[g] EXCEPT !.state = "delaying", !.timer = time[g]]
               ELSE joined[g]]

-----------------------------------------------------------------------------
(* netif_set_up and netif_set_link_up report all groups, when both are up. *)
NetifUp ==
    /\ ~up /\ up' = TRUE
    /\ IF link THEN Delay(DOMAIN joined, JoinDelay) ELSE UNCHANGED joined
    /\ UNCHANGED <<link, joins, owed>>

LinkUp ==
    /\ ~link /\ link' = TRUE
    /\ IF up THEN Delay(DOMAIN joined, JoinDelay) ELSE UNCHANGED joined
    /\ UNCHANGED <<up, joins, owed>>

NetifDown == up /\ up' = FALSE /\ UNCHANGED <<joined, link, joins, owed>>
LinkDown  == link /\ link' = FALSE /\ UNCHANGED <<joined, up, joins, owed>>

(* igmp_send of a report                                                   *)
Reporting(groups) ==
    /\ owed' = [g \in Groups |-> IF g \in groups THEN 0 ELSE owed[g]]

(* igmp_joingroup                                                          *)
Join(g) ==
    /\ joins[g] < MaxJoins
    /\ IF g \in DOMAIN joined
       THEN /\ joined' = [joined EXCEPT ![g].use = @ + 1] /\ joins' = [joins EXCEPT ![g] = @ + 1]
            /\ UNCHANGED owed
       ELSE IF Cardinality(DOMAIN joined) = GroupPool
       THEN UNCHANGED <<joined, joins, owed>>
       ELSE /\ \E t \in Times(JoinDelay) :
                  joined' = [h \in DOMAIN joined \cup {g} |-> IF h # g THEN joined[h]
                             ELSE [state |-> "delaying", timer |-> t, last |-> TRUE, use |-> 1]]
            /\ joins' = [joins EXCEPT ![g] = @ + 1] /\ Reporting({g})
    /\ UNCHANGED <<up, link>>

(* igmp_leavegroup                                                         *)
Leave(g) ==
    /\ joins[g] > 0 /\ joins' = [joins EXCEPT ![g] = @ - 1]
    /\ IF joined[g].use <= 1
       THEN joined' = [h \in DOMAIN joined \ {g} |-> joined[h]] /\ owed' = [owed EXCEPT ![g] = 0]
       ELSE joined' = [joined EXCEPT ![g].use = @ - 1] /\ UNCHANGED owed
    /\ UNCHANGED <<up, link>>

-----------------------------------------------------------------------------
(* igmp_input                                                              *)

Sooner(t, max) == IF t = 0 \/ max < t THEN max ELSE t
Owing(groups, max) ==
    owed' = [g \in Groups |-> IF g \notin groups THEN owed[g]
                              ELSE IF max > 1 THEN Sooner(owed[g], max) ELSE 0]

GeneralQuery == \E response \in MaxResponses :
    LET max == IF response = 0 THEN V1Delay ELSE response
    IN  /\ Delay(DOMAIN joined \ {AllSystems}, max)
        /\ Owing(DOMAIN joined \ {AllSystems}, max)
        /\ UNCHANGED <<up, link, joins>>

GroupQuery == \E max \in MaxResponses, g \in DOMAIN joined \ {AllSystems} :
    /\ Delay({g}, max) /\ Owing({g}, max)
    /\ UNCHANGED <<up, link, joins>>

(* Another host's report stops ours.                                       *)
OtherReports == \E g \in DOMAIN joined \ {AllSystems} :
    /\ joined' = IF joined[g].state # "delaying" THEN joined
                 ELSE [joined EXCEPT ![g].state = "idle", ![g].timer = 0, ![g].last = FALSE]
    /\ owed' = [owed EXCEPT ![g] = 0]
    /\ UNCHANGED <<up, link, joins>>

(* igmp_tmr; a report without memory is not sent, and its flag not set.    *)
IgmpTmr ==
    LET due == {g \in DOMAIN joined : joined[g].timer = 1}
    IN  /\ \E g \in DOMAIN joined : joined[g].timer > 0
        /\ joined' = [g \in DOMAIN joined |->
               IF joined[g].timer = 0 THEN joined[g]
               ELSE [joined[g] EXCEPT !.timer = @ - 1, !.last = (@ \/ g \in due)]]
        /\ owed' = [g \in Groups |-> IF g \in due \/ owed[g] = 0 THEN 0 ELSE owed[g] - 1]
        /\ UNCHANGED <<up, link, joins>>

IgmpNext ==
    \/ NetifUp \/ LinkUp \/ NetifDown \/ LinkDown
    \/ \E g \in Groups : Join(g) \/ Leave(g)
    \/ GeneralQuery \/ GroupQuery \/ OtherReports \/ IgmpTmr

IgmpSpec == IgmpInit /\ [][IgmpNext]_igmpVars

-----------------------------------------------------------------------------
(* However queries, reports, joins and interface changes follow on one     *)
(* another: what the router asked is answered in its time, for as long as  *)
(* the group is joined, and a group is joined for as long as it is used.   *)
(* A response time of one tick or less is left out, for which the timer is *)
(* undefined.                                                              *)
QueriesAnswered ==
    /\ \A g \in Groups :
          /\ joins[g] = IF g \in DOMAIN joined THEN joined[g].use ELSE 0
          /\ owed[g] > 0 => joined[g].timer \in 1..owed[g]
    /\ Cardinality(DOMAIN joined) <= GroupPool
=============================================================================
