---------------------------- MODULE MCMqttClient ----------------------------
(* MqttClient on one or two topics and a few calls. *)
EXTENDS MqttClient

CONSTANTS door, other

(* The firmware's client, with more calls than the firmware makes, and     *)
(* with fewer of them but two topics.                                      *)
Firmware  == [qos2 |-> FALSE, cleansession |-> TRUE, keepAlive |-> FALSE, handlers |-> 4,
              qos |-> {0, 1}, reconnects |-> TRUE, calls |-> 6, sent |-> 1, faults |-> 1,
              topics |-> {door}]
TwoTopics == [Firmware EXCEPT !.calls = 4, !.topics = {door, other}]

(* One that handles QoS 2 messages sent again, and one that keeps its      *)
(* session and publishes a stored message when it connects.                *)
Qos2       == [qos2 |-> TRUE, cleansession |-> TRUE, keepAlive |-> TRUE, handlers |-> 1,
               qos |-> {2}, reconnects |-> FALSE, calls |-> 3, sent |-> 2, faults |-> 3,
               topics |-> {door}]
Persistent == [qos2 |-> TRUE, cleansession |-> FALSE, keepAlive |-> FALSE, handlers |-> 2,
               qos |-> {1, 2}, reconnects |-> TRUE, calls |-> 4, sent |-> 1, faults |-> 1,
               topics |-> {door}]

AllSetups == {Firmware, TwoTopics, Qos2, Persistent}
OffSetups == {[Qos2 EXCEPT !.qos2 = FALSE, !.keepAlive = FALSE]}
=============================================================================
