----------------------------- MODULE JsonMessage -----------------------------
(***************************************************************************)
(* What messageArrived of the firmware makes of a payload: parse           *)
(* (MbedJSONValue.h) over the receive buffer, which goes on behind the     *)
(* payload with what earlier packets left there, and the decision.  Text   *)
(* is a sequence of tokens; a string is the token of its contents, any     *)
(* number is "num" and anything else "junk".                               *)
(***************************************************************************)
EXTENDS Naturals, Sequences

CONSTANTS Payloads, Strings     \* payloads that may arrive; the string tokens

ASSUME MessageAssumption ==
    /\ \A p \in Payloads : p \in Seq(STRING)
    /\ Strings \cap {"{", "}", "[", "]", ":", ",", "true", "false", "null", "num", "junk"} = {}

VARIABLES
    readbuf,    \* the receive buffer of the MQTT client, from the payload on
    payload,    \* the payload in it
    lamp        \* what messageArrived did with it

messageVars == <<readbuf, payload, lamp>>

\* The token at a place; the string ends where the buffer was never written.
TokenAt(text, p) == IF p \in 1..Len(text) THEN text[p] ELSE "junk"

Value(token, next) == [ok |-> TRUE, next |-> next, value |-> token, members |-> <<>>]
Object(members, next) == [ok |-> TRUE, next |-> next, value |-> "object", members |-> members]
Failed(members) == [Object(members, 0) EXCEPT !.ok = FALSE]

\* expect(','): another member or element follows.
Separates(t) == t = ","

\* _parse, _parse_object and _parse_array from a place on: whether it
\* succeeded, the place after it, and what it made of the output: a token, and
\* the members of an object up to the first error.  (An object without any
\* stays null; elements of an array are not looked at by the firmware.)
Parsed(text) ==
    LET parse[call \in {"value", "members", "elements"} \X (1..(Len(text) + 1))] ==
        LET p == call[2]
            t == TokenAt(text, p)
            next(q) == IF q <= Len(text) + 1 THEN q ELSE Len(text) + 1
        IN  CASE call[1] = "value" ->
                 CASE t \in Strings \cup {"true", "false", "null", "num"} ->
                        Value(t, next(p + 1))
                   [] t = "{" /\ TokenAt(text, p + 1) = "}" ->
                        Value("null", next(p + 2))
                   [] t = "{" /\ TokenAt(text, p + 1) # "}" -> parse[<<"members", next(p + 1)>>]
                   [] t = "[" /\ TokenAt(text, p + 1) = "]" ->
                        Value("null", next(p + 2))
                   [] t = "[" /\ TokenAt(text, p + 1) # "]" -> parse[<<"elements", next(p + 1)>>]
                   [] OTHER -> Failed(<<>>)
              [] call[1] = "members" ->
                 IF t \notin Strings \/ TokenAt(text, p + 1) # ":" THEN Failed(<<>>)
                 ELSE LET v == parse[<<"value", next(p + 2)>>]
                          pair == <<[key |-> t, value |-> v.value]>>
                          after == TokenAt(text, v.next)
                          rest == parse[<<"members", next(v.next + 1)>>]
                      IN  CASE ~v.ok -> Failed(<<>>)
                            [] v.ok /\ Separates(after) -> [rest EXCEPT !.members = pair \o @]
                            [] v.ok /\ ~Separates(after) /\ after = "}" ->
                                 Object(pair, next(v.next + 1))
                            [] OTHER -> Failed(pair)
              [] call[1] = "elements" ->
                 LET v == parse[<<"value", p>>]
                     after == TokenAt(text, v.next)
                 IN  CASE ~v.ok -> Failed(<<>>)
                       [] v.ok /\ Separates(after) -> parse[<<"elements", next(v.next + 1)>>]
                       [] v.ok /\ ~Separates(after) /\ after = "]" ->
                            Value("array", next(v.next + 1))
                       [] OTHER -> Failed(<<>>)
    IN  parse[<<"value", 1>>]

HasMember(members, k) == \E i \in 1..Len(members) : members[i].key = k

\* operator[]: of members with one name the last was assigned.
Member(members, k) ==
    members[CHOOSE i \in 1..Len(members) :
                members[i].key = k /\ \A j \in (i + 1)..Len(members) : members[j].key # k].value

\* messageArrived.  The result of parse is not looked at.  What get<bool>
\* finds in a member that is no boolean, and get<std::string> in one that is
\* no string, is not defined.
Decisions(text) ==
    LET members == Parsed(text).members
        data == Member(members, "data")
    IN  CASE ~HasMember(members, "cmd") -> {"none"}
          [] HasMember(members, "cmd") /\ Member(members, "cmd") \notin Strings ->
                {"none", "open", "refuse", "crash"}
          [] HasMember(members, "cmd") /\ Member(members, "cmd") \in Strings \ {"accessAuthentication"} ->
                {"none"}
          [] OTHER ->
                CASE ~HasMember(members, "data") -> {"none"}
                  [] HasMember(members, "data") /\ data = "true" -> {"open"}
                  [] HasMember(members, "data") /\ data = "false" -> {"refuse"}
                  [] OTHER -> {"open", "refuse"}

MessageInit == readbuf = <<>> /\ payload = <<>> /\ lamp = "none"

\* Slip: the last byte of the packet is left unread.
MessageArrives_slip ==
    /\ payload' \in Payloads
    /\ readbuf' = SubSeq(payload', 1, Len(payload') - 1) \o SubSeq(readbuf, Len(payload'), Len(readbuf))
    /\ lamp' \in Decisions(readbuf')

\* A packet is read over what the buffer held, and delivered.
MessageArrives ==
    /\ payload' \in Payloads
    /\ readbuf' = payload' \o SubSeq(readbuf, Len(payload') + 1, Len(readbuf))
    /\ lamp' \in Decisions(readbuf')

MessageNext == MessageArrives
MessageSpec == MessageInit /\ [][MessageNext]_messageVars

-----------------------------------------------------------------------------
(* Properties *)

\* A payload that is a complete object is decided by what it says itself,
\* whatever earlier packets left behind it: parse knows no length but that of
\* a string that ends somewhere in older packets.
DecidedByPayload ==
    Parsed(payload).ok => lamp \in Decisions(payload)
=============================================================================
