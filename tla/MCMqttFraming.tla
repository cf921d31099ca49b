---- MODULE MCMqttFraming ----
EXTENDS MqttFraming

\* Base 4: first bytes 0..7
MCType == [b \in Byte |->
  <<"other", "CONNECT", "PUBLISH", "PUBLISH", "PUBACK", "SUBSCRIBE",
    "PINGREQ", "DISCONNECT">>[b + 1]]
MCQos == [b \in Byte |-> IF b = 3 THEN 1 ELSE 0]

\* all short streams, and some that end in a bad or a long SUBSCRIBE
MCRaw ==
  UNION {[1..n -> Byte] : n \in 0..4}
    \cup {<<6, 0>> \o <<5, 4, 2>> \o t : t \in [1..4 -> {0, 1, 2}]}

Connects == {[type |-> "CONNECT", args |-> <<id>>] : id \in {<< >>, <<5, 7>>}}
Publishes ==
  {[type |-> "PUBLISH", qos |-> q, args |-> <<topic, payload, <<q>> >>] :
     q \in {0, 1}, topic \in {<< >>, <<6>>}, payload \in {<< >>, <<4, 0, 3>>}}

LongPublish ==
  [type |-> "PUBLISH", qos |-> 1, args |-> << <<6, 1>>, <<7, 0, 2>>, <<9>> >>]

MCSent == {<<c, p, LongPublish>> : c \in Connects, p \in Publishes}
====
