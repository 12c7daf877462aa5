----------------------------- MODULE MC_Startup -----------------------------
(* The life of the process with the smallest poller that still has neighbours. *)
EXTENDS Startup

Neighbours == {<<"pressure", 3>>, <<"power", 1>>}
OneSensor  == {<<"pressure", 1>>}
One        == {20}
Large      == {40000}

\* As shipped in application-dev.yaml.
Shipped == [plc4xProducer |-> TRUE, fakerProducer |-> FALSE, fakeProducer |-> FALSE, email |-> TRUE]
JustShipped == {Shipped}

\* With and without the poller, the mail, and the faker's two properties.
AllConfigs ==
  [plc4xProducer : {TRUE}, fakerProducer : {FALSE}, fakeProducer : {FALSE}, email : {TRUE}]
    \cup [plc4xProducer : {FALSE}, fakerProducer : BOOLEAN, fakeProducer : BOOLEAN, email : BOOLEAN]
=============================================================================
