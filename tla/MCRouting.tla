------------------------------- MODULE MCRouting -------------------------------
(* A server with two plugins, one registered below the other: "g" handles  *)
(* g.ping, g.log and g.log.tail, "g.blobs" handles g.blobs.put and         *)
(* g.blobs.put.part.                                                       *)
EXTENDS Routing

CONSTANT c

(* The dotted name g.blobs.put is also called with fewer elements, and two *)
(* names are not handled: one is a plugin's key, one is unknown.           *)
MCMethods == { << <<"g">>, <<"ping">> >>, << <<"g">>, <<"log">> >>,
               << <<"g">>, <<"log">>, <<"tail">> >>,
               << <<"g">>, <<"blobs">>, <<"put">> >>,
               << <<"g">>, <<"blobs">>, <<"put">>, <<"part">> >>,
               << <<"g", "blobs">>, <<"put">> >>, << <<"g", "blobs", "put">> >>,
               << <<"g">>, <<"blobs">> >>, << <<"x">> >> }

MCRoot == [k \in {<<"g">>, <<"g", "blobs">>} |-> IF Len(k) = 1 THEN "gossip" ELSE "blobs"]

MCStub ==
  [gossip |-> [k \in {<<"g", "ping">>, <<"g", "log">>, <<"g", "log", "tail">>} |->
                 IF k = <<"g", "ping">> THEN "async" ELSE "source"],
   blobs  |-> [k \in {<<"g", "blobs", "put">>, <<"g", "blobs", "put", "part">>} |->
                 IF Len(k) = 3 THEN "sink" ELSE "duplex"]]

MCManifest == { << <<"g">>, <<"ping">> >>, << <<"g">>, <<"log">> >>,
                << <<"g">>, <<"log">>, <<"tail">> >>,
                << <<"g">>, <<"blobs">>, <<"put">> >>,
                << <<"g">>, <<"blobs">>, <<"put">>, <<"part">> >> }
===============================================================================
