--------------------------- MODULE MCServiceLookup ---------------------------
(***************************************************************************)
(* Two gateways and the names of the tests in src/src/app.rs: a service    *)
(* called gateway, and a logging service at a location of the same name,   *)
(* once more at another gateway, and announced anew with another node.     *)
(***************************************************************************)
EXTENDS ServiceLookup

Service(pk, gateway, names, places, nodes) ==
    [pk |-> pk, by |-> gateway, gateway |-> gateway, names |-> names \cup {pk},
     places |-> places \cup {gateway}, nodes |-> nodes]

MCDescriptors ==
    { Service("gateway-pk", "g1", {"gateway", "devgateway"}, {"devgateway"}, {"devices"}),
      Service("logging-pk", "g1", {"logging"}, {"gateway"}, {"events"}),
      Service("logging-pk", "g1", {"logging"}, {"gateway"}, {"devices"}),
      Service("other-pk", "g2", {"logging", "devices"}, {"gateway"}, {"events"}) }

MCPaths ==
    { <<"logging">>, <<"gateway", "devices">>, <<"gateway", "logging", "events">>,
      <<"g2", "logging">>, <<"gateway", "disks">> }
=============================================================================
