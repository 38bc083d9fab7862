--------------------------- MODULE MCSocketServer ---------------------------
(* Instances of SocketServer for TLC. *)
EXTENDS SocketServer, TLC

CONSTANTS c1, c2, c3

MCConn == {c1, c2, c3}

\* A client that subscribes, unsubscribes and subscribes again; one that
\* subscribes twice and unsubscribes; one that queries; two that ask for a test
\* notification; three of which one finds the server full.
MCScripts ==
    { c1 :> <<"subscribe", "unsubscribe", "subscribe">>,
      c1 :> <<"subscribe", "subscribe", "unsubscribe">>,
      c1 :> <<"query", "query">>,
      c1 :> <<"test">> @@ c2 :> <<"test">>,
      c1 :> <<>> @@ c2 :> <<>> @@ c3 :> <<>> }

\* A filter for one message and one for all.
TwoFilters == {{2}, 1..MaxPublished}
=============================================================================
