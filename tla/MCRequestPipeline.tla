-------------------------- MODULE MCRequestPipeline --------------------------
(***************************************************************************)
(* RequestPipeline for TLC: a route with guards of both kinds and two uses *)
(* of the body, an event stream, and a route with no more than a limit, so *)
(* that three hits can meet in the windows of one key.                     *)
(***************************************************************************)
EXTENDS RequestPipeline

CONSTANTS create, feed, ping

Body(schema) == [source |-> "body", schema |-> schema]

MCRouteOf ==
    [ r \in {create, feed, ping} |->
        CASE r = create ->
                [ limited |-> TRUE, sse |-> FALSE,
                  classGuards |-> <<"jwt">>, routeGuards |-> <<"custom">>,
                  params |-> <<Body(FALSE), Body(TRUE)>>,
                  contents |-> {"json", "broken json"} ]
          [] r = feed ->
                [ limited |-> TRUE, sse |-> TRUE,
                  classGuards |-> << >>, routeGuards |-> << >>, params |-> << >>,
                  contents |-> {"json"} ]
          [] r = ping ->
                [ limited |-> TRUE, sse |-> FALSE,
                  classGuards |-> << >>, routeGuards |-> << >>,
                  params |-> <<[source |-> "plain", schema |-> FALSE],
                               [source |-> "form", schema |-> FALSE]>>,
                  contents |-> {"json", "multipart"} ] ]
=============================================================================
