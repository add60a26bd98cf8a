----------------------------- MODULE PressHandler -----------------------------
(***************************************************************************)
(* services/web/src/routes/doorbell.py: POST /api/doorbell/press on the    *)
(* host.  One handler runs per request; it inserts a detection_events row  *)
(* and then publishes on openring:doorbell.  Authentication and the insert *)
(* are where a handler can be overtaken by another one, so they and the    *)
(* publish are the steps; touch_device, the snapshot RPC (which never      *)
(* raises and only fills a column) and rule matching fall between them.    *)
(***************************************************************************)
EXTENDS Naturals

CONSTANTS Slots, Press, NoRequest

VARIABLES
    request,    \* per slot: the request being handled, or NoRequest
    rows,       \* rows[p]: detection_events rows written for press p, up to Many
    published,  \* published[p]: messages published for press p, up to Many
    paired,     \* validate_device_token accepts the device's token
    redisUp     \* Redis accepts a PUBLISH

handlerVars == <<request, rows, published, paired, redisUp>>

\* Counts are kept up to "more than one".
Many == 2
OneMore(n) == IF n < Many THEN n + 1 ELSE Many

Stages == {"arrived", "stored", "202", "4xx", "500"}

HandlerTypeOK ==
    /\ request \in [Slots -> [press : Press, stage : Stages] \cup {NoRequest}]
    /\ rows \in [Press -> 0 .. Many]
    /\ published \in [Press -> 0 .. Many]
    /\ paired \in BOOLEAN
    /\ redisUp \in BOOLEAN

HandlerInit ==
    /\ request = [s \in Slots |-> NoRequest]
    /\ rows = [p \in Press |-> 0]
    /\ published = [p \in Press |-> 0]
    /\ paired = TRUE
    /\ redisUp = TRUE

At(s, stage) == request[s] # NoRequest /\ request[s].stage = stage

Reach(s, stage) == request' = [request EXCEPT ![s].stage = stage]

\* _device_from_request finds no enabled device for the token: 401.
RejectPress(s) ==
    /\ At(s, "arrived")
    /\ ~paired
    /\ Reach(s, "4xx")
    /\ UNCHANGED <<rows, published, paired, redisUp>>

\* db.insert_doorbell_event commits the row.
InsertRow(s) ==
    /\ At(s, "arrived")
    /\ paired
    /\ rows' = [rows EXCEPT ![request[s].press] = OneMore(@)]
    /\ Reach(s, "stored")
    /\ UNCHANGED <<published, paired, redisUp>>

\* sqlite3 raises (locked or full database): 500 and no row.
InsertRaises(s) ==
    /\ At(s, "arrived")
    /\ paired
    /\ Reach(s, "500")
    /\ UNCHANGED <<rows, published, paired, redisUp>>

\* Mutant: a failed publish is logged and answered with 202.
PublishSwallowsError(s) ==
    /\ At(s, "stored")
    /\ published' = IF redisUp THEN [published EXCEPT ![request[s].press] = OneMore(@)]
                               ELSE published
    /\ Reach(s, "202")
    /\ UNCHANGED <<rows, paired, redisUp>>

\* client.publish: 202 when Redis took the message; an exception of redis.asyncio
\* propagates and becomes a 500, with the row already committed.
Publish(s) ==
    /\ At(s, "stored")
    /\ IF redisUp
       THEN /\ published' = [published EXCEPT ![request[s].press] = OneMore(@)]
            /\ Reach(s, "202")
       ELSE /\ Reach(s, "500")
            /\ UNCHANGED published
    /\ UNCHANGED <<rows, paired, redisUp>>

\* One handler step.
Handle(s) == RejectPress(s) \/ InsertRow(s) \/ Publish(s)

\* The web process dies: every running handler is gone, what it wrote stays.
WebCrash ==
    /\ request' = [s \in Slots |-> NoRequest]
    /\ UNCHANGED <<rows, published, paired, redisUp>>

\* Redis stops accepting commands, and the container is restarted.
RedisFails ==
    /\ redisUp
    /\ redisUp' = FALSE
    /\ UNCHANGED <<request, rows, published, paired>>

RedisReturns ==
    /\ ~redisUp
    /\ redisUp' = TRUE
    /\ UNCHANGED <<request, rows, published, paired>>

\* An admin disables or removes the device or rotates its token; later the
\* device is paired again.
Unpair ==
    /\ paired
    /\ paired' = FALSE
    /\ UNCHANGED <<request, rows, published, redisUp>>

Pair ==
    /\ ~paired
    /\ paired' = TRUE
    /\ UNCHANGED <<request, rows, published, redisUp>>
=============================================================================
