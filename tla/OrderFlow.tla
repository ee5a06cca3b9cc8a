----------------------------- MODULE OrderFlow -----------------------------
(***************************************************************************)
(* Creating and reading orders: a client's HTTP requests to api-gateway,   *)
(* the gateway's fetch from order-service under an abort timer, and        *)
(* order-service's handlers, whose statements run in PostgreSQL.  Both     *)
(* processes start, close and crash as module Startup says.                *)
(*                                                                         *)
(* A statement of a handler is one step.  What a transaction has written   *)
(* is in draft until it commits; a reader assembles its answer there, from *)
(* three selects that are no transaction.  An answer reaches the gateway   *)
(* in two steps, headers and body, and the timer may fire before either.   *)
(*                                                                         *)
(* An order is named by the request that creates it: a handler inserts one *)
(* row, under a fresh random id.  The operators marked "Mutant" are        *)
(* explained in module Startup.                                            *)
(***************************************************************************)
EXTENDS OrderContract, Startup, FiniteSetsExt

CONSTANTS
    Creation,      \* POST requests to the gateway
    Query,         \* GET requests to the gateway
    Body,          \* bodies that clients post
    NoSuchOrder,   \* an id no order has
    NotAnId,       \* text that is no UUID
    Unsaid,        \* "not sent yet"
    Gateway,       \* the process api-gateway
    Orders,        \* the process order-service
    MaxInt4        \* the largest value of PostgreSQL's integer

Request == Creation \cup Query
Id      == Creation \cup {NoSuchOrder, NotAnId}
Input   == Body \cup Id \cup {Unsaid}

Post(r) == r \in Creation

ASSUME FlowAssumption ==
    /\ Gateway \in Instance /\ Service[Gateway] = "api-gateway"
    /\ Orders \in Instance /\ Service[Orders] = "order-service"
    /\ Creation \cap Query = {}
    /\ {NoSuchOrder, NotAnId} \cap Request = {} /\ NoSuchOrder # NotAnId
    /\ Body \subseteq CreateOrderRequest
    /\ MaxInt4 \in Nat

VARIABLES
    input,       \* request -> the body, or the order's id, that it carries
    gateway,     \* request -> where the gateway's route handler is
    response,    \* request -> what the client got
    handler,     \* request -> where order-service's route handler is
    reply,       \* request -> what order-service answered
    draft,       \* request -> what its handler has written or read
    orders       \* request -> what is committed of its order in three tables

flow == <<input, gateway, response, handler, reply, draft, orders>>
vars == <<flow, boot, calm>>

----------------------------------------------------------------------------
(* Rows and answers. *)

\* history: the number of rows in order_status_history.
OrderRow == [status : {"NONE", "PENDING"}, customerId : {"none"} \cup Text,
             totalAmountCents : Nat, items : Seq(Item), history : 0..1]

NoRow == [status |-> "NONE", customerId |-> "none", totalAmountCents |-> 0,
          items |-> << >>, history |-> 0]

Answer(status, body, row) == [status |-> status, body |-> body, order |-> row]

Order(status, row) == Answer(status, "order", row)
Error(status)      == Answer(status, "error", NoRow)
Nothing            == Answer(0, "none", NoRow)

Statement == {"insertOrder", "insertItems", "insertHistory", "commit",
              "readOrder", "readItems", "readHistory"}

\* unsent, sent: the request is at the gateway, in the network.  reply: the
\* answer is written to the connection.  lost: no answer will come.
HandlerPc == {"unsent", "sent", "reply", "lost"} \cup Statement

----------------------------------------------------------------------------
(* api-gateway. *)

\* Clients ask for orders they were told of, and for what is no order's id.
Queries == {NoSuchOrder, NotAnId} \cup
           {r \in Creation : response[r].body = "order"}

Respond(r, answer) ==
    /\ gateway'  = [gateway EXCEPT ![r] = "done"]
    /\ response' = [response EXCEPT ![r] = answer]

Receive(r) ==
    /\ gateway[r] = "new"
    /\ phase[Gateway] = "serving"
    /\ \E x \in IF Post(r) THEN Body ELSE Queries :
          input' = [input EXCEPT ![r] = x]
    /\ IF Post(r) /\ ~isValidCreateOrder(input'[r])
       THEN /\ Respond(r, Error(400))
            /\ UNCHANGED handler
       ELSE /\ gateway' = [gateway EXCEPT ![r] = "fetch"]
            /\ handler' = [handler EXCEPT ![r] = "sent"]
            /\ UNCHANGED response
    /\ UNCHANGED <<reply, draft, orders, boot, calm>>

\* toGatewayCreateOrderResponse leaves out the items and the history.
Public(row) == [row EXCEPT !.customerId = "none", !.items = << >>, !.history = 0]

Expected(r) == IF Post(r) THEN 201 ELSE 200

\* The route's answer to what the HTTP client returned: an order with the
\* expected status is made public, everything else keeps its status.
Relay(r, downstream) ==
    Respond(r, IF downstream.status = Expected(r) /\ downstream.body = "order"
               THEN Order(downstream.status, Public(downstream.order))
               ELSE Error(downstream.status))

ReceiveHeaders(r) ==
    /\ gateway[r] = "fetch"
    /\ handler[r] = "reply"
    /\ gateway' = [gateway EXCEPT ![r] = "body"]
    /\ UNCHANGED <<input, response, handler, reply, draft, orders, boot, calm>>

ReceiveBody(r) ==
    /\ gateway[r] = "body"
    /\ handler[r] = "reply"
    /\ Relay(r, reply[r])
    /\ UNCHANGED <<input, handler, reply, draft, orders, boot, calm>>

\* fetch rejects; or the body ends early, which is caught as "no body".
Interrupted(r, status) ==
    /\ \/ gateway[r] = "fetch" /\ Relay(r, Error(status))
       \/ gateway[r] = "body" /\ Relay(r, Answer(reply[r].status, "none", NoRow))
    /\ UNCHANGED <<input, handler, reply, draft, orders, boot, calm>>

ConnectionLost(r) ==
    /\ handler[r] = "lost"
    /\ Interrupted(r, 502)

\* An answer that will come comes in time in a calm system.
Late(r) == ~calm \/ handler[r] = "lost"

\* Mutant: the timer is cleared as soon as the headers are there.
TimerCoversHeaders(r) ==
    /\ gateway[r] = "fetch"
    /\ Late(r)
    /\ Interrupted(r, 504)

\* Mutant: an overdue order is reported like one that was not accepted.
TimerReportsUnavailable(r) ==
    /\ Late(r)
    /\ Interrupted(r, 503)

\* The abort does not reach order-service's handler, which goes on.
TimerFires(r) ==
    /\ Late(r)
    /\ Interrupted(r, 504)

----------------------------------------------------------------------------
(* order-service. *)

HandlerAt(r, pc) == handler' = [handler EXCEPT ![r] = pc]

\* The handler's work ends with an answer.
Answers(r, answer) ==
    /\ HandlerAt(r, "reply")
    /\ reply' = [reply EXCEPT ![r] = answer]
    /\ draft' = [draft EXCEPT ![r] = NoRow]

\* What the gateway forwards is the body it validated.
Forwarded(r) == validateCreateOrder(input[r])

\* Also when the gateway has given up.  A closing server answers 503.
Arrive(r) ==
    /\ handler[r] = "sent"
    /\ \/ /\ phase[Orders] = "serving"
          /\ Post(r)
          /\ IF isValidCreateOrder(Forwarded(r))
             THEN HandlerAt(r, "insertOrder") /\ UNCHANGED <<reply, draft>>
             ELSE Answers(r, Error(400))
       \/ /\ phase[Orders] = "serving"
          /\ ~Post(r)
          /\ HandlerAt(r, "readOrder")
          /\ UNCHANGED <<reply, draft>>
       \/ /\ phase[Orders] = "closing"
          /\ Answers(r, Error(503))
    /\ UNCHANGED <<input, gateway, response, orders, boot, calm>>

\* Nobody listens.
Refused(r) ==
    /\ handler[r] = "sent"
    /\ phase[Orders] \notin {"serving", "closing"}
    /\ HandlerAt(r, "lost")
    /\ UNCHANGED <<input, gateway, response, reply, draft, orders, boot, calm>>

Prepared(r) == validateCreateOrder(Forwarded(r))

Total(r) == calculateTotalAmountCents(Prepared(r).items)

\* Mutant: the statements do not run in a transaction.
WriteThrough(r, row) ==
    /\ draft'  = [draft EXCEPT ![r] = row]
    /\ orders' = [orders EXCEPT ![r] = row]

Write(r, row) ==
    /\ draft' = [draft EXCEPT ![r] = row]
    /\ UNCHANGED orders

\* Mutant: the total must be less than the largest value.
OrderRaisesAtLimit(r) == ~Migrated(Orders) \/ Total(r) >= MaxInt4

\* No tables, or a value that does not fit its column.
OrderRaises(r) == ~Migrated(Orders) \/ Total(r) > MaxInt4

InsertOrder(r) ==
    /\ handler[r] = "insertOrder"
    /\ IF OrderRaises(r)
       THEN Answers(r, Error(500)) /\ UNCHANGED orders
       ELSE /\ Write(r, [NoRow EXCEPT !.status = "PENDING",
                                      !.customerId = Prepared(r).customerId,
                                      !.totalAmountCents = Total(r)])
            /\ HandlerAt(r, "insertItems")
            /\ UNCHANGED reply
    /\ UNCHANGED <<input, gateway, response, boot, calm>>

InsertItems(r) ==
    /\ handler[r] = "insertItems"
    /\ Write(r, [draft[r] EXCEPT !.items = Prepared(r).items])
    /\ HandlerAt(r, "insertHistory")
    /\ UNCHANGED <<input, gateway, response, reply, boot, calm>>

\* Mutant: the order is answered for without a commit.
AnswerWithoutCommit(r) ==
    /\ handler[r] = "insertHistory"
    /\ Write(r, [draft[r] EXCEPT !.history = 1])
    /\ handler' = [handler EXCEPT ![r] = "reply"]
    /\ reply' = [reply EXCEPT ![r] = Order(201, draft'[r])]
    /\ UNCHANGED <<input, gateway, response, boot, calm>>

InsertHistory(r) ==
    /\ handler[r] = "insertHistory"
    /\ Write(r, [draft[r] EXCEPT !.history = 1])
    /\ HandlerAt(r, "commit")
    /\ UNCHANGED <<input, gateway, response, reply, boot, calm>>

Commit(r) ==
    /\ handler[r] = "commit"
    /\ orders' = [orders EXCEPT ![r] = draft[r]]
    /\ Answers(r, Order(201, draft[r]))
    /\ UNCHANGED <<input, gateway, response, boot, calm>>

Asked(r) == input[r]

Found(r) == Asked(r) \in Request /\ orders[Asked(r)].status # "NONE"

ReadOrder(r) ==
    /\ handler[r] = "readOrder"
    /\ IF Asked(r) = NotAnId \/ ~Migrated(Orders)
       THEN Answers(r, Error(500))
       ELSE IF ~Found(r)
       THEN Answers(r, Error(404))
       ELSE /\ draft' = [draft EXCEPT ![r] = [orders[Asked(r)] EXCEPT
                                                 !.items = << >>, !.history = 0]]
            /\ HandlerAt(r, "readItems")
            /\ UNCHANGED reply
    /\ UNCHANGED <<input, gateway, response, orders, boot, calm>>

ReadItems(r) ==
    /\ handler[r] = "readItems"
    /\ draft' = [draft EXCEPT ![r].items = orders[Asked(r)].items]
    /\ HandlerAt(r, "readHistory")
    /\ UNCHANGED <<input, gateway, response, reply, orders, boot, calm>>

ReadHistory(r) ==
    /\ handler[r] = "readHistory"
    /\ Answers(r, Order(200, [draft[r] EXCEPT
                                 !.history = orders[Asked(r)].history]))
    /\ UNCHANGED <<input, gateway, response, orders, boot, calm>>

\* A statement raises, and the transaction, if any, is rolled back; a commit
\* may have taken effect all the same.
StatementFails(r) ==
    /\ ~calm
    /\ handler[r] \in Statement
    /\ \/ UNCHANGED orders
       \/ handler[r] = "commit" /\ orders' = [orders EXCEPT ![r] = draft[r]]
    /\ Answers(r, Error(500))
    /\ UNCHANGED <<input, gateway, response, boot, calm>>

\* The connection between the two services breaks.
Disconnect(r) ==
    /\ ~calm
    /\ handler[r] \in {"sent", "reply"}
    /\ gateway[r] # "done"
    /\ HandlerAt(r, "lost")
    /\ UNCHANGED <<input, gateway, response, reply, draft, orders, boot, calm>>

----------------------------------------------------------------------------
(* The processes. *)

\* app.close waits for the requests it has accepted.
Idle(i) ==
    CASE i = Gateway -> \A r \in Request : gateway[r] \in {"new", "done"}
      [] i = Orders  -> \A r \in Request : handler[r] \notin Statement
      [] OTHER       -> TRUE

\* Mutant: a gateway that dies receives its requests again.
GatewayForgets ==
    [r \in Request |-> IF gateway[r] \in {"fetch", "body"} THEN "new" ELSE gateway[r]]

\* Clients of a gateway that dies get no answer.
GatewayDies ==
    [r \in Request |-> IF gateway[r] \in {"fetch", "body"} THEN "done" ELSE gateway[r]]

\* The transactions of an order-service that dies are rolled back.
CrashOf(i) ==
    /\ Crash(i)
    /\ gateway' = IF i = Gateway THEN GatewayDies ELSE gateway
    /\ IF i = Orders
       THEN /\ handler' = [r \in Request |->
                  IF handler[r] \in Statement THEN "lost" ELSE handler[r]]
            /\ draft' = [r \in Request |-> NoRow]
       ELSE UNCHANGED <<handler, draft>>
    /\ UNCHANGED <<input, response, reply, orders>>

----------------------------------------------------------------------------
Init ==
    /\ BootInit
    /\ input    = [r \in Request |-> Unsaid]
    /\ gateway  = [r \in Request |-> "new"]
    /\ response = [r \in Request |-> Nothing]
    /\ handler  = [r \in Request |-> "unsent"]
    /\ reply    = [r \in Request |-> Nothing]
    /\ draft    = [r \in Request |-> NoRow]
    /\ orders   = [r \in Request |-> NoRow]

\* A step of order-service's handler.
Handle(r) ==
    \/ Arrive(r)
    \/ Refused(r)
    \/ InsertOrder(r)
    \/ InsertItems(r)
    \/ InsertHistory(r)
    \/ Commit(r)
    \/ ReadOrder(r)
    \/ ReadItems(r)
    \/ ReadHistory(r)

\* A step of the gateway's handler.
Route(r) ==
    \/ Receive(r)
    \/ ReceiveHeaders(r)
    \/ ReceiveBody(r)
    \/ TimerFires(r)

Live(i) ==
    \/ Boot(i)
    \/ Idle(i) /\ Closed(i)

Next ==
    \/ \E r \in Request : \/ Handle(r)
                          \/ Route(r)
                          \/ ConnectionLost(r)
                          \/ StatementFails(r)
                          \/ Disconnect(r)
    \/ \E i \in Instance : Live(i) /\ UNCHANGED flow
    \/ \E i \in Instance : MigratedElsewhere(i) /\ UNCHANGED flow
    \/ \E i \in Instance : Close(i) /\ UNCHANGED flow
    \/ \E i \in Instance : CrashOf(i)
    \/ Stabilise /\ UNCHANGED flow

Spec == Init /\ [][Next]_vars

\* The processes run, and are started again when they have ended; answers
\* that were written arrive; faults end.  That a broken connection is noticed
\* is not assumed: this is what the timer is for.
Fairness ==
    /\ \A r \in Request : WF_vars(Handle(r)) /\ WF_vars(Route(r))
    /\ \A i \in Instance : WF_vars(Live(i) /\ UNCHANGED flow)
    /\ WF_vars(Stabilise /\ UNCHANGED flow)

FairSpec == Spec /\ Fairness

----------------------------------------------------------------------------
(* Properties. *)

AnswerType == [status : {0, 200, 201, 400, 404, 500, 502, 503, 504},
               body : {"none", "order", "error"}, order : OrderRow]

\* Every variable stays in its range, and a handler only works on what the
\* gateway has forwarded.
TypeOK ==
    /\ BootTypeOK
    /\ input    \in [Request -> Input]
    /\ gateway  \in [Request -> {"new", "fetch", "body", "done"}]
    /\ response \in [Request -> AnswerType]
    /\ handler  \in [Request -> HandlerPc]
    /\ reply    \in [Request -> AnswerType]
    /\ draft    \in [Request -> OrderRow]
    /\ orders   \in [Request -> OrderRow]
    /\ \A r \in Request : gateway[r] = "new" => handler[r] = "unsent"

Stored(r) == orders[r].status # "NONE"

Costs(body) ==
    [k \in DOMAIN body.items |-> body.items[k].quantity * body.items[k].unitPriceCents]

SumOf(f) == MapThenSumSet(LAMBDA k : f[k], DOMAIN f)

\* What both services' validation makes of a body.
Ordered(body) == validateCreateOrder(validateCreateOrder(body))

\* The code's fold over the items is the sum of their costs.
TotalIsSum(body) ==
    /\ SumOf(Costs(body)) \in Nat
    /\ calculateTotalAmountCents(body.items) = SumOf(Costs(body))

\* The order that a body describes, by its own definition: what the client
\* sent, without padding, and the sum over its items.
Described(body) ==
    [status           |-> "PENDING",
     customerId       |-> "plain",
     totalAmountCents |-> SumOf(Costs(body)),
     items            |-> [k \in DOMAIN body.items |->
                             [body.items[k] EXCEPT !.productId = "plain"]],
     history          |-> 1]

\* What is committed is the whole order the client described, with its items,
\* its first history row and a total that fits: whatever statement failed.
StoredIsWhole ==
    \A r \in Request : Stored(r) =>
        /\ Post(r)
        /\ orders[r] = Described(input[r])
        /\ orders[r].totalAmountCents <= MaxInt4

\* A client that is answered 201 has an order, even when the answer's body was
\* cut off and it reads an error; and the order it is told is the stored one.
CreatedIsStored ==
    \A r \in Creation : response[r].status = 201 =>
        /\ Stored(r)
        /\ response[r].body = "order" =>
              response[r].order = Public(orders[r])

\* 400 and 503 are final: the request has no order and no handler will store
\* one later, so that the client can safely send it again.
RefusedIsNotStored ==
    \A r \in Request : response[r].status \in {400, 503} =>
        ~Stored(r) /\ handler[r] \notin Statement \cup {"sent"}

\* A confirmed order is found, whole and unchanged, by every later read; only
\* an id that no order has is answered 404.
ReadsMatchStore ==
    \A r \in Query :
        /\ reply[r].status = 200 => reply[r].order = orders[Asked(r)]
        /\ reply[r].status = 404 => Asked(r) = NoSuchOrder

\* order-service never refuses what the gateway has validated: validation
\* accepts its own results.
ForwardedIsValid == \A r \in Request : reply[r].status # 400

\* Every request the gateway takes is answered (or the gateway crashes), also
\* when order-service stalls, dies or is cut off at any point.
EveryRequestAnswered ==
    \A r \in Request : gateway[r] # "new" ~> gateway[r] = "done"

WellConfigured(i) ==
    /\ Env[i].port \in 1..65535
    /\ \A v \in Variable : Env[i].text[v] = "valid"

\* Once the faults end every well configured process serves, whatever its
\* replicas did to the journal in the meantime.
EveryReplicaServes ==
    \A i \in Instance : WellConfigured(i) => <>[](phase[i] = "serving")

\* A valid order whose total fits is confirmed when nothing fails.  That is for
\* bodies as they are modelled: the total is the one limit of the database they
\* can meet (not texts with U+0000, or more items than one insert takes).
ValidOrderConfirmed ==
    \A r \in Creation :
        (/\ calm /\ phase[Orders] = "serving"
         /\ gateway[r] = "fetch" /\ handler[r] = "sent"
         /\ Described(input[r]).totalAmountCents <= MaxInt4)
        ~> response[r].body = "order"
============================================================================
