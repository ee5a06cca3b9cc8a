-------------------------- MODULE OrderFlow_proofs --------------------------
(***************************************************************************)
(* Proofs about the order flow, for any number of requests, bodies and     *)
(* processes: what a client is told agrees with what is stored, and what   *)
(* is stored is the order it sent.  The amounts are sums by a fold, about  *)
(* which nothing is proved here: where a theorem needs that the fold is    *)
(* the sum, TotalsAreSums says so.                                         *)
(***************************************************************************)
EXTENDS OrderFlow, Startup_proofs

----------------------------------------------------------------------------
(* Types.  An amount is what a fold returns: the sets below hold whatever  *)
(* it may be for the bodies of the model.                                  *)

Amounts == {0} \cup {calculateTotalAmountCents(Ordered(b).items) : b \in Body}
Lists   == {<< >>} \cup {Ordered(b).items : b \in Body}
Names   == {"none"} \cup {Ordered(b).customerId : b \in Body}

Rows == [status : {"NONE", "PENDING"}, customerId : Names,
         totalAmountCents : Amounts, items : Lists, history : {0, 1}]

ReplyType == [status : {0, 200, 201, 400, 404, 500, 502, 503, 504},
              body : {"none", "order", "error"}, order : Rows]

FlowTypes ==
    /\ input    \in [Request -> Input]
    /\ gateway  \in [Request -> {"new", "fetch", "body", "done"}]
    /\ response \in [Request -> ReplyType]
    /\ handler  \in [Request -> HandlerPc]
    /\ reply    \in [Request -> ReplyType]
    /\ draft    \in [Request -> Rows]
    /\ orders   \in [Request -> Rows]

----------------------------------------------------------------------------
(* Validation accepts its own results. *)

LEMMA ValidatedIsValid ==
    ASSUME NEW body \in CreateOrderRequest, isValidCreateOrder(body)
    PROVE  isValidCreateOrder(validateCreateOrder(body))
<1> DEFINE v == validateCreateOrder(body)
<1>1. /\ v.customerId = Trimmed(body.customerId) /\ v.currency = body.currency
      /\ v.items = [k \in DOMAIN body.items |->
                      [body.items[k] EXCEPT !.productId = Trimmed(@)]]
  BY DEF validateCreateOrder
<1>2. body.items \in Seq(Item) /\ DOMAIN body.items = 1..Len(body.items)
  BY DEF CreateOrderRequest
<1>3. DOMAIN v.items = DOMAIN body.items /\ Len(v.items) = Len(body.items)
  BY <1>1, <1>2
<1> HIDE DEF v
<1>4. ASSUME NEW k \in DOMAIN body.items
      PROVE  isValidItem(v.items[k])
  <2> DEFINE item == body.items[k]
  <2>1. item \in Item /\ isValidItem(item)
    BY <1>2 DEF isValidCreateOrder
  <2>2. v.items[k] = [item EXCEPT !.productId = Trimmed(item.productId)]
    BY <1>1
  <2> HIDE DEF item
  <2>3. /\ v.items[k].productId = Trimmed(item.productId)
        /\ v.items[k].quantity = item.quantity
        /\ v.items[k].unitPriceCents = item.unitPriceCents
    BY <2>1, <2>2 DEF Item
  <2> QED
    BY <2>1, <2>3 DEF isValidItem, isNonEmptyString, Trimmed
<1>5. isNonEmptyString(v.customerId)
  BY <1>1 DEF isValidCreateOrder, isNonEmptyString, Trimmed
<1> QED
  BY <1>1, <1>3, <1>4, <1>5 DEF isValidCreateOrder, v

----------------------------------------------------------------------------
(* What is known of one request. *)

Writing == {"insertOrder", "insertItems", "insertHistory", "commit"}

\* The handler has not answered.
Before(r) == handler[r] \in {"unsent", "sent"} \cup Statement

\* Of a request that is on its way, and of a handler at work.
WorkInv(r) ==
    /\ gateway[r] = "new" => handler[r] = "unsent"
    /\ gateway[r] = "body" => handler[r] \in {"reply", "lost"}
    /\ handler[r] \in Writing => Post(r)
    /\ handler[r] \in Writing \cup {"sent"} /\ Post(r) =>
          input[r] \in Body /\ isValidCreateOrder(input[r])
    /\ handler[r] \in Writing \ {"insertOrder"} => draft[r].status = "PENDING"
    /\ handler[r] \in {"readItems", "readHistory"} => Asked(r) \in Request
    /\ Before(r) => ~Stored(r) /\ reply[r].status = 0

\* Of the answer of order-service.
ReplyInv(r) ==
    /\ reply[r].status # 400
    /\ reply[r].status = 503 => ~Stored(r)
    /\ reply[r].status = 201 => /\ Stored(r)
                                /\ reply[r].body = "order"
                                /\ reply[r].order = orders[r]

\* Of what the client was told.
ClientInv(r) ==
    /\ gateway[r] # "done" => response[r].status = 0 /\ response[r].body = "none"
    /\ response[r].status \in {400, 503} => handler[r] \in {"unsent", "reply", "lost"}
                                            /\ ~Stored(r)
    /\ response[r].status = 201 => /\ Stored(r)
                                   /\ response[r].body = "order" =>
                                         response[r].order = Public(orders[r])
    /\ Post(r) /\ response[r].body = "order" => response[r].status = 201

RequestInv(r) == WorkInv(r) /\ ReplyInv(r) /\ ClientInv(r)

FlowInv == FlowTypes /\ \A r \in Request : RequestInv(r)

Same(r) ==
    /\ input'[r] = input[r] /\ gateway'[r] = gateway[r]
    /\ response'[r] = response[r] /\ handler'[r] = handler[r]
    /\ reply'[r] = reply[r] /\ draft'[r] = draft[r] /\ orders'[r] = orders[r]

LEMMA SameKeeps ==
    ASSUME NEW r \in Request, RequestInv(r), Same(r)
    PROVE  RequestInv(r)'
BY DEF RequestInv, WorkInv, ReplyInv, ClientInv, Same, Before, Stored, Post,
       Asked

\* The rows and answers that the handlers make.
LEMMA Values ==
    /\ NoRow \in Rows /\ NoRow.status = "NONE"
    /\ \A status \in {0, 200, 201, 400, 404, 500, 502, 503, 504} :
          /\ Error(status) \in ReplyType
          /\ Error(status).status = status /\ Error(status).body = "error"
    /\ Nothing \in ReplyType /\ Nothing.status = 0 /\ Nothing.body = "none"
    /\ \A row \in Rows : \A status \in {200, 201} :
          /\ Order(status, row) \in ReplyType
          /\ Order(status, row).status = status
          /\ Order(status, row).body = "order"
          /\ Order(status, row).order = row
    /\ \A row \in Rows : Public(row) \in Rows
<1>1. NoRow \in Rows /\ NoRow.status = "NONE"
  BY DEF NoRow, Rows, Names, Amounts, Lists
<1>2. \A status \in {0, 200, 201, 400, 404, 500, 502, 503, 504} :
          /\ Error(status) \in ReplyType
          /\ Error(status).status = status /\ Error(status).body = "error"
  BY <1>1 DEF Error, Answer, ReplyType
<1>3. Nothing \in ReplyType /\ Nothing.status = 0 /\ Nothing.body = "none"
  BY <1>1 DEF Nothing, Answer, ReplyType
<1>4. ASSUME NEW row \in Rows, NEW status \in {200, 201}
      PROVE  /\ Order(status, row) \in ReplyType
             /\ Order(status, row).status = status
             /\ Order(status, row).body = "order"
             /\ Order(status, row).order = row
  BY DEF Order, Answer, ReplyType
<1>5. ASSUME NEW row \in Rows
      PROVE  Public(row) \in Rows
  BY DEF Public, Rows, Names, Lists
<1> QED
  BY <1>1, <1>2, <1>3, <1>4, <1>5

\* What the gateway answers the client with.
LEMMA Relayed ==
    ASSUME FlowInv, NEW r \in Request, gateway[r] \in {"fetch", "body"},
           NEW downstream \in ReplyType, Relay(r, downstream),
           downstream.status \in {400, 503} =>
               ~Stored(r) /\ handler[r] \in {"reply", "lost"},
           downstream.status = 201 =>
               /\ Stored(r)
               /\ downstream.body = "order" => downstream.order = orders[r],
           UNCHANGED <<input, handler, reply, draft, orders>>
    PROVE  FlowInv'
<1>1. /\ gateway' = [gateway EXCEPT ![r] = "done"]
      /\ response' = [response EXCEPT ![r] =
            IF downstream.status = Expected(r) /\ downstream.body = "order"
            THEN Order(downstream.status, Public(downstream.order))
            ELSE Error(downstream.status)]
  BY DEF Relay, Respond
<1> DEFINE a == IF downstream.status = Expected(r) /\ downstream.body = "order"
                THEN Order(downstream.status, Public(downstream.order))
                ELSE Error(downstream.status)
<1>2. /\ a \in ReplyType /\ a.status = downstream.status
      /\ a.body = "order" => /\ downstream.status = Expected(r)
                             /\ downstream.body = "order"
                             /\ a.order = Public(downstream.order)
  BY Values DEF ReplyType, Expected
<1> HIDE DEF a
<1>3. /\ gateway' \in [Request -> {"new", "fetch", "body", "done"}]
      /\ response' \in [Request -> ReplyType]
      /\ gateway'[r] = "done" /\ response'[r] = a
      /\ \A q \in Request : q # r => Same(q)
  BY <1>1, <1>2 DEF FlowInv, FlowTypes, Same, a
<1>4. RequestInv(r)'
  BY <1>2, <1>3
     DEF FlowInv, RequestInv, WorkInv, ReplyInv, ClientInv, Before, Stored,
         Post, Asked, Expected
<1>5. FlowTypes'
  BY <1>3 DEF FlowInv, FlowTypes
<1> QED
  BY <1>3, <1>4, <1>5, SameKeeps DEF FlowInv

\* What it answers when there is no answer, or only the half of one.
LEMMA Cut ==
    ASSUME FlowInv, NEW r \in Request, NEW status \in {502, 504},
           Interrupted(r, status)
    PROVE  FlowInv'
<1>0. FlowTypes /\ RequestInv(r)
  BY DEF FlowInv
<1>1. UNCHANGED <<input, handler, reply, draft, orders>>
  BY DEF Interrupted
<1>2. CASE gateway[r] = "fetch" /\ Relay(r, Error(status))
  BY <1>1, <1>2, Relayed, Values
<1>3. CASE gateway[r] = "body" /\ Relay(r, Answer(reply[r].status, "none", NoRow))
  <2> DEFINE a == Answer(reply[r].status, "none", NoRow)
  <2>1. a \in ReplyType /\ a.status = reply[r].status /\ a.body = "none"
    BY <1>0, Values DEF FlowTypes, ReplyType, Answer
  <2>2. handler[r] \in {"reply", "lost"}
    BY <1>0, <1>3 DEF RequestInv, WorkInv
  <2>3. Relay(r, a)
    BY <1>3
  <2> HIDE DEF a
  <2> QED
    BY <1>0, <1>1, <1>3, <2>1, <2>2, <2>3, Relayed DEF RequestInv, ReplyInv
<1> QED
  BY <1>2, <1>3 DEF Interrupted

\* A handler ends with an answer; it may have committed an order before.
LEMMA Answered ==
    ASSUME FlowInv, NEW r \in Request, handler[r] \in {"sent"} \cup Statement,
           NEW a \in ReplyType, Answers(r, a),
           orders' \in [Request -> Rows],
           \A q \in Request : q # r => orders'[q] = orders[q],
           a.status # 400,
           a.status = 503 => orders'[r].status = "NONE",
           a.status = 201 => /\ orders'[r].status # "NONE"
                             /\ a.body = "order" /\ a.order = orders'[r],
           UNCHANGED <<input, gateway, response>>
    PROVE  FlowInv'
<1>1. /\ handler' = [handler EXCEPT ![r] = "reply"]
      /\ reply' = [reply EXCEPT ![r] = a]
      /\ draft' = [draft EXCEPT ![r] = NoRow]
  BY DEF Answers, HandlerAt
<1>2. FlowTypes'
  BY <1>1, Values DEF FlowInv, FlowTypes, HandlerPc
<1>3. \A q \in Request : q # r => Same(q)
  BY <1>1 DEF FlowInv, FlowTypes, Same
<1>4. handler'[r] = "reply" /\ reply'[r] = a
  BY <1>1 DEF FlowInv, FlowTypes
<1>5. Before(r) /\ RequestInv(r)
  BY DEF Before, FlowInv
<1>6. RequestInv(r)'
  BY <1>4, <1>5
     DEF RequestInv, WorkInv, ReplyInv, ClientInv, Before, Stored, Post,
         Asked, Statement, Writing
<1> QED
  BY <1>2, <1>3, <1>6, SameKeeps DEF FlowInv

\* A handler goes on to its next statement.
LEMMA Worked ==
    ASSUME FlowInv, NEW r \in Request, handler[r] \in {"sent"} \cup Statement,
           NEW pc \in Statement, HandlerAt(r, pc),
           draft' \in [Request -> Rows],
           \A q \in Request : q # r => draft'[q] = draft[q],
           pc \in Writing => /\ Post(r) /\ input[r] \in Body
                             /\ isValidCreateOrder(input[r]),
           pc \in Writing \ {"insertOrder"} => draft'[r].status = "PENDING",
           pc \in {"readItems", "readHistory"} => Asked(r) \in Request,
           UNCHANGED <<input, gateway, response, reply, orders>>
    PROVE  FlowInv'
<1>1. handler' = [handler EXCEPT ![r] = pc]
  BY DEF HandlerAt
<1>2. FlowTypes'
  BY <1>1 DEF FlowInv, FlowTypes, HandlerPc
<1>3. \A q \in Request : q # r => Same(q)
  BY <1>1 DEF FlowInv, FlowTypes, Same
<1>4. handler'[r] = pc
  BY <1>1 DEF FlowInv, FlowTypes
<1>5. Before(r) /\ RequestInv(r)
  BY DEF Before, FlowInv
<1>6. RequestInv(r)'
  BY <1>4, <1>5
     DEF RequestInv, WorkInv, ReplyInv, ClientInv, Before, Stored, Post,
         Asked, Statement, Writing
<1> QED
  BY <1>2, <1>3, <1>6, SameKeeps DEF FlowInv

\* A body that is in the model, once validated, is one of the rows' sources.
LEMMA PreparedRow ==
    ASSUME NEW r \in Request, input[r] \in Body
    PROVE  /\ Prepared(r).items \in Lists
           /\ Prepared(r).customerId \in Names
           /\ Total(r) \in Amounts
<1>1. Prepared(r) = Ordered(input[r])
  BY DEF Prepared, Forwarded, Ordered
<1> QED
  BY <1>1 DEF Lists, Names, Amounts, Total

\* The rows that the handlers assemble.
LEMMA NamedRow ==
    ASSUME NEW name \in Names, NEW total \in Amounts
    PROVE  LET row == [NoRow EXCEPT !.status = "PENDING", !.customerId = name,
                                    !.totalAmountCents = total]
           IN  row \in Rows /\ row.status = "PENDING"
<1> DEFINE x1 == [NoRow EXCEPT !.status = "PENDING"]
<1>1. x1 \in Rows /\ x1.status = "PENDING"
  BY Values DEF Rows
<1> DEFINE x2 == [x1 EXCEPT !.customerId = name]
<1> HIDE DEF x1
<1>2. x2 \in Rows /\ x2.status = "PENDING"
  BY <1>1 DEF Rows
<1> HIDE DEF x2
<1>3. LET row == [x2 EXCEPT !.totalAmountCents = total]
      IN  row \in Rows /\ row.status = "PENDING"
  BY <1>2 DEF Rows
<1> QED
  BY <1>3 DEF x1, x2

LEMMA StrippedRow ==
    ASSUME NEW row \in Rows
    PROVE  LET bare == [row EXCEPT !.items = << >>, !.history = 0]
           IN  /\ bare \in Rows /\ bare.status = row.status
               /\ bare.customerId = row.customerId
               /\ bare.totalAmountCents = row.totalAmountCents
<1> DEFINE x1 == [row EXCEPT !.items = << >>]
<1>1. /\ x1 \in Rows /\ x1.status = row.status /\ x1.customerId = row.customerId
      /\ x1.totalAmountCents = row.totalAmountCents
  BY DEF Rows, Lists
<1> HIDE DEF x1
<1>2. LET bare == [x1 EXCEPT !.history = 0]
      IN  /\ bare \in Rows /\ bare.status = row.status
          /\ bare.customerId = row.customerId
          /\ bare.totalAmountCents = row.totalAmountCents
  BY <1>1 DEF Rows
<1> QED
  BY <1>2 DEF x1

----------------------------------------------------------------------------
(* The steps. *)

\* Every step of order-service's handlers keeps the invariant.
LEMMA HandleStep ==
    ASSUME FlowInv, NEW r \in Request, Handle(r)
    PROVE  FlowInv'
<1>0. FlowTypes /\ RequestInv(r)
  BY DEF FlowInv
<1>1. CASE Arrive(r)
  <2>1. handler[r] = "sent" /\ UNCHANGED <<input, gateway, response, orders>>
    BY <1>1 DEF Arrive
  <2>2. ~Stored(r) /\ orders' \in [Request -> Rows]
    BY <1>0, <2>1 DEF RequestInv, WorkInv, Before, FlowTypes
  <2>3. CASE Post(r) /\ phase[Orders] = "serving"
    <3>1. input[r] \in Body /\ isValidCreateOrder(input[r])
      BY <1>0, <2>1, <2>3 DEF RequestInv, WorkInv
    <3>2. isValidCreateOrder(Forwarded(r))
      BY <3>1, ValidatedIsValid, FlowAssumption DEF Forwarded
    <3>3. HandlerAt(r, "insertOrder") /\ UNCHANGED <<reply, draft>>
      BY <1>1, <2>3, <3>2 DEF Arrive
    <3> QED
      BY <1>0, <2>1, <2>3, <3>1, <3>3, Worked DEF FlowTypes, Statement, Writing
  <2>4. CASE ~Post(r) /\ phase[Orders] = "serving"
    <3>1. HandlerAt(r, "readOrder") /\ UNCHANGED <<reply, draft>>
      BY <1>1, <2>4 DEF Arrive
    <3> QED
      BY <1>0, <2>1, <3>1, Worked DEF FlowTypes, Statement, Writing
  <2>5. CASE phase[Orders] # "serving"
    <3>1. Answers(r, Error(503))
      BY <1>1, <2>5 DEF Arrive
    <3> QED
      BY <2>1, <2>2, <3>1, Answered, Values DEF Stored
  <2> QED
    BY <2>3, <2>4, <2>5
<1>2. CASE Refused(r)
  <2>1. /\ handler[r] = "sent" /\ handler' = [handler EXCEPT ![r] = "lost"]
        /\ UNCHANGED <<input, gateway, response, reply, draft, orders>>
    BY <1>2 DEF Refused, HandlerAt
  <2>2. FlowTypes' /\ handler'[r] = "lost" /\ \A q \in Request : q # r => Same(q)
    BY <1>0, <2>1 DEF FlowTypes, HandlerPc, Same
  <2>3. RequestInv(r)'
    BY <1>0, <2>1, <2>2
       DEF RequestInv, WorkInv, ReplyInv, ClientInv, Before, Stored, Post,
           Statement, Writing
  <2> QED
    BY <2>2, <2>3, SameKeeps DEF FlowInv
<1>3. CASE InsertOrder(r)
  <2>1. handler[r] = "insertOrder" /\ UNCHANGED <<input, gateway, response>>
    BY <1>3 DEF InsertOrder
  <2>2. /\ Post(r) /\ input[r] \in Body /\ isValidCreateOrder(input[r])
    BY <1>0, <2>1 DEF RequestInv, WorkInv, Writing
  <2>3. CASE OrderRaises(r)
    <3>1. Answers(r, Error(500)) /\ UNCHANGED orders
      BY <1>3, <2>3 DEF InsertOrder
    <3> QED
      BY <1>0, <2>1, <3>1, Answered, Values DEF FlowTypes, Statement
  <2>4. CASE ~OrderRaises(r)
    <3> DEFINE row == [NoRow EXCEPT !.status = "PENDING",
                                    !.customerId = Prepared(r).customerId,
                                    !.totalAmountCents = Total(r)]
    <3>1. draft' = [draft EXCEPT ![r] = row] /\ HandlerAt(r, "insertItems")
          /\ UNCHANGED <<reply, orders>>
      BY <1>3, <2>4 DEF InsertOrder, Write
    <3>2. row \in Rows /\ row.status = "PENDING"
      BY <2>2, PreparedRow, NamedRow
    <3> HIDE DEF row
    <3> QED
      BY <1>0, <2>1, <2>2, <3>1, <3>2, Worked DEF FlowTypes, Statement, Writing
  <2> QED
    BY <2>3, <2>4
<1>4. CASE InsertItems(r)
  <2>1. /\ handler[r] = "insertItems" /\ HandlerAt(r, "insertHistory")
        /\ draft' = [draft EXCEPT ![r] =
                        [draft[r] EXCEPT !.items = Prepared(r).items]]
        /\ UNCHANGED <<input, gateway, response, reply, orders>>
    BY <1>4 DEF InsertItems, Write
  <2>2. /\ Post(r) /\ input[r] \in Body /\ isValidCreateOrder(input[r])
        /\ draft[r].status = "PENDING" /\ draft[r] \in Rows
    BY <1>0, <2>1 DEF RequestInv, WorkInv, Writing, FlowTypes
  <2> DEFINE row == [draft[r] EXCEPT !.items = Prepared(r).items]
  <2>3. row \in Rows /\ row.status = "PENDING"
    BY <2>2, PreparedRow DEF Rows
  <2>4. draft' = [draft EXCEPT ![r] = row]
    BY <2>1
  <2> HIDE DEF row
  <2> QED
    BY <1>0, <2>1, <2>2, <2>3, <2>4, Worked DEF FlowTypes, Statement, Writing
<1>5. CASE InsertHistory(r)
  <2>1. /\ handler[r] = "insertHistory" /\ HandlerAt(r, "commit")
        /\ draft' = [draft EXCEPT ![r] = [draft[r] EXCEPT !.history = 1]]
        /\ UNCHANGED <<input, gateway, response, reply, orders>>
    BY <1>5 DEF InsertHistory, Write
  <2>2. /\ Post(r) /\ input[r] \in Body /\ isValidCreateOrder(input[r])
        /\ draft[r].status = "PENDING" /\ draft[r] \in Rows
    BY <1>0, <2>1 DEF RequestInv, WorkInv, Writing, FlowTypes
  <2> DEFINE row == [draft[r] EXCEPT !.history = 1]
  <2>3. row \in Rows /\ row.status = "PENDING"
    BY <2>2 DEF Rows
  <2>4. draft' = [draft EXCEPT ![r] = row]
    BY <2>1
  <2> HIDE DEF row
  <2> QED
    BY <1>0, <2>1, <2>2, <2>3, <2>4, Worked DEF FlowTypes, Statement, Writing
<1>6. CASE Commit(r)
  <2>1. /\ handler[r] = "commit" /\ Answers(r, Order(201, draft[r]))
        /\ orders' = [orders EXCEPT ![r] = draft[r]]
        /\ UNCHANGED <<input, gateway, response>>
    BY <1>6 DEF Commit
  <2>2. draft[r].status = "PENDING" /\ draft[r] \in Rows
    BY <1>0, <2>1 DEF RequestInv, WorkInv, Writing, FlowTypes
  <2>3. orders' \in [Request -> Rows] /\ orders'[r] = draft[r]
        /\ \A q \in Request : q # r => orders'[q] = orders[q]
    BY <1>0, <2>1, <2>2 DEF FlowTypes
  <2> QED
    BY <2>1, <2>2, <2>3, Answered, Values DEF Statement
<1>7. CASE ReadOrder(r)
  <2>1. handler[r] = "readOrder" /\ UNCHANGED <<input, gateway, response, orders>>
    BY <1>7 DEF ReadOrder
  <2>2. CASE Answers(r, Error(500)) \/ Answers(r, Error(404))
    BY <1>0, <2>1, <2>2, Answered, Values DEF FlowTypes, Statement
  <2>3. CASE Found(r) /\ HandlerAt(r, "readItems")
    <3> DEFINE row == [orders[Asked(r)] EXCEPT !.items = << >>, !.history = 0]
    <3>1. draft' = [draft EXCEPT ![r] = row] /\ UNCHANGED reply
      BY <1>0, <1>7, <2>3 DEF ReadOrder, Answers, HandlerAt, FlowTypes
    <3>2. Asked(r) \in Request /\ row \in Rows
      BY <1>0, <2>3, StrippedRow DEF Found, FlowTypes
    <3> HIDE DEF row
    <3> QED
      BY <1>0, <2>1, <2>3, <3>1, <3>2, Worked DEF FlowTypes, Statement, Writing
  <2> QED
    BY <1>7, <2>2, <2>3 DEF ReadOrder
<1>8. CASE ReadItems(r)
  <2>1. /\ handler[r] = "readItems" /\ HandlerAt(r, "readHistory")
        /\ draft' = [draft EXCEPT ![r] =
                        [draft[r] EXCEPT !.items = orders[Asked(r)].items]]
        /\ UNCHANGED <<input, gateway, response, reply, orders>>
    BY <1>8 DEF ReadItems
  <2>2. Asked(r) \in Request /\ draft[r] \in Rows /\ orders[Asked(r)] \in Rows
    BY <1>0, <2>1 DEF RequestInv, WorkInv, FlowTypes
  <2> DEFINE row == [draft[r] EXCEPT !.items = orders[Asked(r)].items]
  <2>3. row \in Rows
    BY <2>2 DEF Rows
  <2>4. draft' = [draft EXCEPT ![r] = row]
    BY <2>1
  <2> HIDE DEF row
  <2> QED
    BY <1>0, <2>1, <2>2, <2>3, <2>4, Worked DEF FlowTypes, Statement, Writing
<1>9. CASE ReadHistory(r)
  <2> DEFINE row == [draft[r] EXCEPT !.history = orders[Asked(r)].history]
  <2>1. /\ handler[r] = "readHistory" /\ Answers(r, Order(200, row))
        /\ UNCHANGED <<input, gateway, response, orders>>
    BY <1>9 DEF ReadHistory
  <2>2. Asked(r) \in Request /\ draft[r] \in Rows /\ orders[Asked(r)] \in Rows
    BY <1>0, <2>1 DEF RequestInv, WorkInv, FlowTypes
  <2>3. row \in Rows
    BY <2>2 DEF Rows
  <2> HIDE DEF row
  <2> QED
    BY <1>0, <2>1, <2>3, Answered, Values DEF FlowTypes, Statement
<1> QED
  BY <1>1, <1>2, <1>3, <1>4, <1>5, <1>6, <1>7, <1>8, <1>9 DEF Handle

\* So does every step of the gateway's.
LEMMA RouteStep ==
    ASSUME FlowInv, NEW r \in Request, Route(r)
    PROVE  FlowInv'
<1>0. FlowTypes /\ RequestInv(r)
  BY DEF FlowInv
<1>1. CASE Receive(r)
  <2>1. /\ gateway[r] = "new" /\ handler[r] = "unsent"
        /\ UNCHANGED <<reply, draft, orders>>
    BY <1>0, <1>1 DEF Receive, RequestInv, WorkInv
  <2>2. PICK x \in IF Post(r) THEN Body ELSE Queries :
           input' = [input EXCEPT ![r] = x]
    BY <1>1 DEF Receive
  <2>3. x \in Input /\ (Post(r) => x \in Body)
    BY <2>2 DEF Queries, Input, Id
  <2>4. /\ input' \in [Request -> Input] /\ input'[r] = x
        /\ \A q \in Request : q # r => input'[q] = input[q]
    BY <1>0, <2>2, <2>3 DEF FlowTypes
  <2>5. CASE Post(r) /\ ~isValidCreateOrder(x)
    <3>1. /\ gateway' = [gateway EXCEPT ![r] = "done"]
          /\ response' = [response EXCEPT ![r] = Error(400)]
          /\ UNCHANGED handler
      BY <1>1, <2>4, <2>5 DEF Receive, Respond
    <3>2. FlowTypes' /\ \A q \in Request : q # r => Same(q)
      BY <1>0, <2>1, <2>4, <3>1, Values DEF FlowTypes, Same
    <3>3. /\ gateway'[r] = "done" /\ handler'[r] = "unsent"
          /\ response'[r] = Error(400)
      BY <1>0, <2>1, <3>1 DEF FlowTypes
    <3>4. RequestInv(r)'
      BY <1>0, <2>1, <3>3, Values
         DEF RequestInv, WorkInv, ReplyInv, ClientInv, Before, Stored, Post,
             Asked, Statement, Writing
    <3> QED
      BY <3>2, <3>4, SameKeeps DEF FlowInv
  <2>6. CASE ~(Post(r) /\ ~isValidCreateOrder(x))
    <3>1. /\ gateway' = [gateway EXCEPT ![r] = "fetch"]
          /\ handler' = [handler EXCEPT ![r] = "sent"]
          /\ UNCHANGED response
      BY <1>1, <2>4, <2>6 DEF Receive
    <3>2. FlowTypes' /\ \A q \in Request : q # r => Same(q)
      BY <1>0, <2>1, <2>4, <3>1 DEF FlowTypes, Same, HandlerPc
    <3>3. gateway'[r] = "fetch" /\ handler'[r] = "sent"
      BY <1>0, <3>1 DEF FlowTypes
    <3>4. RequestInv(r)'
      BY <1>0, <2>1, <2>3, <2>4, <2>6, <3>1, <3>3
         DEF RequestInv, WorkInv, ReplyInv, ClientInv, Before, Stored, Post,
             Asked, Statement, Writing
    <3> QED
      BY <3>2, <3>4, SameKeeps DEF FlowInv
  <2> QED
    BY <2>5, <2>6
<1>2. CASE ReceiveHeaders(r)
  <2>1. /\ gateway[r] = "fetch" /\ handler[r] = "reply"
        /\ gateway' = [gateway EXCEPT ![r] = "body"]
        /\ UNCHANGED <<input, response, handler, reply, draft, orders>>
    BY <1>2 DEF ReceiveHeaders
  <2>2. /\ FlowTypes' /\ gateway'[r] = "body"
        /\ \A q \in Request : q # r => Same(q)
    BY <1>0, <2>1 DEF FlowTypes, Same
  <2>3. RequestInv(r)'
    BY <1>0, <2>1, <2>2
       DEF RequestInv, WorkInv, ReplyInv, ClientInv, Before, Stored, Post,
           Asked, Statement, Writing
  <2> QED
    BY <2>2, <2>3, SameKeeps DEF FlowInv
<1>3. CASE ReceiveBody(r)
  <2>1. /\ gateway[r] = "body" /\ handler[r] = "reply" /\ Relay(r, reply[r])
        /\ UNCHANGED <<input, handler, reply, draft, orders>>
    BY <1>3 DEF ReceiveBody
  <2>2. reply[r] \in ReplyType
    BY <1>0 DEF FlowTypes
  <2> QED
    BY <1>0, <2>1, <2>2, Relayed DEF RequestInv, ReplyInv
<1>4. CASE TimerFires(r)
  BY <1>4, Cut DEF TimerFires
<1> QED
  BY <1>1, <1>2, <1>3, <1>4 DEF Route

\* A failure of one request's statement or connection.
LEMMA FaultStep ==
    ASSUME FlowInv, NEW r \in Request,
           ConnectionLost(r) \/ StatementFails(r) \/ Disconnect(r)
    PROVE  FlowInv'
<1>0. FlowTypes /\ RequestInv(r)
  BY DEF FlowInv
<1>1. CASE ConnectionLost(r)
  BY <1>1, Cut DEF ConnectionLost
<1>2. CASE StatementFails(r)
  <2>1. /\ handler[r] \in Statement /\ Answers(r, Error(500))
        /\ UNCHANGED <<input, gateway, response>>
    BY <1>2 DEF StatementFails
  <2>2. /\ orders' \in [Request -> Rows]
        /\ \A q \in Request : q # r => orders'[q] = orders[q]
    BY <1>0, <1>2 DEF StatementFails, FlowTypes
  <2> QED
    BY <2>1, <2>2, Answered, Values
<1>3. CASE Disconnect(r)
  <2>1. /\ handler[r] \in {"sent", "reply"} /\ handler' = [handler EXCEPT ![r] = "lost"]
        /\ UNCHANGED <<input, gateway, response, reply, draft, orders>>
    BY <1>3 DEF Disconnect, HandlerAt
  <2>2. FlowTypes' /\ handler'[r] = "lost" /\ \A q \in Request : q # r => Same(q)
    BY <1>0, <2>1 DEF FlowTypes, HandlerPc, Same
  <2>3. RequestInv(r)'
    BY <1>0, <2>1, <2>2
       DEF RequestInv, WorkInv, ReplyInv, ClientInv, Before, Stored, Post,
           Asked, Statement, Writing
  <2> QED
    BY <2>2, <2>3, SameKeeps DEF FlowInv
<1> QED
  BY <1>1, <1>2, <1>3

\* A process dies, and with it the requests it was working on.
LEMMA CrashStep ==
    ASSUME FlowInv, NEW i \in Instance, CrashOf(i)
    PROVE  FlowInv'
<1>0. FlowTypes
  BY DEF FlowInv
<1>1. /\ gateway' \in {gateway, GatewayDies}
      /\ \/ UNCHANGED <<handler, draft>>
         \/ /\ handler' = [r \in Request |->
                  IF handler[r] \in Statement THEN "lost" ELSE handler[r]]
            /\ draft' = [r \in Request |-> NoRow]
      /\ UNCHANGED <<input, response, reply, orders>>
  BY DEF CrashOf
<1>2. FlowTypes'
  BY <1>0, <1>1, Values DEF FlowTypes, GatewayDies, HandlerPc
<1>3. ASSUME NEW r \in Request
      PROVE  RequestInv(r)'
  <2>1. RequestInv(r)
    BY DEF FlowInv
  <2>2. \/ gateway'[r] = gateway[r]
        \/ gateway[r] \in {"fetch", "body"} /\ gateway'[r] = "done"
    BY <1>0, <1>1 DEF FlowTypes, GatewayDies
  <2>3. \/ handler'[r] = handler[r] /\ draft'[r] = draft[r]
        \/ /\ handler'[r] = IF handler[r] \in Statement THEN "lost" ELSE handler[r]
           /\ draft'[r] = NoRow
    BY <1>0, <1>1 DEF FlowTypes
  <2> QED
    BY <1>0, <1>1, <2>1, <2>2, <2>3
       DEF FlowTypes, RequestInv, WorkInv, ReplyInv, ClientInv, Before, Stored,
           Post, Asked, Statement, Writing, HandlerPc
<1> QED
  BY <1>2, <1>3 DEF FlowInv

LEMMA FlowInvIsInvariant == Spec => []FlowInv
<1>1. Init => FlowInv
  BY Values
     DEF Init, FlowInv, FlowTypes, RequestInv, WorkInv, ReplyInv, ClientInv,
         Before, Stored, Input, HandlerPc, Statement, Writing
<1>2. FlowInv /\ [Next]_vars => FlowInv'
  <2> SUFFICES ASSUME FlowInv, [Next]_vars
               PROVE  FlowInv'
    OBVIOUS
  <2>1. ASSUME NEW r \in Request, Handle(r)
        PROVE  FlowInv'
    BY <2>1, HandleStep
  <2>2. ASSUME NEW r \in Request, Route(r)
        PROVE  FlowInv'
    BY <2>2, RouteStep
  <2>3. ASSUME NEW r \in Request,
               ConnectionLost(r) \/ StatementFails(r) \/ Disconnect(r)
        PROVE  FlowInv'
    BY <2>3, FaultStep
  <2>4. ASSUME NEW i \in Instance, CrashOf(i)
        PROVE  FlowInv'
    BY <2>4, CrashStep
  <2>5. ASSUME UNCHANGED flow
        PROVE  FlowInv'
    <3>1. FlowTypes' /\ \A r \in Request : Same(r)
      BY <2>5 DEF flow, FlowInv, FlowTypes, Same
    <3> QED
      BY <3>1, SameKeeps DEF FlowInv
  <2> QED
    BY <2>1, <2>2, <2>3, <2>4, <2>5 DEF Next, vars
<1> QED
  BY <1>1, <1>2, PTL DEF Spec

----------------------------------------------------------------------------
(* What a client is told. *)

\* Whoever is answered 201 has an order, also when the gateway's answer is an
\* error for want of the body; the order it is told of is the stored one.
THEOREM ConfirmedOrdersExist == Spec => []CreatedIsStored
<1>1. FlowInv => CreatedIsStored
  BY DEF FlowInv, RequestInv, ClientInv, CreatedIsStored, Request
<1> QED
  BY <1>1, FlowInvIsInvariant, PTL

\* Whoever is answered 400 or 503 has no order and will get none: no handler
\* of that request is at work or to come.
THEOREM RefusalsAreFinal == Spec => []RefusedIsNotStored
<1>1. FlowInv => RefusedIsNotStored
  BY DEF FlowInv, RequestInv, ClientInv, RefusedIsNotStored, Statement
<1> QED
  BY <1>1, FlowInvIsInvariant, PTL

\* order-service's validation never refuses what the gateway's has passed on.
THEOREM GatewayValidates == Spec => []ForwardedIsValid
<1>1. FlowInv => ForwardedIsValid
  BY DEF FlowInv, RequestInv, ReplyInv, ForwardedIsValid
<1> QED
  BY <1>1, FlowInvIsInvariant, PTL

----------------------------------------------------------------------------
(* What is read.  A stored order never changes, so that the three selects  *)
(* of a reader see one order although they are no transaction.             *)

\* The draft holds row, but for its items and its history.
Heads(r, row) == /\ draft[r].status = row.status
                 /\ draft[r].customerId = row.customerId
                 /\ draft[r].totalAmountCents = row.totalAmountCents

Asking(r) ==
    \/ Asked(r) \in {NoSuchOrder, NotAnId}
    \/ Asked(r) \in Request /\ Stored(Asked(r))

ReadInv(r) ==
    /\ handler[r] # "unsent" => Asking(r)
    /\ handler[r] \in {"readItems", "readHistory"} =>
          Found(r) /\ Heads(r, orders[Asked(r)])
    /\ handler[r] = "readHistory" => draft[r].items = orders[Asked(r)].items
    /\ Before(r) => reply[r].status = 0
    /\ reply[r].status = 200 => Found(r) /\ reply[r].order = orders[Asked(r)]
    /\ reply[r].status = 404 => Asked(r) = NoSuchOrder

Frozen == \A q \in Request : Stored(q) => orders'[q] = orders[q]

LEMMA StoredIsFrozen ==
    ASSUME FlowInv, [Next]_vars
    PROVE  Frozen
<1>0. FlowTypes /\ \A q \in Request : RequestInv(q)
  BY DEF FlowInv
<1>1. ASSUME NEW q \in Request, NEW row,
             Before(q), orders' = [orders EXCEPT ![q] = row]
      PROVE  Frozen
  BY <1>0, <1>1 DEF RequestInv, WorkInv, FlowTypes, Frozen
<1>2. ASSUME UNCHANGED orders
      PROVE  Frozen
  BY <1>2 DEF Frozen
<1>3. ASSUME NEW q \in Request, Handle(q)
      PROVE  Frozen
  <2>1. CASE Commit(q)
    BY <1>1, <2>1 DEF Commit, Before, Statement
  <2> QED
    BY <1>2, <1>3, <2>1
       DEF Handle, Arrive, Refused, InsertOrder, Write, InsertItems,
           InsertHistory, ReadOrder, ReadItems, ReadHistory
<1>4. ASSUME NEW q \in Request, StatementFails(q)
      PROVE  Frozen
  BY <1>1, <1>2, <1>4 DEF StatementFails, Before, Statement
<1>5. ASSUME NEW q \in Request, Route(q) \/ ConnectionLost(q) \/ Disconnect(q)
      PROVE  Frozen
  BY <1>2, <1>5
     DEF Route, Receive, ReceiveHeaders, ReceiveBody, TimerFires, ConnectionLost,
         Interrupted, Disconnect
<1>6. ASSUME NEW i \in Instance, CrashOf(i)
      PROVE  Frozen
  BY <1>2, <1>6 DEF CrashOf
<1>7. UNCHANGED flow => Frozen
  BY <1>2 DEF flow
<1> QED
  BY <1>3, <1>4, <1>5, <1>6, <1>7 DEF Next, vars

\* What a request's handlers do is no other request's business.
LEMMA OthersStep ==
    ASSUME FlowTypes, NEW r \in Request, NEW q \in Request, q # r,
           \/ Handle(q) \/ Route(q) \/ ConnectionLost(q)
           \/ StatementFails(q) \/ Disconnect(q)
    PROVE  /\ input'[r] = input[r] /\ handler'[r] = handler[r]
           /\ draft'[r] = draft[r] /\ reply'[r] = reply[r]
           /\ orders'[r] = orders[r]
<1>1. CASE Handle(q)
  BY <1>1 DEF Handle, Arrive, Refused, InsertOrder, InsertItems, InsertHistory,
              Commit, ReadOrder, ReadItems, ReadHistory, Write, Answers,
              HandlerAt, FlowTypes
<1>2. CASE Route(q)
  BY <1>2 DEF Route, Receive, ReceiveHeaders, ReceiveBody, TimerFires,
              Interrupted, FlowTypes
<1>3. CASE ConnectionLost(q) \/ StatementFails(q) \/ Disconnect(q)
  BY <1>3 DEF ConnectionLost, Interrupted, StatementFails, Disconnect, Answers,
              HandlerAt, FlowTypes
<1> QED
  BY <1>1, <1>2, <1>3

\* Rows are equal that agree in all columns.
LEMMA SameRow ==
    ASSUME NEW x \in Rows, NEW y \in Rows,
           x.status = y.status, x.customerId = y.customerId,
           x.totalAmountCents = y.totalAmountCents,
           x.items = y.items, x.history = y.history
    PROVE  x = y
BY DEF Rows

\* Steps of others.
LEMMA SameReads ==
    ASSUME FlowInv, Frozen, NEW r \in Query, ReadInv(r),
           input'[r] = input[r], handler'[r] = handler[r],
           draft'[r] = draft[r], reply'[r] = reply[r]
    PROVE  ReadInv(r)'
<1>1. Asking(r) /\ Asked(r) \in Request => Stored(Asked(r))
  BY FlowAssumption DEF Asking, Request
<1>2. Asked(r)' = Asked(r)
  BY DEF Asked
<1>3. Asking(r) => Asking(r)'
  BY <1>1, <1>2 DEF Asking, Frozen, Stored
<1>4. Found(r) => Found(r)' /\ orders'[Asked(r)] = orders[Asked(r)]
  BY <1>2 DEF Found, Frozen, Stored
<1> QED
  BY <1>2, <1>3, <1>4 DEF ReadInv, Heads, Before

\* Its handler has ended without an answer, or with one that says nothing.
LEMMA NothingRead ==
    ASSUME FlowInv, Frozen, NEW r \in Query, ReadInv(r),
           handler[r] # "unsent", input'[r] = input[r],
           \/ handler'[r] = "lost" /\ reply'[r] = reply[r]
           \/ handler'[r] = "readOrder" /\ reply'[r] = reply[r] /\ Before(r)
           \/ handler'[r] = "reply" /\ reply'[r].status \notin {200, 404}
    PROVE  ReadInv(r)'
<1>1. Asking(r) /\ Asked(r)' = Asked(r)
  BY DEF ReadInv, Asked
<1>3. Asking(r)'
  BY <1>1 DEF Asking, Frozen, Stored
<1>4. Found(r) => Found(r)' /\ orders'[Asked(r)] = orders[Asked(r)]
  BY <1>1 DEF Found, Frozen, Stored
<1> QED
  BY <1>1, <1>3, <1>4 DEF ReadInv, Heads, Before, Statement

LEMMA HandleReads ==
    ASSUME FlowInv, FlowInv', Frozen, NEW r \in Query, ReadInv(r), Handle(r)
    PROVE  ReadInv(r)'
<1>0. /\ FlowTypes /\ FlowTypes' /\ r \in Request /\ RequestInv(r) /\ ~Post(r)
      /\ handler[r] \notin Writing
  BY FlowAssumption DEF FlowInv, Request, Post, RequestInv, WorkInv
<1>1. CASE Arrive(r)
  <2>1. handler[r] = "sent" /\ UNCHANGED input /\ Before(r)
    BY <1>1 DEF Arrive, Before
  <2>2. CASE HandlerAt(r, "readOrder") /\ UNCHANGED <<reply, draft>>
    <3>1. handler'[r] = "readOrder"
      BY <1>0, <2>2 DEF HandlerAt, FlowTypes
    <3> QED
      BY <2>1, <2>2, <3>1, NothingRead
  <2>3. CASE Answers(r, Error(503))
    <3>1. handler'[r] = "reply" /\ reply'[r].status = 503
      BY <1>0, <2>3, Values DEF Answers, HandlerAt, FlowTypes
    <3> QED
      BY <2>1, <3>1, NothingRead
  <2> QED
    BY <1>0, <1>1, <2>2, <2>3 DEF Arrive
<1>2. CASE Refused(r)
  <2>1. /\ handler[r] = "sent" /\ handler'[r] = "lost" /\ UNCHANGED <<input, reply>>
    BY <1>0, <1>2 DEF Refused, HandlerAt, FlowTypes
  <2> QED
    BY <2>1, NothingRead
<1>3. CASE ReadOrder(r)
  <2>1. /\ handler[r] = "readOrder" /\ UNCHANGED <<input, orders>>
        /\ Asking(r) /\ Asking(r)' /\ Asked(r)' = Asked(r)
    BY <1>3 DEF ReadOrder, ReadInv, Asking, Asked, Stored
  <2>2. CASE Answers(r, Error(500))
    <3>1. handler'[r] = "reply" /\ reply'[r].status = 500
      BY <1>0, <2>2, Values DEF Answers, HandlerAt, FlowTypes
    <3> QED
      BY <2>1, <3>1, NothingRead
  <2>3. CASE Answers(r, Error(404)) /\ ~Found(r) /\ Asked(r) # NotAnId
    <3>1. /\ handler'[r] = "reply" /\ reply'[r].status = 404
      BY <1>0, <2>3, Values DEF Answers, HandlerAt, FlowTypes
    <3>2. Asked(r) = NoSuchOrder
      BY <2>1, <2>3 DEF Asking, Found, Stored
    <3> QED
      BY <2>1, <3>1, <3>2 DEF ReadInv, Before, Statement
  <2>4. CASE /\ Found(r) /\ HandlerAt(r, "readItems") /\ UNCHANGED reply
             /\ draft' = [draft EXCEPT ![r] = [orders[Asked(r)] EXCEPT
                                                 !.items = << >>, !.history = 0]]
    <3> DEFINE row == [orders[Asked(r)] EXCEPT !.items = << >>, !.history = 0]
    <3>1. /\ handler'[r] = "readItems" /\ draft'[r] = row
          /\ orders[Asked(r)] \in Rows
      BY <1>0, <2>4 DEF HandlerAt, FlowTypes, Found
    <3>2. /\ row.status = orders[Asked(r)].status
          /\ row.customerId = orders[Asked(r)].customerId
          /\ row.totalAmountCents = orders[Asked(r)].totalAmountCents
      BY <3>1, StrippedRow
    <3>3. Found(r)' /\ orders'[Asked(r)'] = orders[Asked(r)]
      BY <2>1, <2>4 DEF Found
    <3>4. reply'[r].status = 0
      BY <2>1, <2>4 DEF ReadInv, Before, Statement
    <3> HIDE DEF row
    <3> QED
      BY <2>1, <3>1, <3>2, <3>3, <3>4 DEF ReadInv, Heads, Before, Statement
  <2> QED
    BY <1>3, <2>2, <2>3, <2>4 DEF ReadOrder
<1>4. CASE ReadItems(r)
  <2> DEFINE row == [draft[r] EXCEPT !.items = orders[Asked(r)].items]
  <2>1. /\ handler[r] = "readItems" /\ handler'[r] = "readHistory"
        /\ UNCHANGED <<input, reply, orders>>
        /\ draft'[r] = row
    BY <1>0, <1>4 DEF ReadItems, HandlerAt, FlowTypes
  <2>2. /\ Asking(r)' /\ Asked(r)' = Asked(r) /\ Found(r) /\ Found(r)'
        /\ Heads(r, orders[Asked(r)]) /\ draft[r] \in Rows
    BY <1>0, <2>1 DEF ReadInv, Asking, Asked, Stored, Found, FlowTypes
  <2>3. /\ row.status = draft[r].status /\ row.customerId = draft[r].customerId
        /\ row.totalAmountCents = draft[r].totalAmountCents
        /\ row.items = orders[Asked(r)].items
    BY <2>2 DEF Rows
  <2>4. reply'[r].status = 0
    BY <2>1 DEF ReadInv, Before, Statement
  <2> HIDE DEF row
  <2> QED
    BY <2>1, <2>2, <2>3, <2>4 DEF ReadInv, Heads, Before, Statement
<1>5. CASE ReadHistory(r)
  <2> DEFINE row == [draft[r] EXCEPT !.history = orders[Asked(r)].history]
  <2>1. /\ handler[r] = "readHistory" /\ handler'[r] = "reply"
        /\ UNCHANGED <<input, orders>> /\ reply'[r] = Order(200, row)
    BY <1>0, <1>5 DEF ReadHistory, Answers, HandlerAt, FlowTypes
  <2>2. /\ Asking(r)' /\ Asked(r)' = Asked(r) /\ Found(r) /\ Found(r)'
        /\ Heads(r, orders[Asked(r)]) /\ draft[r].items = orders[Asked(r)].items
        /\ draft[r] \in Rows /\ orders[Asked(r)] \in Rows
    BY <1>0, <2>1 DEF ReadInv, Asking, Asked, Stored, Found, FlowTypes
  <2>3. row \in Rows
    BY <2>2 DEF Rows
  <2>4. row = orders[Asked(r)]
    <3>1. /\ row.status = draft[r].status /\ row.customerId = draft[r].customerId
          /\ row.totalAmountCents = draft[r].totalAmountCents
          /\ row.items = draft[r].items /\ row.history = orders[Asked(r)].history
      BY <2>2 DEF Rows
    <3> HIDE DEF row
    <3> QED
      BY <2>2, <2>3, <3>1, SameRow DEF Heads
  <2> HIDE DEF row
  <2>5. reply'[r].status = 200 /\ reply'[r].order = orders[Asked(r)]
    BY <2>1, <2>3, <2>4, Values
  <2> QED
    BY <2>1, <2>2, <2>5 DEF ReadInv, Before, Statement
<1> QED
  BY <1>0, <1>1, <1>2, <1>3, <1>4, <1>5
     DEF Handle, InsertOrder, InsertItems, InsertHistory, Commit, Writing

LEMMA ReadInvIsInvariant == Spec => [](\A r \in Query : ReadInv(r))
<1>1. Init => \A r \in Query : ReadInv(r)
  BY Values DEF Init, ReadInv, Request, Before, Statement
<1>2. /\ FlowInv /\ FlowInv' /\ (\A r \in Query : ReadInv(r)) /\ [Next]_vars
      => (\A r \in Query : ReadInv(r))'
  <2> SUFFICES ASSUME FlowInv, FlowInv', [Next]_vars, NEW r \in Query, ReadInv(r)
               PROVE  ReadInv(r)'
    OBVIOUS
  <2>0. Frozen /\ FlowTypes /\ r \in Request /\ ~Post(r) /\ RequestInv(r)
    BY StoredIsFrozen, FlowAssumption DEF FlowInv, Request, Post
  <2>1. CASE Handle(r)
    BY <2>0, <2>1, HandleReads
  <2>2. CASE Receive(r)
    <3>1. gateway[r] = "new" /\ handler[r] = "unsent" /\ UNCHANGED <<reply, orders>>
      BY <2>0, <2>2 DEF Receive, RequestInv, WorkInv
    <3>2. /\ input'[r] \in Queries
          /\ handler'[r] = "sent"
      BY <2>0, <2>2 DEF Receive, FlowTypes
    <3>3. Asking(r)'
      <4>1. \A c \in Creation : response[c].body = "order" => Stored(c)
        BY DEF FlowInv, RequestInv, ClientInv, Request, Post
      <4> QED
        BY <3>1, <3>2, <4>1 DEF Queries, Asking, Asked, Stored, Request
    <3>4. reply'[r].status = 0
      BY <3>1, <2>0 DEF ReadInv, Before
    <3> QED
      BY <3>2, <3>3, <3>4 DEF ReadInv, Before
  <2>3. CASE StatementFails(r)
    <3>1. handler'[r] = "reply" /\ reply'[r].status = 500 /\ UNCHANGED input
          /\ handler[r] # "unsent"
      BY <2>0, <2>3, Values DEF StatementFails, Answers, HandlerAt, FlowTypes, Statement
    <3> QED
      BY <2>0, <3>1, NothingRead
  <2>4. CASE Disconnect(r)
    <3>1. handler'[r] = "lost" /\ UNCHANGED <<input, reply>> /\ handler[r] # "unsent"
      BY <2>0, <2>4 DEF Disconnect, HandlerAt, FlowTypes
    <3> QED
      BY <2>0, <3>1, NothingRead
  <2>5. ASSUME NEW i \in Instance, CrashOf(i)
        PROVE  ReadInv(r)'
    <3>1. /\ UNCHANGED <<input, reply>>
          /\ \/ UNCHANGED <<handler, draft>>
             \/ /\ handler'[r] = "lost" /\ handler[r] \in Statement
             \/ handler'[r] = handler[r] /\ handler[r] \notin Statement
      BY <2>0, <2>5 DEF CrashOf, FlowTypes
    <3>2. CASE UNCHANGED <<handler, draft>>
      BY <2>0, <3>1, <3>2, SameReads
    <3>3. CASE handler'[r] = "lost" /\ handler[r] \in Statement
      BY <2>0, <3>1, <3>3, NothingRead DEF Statement
    <3>4. CASE handler'[r] = handler[r] /\ handler[r] \notin Statement
      <4>1. Asked(r)' = Asked(r) /\ UNCHANGED orders
        BY <2>5, <3>1 DEF Asked, CrashOf
      <4> QED
        BY <3>1, <3>4, <4>1 DEF ReadInv, Statement, Asking, Found, Stored, Before
    <3> QED
      BY <3>1, <3>2, <3>3, <3>4
  <2>6. CASE ReceiveHeaders(r) \/ ReceiveBody(r) \/ TimerFires(r) \/ ConnectionLost(r)
    BY <2>0, <2>6, SameReads
       DEF ReceiveHeaders, ReceiveBody, TimerFires, ConnectionLost, Interrupted
  <2>7. ASSUME NEW q \in Request, q # r,
               \/ Handle(q) \/ Route(q) \/ ConnectionLost(q)
               \/ StatementFails(q) \/ Disconnect(q)
        PROVE  ReadInv(r)'
    <3>1. /\ input'[r] = input[r] /\ handler'[r] = handler[r]
          /\ draft'[r] = draft[r] /\ reply'[r] = reply[r]
      BY <2>0, <2>7, OthersStep
    <3> QED
      BY <2>0, <3>1, SameReads
  <2>8. CASE UNCHANGED flow
    BY <2>0, <2>8, SameReads DEF flow
  <2> QED
    BY <2>0, <2>1, <2>2, <2>3, <2>4, <2>5, <2>6, <2>7, <2>8 DEF Next, Route, vars
<1> QED
  BY <1>1, <1>2, FlowInvIsInvariant, PTL DEF Spec

\* A read that finds an order answers with the whole stored order, and 404 is
\* the answer for no order that a client was told of.
THEOREM ReadsAgreeWithOrders == Spec => []ReadsMatchStore
<1>1. (\A r \in Query : ReadInv(r)) => ReadsMatchStore
  BY DEF ReadInv, ReadsMatchStore
<1> QED
  BY <1>1, ReadInvIsInvariant, PTL

----------------------------------------------------------------------------
(* The processes.  The order flow starts, closes and crashes them only as  *)
(* module Startup allows, so that what holds of every start holds here.    *)

LEMMA StepsAreStartupSteps == [Next]_vars => [BootNext]_<<boot, calm>>
<1> SUFFICES ASSUME [Next]_vars
             PROVE  [BootNext]_<<boot, calm>>
  OBVIOUS
<1>1. ASSUME NEW r \in Request, Handle(r) \/ Route(r)
      PROVE  UNCHANGED <<boot, calm>>
  BY <1>1 DEF Handle, Arrive, Refused, InsertOrder, InsertItems, InsertHistory,
              Commit, ReadOrder, ReadItems, ReadHistory, Route, Receive,
              ReceiveHeaders, ReceiveBody, TimerFires, Interrupted
<1>2. ASSUME NEW r \in Request,
             ConnectionLost(r) \/ StatementFails(r) \/ Disconnect(r)
      PROVE  UNCHANGED <<boot, calm>>
  BY <1>2 DEF ConnectionLost, Interrupted, StatementFails, Disconnect
<1>3. ASSUME NEW i \in Instance,
             Live(i) \/ MigratedElsewhere(i) \/ Close(i) \/ CrashOf(i)
      PROVE  BootNext
  BY <1>3 DEF Live, CrashOf, BootNext
<1>4. Stabilise => BootNext
  BY DEF BootNext
<1>5. UNCHANGED vars => UNCHANGED <<boot, calm>>
  BY DEF vars
<1> QED
  BY <1>1, <1>2, <1>3, <1>4, <1>5 DEF Next

\* The two services of the order flow are processes as module Startup
\* describes them: whatever requests do, a start, a migration, a shutdown or a
\* crash is one of its steps.
THEOREM FlowImplementsStartup == Spec => BootSpec
<1>1. Init => BootInit
  BY DEF Init
<1> QED
  BY <1>1, StepsAreStartupSteps, PTL DEF Spec, BootSpec

\* order-service serves requests only when its tables exist, if services of
\* different kinds do not share a database.
THEOREM FlowServesMigrated ==
    ASSUME SeparateDatabases
    PROVE  Spec => []ServingMeansMigrated
BY FlowImplementsStartup, SeparateServicesMigrate, PTL

----------------------------------------------------------------------------
(* Types. *)

\* The code's fold over the items of a body is the sum of their costs.  It is
\* true, but proving it takes an induction over the items; TLC evaluates it for
\* many small bodies.
TotalsAreSums == \A body \in CreateOrderRequest : TotalIsSum(body)

LEMMA OrderedItems ==
    ASSUME NEW body \in CreateOrderRequest
    PROVE  /\ Ordered(body).items \in Seq(Item)
           /\ Ordered(body).customerId = Trimmed(body.customerId)
           /\ Ordered(body).items =
                 [k \in DOMAIN body.items |->
                     [body.items[k] EXCEPT !.productId = Trimmed(@)]]
<1> DEFINE v == validateCreateOrder(body)
           Clean(item) == [item EXCEPT !.productId = Trimmed(@)]
<1>1. /\ v.customerId = Trimmed(body.customerId)
      /\ v.items = [k \in DOMAIN body.items |-> Clean(body.items[k])]
  BY DEF validateCreateOrder
<1>2. /\ Ordered(body).customerId = Trimmed(v.customerId)
      /\ Ordered(body).items = [k \in DOMAIN v.items |-> Clean(v.items[k])]
  BY DEF Ordered, validateCreateOrder
<1> HIDE DEF v
<1>3. body.items \in Seq(Item)
  BY DEF CreateOrderRequest
<1>4. ASSUME NEW item \in Item
      PROVE  Clean(item) \in Item /\ Clean(Clean(item)) = Clean(item)
  BY DEF Item, Trimmed, Text
<1>5. Trimmed(v.customerId) = Trimmed(body.customerId)
  BY <1>1 DEF Trimmed
<1> HIDE DEF Clean
<1>6. \A k \in DOMAIN body.items :
         Clean(body.items[k]) \in Item /\ Clean(v.items[k]) = Clean(body.items[k])
  BY <1>1, <1>3, <1>4
<1>7. DOMAIN v.items = DOMAIN body.items
  BY <1>1
<1>8. Ordered(body).items = [k \in DOMAIN body.items |-> Clean(body.items[k])]
  BY <1>2, <1>6, <1>7
<1>9. DOMAIN body.items = 1..Len(body.items) /\ Len(body.items) \in Nat
  BY <1>3
<1>10. Ordered(body).items \in [1..Len(body.items) -> Item]
  BY <1>6, <1>8, <1>9
<1>11. Ordered(body).items \in Seq(Item)
  BY <1>9, <1>10
<1> QED
  BY <1>2, <1>5, <1>8, <1>11 DEF Clean

\* Validation does not change what an order costs.
LEMMA OrderedTotal ==
    ASSUME TotalsAreSums, NEW body \in CreateOrderRequest
    PROVE  /\ calculateTotalAmountCents(Ordered(body).items) = SumOf(Costs(body))
           /\ SumOf(Costs(body)) \in Nat
<1>1. /\ body.items \in Seq(Item)
      /\ Ordered(body).items = [k \in DOMAIN body.items |->
                                  [body.items[k] EXCEPT !.productId = Trimmed(@)]]
  BY OrderedItems DEF CreateOrderRequest
<1>2. ASSUME NEW k \in DOMAIN body.items
      PROVE  /\ Ordered(body).items[k].quantity = body.items[k].quantity
             /\ Ordered(body).items[k].unitPriceCents = body.items[k].unitPriceCents
  <2>1. body.items[k] \in Item
    BY <1>1
  <2> QED
    BY <1>1, <2>1 DEF Item
<1>3. Costs(Ordered(body)) = Costs(body)
  BY <1>1, <1>2 DEF Costs
<1>4. Ordered(body) \in CreateOrderRequest
  <2> DEFINE name == Ordered(body).customerId
             list == Ordered(body).items
  <2>1. Ordered(body) = [customerId |-> name, currency |-> body.currency,
                         items |-> list]
    BY DEF Ordered, validateCreateOrder
  <2>2. body.currency \in Currency /\ name \in Text /\ list \in Seq(Item)
    BY OrderedItems DEF CreateOrderRequest, Trimmed, Text
  <2> HIDE DEF name, list
  <2> QED
    BY <2>1, <2>2 DEF CreateOrderRequest
<1> QED
  BY <1>3, <1>4 DEF TotalsAreSums, TotalIsSum

LEMMA RowsAreOrders ==
    ASSUME TotalsAreSums
    PROVE  Rows \subseteq OrderRow /\ ReplyType \subseteq AnswerType
<1>1. \A body \in Body : /\ Ordered(body).items \in Seq(Item)
                         /\ Ordered(body).customerId \in Text
                         /\ calculateTotalAmountCents(Ordered(body).items) \in Nat
  <2> SUFFICES ASSUME NEW body \in Body
               PROVE  /\ Ordered(body).items \in Seq(Item)
                      /\ Ordered(body).customerId \in Text
                      /\ calculateTotalAmountCents(Ordered(body).items) \in Nat
    OBVIOUS
  <2>1. body \in CreateOrderRequest /\ body.customerId \in Text
    BY FlowAssumption DEF CreateOrderRequest
  <2> QED
    BY <2>1, OrderedItems, OrderedTotal DEF Trimmed, Text
<1>2. Amounts \subseteq Nat
  BY <1>1 DEF Amounts
<1>3. Lists \subseteq Seq(Item)
  <2>1. << >> \in Seq(Item)
    OBVIOUS
  <2> QED
    BY <1>1, <2>1 DEF Lists
<1>4. Names \subseteq {"none"} \cup Text
  BY <1>1 DEF Names
<1>5. {0, 1} = 0..1
  OBVIOUS
<1>6. Rows \subseteq OrderRow
  BY <1>2, <1>3, <1>4, <1>5 DEF Rows, OrderRow
<1> QED
  BY <1>6 DEF ReplyType, AnswerType

\* Every variable of the two services, of the network between them and of the
\* database stays in its range: a row's columns, an answer's status and body.
THEOREM FlowTypeCorrect ==
    ASSUME TotalsAreSums
    PROVE  Spec => []TypeOK
<1>1. BootTypeOK /\ FlowInv => TypeOK
  <2> SUFFICES ASSUME BootTypeOK, FlowInv
               PROVE  TypeOK
    OBVIOUS
  <2>1. FlowTypes /\ \A r \in Request : gateway[r] = "new" => handler[r] = "unsent"
    BY DEF FlowInv, RequestInv, WorkInv
  <2> QED
    BY <2>1, RowsAreOrders DEF FlowTypes, TypeOK
<1> QED
  BY <1>1, FlowInvIsInvariant, FlowImplementsStartup, ProcessesTypeCorrect, PTL

----------------------------------------------------------------------------
(* What is stored.  A draft follows the body statement by statement, and   *)
(* is committed when it is complete.                                       *)

Drafting == {"insertItems", "insertHistory", "commit"}

WholeInv(r) ==
    /\ handler[r] \in Drafting =>
          /\ draft[r].customerId = Prepared(r).customerId
          /\ draft[r].totalAmountCents = Total(r)
          /\ Total(r) <= MaxInt4
    /\ handler[r] \in {"insertHistory", "commit"} =>
          draft[r].items = Prepared(r).items
    /\ handler[r] = "commit" => draft[r].history = 1
    /\ Stored(r) => /\ Post(r)
                    /\ orders[r] = Described(input[r])
                    /\ orders[r].totalAmountCents <= MaxInt4

\* The complete draft is the order that the body describes.
LEMMA DraftIsWhole ==
    ASSUME TotalsAreSums, FlowInv, NEW r \in Request, WholeInv(r),
           handler[r] = "commit"
    PROVE  /\ Post(r) /\ draft[r] = Described(input[r])
           /\ draft[r].totalAmountCents <= MaxInt4
<1> DEFINE b == input[r]
<1>1. /\ Post(r) /\ b \in Body /\ isValidCreateOrder(b)
      /\ draft[r].status = "PENDING" /\ draft[r] \in Rows
  BY DEF FlowInv, RequestInv, WorkInv, FlowTypes, Writing
<1>2. b \in CreateOrderRequest /\ Prepared(r) = Ordered(b)
  BY <1>1, FlowAssumption DEF Prepared, Forwarded, Ordered
<1>3. /\ draft[r].customerId = Ordered(b).customerId
      /\ draft[r].totalAmountCents = calculateTotalAmountCents(Ordered(b).items)
      /\ draft[r].totalAmountCents <= MaxInt4
      /\ draft[r].items = Ordered(b).items
      /\ draft[r].history = 1
  BY <1>2 DEF WholeInv, Drafting, Total
<1> HIDE DEF b
<1>4. draft[r].totalAmountCents = SumOf(Costs(b))
  BY <1>2, <1>3, OrderedTotal
<1>5. draft[r].customerId = "plain"
  BY <1>1, <1>2, <1>3, OrderedItems
     DEF isValidCreateOrder, isNonEmptyString, Trimmed
<1>6. draft[r].items = [k \in DOMAIN b.items |->
                          [b.items[k] EXCEPT !.productId = "plain"]]
  <2>1. \A k \in DOMAIN b.items : Trimmed(b.items[k].productId) = "plain"
    BY <1>1 DEF isValidCreateOrder, isValidItem, isNonEmptyString, Trimmed
  <2>2. draft[r].items = [k \in DOMAIN b.items |->
                            [b.items[k] EXCEPT !.productId = Trimmed(@)]]
    BY <1>2, <1>3, OrderedItems
  <2> QED
    BY <2>1, <2>2
<1>7. draft[r] = Described(b)
  <2>1. /\ Described(b).status = "PENDING"
        /\ Described(b).customerId = "plain"
        /\ Described(b).totalAmountCents = SumOf(Costs(b))
        /\ Described(b).items = [k \in DOMAIN b.items |->
                                   [b.items[k] EXCEPT !.productId = "plain"]]
        /\ Described(b).history = 1
    BY DEF Described
  <2>2. Described(b) = [status |-> Described(b).status,
                        customerId |-> Described(b).customerId,
                        totalAmountCents |-> Described(b).totalAmountCents,
                        items |-> Described(b).items,
                        history |-> Described(b).history]
    BY DEF Described
  <2>3. draft[r] = [status |-> draft[r].status,
                    customerId |-> draft[r].customerId,
                    totalAmountCents |-> draft[r].totalAmountCents,
                    items |-> draft[r].items,
                    history |-> draft[r].history]
    BY <1>1 DEF Rows
  <2> QED
    BY <1>1, <1>3, <1>4, <1>5, <1>6, <2>1, <2>2, <2>3
<1> QED
  BY <1>1, <1>3, <1>7 DEF b

\* The parts of an order that a request determines.
LEMMA SameBody ==
    ASSUME NEW r, input'[r] = input[r]
    PROVE  /\ Prepared(r)' = Prepared(r) /\ Total(r)' = Total(r)
           /\ Described(input[r])' = Described(input[r])
<1>1. Prepared(r)' = Prepared(r)
  BY DEF Prepared, Forwarded
<1> QED
  BY <1>1 DEF Total

LEMMA SameWhole ==
    ASSUME NEW r \in Request, WholeInv(r), input'[r] = input[r],
           orders'[r] = orders[r],
           \/ handler'[r] = handler[r] /\ draft'[r] = draft[r]
           \/ handler'[r] \notin Drafting
    PROVE  WholeInv(r)'
<1> USE SameBody DEF WholeInv, Stored, Post, Drafting
<1>1. CASE handler'[r] \notin Drafting
  BY <1>1
<1>2. CASE handler'[r] = handler[r] /\ draft'[r] = draft[r]
  BY <1>2
<1> QED
  BY <1>1, <1>2

\* The statements of a handler, one by one.
LEMMA HandleWhole ==
    ASSUME TotalsAreSums, FlowInv, NEW r \in Request, WholeInv(r), Handle(r)
    PROVE  WholeInv(r)'
<1>0. FlowTypes /\ RequestInv(r)
  BY DEF FlowInv
<1>1. input' = input
  BY DEF Handle, Arrive, Refused, InsertOrder, InsertItems, InsertHistory, Commit,
         ReadOrder, ReadItems, ReadHistory
<1>2. ASSUME handler'[r] \notin Drafting, orders'[r] = orders[r]
      PROVE  WholeInv(r)'
  BY <1>1, <1>2, SameWhole
<1>3. CASE Arrive(r) \/ Refused(r) \/ ReadOrder(r) \/ ReadItems(r) \/ ReadHistory(r)
  BY <1>0, <1>2, <1>3
     DEF Arrive, Refused, ReadOrder, ReadItems, ReadHistory, Answers, HandlerAt,
         FlowTypes, Drafting
<1>4. CASE InsertOrder(r)
  <2>1. CASE OrderRaises(r)
    BY <1>0, <1>2, <1>4, <2>1 DEF InsertOrder, Answers, HandlerAt, FlowTypes, Drafting
  <2>2. CASE ~OrderRaises(r)
    <3> DEFINE row == [NoRow EXCEPT !.status = "PENDING",
                                    !.customerId = Prepared(r).customerId,
                                    !.totalAmountCents = Total(r)]
    <3>1. /\ draft'[r] = row /\ handler'[r] = "insertItems"
          /\ orders' = orders /\ handler[r] = "insertOrder"
      BY <1>0, <1>4, <2>2 DEF InsertOrder, Write, HandlerAt, FlowTypes
    <3>2. row.customerId = Prepared(r).customerId /\ row.totalAmountCents = Total(r)
      BY DEF NoRow
    <3>3. Total(r) <= MaxInt4
      <4>1. Post(r) /\ input[r] \in Body
        BY <1>0, <3>1 DEF RequestInv, WorkInv, Writing
      <4>2. Total(r) = calculateTotalAmountCents(Ordered(input[r]).items)
        BY DEF Total, Prepared, Forwarded, Ordered
      <4>3. Total(r) \in Nat
        BY <4>1, <4>2, OrderedTotal, FlowAssumption
      <4> QED
        BY <2>2, <4>3, FlowAssumption DEF OrderRaises
    <3>4. ~Stored(r)
      BY <1>0, <3>1 DEF RequestInv, WorkInv, Before, Statement
    <3> HIDE DEF row
    <3> QED
      BY <1>1, <3>1, <3>2, <3>3, <3>4, SameBody DEF WholeInv, Stored, Drafting
  <2> QED
    BY <2>1, <2>2
<1>5. CASE InsertItems(r)
  <2> DEFINE row == [draft[r] EXCEPT !.items = Prepared(r).items]
  <2>1. /\ draft'[r] = row /\ draft[r] \in Rows /\ orders' = orders
        /\ handler[r] = "insertItems" /\ handler'[r] = "insertHistory"
    BY <1>0, <1>5 DEF InsertItems, Write, HandlerAt, FlowTypes
  <2>2. /\ row.customerId = draft[r].customerId
        /\ row.totalAmountCents = draft[r].totalAmountCents
        /\ row.items = Prepared(r).items
    BY <2>1 DEF Rows
  <2> HIDE DEF row
  <2> QED
    BY <1>1, <2>1, <2>2, SameBody DEF WholeInv, Stored, Drafting, Post
<1>6. CASE InsertHistory(r)
  <2> DEFINE row == [draft[r] EXCEPT !.history = 1]
  <2>1. /\ draft'[r] = row /\ draft[r] \in Rows /\ orders' = orders
        /\ handler[r] = "insertHistory" /\ handler'[r] = "commit"
    BY <1>0, <1>6 DEF InsertHistory, Write, HandlerAt, FlowTypes
  <2>2. /\ row.customerId = draft[r].customerId
        /\ row.totalAmountCents = draft[r].totalAmountCents
        /\ row.items = draft[r].items /\ row.history = 1
    BY <2>1 DEF Rows
  <2> HIDE DEF row
  <2> QED
    BY <1>1, <2>1, <2>2, SameBody DEF WholeInv, Stored, Drafting, Post
<1>7. CASE Commit(r)
  <2>1. /\ handler[r] = "commit" /\ handler'[r] = "reply" /\ orders'[r] = draft[r]
    BY <1>0, <1>7 DEF Commit, Answers, HandlerAt, FlowTypes
  <2> QED
    BY <1>1, <2>1, DraftIsWhole, SameBody DEF WholeInv, Stored, Drafting, Post
<1> QED
  BY <1>3, <1>4, <1>5, <1>6, <1>7 DEF Handle

LEMMA WholeIsInvariant ==
    ASSUME TotalsAreSums
    PROVE  Spec => [](\A r \in Request : WholeInv(r))
<1>1. Init => \A r \in Request : WholeInv(r)
  BY Values DEF Init, WholeInv, Stored, Drafting
<1>2. FlowInv /\ (\A r \in Request : WholeInv(r)) /\ [Next]_vars
      => (\A r \in Request : WholeInv(r))'
  <2> SUFFICES ASSUME FlowInv, [Next]_vars, NEW r \in Request, WholeInv(r)
               PROVE  WholeInv(r)'
    OBVIOUS
  <2>0. FlowTypes /\ RequestInv(r)
    BY DEF FlowInv
  <2>1. CASE Handle(r)
    BY <2>1, HandleWhole
  <2>2. CASE Receive(r)
    <3>1. ~Stored(r) /\ handler'[r] \in {"unsent", "sent"} /\ orders' = orders
      BY <2>0, <2>2 DEF Receive, RequestInv, WorkInv, Before, FlowTypes
    <3> QED
      BY <3>1 DEF WholeInv, Stored, Drafting
  <2>3. CASE ReceiveHeaders(r) \/ ReceiveBody(r) \/ TimerFires(r) \/ ConnectionLost(r)
    BY <2>0, <2>3, SameWhole
       DEF ReceiveHeaders, ReceiveBody, TimerFires, ConnectionLost, Interrupted
  <2>4. CASE StatementFails(r)
    <3>1. handler'[r] = "reply" /\ input' = input
      BY <2>0, <2>4 DEF StatementFails, Answers, HandlerAt, FlowTypes
    <3>2. CASE orders' = orders
      BY <3>1, <3>2, SameWhole DEF Drafting
    <3>3. CASE handler[r] = "commit" /\ orders'[r] = draft[r]
      BY <2>0, <3>1, <3>3, DraftIsWhole, SameBody DEF WholeInv, Stored, Drafting, Post
    <3> QED
      BY <2>0, <2>4, <3>2, <3>3 DEF StatementFails, FlowTypes
  <2>5. CASE Disconnect(r)
    BY <2>0, <2>5, SameWhole DEF Disconnect, HandlerAt, FlowTypes, Drafting
  <2>6. ASSUME NEW i \in Instance, CrashOf(i)
        PROVE  WholeInv(r)'
    <3>1. /\ UNCHANGED <<input, orders>>
          /\ \/ handler'[r] = handler[r] /\ draft'[r] = draft[r]
             \/ handler'[r] \notin Drafting
      BY <2>0, <2>6 DEF CrashOf, FlowTypes, Drafting, Statement
    <3> QED
      BY <3>1, SameWhole
  <2>7. ASSUME NEW q \in Request, q # r,
               \/ Handle(q) \/ Route(q) \/ ConnectionLost(q)
               \/ StatementFails(q) \/ Disconnect(q)
        PROVE  WholeInv(r)'
    BY <2>0, <2>7, OthersStep, SameWhole
  <2>8. CASE UNCHANGED flow
    BY <2>8, SameWhole DEF flow
  <2> QED
    BY <2>1, <2>2, <2>3, <2>4, <2>5, <2>6, <2>7, <2>8 DEF Next, Route, vars
<1> QED
  BY <1>1, <1>2, FlowInvIsInvariant, PTL DEF Spec

\* What is committed of a request is the whole order of its body: the
\* customer, every item in its place, one history row, the sum over the items,
\* and that fits its column - whichever statement, connection or process
\* failed, and however often.
THEOREM StoredOrdersAreWhole ==
    ASSUME TotalsAreSums
    PROVE  Spec => []StoredIsWhole
<1>1. (\A r \in Request : WholeInv(r)) => StoredIsWhole
  BY DEF WholeInv, StoredIsWhole
<1> QED
  BY <1>1, WholeIsInvariant, PTL

=============================================================================
