---------------------------- MODULE RedfishProofs ---------------------------
(***************************************************************************)
(* Proofs about redfish_handler (Redfish): the one static user_data of a   *)
(* resource never mixes two requests, and the shared heap never leaks or   *)
(* shares a block, for every number of clients, resources and requests,    *)
(* every heap and every size of body.                                      *)
(***************************************************************************)
EXTENDS Redfish, TLAPS

Pieces == [data : BOOLEAN, final : BOOLEAN]
UserData == [started : BOOLEAN, size : Nat, data : Seq(Nat \X Nat), at : Int]

\* The first n pieces of request i.
Prefix(i, n) == [k \in 1..n |-> <<i, k>>]

\* How many pieces of request q were given to the handler before this call.
Before(q) == IF piece.data THEN q.sent - 1 ELSE q.sent

TypeInv ==
    /\ req \in [Clients -> Requests \cup {None}]
    /\ holder \in [Resources -> Clients \cup {None}]
    /\ user_data \in [Resources -> UserData]
    /\ heap \subseteq [at : Nat, units : Nat]
    /\ srv \in Clients \cup {None}
    /\ status \in Statuses \cup {None}
    /\ srv # None => piece \in Pieces
    /\ srv = None => status = None
    /\ made \in Nat

\* A resource is held by the client whose request for it has reached the handler.
HolderInv ==
    /\ \A r \in Resources : holder[r] # None => req[holder[r]] # None /\ req[holder[r]].res = r
    /\ srv # None => req[srv] # None /\ holder[req[srv].res] = srv
    /\ \A c \in Clients : req[c] # None =>
          /\ req[c].sent <= req[c].pieces
          /\ holder[req[c].res] # c => req[c].sent = 0

\* Between two calls a held resource has exactly the pieces its client has sent;
\* in a call, those of the earlier calls; a resource nobody holds has nothing.
BodyInv ==
    /\ \A r \in Resources :
          /\ ~user_data[r].started => user_data[r] = Unused
          /\ user_data[r].started => holder[r] # None
          /\ holder[r] # None /\ holder[r] # srv =>
                /\ user_data[r].started
                /\ user_data[r].data = Prefix(req[holder[r]].id, req[holder[r]].sent)
    /\ srv # None /\ status = None =>
          /\ Before(Cur) \in Nat
          /\ user_data[Cur.res].data = Prefix(Cur.id, Before(Cur))
          /\ piece.final => Cur.sent = Cur.pieces
    /\ \A a \in applied : a.data = Prefix(a.id, a.pieces)

Block(r) == [at |-> user_data[r].at, units |-> Units(user_data[r].size)]

\* The blocks in use are those of the started resources; they lie in the heap and
\* no two of them overlap.
HeapInv ==
    /\ \A r \in Resources : Len(user_data[r].data) <= PostPieces
    /\ \A r \in Resources : user_data[r].started =>
          /\ user_data[r].size \in {USER_DATA_BUFFER_GET_SIZE, USER_DATA_BUFFER_POST_SIZE}
          /\ user_data[r].at \in Nat
          /\ user_data[r].at + Units(user_data[r].size) <= HeapUnits
    /\ \A r \in Resources : user_data[r].started => Block(r) \in heap
    /\ \A b \in heap : \E r \in Resources : user_data[r].started /\ b = Block(r)
    /\ \A r, s \in Resources : user_data[r].started /\ user_data[s].started /\ r # s =>
          \/ user_data[r].at + Units(user_data[r].size) <= user_data[s].at
          \/ user_data[s].at + Units(user_data[s].size) <= user_data[r].at

-----------------------------------------------------------------------------
(* The heap and the buffers.                                               *)

\* The two buffers take 65 and 129 units (redfish.c:188-189).
LEMMA UnitsOfBuffers ==
    Units(USER_DATA_BUFFER_POST_SIZE) = 65 /\ Units(USER_DATA_BUFFER_GET_SIZE) = 129
  BY DEF Units, USER_DATA_BUFFER_POST_SIZE, USER_DATA_BUFFER_GET_SIZE

\* alloc_user_data gives the resource a block at a natural position, and touches
\* no other resource (redfish.c:193-198).
LEMMA AllocFacts ==
    ASSUME TypeInv, NEW r \in Resources,
           NEW size \in {USER_DATA_BUFFER_GET_SIZE, USER_DATA_BUFFER_POST_SIZE},
           NEW data \in Seq(Nat \X Nat), alloc_user_data(r, size, data)
    PROVE  \E at \in Nat :
              /\ Fits(at, Units(size), heap \ Own(r))
              /\ heap' = (heap \ Own(r)) \cup {[at |-> at, units |-> Units(size)]}
              /\ heap' \subseteq [at : Nat, units : Nat]
              /\ user_data' \in [Resources -> UserData]
              /\ user_data'[r].started /\ user_data'[r].size = size
              /\ user_data'[r].data = data /\ user_data'[r].at = at
              /\ \A s \in Resources : s # r => user_data'[s] = user_data[s]
  <1>1. GapStarts \subseteq Nat
    BY DEF GapStarts, TypeInv
  <1>2. PICK at \in GapStarts :
          /\ Fits(at, Units(size), heap \ Own(r))
          /\ heap' = (heap \ Own(r)) \cup {[at |-> at, units |-> Units(size)]}
          /\ user_data' = [user_data EXCEPT ![r] =
                [started |-> TRUE, size |-> size, data |-> data, at |-> at]]
    BY DEF alloc_user_data
  <1>3. at \in Nat /\ Units(size) \in Nat /\ size \in Nat
    BY <1>1, UnitsOfBuffers DEF USER_DATA_BUFFER_GET_SIZE, USER_DATA_BUFFER_POST_SIZE
  <1>4. [started |-> TRUE, size |-> size, data |-> data, at |-> at] \in UserData
    BY <1>3 DEF UserData
  <1>5. heap' \subseteq [at : Nat, units : Nat]
    BY <1>2, <1>3 DEF TypeInv, Own
  <1>6. /\ user_data' \in [Resources -> UserData]
        /\ user_data'[r] = [started |-> TRUE, size |-> size, data |-> data, at |-> at]
        /\ \A s \in Resources : s # r => user_data'[s] = user_data[s]
    BY <1>2, <1>4 DEF TypeInv
  <1>7. /\ user_data'[r].started /\ user_data'[r].size = size
        /\ user_data'[r].data = data /\ user_data'[r].at = at
    BY <1>6
  <1> QED
    BY <1>2, <1>3, <1>5, <1>6, <1>7

\* free_user_data leaves the resource as it was at the start, if it was started,
\* and touches no other resource (redfish.c:200-210).
LEMMA FreeFacts ==
    ASSUME TypeInv, NEW r \in Resources, free_user_data(r)
    PROVE  /\ heap' = heap \ Own(r)
           /\ heap' \subseteq [at : Nat, units : Nat]
           /\ user_data' \in [Resources -> UserData]
           /\ user_data'[r] = IF user_data[r].started THEN Unused ELSE user_data[r]
           /\ \A s \in Resources : s # r => user_data'[s] = user_data[s]
  <1>1. Unused \in UserData
    BY DEF Unused, UserData
  <1> QED
    BY <1>1 DEF TypeInv, free_user_data, Own

\* What the buffer holds after this piece (redfish.c:212-224).
LEMMA GatheredType ==
    ASSUME TypeInv, HolderInv, srv # None
    PROVE  /\ Cur \in Requests /\ Cur.res \in Resources
           /\ Gathered \in Seq(Nat \X Nat)
  <1>1. Cur \in Requests
    BY DEF TypeInv, HolderInv, Cur
  <1>2. Cur.res \in Resources /\ Cur.id \in Nat /\ Cur.sent \in Nat
    BY <1>1 DEF Requests
  <1>3. ThisPiece \in Seq(Nat \X Nat)
    <2>1. <<Cur.id, Cur.sent>> \in Nat \X Nat
      BY <1>2
    <2>2. <<<<Cur.id, Cur.sent>>>> \in Seq(Nat \X Nat) /\ <<>> \in Seq(Nat \X Nat)
      BY <2>1
    <2> QED
      BY <2>2 DEF ThisPiece
  <1>4. user_data[Cur.res].data \in Seq(Nat \X Nat)
    BY <1>2 DEF TypeInv, UserData
  <1> QED
    BY <1>1, <1>2, <1>3, <1>4 DEF Gathered

-----------------------------------------------------------------------------
(* Types.                                                                  *)

\* Every step keeps the types (redfish.c:193-345).
LEMMA TypeStep == TypeInv /\ HolderInv /\ [Next]_vars => TypeInv'
  <1> SUFFICES ASSUME TypeInv, HolderInv, [Next]_vars
               PROVE  TypeInv'
    OBVIOUS
  <1> USE RedfishAssumption, NoneAssumption
  <1>1. ASSUME NEW c \in Clients, NewRequest(c)
        PROVE  TypeInv'
    <2>1. PICK r \in Resources, m \in Methods, n \in 0..MaxPieces, p \in Passwords :
             req' = [req EXCEPT ![c] = [id |-> made, res |-> r, method |-> m,
                                        pieces |-> n, sent |-> 0, pw |-> p]]
      BY <1>1 DEF NewRequest
    <2>2. [id |-> made, res |-> r, method |-> m, pieces |-> n, sent |-> 0, pw |-> p] \in Requests
      BY DEF TypeInv, Requests
    <2>3. req' \in [Clients -> Requests \cup {None}]
      BY <2>1, <2>2 DEF TypeInv
    <2> QED
      BY <1>1, <2>3 DEF NewRequest, TypeInv
  <1>2. ASSUME NEW c \in Clients, Deliver(c)
        PROVE  TypeInv'
    <2>1. req[c] \in Requests /\ req[c].res \in Resources /\ req[c].sent \in Nat
      BY <1>2 DEF Deliver, TypeInv, Requests
    <2>2. req' \in [Clients -> Requests \cup {None}]
      <3>1. [req[c] EXCEPT !.sent = IF @ < req[c].pieces THEN @ + 1 ELSE @] \in Requests
        BY <2>1 DEF Requests
      <3>2. req' = [req EXCEPT ![c] = [req[c] EXCEPT !.sent = IF @ < req[c].pieces THEN @ + 1 ELSE @]]
        BY <1>2 DEF Deliver
      <3> QED
        BY <3>1, <3>2 DEF TypeInv
    <2>3. piece' \in Pieces
      <3> DEFINE more == req[c].sent < req[c].pieces
                 last == req[c].sent + 1 >= req[c].pieces
      <3>1. PICK final \in IF last THEN {TRUE, ~more} ELSE {FALSE} :
               piece' = [data |-> more, final |-> final]
        BY <1>2, Zenon DEF Deliver
      <3>2. more \in BOOLEAN /\ (~more) \in BOOLEAN
        BY <2>1, SMT DEF Requests
      <3> HIDE DEF more, last
      <3>3. final \in BOOLEAN
        <4>1. CASE last
          BY <3>2, <4>1, Zenon
        <4>2. CASE ~last
          BY <4>2, Zenon
        <4> QED
          BY <4>1, <4>2
      <3> QED
        BY <3>1, <3>2, <3>3, Zenon DEF Pieces
    <2>4. holder' \in [Resources -> Clients \cup {None}]
      BY <1>2, <2>1 DEF Deliver, TypeInv
    <2> QED
      BY <1>2, <2>2, <2>3, <2>4 DEF Deliver, TypeInv
  <1>3. ASSUME NEW c \in Clients, Refuse(c)
        PROVE  TypeInv'
    BY <1>3 DEF Refuse, TypeInv
  <1>4. CASE config_bmc_password_set
    BY <1>4 DEF config_bmc_password_set, TypeInv
  <1>5. CASE MethodNotAllowed \/ Unauthorized
    BY <1>5 DEF MethodNotAllowed, Unauthorized, Called, Respond, TypeInv, Statuses
  <1>6. CASE BodyMore
    <2>1. srv # None /\ ReturnForMore /\ status = None
      BY <1>6 DEF BodyMore, InBody, Called
    <2>2. Cur.res \in Resources /\ Gathered \in Seq(Nat \X Nat)
      BY <2>1, GatheredType
    <2>3. heap' \subseteq [at : Nat, units : Nat] /\ user_data' \in [Resources -> UserData]
      <3>1. CASE alloc_user_data(Cur.res, USER_DATA_BUFFER_POST_SIZE, Gathered)
        BY <3>1, <2>2, AllocFacts
      <3>2. CASE /\ user_data' = [user_data EXCEPT ![Cur.res].data = Gathered]
                 /\ UNCHANGED heap
        BY <3>2, <2>2 DEF TypeInv, UserData
      <3> QED
        BY <1>6, <3>1, <3>2 DEF BodyMore
    <2> QED
      BY <2>1, <2>3 DEF ReturnForMore, TypeInv
  <1>7. CASE BodyTooLarge \/ BodyFinal \/ GetMore
    <2>1. /\ srv # None /\ free_user_data(Cur.res)
          /\ \E s \in Statuses : Respond(s)
      BY <1>7 DEF BodyTooLarge, BodyFinal, GetMore, InBody, InGet, Called, Statuses
    <2>2. heap' \subseteq [at : Nat, units : Nat] /\ user_data' \in [Resources -> UserData]
      BY <2>1, GatheredType, FreeFacts
    <2> QED
      BY <2>1, <2>2 DEF Respond, TypeInv
  <1>8. CASE Get
    <2>1. /\ srv # None /\ alloc_user_data(Cur.res, USER_DATA_BUFFER_GET_SIZE, <<>>)
          /\ \E s \in Statuses : Respond(s)
      BY <1>8 DEF Get, InGet, Called, Statuses
    <2>2. heap' \subseteq [at : Nat, units : Nat] /\ user_data' \in [Resources -> UserData]
      <3>1. <<>> \in Seq(Nat \X Nat) /\ Cur.res \in Resources
        BY <2>1, GatheredType
      <3> QED
        BY <2>1, <3>1, AllocFacts
    <2> QED
      BY <2>1, <2>2 DEF Respond, TypeInv
  <1>9. ASSUME NEW c \in Clients, req[c] # None, free_user_data(req[c].res), Close(c)
        PROVE  TypeInv'
    <2>1. req[c].res \in Resources
      BY <1>9 DEF TypeInv, Requests
    <2>2. heap' \subseteq [at : Nat, units : Nat] /\ user_data' \in [Resources -> UserData]
      BY <1>9, <2>1, FreeFacts
    <2> QED
      BY <1>9, <2>1, <2>2 DEF Close, TypeInv
  <1>10. CASE TransactionComplete
    BY <1>9, <1>10 DEF TransactionComplete, TypeInv, HolderInv, Cur
  <1>11. ASSUME NEW c \in Clients, TransactionAborted(c)
         PROVE  TypeInv'
    BY <1>9, <1>11 DEF TransactionAborted
  <1>12. CASE UNCHANGED vars
    BY <1>12 DEF vars, TypeInv
  <1> QED
    BY <1>1, <1>2, <1>3, <1>4, <1>5, <1>6, <1>7, <1>8, <1>10, <1>11, <1>12
       DEF Next, redfish_handler

-----------------------------------------------------------------------------
(* Who holds what.                                                         *)

\* The next piece: at most the declared number reach the handler, and the final
\* one only when all did.
LEMMA DeliverFacts ==
    ASSUME TypeInv, HolderInv, NEW c \in Clients, Deliver(c)
    PROVE  /\ srv = None /\ srv' = c
           /\ req[c] \in Requests /\ req'[c] \in Requests
           /\ holder[req[c].res] \in {None, c} /\ holder' = [holder EXCEPT ![req[c].res] = c]
           /\ req'[c].id = req[c].id /\ req'[c].res = req[c].res
           /\ req'[c].sent = (IF piece'.data THEN req[c].sent + 1 ELSE req[c].sent)
           /\ req'[c].sent <= req'[c].pieces
           /\ piece'.final => req'[c].sent = req'[c].pieces
           /\ \A d \in Clients : d # c => req'[d] = req[d]
           /\ UNCHANGED <<user_data, heap, status, applied>>
  <1> USE NoneAssumption
  <1>1. /\ req[c] \in Requests /\ req[c].sent \in Nat /\ req[c].pieces \in Nat
        /\ req[c].sent <= req[c].pieces
    BY DEF Deliver, TypeInv, HolderInv, Requests
  <1> DEFINE more == req[c].sent < req[c].pieces
             last == req[c].sent + 1 >= req[c].pieces
             next == IF more THEN req[c].sent + 1 ELSE req[c].sent
             q == [req[c] EXCEPT !.sent = next]
  <1>2. req' = [req EXCEPT ![c] = q]
    BY DEF Deliver
  <1>3. /\ next \in Nat /\ next <= req[c].pieces
        /\ (~more => next = req[c].pieces) /\ (more /\ last => next = req[c].pieces)
    BY <1>1
  <1> HIDE DEF next
  <1>4. /\ q \in Requests /\ q.id = req[c].id /\ q.res = req[c].res
        /\ q.pieces = req[c].pieces /\ q.sent = next
    BY <1>1, <1>3 DEF Requests
  <1>5. PICK final \in IF last THEN {TRUE, ~more} ELSE {FALSE} :
           piece' = [data |-> more, final |-> final]
    BY Zenon DEF Deliver
  <1>6. piece'.data <=> more
    BY <1>5, Zenon
  <1>7. piece'.final => last
    <2>1. piece'.final = final
      BY <1>5, Zenon
    <2> QED
      BY <1>5, <2>1, Zenon
  <1> HIDE DEF q, last
  <1>8. req'[c] = q /\ \A d \in Clients : d # c => req'[d] = req[d]
    BY <1>2 DEF TypeInv
  <1>9. next = IF piece'.data THEN req[c].sent + 1 ELSE req[c].sent
    BY <1>6 DEF next
  <1>10. piece'.final => next = req[c].pieces
    BY <1>3, <1>7
  <1> QED
    BY <1>1, <1>3, <1>4, <1>8, <1>9, <1>10 DEF Deliver

\* Every step leaves a resource to the client whose request reached the handler
\* (the server's side of redfish.c:235-345).
LEMMA HolderStep == TypeInv /\ HolderInv /\ [Next]_vars => HolderInv'
  <1> SUFFICES ASSUME TypeInv, HolderInv, [Next]_vars
               PROVE  HolderInv'
    OBVIOUS
  <1> USE RedfishAssumption, NoneAssumption
  <1>1. ASSUME NEW c \in Clients, NewRequest(c)
        PROVE  HolderInv'
    <2>1. PICK r \in Resources, m \in Methods, n \in 0..MaxPieces, p \in Passwords :
             req' = [req EXCEPT ![c] = [id |-> made, res |-> r, method |-> m,
                                        pieces |-> n, sent |-> 0, pw |-> p]]
      BY <1>1 DEF NewRequest
    <2> DEFINE q == [id |-> made, res |-> r, method |-> m, pieces |-> n, sent |-> 0, pw |-> p]
    <2>2. q.sent = 0 /\ q.sent <= q.pieces
      OBVIOUS
    <2> HIDE DEF q
    <2>3. req'[c] = q /\ \A d \in Clients : d # c => req'[d] = req[d]
      BY <2>1 DEF q, TypeInv
    <2>4. srv # c /\ \A s \in Resources : holder[s] # c
      BY <1>1 DEF NewRequest, HolderInv, TypeInv
    <2> QED
      BY <1>1, <2>2, <2>3, <2>4 DEF NewRequest, HolderInv, TypeInv
  <1>2. ASSUME NEW c \in Clients, Deliver(c)
        PROVE  HolderInv'
    <2>1. /\ srv' = c /\ req[c].res \in Resources
          /\ holder[req[c].res] \in {None, c}
          /\ holder'[req[c].res] = c
          /\ \A r \in Resources : r # req[c].res => holder'[r] = holder[r]
          /\ req'[c] # None /\ req'[c].res = req[c].res /\ req'[c].sent <= req'[c].pieces
          /\ \A d \in Clients : d # c => req'[d] = req[d]
      BY <1>2, DeliverFacts DEF TypeInv, Requests
    <2>2. \A r \in Resources : holder'[r] # None =>
             req'[holder'[r]] # None /\ req'[holder'[r]].res = r
      BY <2>1 DEF HolderInv, TypeInv
    <2>3. req'[srv'] # None /\ holder'[req'[srv'].res] = srv'
      BY <2>1
    <2>4. ASSUME NEW d \in Clients, req'[d] # None
          PROVE  req'[d].sent <= req'[d].pieces /\ (holder'[req'[d].res] # d => req'[d].sent = 0)
      <3>1. CASE d = c
        BY <2>1, <3>1
      <3>2. CASE d # c
        <4>1. req[d] \in Requests /\ req[d].res \in Resources
          BY <2>1, <2>4, <3>2 DEF TypeInv, Requests
        <4>2. holder[req[d].res] = d => holder'[req[d].res] = d
          BY <2>1, <3>2, <4>1 DEF HolderInv
        <4> QED
          BY <2>1, <2>4, <3>2, <4>1, <4>2 DEF HolderInv
      <3> QED
        BY <3>1, <3>2
    <2> QED
      BY <2>2, <2>3, <2>4 DEF HolderInv
  <1>3. ASSUME NEW c \in Clients, Refuse(c)
        PROVE  HolderInv'
    <2>1. /\ \A r \in Resources : holder[r] # c
          /\ srv # c
      BY <1>3 DEF Refuse, HolderInv, TypeInv
    <2> QED
      BY <1>3, <2>1 DEF Refuse, HolderInv, TypeInv
  <1>4. ASSUME UNCHANGED <<req, holder>>, srv' \in {srv, None}
        PROVE  HolderInv'
    BY <1>4 DEF HolderInv
  <1>5. CASE \/ config_bmc_password_set \/ MethodNotAllowed \/ Unauthorized
             \/ BodyMore \/ BodyTooLarge \/ BodyFinal \/ GetMore \/ Get
    BY <1>4, <1>5 DEF config_bmc_password_set, MethodNotAllowed, Unauthorized, BodyMore,
         BodyTooLarge, BodyFinal, GetMore, Get, Respond, ReturnForMore
  <1>6. ASSUME NEW c \in Clients, req[c] # None, holder[req[c].res] = c, Close(c)
        PROVE  HolderInv'
    <2>1. req[c].res \in Resources
      BY <1>6 DEF TypeInv, Requests
    <2>2. /\ req'[c] = None /\ \A d \in Clients : d # c => req'[d] = req[d]
          /\ holder'[req[c].res] = None
          /\ \A r \in Resources : r # req[c].res => holder'[r] = holder[r]
          /\ srv' = None
      BY <1>6, <2>1 DEF Close, TypeInv
    <2>3. \A r \in Resources : r # req[c].res => holder[r] # c
      BY <1>6 DEF HolderInv
    <2>4. ASSUME NEW d \in Clients, d # c, req[d] # None
          PROVE  holder'[req[d].res] = holder[req[d].res] \/ (holder[req[d].res] # d)
      <3>1. req[d].res \in Resources
        BY <2>4 DEF TypeInv, Requests
      <3> QED
        BY <1>6, <2>2, <2>4, <3>1
    <2> QED
      BY <2>2, <2>3, <2>4 DEF HolderInv, TypeInv
  <1>7. CASE TransactionComplete
    BY <1>6, <1>7 DEF TransactionComplete, TypeInv, HolderInv
  <1>8. ASSUME NEW c \in Clients, TransactionAborted(c)
        PROVE  HolderInv'
    BY <1>6, <1>8 DEF TransactionAborted
  <1>9. CASE UNCHANGED vars
    BY <1>4, <1>9 DEF vars
  <1> QED
    BY <1>1, <1>2, <1>3, <1>5, <1>7, <1>8, <1>9 DEF Next, redfish_handler

-----------------------------------------------------------------------------
(* Bodies.                                                                 *)

\* Appending the next piece to a prefix of a body gives the next prefix.
LEMMA PrefixFacts ==
    ASSUME NEW i \in Nat, NEW n \in Nat
    PROVE  /\ Prefix(i, 0) = <<>>
           /\ Prefix(i, n) \o <<<<i, n + 1>>>> = Prefix(i, n + 1)
           /\ Prefix(i, n) \o <<>> = Prefix(i, n)
           /\ Prefix(i, n) \in Seq(Nat \X Nat) /\ Len(Prefix(i, n)) = n
  <1>1. Prefix(i, 0) = <<>>
    BY DEF Prefix
  <1>2. Prefix(i, n) \in Seq(Nat \X Nat) /\ Len(Prefix(i, n)) = n
    BY DEF Prefix
  <1>3. Prefix(i, n) \o <<>> = Prefix(i, n)
    BY <1>2
  <1>4. Prefix(i, n + 1) \in Seq(Nat \X Nat) /\ Len(Prefix(i, n + 1)) = n + 1
    BY DEF Prefix
  <1>5. \A k \in 1..n : Prefix(i, n)[k] = <<i, k>>
    BY DEF Prefix
  <1>6. \A k \in 1..(n + 1) : Prefix(i, n + 1)[k] = <<i, k>>
    BY DEF Prefix
  <1> DEFINE t == Prefix(i, n) \o <<<<i, n + 1>>>>
  <1>7. t \in Seq(Nat \X Nat) /\ Len(t) = n + 1
    BY <1>2
  <1>8. \A k \in 1..(n + 1) : t[k] = <<i, k>>
    BY <1>2, <1>5
  <1> HIDE DEF t
  <1>9. t = Prefix(i, n + 1)
    <2>1. t = [k \in 1..(n + 1) |-> t[k]]
      BY <1>7
    <2>2. t = [k \in 1..(n + 1) |-> <<i, k>>]
      BY <2>1, <1>8
    <2> QED
      BY <2>2 DEF Prefix
  <1> QED
    BY <1>1, <1>2, <1>3, <1>9 DEF t

\* Before the first piece there is nothing.
LEMMA PrefixZero == \A i : Prefix(i, 0) = <<>>
  BY DEF Prefix

\* In a call, the buffer after this piece holds all the pieces sent so far
\* (redfish.c:281-296).
LEMMA GatheredFacts ==
    ASSUME TypeInv, HolderInv, BodyInv, Called
    PROVE  Gathered = Prefix(Cur.id, Cur.sent)
  <1>1. Cur \in Requests /\ Cur.id \in Nat /\ Cur.sent \in Nat /\ srv # None
    BY GatheredType DEF Called, Requests
  <1>2. Before(Cur) \in Nat /\ user_data[Cur.res].data = Prefix(Cur.id, Before(Cur))
    BY DEF BodyInv, Called
  <1>3. CASE piece.data
    <2>1. Before(Cur) + 1 = Cur.sent /\ ThisPiece = <<<<Cur.id, Cur.sent>>>>
      BY <1>1, <1>3 DEF Before, ThisPiece
    <2> QED
      BY <1>1, <1>2, <2>1, PrefixFacts DEF Gathered
  <1>4. CASE ~piece.data
    <2>1. Before(Cur) = Cur.sent /\ ThisPiece = <<>>
      BY <1>4 DEF Before, ThisPiece
    <2> QED
      BY <1>1, <1>2, <2>1, PrefixFacts DEF Gathered
  <1> QED
    BY <1>3, <1>4

\* The three conjuncts of BodyInv.
BufferInv(r) ==
    /\ ~user_data[r].started => user_data[r] = Unused
    /\ user_data[r].started => holder[r] # None
    /\ holder[r] # None /\ holder[r] # srv =>
          /\ user_data[r].started
          /\ user_data[r].data = Prefix(req[holder[r]].id, req[holder[r]].sent)

CallInv ==
    srv # None /\ status = None =>
          /\ Before(Cur) \in Nat
          /\ user_data[Cur.res].data = Prefix(Cur.id, Before(Cur))
          /\ piece.final => Cur.sent = Cur.pieces

AppliedInv == \A a \in applied : a.data = Prefix(a.id, a.pieces)

\* A step that changes neither the resource, nor its holder, nor the request of
\* its holder, keeps what is known of the resource.
LEMMA BufferKept ==
    ASSUME NEW r \in Resources, BufferInv(r), user_data'[r] = user_data[r],
           holder'[r] = holder[r], holder[r] # None => req'[holder[r]] = req[holder[r]],
           holder[r] # None /\ holder[r] = srv => srv' = srv
    PROVE  BufferInv(r)'
  BY DEF BufferInv

\* Every step keeps the buffers and the requests together (redfish.c:235-345).
LEMMA BodyStep == TypeInv /\ HolderInv /\ BodyInv /\ [Next]_vars => BodyInv'
  <1> SUFFICES ASSUME TypeInv, HolderInv, BodyInv, [Next]_vars
               PROVE  BodyInv'
    OBVIOUS
  <1> USE RedfishAssumption, NoneAssumption
  <1>0. (\A r \in Resources : BufferInv(r)) /\ CallInv /\ AppliedInv
    BY DEF BodyInv, BufferInv, CallInv, AppliedInv
  <1>a. SUFFICES (\A r \in Resources : BufferInv(r)') /\ CallInv' /\ AppliedInv'
    BY DEF BodyInv, BufferInv, CallInv, AppliedInv
  <1>1. ASSUME NEW c \in Clients, NewRequest(c) \/ Refuse(c)
        PROVE  (\A r \in Resources : BufferInv(r)') /\ CallInv' /\ AppliedInv'
    <2>1. /\ \A r \in Resources : holder[r] # c
          /\ srv # c
      BY <1>1 DEF NewRequest, Refuse, HolderInv, TypeInv
    <2>2. /\ UNCHANGED <<user_data, holder, srv, status, piece, applied>>
          /\ \A d \in Clients : d # c => req'[d] = req[d]
      BY <1>1 DEF NewRequest, Refuse, TypeInv
    <2>3. \A r \in Resources : BufferInv(r)'
      BY <1>0, <2>1, <2>2, BufferKept DEF TypeInv
    <2>4. CallInv'
      BY <1>0, <2>1, <2>2 DEF CallInv, Cur, Before, TypeInv
    <2> QED
      BY <1>0, <2>2, <2>3, <2>4 DEF AppliedInv
  <1>2. ASSUME NEW c \in Clients, Deliver(c)
        PROVE  (\A r \in Resources : BufferInv(r)') /\ CallInv' /\ AppliedInv'
    <2>1. /\ srv = None /\ srv' = c /\ req[c] \in Requests /\ req[c].res \in Resources
          /\ holder[req[c].res] \in {None, c}
          /\ holder'[req[c].res] = c
          /\ \A r \in Resources : r # req[c].res => holder'[r] = holder[r]
          /\ req'[c].id = req[c].id /\ req'[c].res = req[c].res
          /\ req'[c].sent = (IF piece'.data THEN req[c].sent + 1 ELSE req[c].sent)
          /\ piece'.final => req'[c].sent = req'[c].pieces
          /\ \A d \in Clients : d # c => req'[d] = req[d]
          /\ UNCHANGED <<user_data, status, applied>>
      BY <1>2, DeliverFacts DEF TypeInv, Requests
    <2> DEFINE res == req[c].res
    <2>2. user_data[res].data = Prefix(req[c].id, req[c].sent) /\ req[c].sent \in Nat
      <3>1. CASE holder[res] = None
        <4>1. user_data[res].data = <<>>
          BY <1>0, <2>1, <3>1 DEF BufferInv, Unused
        <4>2. req[c].sent = 0 /\ req[c].id \in Nat
          BY <2>1, <3>1 DEF HolderInv, Requests
        <4> QED
          BY <4>1, <4>2, PrefixZero
      <3>2. CASE holder[res] = c
        BY <1>0, <2>1, <3>2 DEF BufferInv, Requests
      <3> QED
        BY <2>1, <3>1, <3>2
    <2>3. \A r \in Resources : BufferInv(r)'
      <3> SUFFICES ASSUME NEW r \in Resources
                   PROVE  BufferInv(r)'
        OBVIOUS
      <3>1. CASE r = res
        BY <1>0, <2>1, <3>1 DEF BufferInv
      <3>2. CASE r # res
        <4>1. holder[r] # c
          BY <3>2 DEF HolderInv
        <4> QED
          BY <1>0, <2>1, <3>2, <4>1, BufferKept DEF TypeInv
      <3> QED
        BY <3>1, <3>2
    <2>4. CallInv'
      <3>1. Before(Cur)' = req[c].sent
        BY <2>1, <2>2 DEF Before, Cur
      <3> QED
        BY <2>1, <2>2, <3>1 DEF CallInv, Cur
    <2> QED
      BY <1>0, <2>1, <2>3, <2>4 DEF AppliedInv
  <1>3. CASE config_bmc_password_set \/ UNCHANGED vars
    <2>1. UNCHANGED <<user_data, req, holder, srv, status, piece, applied>>
      BY <1>3 DEF config_bmc_password_set, vars
    <2> QED
      BY <1>0, <2>1 DEF BufferInv, CallInv, AppliedInv, Before, Cur
  <1>4. CASE MethodNotAllowed \/ Unauthorized
    <2>1. UNCHANGED <<user_data, req, holder, srv, applied>> /\ status' # None
      BY <1>4 DEF MethodNotAllowed, Unauthorized, Respond, Statuses
    <2> QED
      BY <1>0, <2>1 DEF BufferInv, CallInv, AppliedInv
  <1>5. CASE BodyMore
    <2>1. Called /\ srv' = None /\ UNCHANGED <<req, holder, applied>>
      BY <1>5 DEF BodyMore, InBody, ReturnForMore
    <2>2. Cur.res \in Resources /\ Gathered \in Seq(Nat \X Nat) /\ Cur = req[srv] /\ srv # None
          /\ holder[Cur.res] = srv
      BY <2>1, GatheredType DEF Called, Cur, HolderInv
    <2>3. Gathered = Prefix(Cur.id, Cur.sent)
      BY <2>1, GatheredFacts
    <2>4. /\ user_data'[Cur.res].started /\ user_data'[Cur.res].data = Gathered
          /\ \A s \in Resources : s # Cur.res => user_data'[s] = user_data[s]
      <3>1. CASE alloc_user_data(Cur.res, USER_DATA_BUFFER_POST_SIZE, Gathered)
        BY <3>1, <2>2, AllocFacts
      <3>2. CASE /\ user_data[Cur.res].started
                 /\ user_data' = [user_data EXCEPT ![Cur.res].data = Gathered]
        BY <3>2, <2>2 DEF TypeInv, UserData
      <3> QED
        BY <1>5, <3>1, <3>2 DEF BodyMore
    <2>5. \A r \in Resources : BufferInv(r)'
      <3> SUFFICES ASSUME NEW r \in Resources
                   PROVE  BufferInv(r)'
        OBVIOUS
      <3>1. CASE r = Cur.res
        BY <2>1, <2>2, <2>3, <2>4, <3>1 DEF BufferInv
      <3>2. CASE r # Cur.res
        <4>1. holder[r] # srv
          BY <2>2, <3>2 DEF HolderInv
        <4> QED
          BY <1>0, <2>1, <2>4, <3>2, <4>1, BufferKept
      <3> QED
        BY <3>1, <3>2
    <2> QED
      BY <1>0, <2>1, <2>5 DEF CallInv, AppliedInv
  <1>6. ASSUME Called, UNCHANGED <<req, holder, srv>>, status' # None,
               user_data'[Cur.res].started \/ user_data'[Cur.res] = Unused,
               \A s \in Resources : s # Cur.res => user_data'[s] = user_data[s]
        PROVE  (\A r \in Resources : BufferInv(r)') /\ CallInv'
    <2>1. Cur.res \in Resources /\ Cur = req[srv] /\ srv # None /\ holder[Cur.res] = srv
      BY <1>6, GatheredType DEF Called, Cur, HolderInv
    <2>2. \A r \in Resources : BufferInv(r)'
      <3> SUFFICES ASSUME NEW r \in Resources
                   PROVE  BufferInv(r)'
        OBVIOUS
      <3>1. CASE r = Cur.res
        BY <1>6, <2>1, <3>1 DEF BufferInv
      <3>2. CASE r # Cur.res
        BY <1>0, <1>6, <2>1, <3>2, BufferKept
      <3> QED
        BY <3>1, <3>2
    <2> QED
      BY <1>6, <2>2 DEF CallInv
  <1>7. CASE BodyTooLarge \/ BodyFinal \/ GetMore
    <2>1. /\ Called /\ free_user_data(Cur.res)
          /\ \E s \in Statuses : Respond(s)
      BY <1>7 DEF BodyTooLarge, BodyFinal, GetMore, InBody, InGet, Statuses
    <2>2. Cur.res \in Resources
      BY <2>1, GatheredType DEF Called
    <2>3. /\ user_data'[Cur.res] = Unused
          /\ \A s \in Resources : s # Cur.res => user_data'[s] = user_data[s]
      BY <1>0, <2>1, <2>2, FreeFacts DEF BufferInv
    <2>4. UNCHANGED <<req, holder, srv>> /\ status' # None
      BY <2>1 DEF Respond
    <2>5. AppliedInv'
      <3>1. CASE BodyFinal
        <4>1. applied' = applied \cup {[id |-> Cur.id, pieces |-> Cur.pieces, data |-> Gathered]}
              /\ piece.final
          BY <3>1 DEF BodyFinal
        <4>2. Gathered = Prefix(Cur.id, Cur.pieces)
          BY <1>0, <2>1, <4>1, GatheredFacts DEF CallInv, Called
        <4> QED
          BY <1>0, <4>1, <4>2 DEF AppliedInv
      <3>2. CASE BodyTooLarge \/ GetMore
        BY <1>0, <3>2 DEF BodyTooLarge, GetMore, AppliedInv
      <3> QED
        BY <1>7, <3>1, <3>2
    <2> QED
      BY <1>6, <2>1, <2>3, <2>4, <2>5
  <1>8. CASE Get
    <2>1. /\ Called /\ alloc_user_data(Cur.res, USER_DATA_BUFFER_GET_SIZE, <<>>)
          /\ \E s \in Statuses : Respond(s)
          /\ UNCHANGED applied
      BY <1>8 DEF Get, InGet, Statuses
    <2>2. Cur.res \in Resources /\ <<>> \in Seq(Nat \X Nat)
      BY <2>1, GatheredType DEF Called
    <2>3. /\ user_data'[Cur.res].started
          /\ \A s \in Resources : s # Cur.res => user_data'[s] = user_data[s]
      BY <2>1, <2>2, AllocFacts
    <2>4. UNCHANGED <<req, holder, srv>> /\ status' # None
      BY <2>1 DEF Respond
    <2> QED
      BY <1>0, <1>6, <2>1, <2>3, <2>4 DEF AppliedInv
  <1>9. ASSUME NEW c \in Clients, req[c] # None, holder[req[c].res] = c, srv \in {None, c},
               free_user_data(req[c].res), Close(c)
        PROVE  (\A r \in Resources : BufferInv(r)') /\ CallInv' /\ AppliedInv'
    <2> DEFINE res == req[c].res
    <2>1. res \in Resources
      BY <1>9 DEF TypeInv, Requests
    <2>2. /\ \A d \in Clients : d # c => req'[d] = req[d]
          /\ holder'[res] = None
          /\ \A r \in Resources : r # res => holder'[r] = holder[r]
          /\ srv' = None /\ UNCHANGED applied
      BY <1>9, <2>1 DEF Close, TypeInv
    <2>3. /\ user_data'[res] = Unused
          /\ \A s \in Resources : s # res => user_data'[s] = user_data[s]
      BY <1>0, <1>9, <2>1, FreeFacts DEF BufferInv
    <2>4. \A r \in Resources : BufferInv(r)'
      <3> SUFFICES ASSUME NEW r \in Resources
                   PROVE  BufferInv(r)'
        OBVIOUS
      <3>1. CASE r = res
        BY <2>2, <2>3, <3>1 DEF BufferInv, Unused
      <3>2. CASE r # res
        <4>1. holder[r] # c
          BY <3>2 DEF HolderInv
        <4>2. holder[r] # None /\ holder[r] = srv => srv' = srv
          BY <1>9, <2>2, <4>1
        <4> QED
          BY <1>0, <2>2, <2>3, <3>2, <4>1, <4>2, BufferKept DEF TypeInv
      <3> QED
        BY <3>1, <3>2
    <2> QED
      BY <1>0, <2>2, <2>4 DEF CallInv, AppliedInv
  <1>10. CASE TransactionComplete
    BY <1>9, <1>10 DEF TransactionComplete, TypeInv, HolderInv, Cur
  <1>11. ASSUME NEW c \in Clients, TransactionAborted(c)
         PROVE  (\A r \in Resources : BufferInv(r)') /\ CallInv' /\ AppliedInv'
    BY <1>9, <1>11 DEF TransactionAborted
  <1> QED
    BY <1>1, <1>2, <1>3, <1>4, <1>5, <1>7, <1>8, <1>10, <1>11 DEF Next, redfish_handler

-----------------------------------------------------------------------------
(* The heap.                                                               *)

\* Two started resources have different blocks, neither of them empty.
LEMMA BlocksDiffer ==
    ASSUME TypeInv, HeapInv, NEW r \in Resources, user_data[r].started
    PROVE  /\ user_data[r].at \in Nat /\ Units(user_data[r].size) \in Nat \ {0}
           /\ Block(r).at = user_data[r].at /\ Block(r).units = Units(user_data[r].size)
           /\ \A s \in Resources : user_data[s].started /\ s # r => user_data[s].at # user_data[r].at
  <1>1. \A s \in Resources : user_data[s].started =>
           user_data[s].at \in Nat /\ Units(user_data[s].size) \in {65, 129}
    BY UnitsOfBuffers DEF HeapInv
  <1> QED
    BY <1>1 DEF HeapInv, Block

\* free_user_data gives back the block of its resource and no other
\* (redfish.c:200-210).
LEMMA HeapFree ==
    ASSUME TypeInv, BodyInv, HeapInv, NEW r \in Resources, free_user_data(r)
    PROVE  HeapInv'
  <1> USE RedfishAssumption
  <1>1. /\ heap' = heap \ Own(r)
        /\ user_data'[r] = Unused
        /\ \A s \in Resources : s # r => user_data'[s] = user_data[s]
    BY FreeFacts DEF BodyInv
  <1>2. ~user_data'[r].started /\ Len(user_data'[r].data) <= PostPieces
    BY <1>1 DEF Unused
  <1>3. \A s \in Resources : user_data'[s].started =>
           s # r /\ user_data[s].started /\ user_data'[s] = user_data[s] /\ Block(s)' = Block(s)
    BY <1>1, <1>2 DEF Block
  <1>4. ASSUME NEW s \in Resources, user_data'[s].started
        PROVE  Block(s)' \in heap'
    <2>1. Block(s) \in heap /\ Block(s).at = user_data[s].at
      BY <1>3, <1>4, BlocksDiffer DEF HeapInv
    <2>2. user_data[r].started => user_data[s].at # user_data[r].at
      BY <1>3, <1>4, BlocksDiffer
    <2> QED
      BY <1>1, <1>3, <1>4, <2>1, <2>2 DEF Own
  <1>5. ASSUME NEW b \in heap'
        PROVE  \E s \in Resources : user_data'[s].started /\ b = Block(s)'
    <2>1. PICK s \in Resources : user_data[s].started /\ b = Block(s)
      BY <1>1, <1>5 DEF HeapInv
    <2>2. s # r
      BY <1>1, <2>1, BlocksDiffer DEF Own
    <2>3. user_data'[s] = user_data[s]
      BY <1>1, <2>2
    <2>4. Block(s)' = Block(s)
      BY <2>3 DEF Block
    <2> QED
      BY <2>1, <2>3, <2>4
  <1>6. \A s \in Resources : Len(user_data'[s].data) <= PostPieces
    BY <1>1, <1>2 DEF HeapInv
  <1>7. \A s \in Resources : user_data'[s].started =>
          /\ user_data'[s].size \in {USER_DATA_BUFFER_GET_SIZE, USER_DATA_BUFFER_POST_SIZE}
          /\ user_data'[s].at \in Nat
          /\ user_data'[s].at + Units(user_data'[s].size) <= HeapUnits
    BY <1>3 DEF HeapInv
  <1>8. \A q, s \in Resources : user_data'[q].started /\ user_data'[s].started /\ q # s =>
          \/ user_data'[q].at + Units(user_data'[q].size) <= user_data'[s].at
          \/ user_data'[s].at + Units(user_data'[s].size) <= user_data'[q].at
    BY <1>3 DEF HeapInv
  <1> QED
    BY <1>4, <1>5, <1>6, <1>7, <1>8 DEF HeapInv

\* alloc_user_data takes a block that overlaps no other (redfish.c:193-198).
LEMMA HeapAlloc ==
    ASSUME TypeInv, HeapInv, NEW r \in Resources,
           NEW size \in {USER_DATA_BUFFER_GET_SIZE, USER_DATA_BUFFER_POST_SIZE},
           NEW data \in Seq(Nat \X Nat), Len(data) <= PostPieces, alloc_user_data(r, size, data)
    PROVE  HeapInv'
  <1> USE RedfishAssumption
  <1>1. PICK at \in Nat :
              /\ Fits(at, Units(size), heap \ Own(r))
              /\ heap' = (heap \ Own(r)) \cup {[at |-> at, units |-> Units(size)]}
              /\ user_data'[r].started /\ user_data'[r].size = size
              /\ user_data'[r].data = data /\ user_data'[r].at = at
              /\ \A s \in Resources : s # r => user_data'[s] = user_data[s]
    BY AllocFacts
  <1>2. Block(r)' = [at |-> at, units |-> Units(size)]
    BY <1>1 DEF Block
  <1>3. ASSUME NEW s \in Resources, s # r, user_data[s].started
        PROVE  /\ Block(s)' = Block(s) /\ Block(s) \in heap \ Own(r)
               /\ \/ user_data[s].at + Units(user_data[s].size) <= at
                  \/ at + Units(size) <= user_data[s].at
    <2>1. Block(s)' = Block(s)
      BY <1>1, <1>3 DEF Block
    <2>2. Block(s) \in heap /\ Block(s).at = user_data[s].at
          /\ Block(s).units = Units(user_data[s].size)
      BY <1>3, BlocksDiffer DEF HeapInv
    <2>3. user_data[r].started => user_data[s].at # user_data[r].at
      BY <1>3, BlocksDiffer
    <2>4. Block(s) \in heap \ Own(r)
      BY <2>2, <2>3 DEF Own
    <2> QED
      BY <1>1, <2>1, <2>2, <2>4 DEF Fits
  <1>4. ASSUME NEW s \in Resources, user_data'[s].started
        PROVE  Block(s)' \in heap'
    BY <1>1, <1>2, <1>3, <1>4
  <1>5. ASSUME NEW b \in heap'
        PROVE  \E s \in Resources : user_data'[s].started /\ b = Block(s)'
    <2>1. CASE b = [at |-> at, units |-> Units(size)]
      BY <1>1, <1>2, <2>1
    <2>2. CASE b \in heap \ Own(r)
      <3>1. PICK s \in Resources : user_data[s].started /\ b = Block(s)
        BY <2>2 DEF HeapInv
      <3>2. s # r
        BY <2>2, <3>1, BlocksDiffer DEF Own
      <3> QED
        BY <1>1, <1>3, <3>1, <3>2
    <2> QED
      BY <1>1, <1>5, <2>1, <2>2
  <1>6. \A s \in Resources : Len(user_data'[s].data) <= PostPieces
    BY <1>1 DEF HeapInv
  <1>7. \A s \in Resources : user_data'[s].started =>
          /\ user_data'[s].size \in {USER_DATA_BUFFER_GET_SIZE, USER_DATA_BUFFER_POST_SIZE}
          /\ user_data'[s].at \in Nat
          /\ user_data'[s].at + Units(user_data'[s].size) <= HeapUnits
    BY <1>1 DEF HeapInv, Fits
  <1>8. \A q, s \in Resources : user_data'[q].started /\ user_data'[s].started /\ q # s =>
          \/ user_data'[q].at + Units(user_data'[q].size) <= user_data'[s].at
          \/ user_data'[s].at + Units(user_data'[s].size) <= user_data'[q].at
    BY <1>1, <1>3 DEF HeapInv
  <1> QED
    BY <1>4, <1>5, <1>6, <1>7, <1>8 DEF HeapInv

\* Every step keeps the heap in order (redfish.c:193-345).
LEMMA HeapStep == TypeInv /\ HolderInv /\ BodyInv /\ HeapInv /\ [Next]_vars => HeapInv'
  <1> SUFFICES ASSUME TypeInv, HolderInv, BodyInv, HeapInv, [Next]_vars
               PROVE  HeapInv'
    OBVIOUS
  <1> USE RedfishAssumption, NoneAssumption
  <1>1. ASSUME UNCHANGED <<user_data, heap>>
        PROVE  HeapInv'
    BY <1>1 DEF HeapInv, Block
  <1>2. CASE \/ config_bmc_password_set \/ MethodNotAllowed \/ Unauthorized \/ UNCHANGED vars
             \/ \E c \in Clients : NewRequest(c) \/ Deliver(c) \/ Refuse(c)
    BY <1>1, <1>2 DEF config_bmc_password_set, MethodNotAllowed, Unauthorized, vars, NewRequest,
         Deliver, Refuse
  <1>3. CASE BodyMore
    <2>1. srv # None /\ ~TooLarge
      BY <1>3 DEF BodyMore, InBody, Called
    <2>2. Cur.res \in Resources /\ Gathered \in Seq(Nat \X Nat) /\ Len(Gathered) <= PostPieces
      BY <2>1, GatheredType DEF TooLarge
    <2>3. CASE alloc_user_data(Cur.res, USER_DATA_BUFFER_POST_SIZE, Gathered)
      BY <2>2, <2>3, HeapAlloc
    <2>4. CASE /\ user_data' = [user_data EXCEPT ![Cur.res].data = Gathered]
               /\ UNCHANGED heap
      <3>1. \A s \in Resources :
               /\ user_data'[s].started = user_data[s].started
               /\ user_data'[s].size = user_data[s].size /\ user_data'[s].at = user_data[s].at
        BY <2>2, <2>4 DEF TypeInv, UserData
      <3>2. \A s \in Resources : Len(user_data'[s].data) <= PostPieces
        BY <2>2, <2>4 DEF TypeInv, UserData, HeapInv
      <3>3. \A s \in Resources : Block(s)' = Block(s)
        BY <3>1 DEF Block
      <3> QED
        BY <2>4, <3>1, <3>2, <3>3 DEF HeapInv
    <2> QED
      BY <1>3, <2>3, <2>4 DEF BodyMore
  <1>4. CASE BodyTooLarge \/ BodyFinal \/ GetMore \/ TransactionComplete
    <2>1. srv # None /\ free_user_data(Cur.res)
      BY <1>4 DEF BodyTooLarge, BodyFinal, GetMore, TransactionComplete, InBody, InGet, Called
    <2> QED
      BY <2>1, GatheredType, HeapFree
  <1>5. CASE Get
    <2>1. srv # None /\ alloc_user_data(Cur.res, USER_DATA_BUFFER_GET_SIZE, <<>>)
      BY <1>5 DEF Get, InGet, Called
    <2>2. Cur.res \in Resources /\ <<>> \in Seq(Nat \X Nat) /\ Len(<<>>) <= PostPieces
      BY <2>1, GatheredType
    <2> QED
      BY <2>1, <2>2, HeapAlloc
  <1>6. ASSUME NEW c \in Clients, TransactionAborted(c)
        PROVE  HeapInv'
    <2>1. req[c].res \in Resources /\ free_user_data(req[c].res)
      BY <1>6 DEF TransactionAborted, TypeInv, Requests
    <2> QED
      BY <2>1, HeapFree
  <1> QED
    BY <1>2, <1>3, <1>4, <1>5, <1>6 DEF Next, redfish_handler

-----------------------------------------------------------------------------
(* Theorems.                                                               *)

\* The server starts without requests, and the heap is empty.
LEMMA Initially == Init => TypeInv /\ HolderInv /\ BodyInv /\ HeapInv
  <1> SUFFICES ASSUME Init
               PROVE  TypeInv /\ HolderInv /\ BodyInv /\ HeapInv
    OBVIOUS
  <1> USE RedfishAssumption, NoneAssumption DEF Init
  <1>1. Unused \in UserData /\ ~Unused.started /\ Len(Unused.data) = 0
    BY DEF Unused, UserData
  <1>2. \A r \in Resources : user_data[r] = Unused /\ holder[r] = None
    OBVIOUS
  <1>3. TypeInv
    BY <1>1 DEF TypeInv
  <1>4. HolderInv
    BY <1>2 DEF HolderInv
  <1>5. BodyInv
    BY <1>1, <1>2 DEF BodyInv
  <1>6. HeapInv
    BY <1>1, <1>2 DEF HeapInv
  <1> QED
    BY <1>3, <1>4, <1>5, <1>6

\* The four parts carry each other from step to step.
LEMMA Inductive == Spec => [](TypeInv /\ HolderInv /\ BodyInv /\ HeapInv)
  BY Initially, TypeStep, HolderStep, BodyStep, HeapStep, PTL DEF Spec

\* patch_fn and post_fn are called with the whole body of their own request and
\* nothing else, whatever requests on the same resource were aborted, refused,
\* unauthorised or too large before, and wherever the password changed in between
\* (redfish.c:235-345).
THEOREM BodyIsWholeHolds == Spec => []BodyIsWhole
  <1>1. BodyInv => BodyIsWhole
    BY DEF BodyInv, BodyIsWhole, Prefix
  <1> QED
    BY <1>1, Inductive, PTL

\* Every block of the heap belongs to one resource that a client holds: no end of
\* a request leaks its buffer, none is freed twice or shared, and no body outgrows
\* its buffer (redfish.c:193-210, 235-345).
THEOREM BuffersOwnedHolds == Spec => []BuffersOwned
  <1>1. TypeInv /\ BodyInv /\ HeapInv => BuffersOwned
    <2> SUFFICES ASSUME TypeInv, BodyInv, HeapInv
                 PROVE  BuffersOwned
      OBVIOUS
    <2>1. \A b \in heap : \E r \in Resources : user_data[r].at = b.at /\ holder[r] # None
      BY BlocksDiffer DEF HeapInv, BodyInv
    <2>2. \A r, s \in Resources : user_data[r].started /\ user_data[s].started /\ r # s
              => user_data[r].at # user_data[s].at
      BY BlocksDiffer
    <2> QED
      BY <2>1, <2>2 DEF HeapInv, BuffersOwned
  <1> QED
    BY <1>1, Inductive, PTL

\* A body fits its buffer, the blocks lie in the heap, and a call ends with one of
\* the handler's responses (redfish.c:193-345).
THEOREM RedfishTypes == Spec => []TypeOK
  <1>1. TypeInv /\ BodyInv /\ HeapInv => TypeOK
    <2> SUFFICES ASSUME TypeInv, BodyInv, HeapInv PROVE TypeOK
      OBVIOUS
    <2> USE RedfishAssumption
    <2>1. ASSUME NEW r \in Resources
          PROVE  /\ holder[r] \in Clients \cup {None} /\ user_data[r].started \in BOOLEAN
                 /\ Len(user_data[r].data) <= PostPieces
      BY DEF TypeInv, UserData, HeapInv
    <2>2. ASSUME NEW r \in Resources PROVE user_data[r].at \in -1..HeapUnits
      <3>1. CASE user_data[r].started
        BY <3>1, UnitsOfBuffers DEF HeapInv
      <3>2. CASE ~user_data[r].started
        BY <3>2 DEF BodyInv, Unused
      <3> QED
        BY <3>1, <3>2
    <2>3. ASSUME NEW b \in heap PROVE b.at >= 0 /\ b.at + b.units <= HeapUnits
      <3>1. PICK r \in Resources : user_data[r].started /\ b = Block(r)
        BY DEF HeapInv
      <3>2. b.at = user_data[r].at /\ b.units = Units(user_data[r].size)
        BY <3>1 DEF Block
      <3> QED
        BY <3>1, <3>2 DEF HeapInv
    <2> QED
      BY <2>1, <2>2, <2>3 DEF TypeOK, TypeInv
  <1> QED
    BY <1>1, Inductive, PTL

\* Wherever the handler asks for a buffer it has one, or k_heap_alloc finds a gap for
\* it: the HTTP thread does not wait for space.
NeverWaits ==
    /\ InGet /\ piece.final =>
          \E at \in GapStarts : Fits(at, Units(USER_DATA_BUFFER_GET_SIZE), heap \ Own(Cur.res))
    /\ InBody => HasBuffer

\* With one client the HTTP thread never waits in k_heap_alloc, if the larger buffer
\* fits the empty heap (redfish.c:193-198, 250-345): the only block that can be in use
\* is the one of the resource it is serving.  With two clients it can wait for ever,
\* as the run RedfishHeap shows.
THEOREM OneClientNeverWaits ==
    ASSUME \A c, d \in Clients : c = d,
           Units(USER_DATA_BUFFER_GET_SIZE) <= HeapUnits
    PROVE  Spec => []NeverWaits
  <1>1. TypeInv /\ HolderInv /\ BodyInv /\ HeapInv => NeverWaits
    <2> SUFFICES ASSUME TypeInv, HolderInv, BodyInv, HeapInv, srv # None
                 PROVE  NeverWaits
      BY DEF NeverWaits, InGet, InBody, Called
    <2> USE RedfishAssumption
    <2>1. Cur.res \in Resources /\ srv \in Clients
      BY GatheredType DEF TypeInv
    <2>2. ASSUME NEW r \in Resources, user_data[r].started PROVE r = Cur.res
      <3>1. holder[r] \in Clients /\ holder[r] # None
        BY <2>2 DEF BodyInv, TypeInv
      <3>2. holder[r] = srv
        BY <2>1, <3>1
      <3> QED
        BY <3>1, <3>2 DEF HolderInv, Cur
    <2>3. ASSUME NEW b \in heap PROVE user_data[Cur.res].started /\ b.at = user_data[Cur.res].at
      <3>1. PICK r \in Resources : user_data[r].started /\ b = Block(r)
        BY DEF HeapInv
      <3> QED
        BY <2>2, <3>1 DEF Block
    <2>4. heap \ Own(Cur.res) = {}
      BY <2>3 DEF Own
    <2>5. ~user_data[Cur.res].started => heap = {}
      BY <2>3
    <2>6. 0 \in GapStarts
      BY DEF GapStarts
    <2>7. \A used : used = {} => Fits(0, Units(USER_DATA_BUFFER_GET_SIZE), used)
                                 /\ Fits(0, Units(USER_DATA_BUFFER_POST_SIZE), used)
      BY UnitsOfBuffers DEF Fits
    <2>8. HasBuffer
      BY <2>5, <2>6, <2>7 DEF HasBuffer
    <2> QED
      BY <2>4, <2>6, <2>7, <2>8 DEF NeverWaits
  <1> QED
    BY <1>1, Inductive, PTL

=============================================================================
