------------------------------ MODULE Redfish -------------------------------
(***************************************************************************)
(* The lifecycle of a Redfish request (src/redfish.c, redfish_handler).    *)
(* Every resource has one static user_data; its data_buffer comes from a   *)
(* small heap shared by all resources, is filled with a request's body     *)
(* over several calls of the handler, and is given back when the           *)
(* transaction ends or is aborted.                                         *)
(*                                                                         *)
(* One thread of the HTTP server makes every call of the handler (srv is   *)
(* the client it is serving), so a k_heap_alloc that waits stops them all. *)
(* The server is Zephyr's, modelled from how the code uses it: a resource  *)
(* is held by the client whose request has reached the handler, and others *)
(* are refused meanwhile ("serialises requests by resource"); a body comes *)
(* in pieces, the last one marked final and possibly empty; after the      *)
(* final response, or when the connection is lost, the handler is called   *)
(* once more to clean up.  The shell changes the password at any time.     *)
(*                                                                         *)
(* A piece of a body is a pair of request number and index, so a buffer    *)
(* shows whose bytes it holds; the heap is counted in sys_heap's units of  *)
(* 8 bytes, with its 4 byte header in front of every block.                *)
(***************************************************************************)
EXTENDS Integers, Sequences, FiniteSets

CONSTANTS Clients,
          Public,      \* resources with a GET handler and no authentication
          GetPatch,    \* resources with a GET and a PATCH handler
          PostOnly,    \* resources with a POST handler (actions)
          Passwords,
          HeapUnits,   \* what sys_heap leaves of USER_DATA_HEAP_SIZE
          PostPieces,  \* pieces that fit in USER_DATA_BUFFER_POST_SIZE
          MaxPieces,   \* bound: pieces of a body
          MaxRequests, \* bound: requests made
          MaxChanges,  \* bound: password changes
          None

ASSUME RedfishAssumption ==
    /\ HeapUnits \in Nat /\ PostPieces \in Nat /\ MaxPieces \in Nat
    /\ MaxRequests \in Nat /\ MaxChanges \in Nat
    /\ None \notin Clients

Resources == Public \cup GetPatch \cup PostOnly
Methods == {"GET", "PATCH", "POST"}
Requests == [id : Nat, res : Resources, method : Methods, pieces : Nat, sent : Nat,
             pw : Passwords]
Statuses == {200, 204, 400, 401, 405, 500}

ASSUME NoneAssumption == None \notin Requests /\ None \notin Statuses

\* Units a buffer of each size takes, its header included.
Units(size) == (size + 4 + 7) \div 8
USER_DATA_BUFFER_GET_SIZE == 1024
USER_DATA_BUFFER_POST_SIZE == 512

VARIABLES req,       \* the request a client has open
          holder,    \* the client a resource serves
          user_data, \* http_resource_user_data of every resource
          heap,      \* the blocks of heap_data_buffer in use
          srv,       \* the client the server thread is serving
          piece,     \* what this call of the handler was given
          status,    \* the final response of this call
          password, changes,
          made,      \* requests made so far
          applied,   \* what patch_fn and post_fn were called with
          complained \* was "user_data not cleared ..." logged?

vars == <<req, holder, user_data, heap, srv, piece, status, password, changes,
          made, applied, complained>>

Unused == [started |-> FALSE, size |-> 0, data |-> <<>>, at |-> -1]

Init ==
    /\ req = [c \in Clients |-> None]
    /\ holder = [r \in Resources |-> None]
    /\ user_data = [r \in Resources |-> Unused]
    /\ heap = {}
    /\ srv = None /\ piece = None /\ status = None
    /\ password \in Passwords /\ changes = 0
    /\ made = 0 /\ applied = {} /\ complained = FALSE

-----------------------------------------------------------------------------
(* The heap: a block is taken at the front of a free gap that is large     *)
(* enough, and the caller waits while there is none (K_FOREVER).           *)

\* The block of a resource's data_buffer.
Own(r) == {b \in heap : user_data[r].started /\ b.at = user_data[r].at}

GapStarts == {0} \cup {b.at + b.units : b \in heap}

Fits(at, units, used) ==
    /\ at + units <= HeapUnits
    /\ \A b \in used : b.at + b.units <= at \/ at + units <= b.at

\* A buffer of the last request, were there one, is freed first.
alloc_user_data(r, size, data) ==
    \E at \in GapStarts :
        /\ Fits(at, Units(size), heap \ Own(r))
        /\ heap' = (heap \ Own(r)) \cup {[at |-> at, units |-> Units(size)]}
        /\ user_data' = [user_data EXCEPT ![r] =
              [started |-> TRUE, size |-> size, data |-> data, at |-> at]]

\* Mutation of free_user_data: data_len is not reset.
FreeKeepsLen(r) ==
    /\ heap' = heap \ Own(r)
    /\ user_data' = [user_data EXCEPT ![r] = [Unused EXCEPT !.data = user_data[r].data]]

\* Without started nothing is freed or reset.
free_user_data(r) ==
    /\ heap' = heap \ Own(r)
    /\ user_data' = [user_data EXCEPT ![r] =
                        IF @.started THEN Unused ELSE @]

-----------------------------------------------------------------------------
(* The clients and the server around the handler.                          *)

NewRequest(c) ==
    /\ req[c] = None /\ made < MaxRequests
    /\ \E r \in Resources, m \in Methods, n \in 0..MaxPieces, p \in Passwords :
          req' = [req EXCEPT ![c] = [id |-> made, res |-> r, method |-> m,
                                     pieces |-> n, sent |-> 0, pw |-> p]]
    /\ made' = made + 1
    /\ UNCHANGED <<holder, user_data, heap, srv, piece, status, password,
                   changes, applied, complained>>

\* The next piece reaches the handler.  The last piece of the body is final, or
\* an empty final piece follows it.
Deliver(c) ==
    /\ srv = None /\ req[c] # None
    /\ holder[req[c].res] \in {None, c}
    /\ LET more == req[c].sent < req[c].pieces
           last == req[c].sent + 1 >= req[c].pieces
       IN \E final \in IF last THEN {TRUE, ~more} ELSE {FALSE} :
              piece' = [data |-> more, final |-> final]
    /\ req' = [req EXCEPT ![c].sent =
                  IF @ < req[c].pieces THEN @ + 1 ELSE @]
    /\ srv' = c /\ holder' = [holder EXCEPT ![req[c].res] = c]
    /\ UNCHANGED <<user_data, heap, status, password, changes, made, applied,
                   complained>>

\* Another client has the resource: the request is refused (409).
Refuse(c) ==
    /\ srv = None /\ req[c] # None
    /\ holder[req[c].res] \notin {None, c}
    /\ req' = [req EXCEPT ![c] = None]
    /\ UNCHANGED <<holder, user_data, heap, srv, piece, status, password,
                   changes, made, applied, complained>>

config_bmc_password_set ==
    /\ changes < MaxChanges /\ changes' = changes + 1
    /\ password' \in Passwords \ {password}
    /\ UNCHANGED <<req, holder, user_data, heap, srv, piece, status, made,
                   applied, complained>>

-----------------------------------------------------------------------------
(* redfish_handler, called for a piece of the request of srv.              *)

\* The call of the handler that the server thread is in.
Called == srv # None /\ status = None
Cur == req[srv]

Allowed(r) ==
    CASE r \in PostOnly -> {"POST"}
      [] r \in GetPatch -> {"GET", "PATCH"}
      [] OTHER -> {"GET"}

Accepted == Cur.method \in Allowed(Cur.res)

\* Basic authentication is checked anew with every piece.
validate_auth == Cur.pw = password
Authenticated == Cur.res \in Public \/ validate_auth

\* The call returns with a final response.
Respond(s) ==
    /\ status' = s
    /\ UNCHANGED <<req, holder, srv, piece, password, changes, made, complained>>

\* The call returns without one: the server goes on to other clients.
ReturnForMore ==
    /\ srv' = None /\ piece' = None
    /\ UNCHANGED <<req, holder, status, password, changes, made, applied,
                   complained>>

\* validate_and_set_headers
MethodNotAllowed ==
    /\ Called /\ ~Accepted
    /\ Respond(405)
    /\ UNCHANGED <<user_data, heap, applied>>

\* set_unauth_response: user_data keeps what earlier pieces brought.
Unauthorized ==
    /\ Called /\ Accepted /\ ~Authenticated
    /\ Respond(401)
    /\ UNCHANGED <<user_data, heap, applied>>

InBody == Called /\ Accepted /\ Authenticated /\ Cur.method \in {"PATCH", "POST"}

ThisPiece == IF piece.data THEN <<<<Cur.id, Cur.sent>>>> ELSE <<>>

\* What append_user_data leaves in the buffer.
Gathered == user_data[Cur.res].data \o ThisPiece

TooLarge == Len(Gathered) > PostPieces

\* The buffer is allocated with the first piece (and freed at once if that
\* piece alone is too large); later pieces are appended to it.
BodyMore ==
    /\ InBody /\ ~TooLarge /\ ~piece.final
    /\ \/ /\ ~user_data[Cur.res].started
          /\ alloc_user_data(Cur.res, USER_DATA_BUFFER_POST_SIZE, Gathered)
       \/ /\ user_data[Cur.res].started
          /\ user_data' = [user_data EXCEPT ![Cur.res].data = Gathered]
          /\ UNCHANGED heap
    /\ ReturnForMore

\* A buffer is there, or one can be had.
HasBuffer ==
    \/ user_data[Cur.res].started
    \/ \E at \in GapStarts : Fits(at, Units(USER_DATA_BUFFER_POST_SIZE), heap)

BodyTooLarge ==
    /\ InBody /\ TooLarge /\ HasBuffer
    /\ free_user_data(Cur.res)
    /\ Respond(400)
    /\ UNCHANGED applied

\* The final piece: patch_fn or post_fn is called with the whole body, and the
\* buffer is freed whatever it returns.
BodyFinal ==
    /\ InBody /\ ~TooLarge /\ piece.final /\ HasBuffer
    /\ applied' = applied \cup {[id |-> Cur.id, pieces |-> Cur.pieces,
                                 data |-> Gathered]}
    /\ free_user_data(Cur.res)
    /\ \E s \in {204, 400, 500} : Respond(s)

InGet == Called /\ Accepted /\ Authenticated /\ Cur.method = "GET"

\* A GET whose parameters come in several calls is turned down; a started
\* user_data is freed first.
GetMore ==
    /\ InGet /\ ~piece.final
    /\ free_user_data(Cur.res)
    /\ Respond(400)
    /\ UNCHANGED applied

\* get_fn fills the buffer, which stays allocated until the response is sent.
Get ==
    /\ InGet /\ piece.final
    /\ alloc_user_data(Cur.res, USER_DATA_BUFFER_GET_SIZE, <<>>)
    /\ \E s \in {200, 500} : Respond(s)
    /\ UNCHANGED applied

\* The server closes the transaction of client c.
Close(c) ==
    /\ holder' = [holder EXCEPT ![req[c].res] = None]
    /\ req' = [req EXCEPT ![c] = None]
    /\ srv' = None /\ piece' = None /\ status' = None
    /\ UNCHANGED <<password, changes, made, applied>>

\* HTTP_SERVER_TRANSACTION_COMPLETE: a GET frees its buffer here; for the
\* others a buffer still there is an error, logged and repaired.
TransactionComplete ==
    /\ srv # None /\ status # None
    /\ complained' = (complained \/ (Cur.method # "GET" /\ user_data[Cur.res].started))
    /\ free_user_data(Cur.res)
    /\ Close(srv)

\* Mutation of TransactionAborted: the buffer is left.
AbortKeepsBuffer(c) ==
    /\ srv = None \/ (srv = c /\ status # None)
    /\ req[c] # None /\ holder[req[c].res] = c
    /\ Close(c)
    /\ UNCHANGED <<user_data, heap, complained>>

\* HTTP_SERVER_TRANSACTION_ABORTED: the connection is lost between two pieces
\* or while the response is sent.
TransactionAborted(c) ==
    /\ srv = None \/ (srv = c /\ status # None)
    /\ req[c] # None /\ holder[req[c].res] = c
    /\ free_user_data(req[c].res)
    /\ Close(c)
    /\ UNCHANGED complained

redfish_handler ==
    \/ MethodNotAllowed
    \/ Unauthorized
    \/ BodyMore
    \/ BodyTooLarge
    \/ BodyFinal
    \/ GetMore
    \/ Get
    \/ TransactionComplete

Next ==
    \/ redfish_handler
    \/ \E c \in Clients :
          NewRequest(c) \/ Deliver(c) \/ Refuse(c) \/ TransactionAborted(c)
    \/ config_bmc_password_set

\* The server thread runs, and a client that has opened a request goes on
\* sending it; no connection need ever be lost.
Fairness ==
    /\ WF_vars(redfish_handler)
    /\ \A c \in Clients : SF_vars(Deliver(c)) /\ SF_vars(Refuse(c))

Spec == Init /\ [][Next]_vars /\ Fairness

-----------------------------------------------------------------------------
(* Properties.                                                             *)

\* A body never outgrows its buffer, a block of the heap lies inside it, and the
\* responses are the ones redfish_handler gives.
TypeOK ==
    /\ \A r \in Resources :
          /\ holder[r] \in Clients \cup {None}
          /\ user_data[r].started \in BOOLEAN
          /\ Len(user_data[r].data) <= PostPieces
          /\ user_data[r].at \in -1..HeapUnits
    /\ \A b \in heap : b.at >= 0 /\ b.at + b.units <= HeapUnits
    /\ srv \in Clients \cup {None}
    /\ status \in Statuses \cup {None}

\* patch_fn and post_fn see exactly the pieces of the request they are called
\* for, each once and in order: nothing of an aborted, refused or oversized
\* request on the same static user_data is left in front of them
\* (redfish.c:281-307).
BodyIsWhole ==
    \A a \in applied : a.data = [i \in 1..a.pieces |-> <<a.id, i>>]

\* A block of the heap is the buffer of a resource some client still holds, and
\* no two resources share one: every end of a request gives its buffer back; and no
\* body outgrows its buffer (redfish.c:250-266, 286-296).
BuffersOwned ==
    /\ \A r \in Resources : Len(user_data[r].data) <= PostPieces
    /\ \A b \in heap : \E r \in Resources :
          user_data[r].at = b.at /\ holder[r] # None
    /\ \A r, s \in Resources :
          user_data[r].started /\ user_data[s].started /\ r # s
              => user_data[r].at # user_data[s].at

-----------------------------------------------------------------------------
(* What the code does not give; README.md says how each one fails.         *)

\* A request whose client goes on sending it is answered: the pieces are
\* accumulated "until the final request" (redfish.c:285), and no wait for the
\* heap holds the server up for ever.
Answered ==
    \A c \in Clients : req[c] # None ~> req[c] = None

\* "user_data not cleared before transaction complete" (redfish.c:253) is never
\* logged: redfish_handler itself frees the buffer of every PATCH and POST.
ClearedBeforeComplete == ~complained

=============================================================================
