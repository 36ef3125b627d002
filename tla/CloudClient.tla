------------------------------ MODULE CloudClient ------------------------------
(***************************************************************************)
(* The application of with_sensors/main.c: a Thread node that resolves the *)
(* address of a cloud host when it attaches to the mesh, forgets it when   *)
(* it detaches, and posts its sensor values whenever its timer expires.    *)
(*                                                                         *)
(* Two contexts share m_app.  The main loop runs OpenThread, which calls   *)
(* state_changed_callback and dns_response_handler; the interrupt of RTC1  *)
(* runs timer_a_handler, which preempts the main loop at any instruction   *)
(* and is preempted by nothing modelled here.  An IPv6 address is four     *)
(* words, copied one store at a time: a copy takes two steps here, and     *)
(* the interrupt can come between them.                                    *)
(*                                                                         *)
(* OpenThread is external: its role, its outstanding DNS queries and its   *)
(* message pool are modelled from the calls this application makes.        *)
(***************************************************************************)
EXTENDS FiniteSets, Naturals

CONSTANTS
    Addresses,    \* what a DNS answer may hold
    Unspecified,  \* m_unspecified_ipv6
    Queries,      \* the queries OpenThread can have outstanding at a time
    Messages,     \* the message buffers of OpenThread
    NULL,         \* no message, or no copy in progress
    NumValues,    \* values posted by one cloud_data_update (4 in the code)
    Failures      \* what may fail: "query", "answer", "append", "send"

ASSUME CloudClientAssumption ==
    /\ NumValues \in Nat \ {0}
    /\ IsFiniteSet(Queries) /\ IsFiniteSet(Messages)
    /\ NULL \notin Messages \cup Addresses \cup {Unspecified}
    /\ Unspecified \notin Addresses
    /\ Failures \subseteq {"query", "answer", "append", "send"}

VARIABLES
    state,          \* m_app.state
    cloud_address,  \* m_app.cloud_address, as the two halves a copy writes
    copying,        \* the address whose second half is still to be stored
    role,           \* otThreadGetDeviceRole
    role_changed,   \* a change of role whose callback is still to be called
    queries,        \* the queries with no answer yet
    isr,            \* timer_a_handler: its program counter and locals
    owner,          \* who owns each message buffer
    peer            \* the destination of each message handed to OpenThread

app == <<state, cloud_address, copying>>
network == <<role, role_changed, queries>>
mail == <<owner, peer>>
vars == <<app, network, isr, mail>>

AnyAddress == Addresses \cup {Unspecified}
Attached == {"child", "router", "leader"}
Roles == Attached \cup {"disabled", "detached"}
Whole(a) == [half \in 1 .. 2 |-> a]

Idle == [pc |-> "idle", value |-> NumValues, p_request |-> NULL, failed |-> FALSE]
(* cloud_data_send begins with error set to OT_ERROR_NO_BUFS.              *)
Sending(i) == [pc |-> "new", value |-> i, p_request |-> NULL, failed |-> TRUE]

Init ==
    /\ state = "IDLE" /\ cloud_address = Whole(Unspecified) /\ copying = NULL
    /\ role = "disabled" /\ role_changed = FALSE /\ queries = {}
    /\ isr = Idle
    /\ owner = [m \in Messages |-> "pool"]
    /\ peer = [m \in Messages |-> Whole(Unspecified)]

(* The main loop runs between two interrupts; it takes its next OpenThread *)
(* event once the copy it is in is complete.                               *)
MainRuns == isr.pc = "idle"
NextEvent == MainRuns /\ copying = NULL

Outcomes(what) == IF what \in Failures THEN {"ok", "failed"} ELSE {"ok"}

-----------------------------------------------------------------------------
(* m_app.cloud_address = a: the first half now, the second half later.     *)
BeginCopy(a) ==
    /\ cloud_address' = [cloud_address EXCEPT ![1] = a]
    /\ copying' = a

EndCopy ==
    /\ MainRuns /\ copying # NULL
    /\ cloud_address' = [cloud_address EXCEPT ![2] = copying]
    /\ copying' = NULL
    /\ UNCHANGED <<state, network, isr, mail>>

(* OpenThread changes its role and remembers to tell the application: one  *)
(* callback may stand for several changes.                                 *)
ChangeRole(r) ==
    /\ NextEvent /\ r # role
    /\ role' = r /\ role_changed' = TRUE
    /\ UNCHANGED <<app, queries, isr, mail>>

(* otDnsClientQuery: refused when it fails or no query is free.  The       *)
(* application only logs a refusal.                                        *)
hostname_resolve ==
    \/ \E q \in Queries \ queries : queries' = queries \cup {q}
    \/ "failed" \in Outcomes("query") /\ UNCHANGED queries
    \/ Queries \subseteq queries /\ UNCHANGED queries

\* Fault: the case label of the leader is missing.
handle_role_change_NoLeader(r) ==
    \/ /\ r \in Attached \ {"leader"} /\ state = "IDLE"
       /\ state' = "HOSTNAME_RESOLVING"
       /\ hostname_resolve
       /\ UNCHANGED <<cloud_address, copying>>
    \/ /\ r \in Attached \ {"leader"} /\ state # "IDLE"
       /\ UNCHANGED <<app, queries>>
    \/ /\ r \notin Attached \ {"leader"}
       /\ state' = "IDLE"
       /\ BeginCopy(Unspecified)
       /\ UNCHANGED queries

\* Fault: a node that detaches keeps its state.
handle_role_change_KeepsState(r) ==
    \/ /\ r \in Attached /\ state = "IDLE"
       /\ state' = "HOSTNAME_RESOLVING"
       /\ hostname_resolve
       /\ UNCHANGED <<cloud_address, copying>>
    \/ /\ r \in Attached /\ state # "IDLE"
       /\ UNCHANGED <<app, queries>>
    \/ /\ r \notin Attached
       /\ UNCHANGED state
       /\ BeginCopy(Unspecified)
       /\ UNCHANGED queries

handle_role_change(r) ==
    \/ /\ r \in Attached /\ state = "IDLE"
       /\ state' = "HOSTNAME_RESOLVING"
       /\ hostname_resolve
       /\ UNCHANGED <<cloud_address, copying>>
    \/ /\ r \in Attached /\ state # "IDLE"
       /\ UNCHANGED <<app, queries>>
    \/ /\ r \notin Attached
       /\ state' = "IDLE"
       /\ BeginCopy(Unspecified)
       /\ UNCHANGED queries

state_changed_callback ==
    /\ NextEvent /\ role_changed
    /\ role_changed' = FALSE
    /\ handle_role_change(role)
    /\ UNCHANGED <<role, isr, mail>>

\* Fault: answers are taken in any state.
dns_response_handler_AnyState(answer) ==
    /\ state' = "RUNNING"
    /\ IF answer = "failed" THEN UNCHANGED <<cloud_address, copying>>
                            ELSE BeginCopy(answer)

\* Fault: an answer is taken although one was taken before.
dns_response_handler_Overwrites(answer) ==
    \/ state = "IDLE" /\ UNCHANGED app
    \/ /\ state # "IDLE"
       /\ state' = "RUNNING"
       /\ IF answer = "failed" THEN UNCHANGED <<cloud_address, copying>>
                               ELSE BeginCopy(answer)

(* The answer to query q: an address, or an error or a record that may not *)
(* be kept, written "failed".  The state is RUNNING in either case.        *)
dns_response_handler(answer) ==
    \/ /\ state # "HOSTNAME_RESOLVING"
       /\ UNCHANGED app
    \/ /\ state = "HOSTNAME_RESOLVING"
       /\ state' = "RUNNING"
       /\ IF answer = "failed" THEN UNCHANGED <<cloud_address, copying>>
                               ELSE BeginCopy(answer)

Answers == Addresses \cup (Outcomes("answer") \ {"ok"})

DnsResponse(q) ==
    /\ NextEvent /\ q \in queries
    /\ queries' = queries \ {q}
    /\ \E answer \in Answers : dns_response_handler(answer)
    /\ UNCHANGED <<role, role_changed, isr, mail>>

(* OpenThread transmits a message, or gives up on it, and frees it.        *)
MessageLeaves(m) ==
    /\ NextEvent /\ owner[m] = "stack"
    /\ owner' = [owner EXCEPT ![m] = "pool"]
    /\ UNCHANGED <<app, network, isr, peer>>

-----------------------------------------------------------------------------
(* timer_a_handler, from its call of cloud_data_update on: NumValues calls *)
(* of cloud_data_send, whatever the state of the application.              *)
timer_a_handler ==
    /\ isr = Idle
    /\ isr' = Sending(1)
    /\ UNCHANGED <<app, network, mail>>

otCoapNewMessage ==
    /\ isr.pc = "new"
    /\ \/ \E m \in Messages :
             /\ owner[m] = "pool"
             /\ owner' = [owner EXCEPT ![m] = "handler"]
             /\ isr' = [isr EXCEPT !.pc = "append", !.p_request = m]
       \/ /\ \A m \in Messages : owner[m] # "pool"
          /\ isr' = [isr EXCEPT !.pc = "end"]
          /\ UNCHANGED owner
    /\ UNCHANGED <<app, network, peer>>

\* Fault: one value too many.
NextValue_OnePast ==
    isr' = IF isr.value <= NumValues THEN Sending(isr.value + 1) ELSE Idle

NextValue ==
    isr' = IF isr.value < NumValues THEN Sending(isr.value + 1) ELSE Idle

\* Fault: a message that cannot be filled is forgotten.
otMessageAppend_Returns ==
    /\ isr.pc = "append"
    /\ \/ isr' = [isr EXCEPT !.pc = "send"]
       \/ "append" \in Failures /\ NextValue
    /\ UNCHANGED <<app, network, mail>>

otMessageAppend ==
    /\ isr.pc = "append"
    /\ \E outcome \in Outcomes("append") :
          isr' = [isr EXCEPT !.pc = IF outcome = "ok" THEN "send" ELSE "end"]
    /\ UNCHANGED <<app, network, mail>>

(* The destination is read from m_app here; a message that is accepted     *)
(* belongs to OpenThread from now on.                                      *)
otCoapSendRequest ==
    /\ isr.pc = "send"
    /\ \E outcome \in Outcomes("send") :
          /\ isr' = [isr EXCEPT !.pc = "end", !.failed = outcome # "ok"]
          /\ owner' = IF outcome = "ok"
                      THEN [owner EXCEPT ![isr.p_request] = "stack"]
                      ELSE owner
    /\ peer' = [peer EXCEPT ![isr.p_request] = cloud_address]
    /\ UNCHANGED <<app, network>>

\* Fault: the message is freed although OpenThread accepted it.
cloud_data_send_End_AlwaysFrees ==
    /\ isr.pc = "end"
    /\ owner' = IF isr.p_request # NULL
                THEN [owner EXCEPT ![isr.p_request] = "pool"]
                ELSE owner
    /\ NextValue
    /\ UNCHANGED <<app, network, peer>>

(* The end of cloud_data_send: otMessageFree when something failed.        *)
cloud_data_send_End ==
    /\ isr.pc = "end"
    /\ owner' = IF isr.failed /\ isr.p_request # NULL
                THEN [owner EXCEPT ![isr.p_request] = "pool"]
                ELSE owner
    /\ NextValue
    /\ UNCHANGED <<app, network, peer>>

-----------------------------------------------------------------------------
HandlerStep ==
    otCoapNewMessage \/ otMessageAppend \/ otCoapSendRequest \/ cloud_data_send_End

Next ==
    \/ EndCopy
    \/ \E r \in Roles : ChangeRole(r)
    \/ state_changed_callback
    \/ \E q \in Queries : DnsResponse(q)
    \/ \E m \in Messages : MessageLeaves(m)
    \/ timer_a_handler
    \/ HandlerStep

Spec == Init /\ [][Next]_vars

(* An interrupt handler always goes on.  The main loop goes on although    *)
(* interrupts keep coming, since a handler is shorter than the period of   *)
(* its timer: strong fairness.  OpenThread answers every query, if only    *)
(* with a timeout (openthread/dns.h).                                      *)
FairSpec ==
    /\ Spec
    /\ WF_vars(HandlerStep)
    /\ SF_vars(EndCopy)
    /\ SF_vars(state_changed_callback)
    /\ SF_vars(\E q \in Queries : DnsResponse(q))

-----------------------------------------------------------------------------
(* The values of the variables.                                            *)
TypeOK ==
    /\ state \in {"IDLE", "HOSTNAME_RESOLVING", "RUNNING"}
    /\ cloud_address \in [1 .. 2 -> AnyAddress]
    /\ copying \in AnyAddress \cup {NULL}
    /\ role \in Roles /\ role_changed \in BOOLEAN
    /\ queries \subseteq Queries
    /\ isr \in [pc : {"idle", "new", "append", "send", "end"}, value : 1 .. NumValues,
                p_request : Messages \cup {NULL}, failed : BOOLEAN]
    /\ owner \in [Messages -> {"pool", "handler", "stack"}]
    /\ peer \in [Messages -> [1 .. 2 -> AnyAddress]]

(* Once the callback has run, the application is IDLE exactly when the     *)
(* node is not attached: no change of role is missed, although callbacks   *)
(* coalesce and answers to queries of an earlier attachment come late.     *)
StateFollowsRole ==
    ~role_changed => (state = "IDLE" <=> role \notin Attached)

(* A node that knows it is detached does not keep the address of the cloud *)
(* (main.c:301-302), not even when a late answer brings it again.          *)
DetachedForgets ==
    ~role_changed /\ role \notin Attached /\ copying = NULL
        => cloud_address = Whole(Unspecified)

(* Once known, the address stays until the node detaches: a second answer, *)
(* late or duplicated, does not replace it (main.c:135-138).               *)
AddressStays ==
    [][copying = NULL /\ cloud_address # Whole(Unspecified)
          /\ cloud_address' # cloud_address
       => state' = "IDLE"]_vars

(* cloud_data_send leaks no buffer: between two calls every message is in  *)
(* the pool or with OpenThread, whichever step failed (main.c:205-231).    *)
NoMessageIsLost ==
    \A m \in Messages :
        owner[m] = "handler" => isr.pc # "idle" /\ isr.p_request = m

(* The handler never frees a message that OpenThread has accepted.         *)
SentMessagesStay ==
    [][isr.pc # "idle" =>
          \A m \in Messages : owner[m] = "stack" => owner'[m] = "stack"]_vars

(* A node that stays attached ends up knowing the address of the cloud. It *)
(* does not only when a failure left it in one of two states it never      *)
(* leaves: an answer that was an error made it RUNNING without an address  *)
(* (main.c:140), or a query that did not start left it resolving without a *)
(* query (main.c:172).                                                     *)
Resolved == copying = NULL /\ cloud_address \in {Whole(a) : a \in Addresses}

Unresolved ==
    /\ copying = NULL /\ cloud_address = Whole(Unspecified)
    /\ \/ "answer" \in Failures /\ state = "RUNNING"
       \/ "query" \in Failures /\ state = "HOSTNAME_RESOLVING" /\ queries = {}

AttachedResolves ==
    <>[](role \in Attached) => <>[]Resolved \/ <>[]Unresolved

(* main.c:92: what the application uses as the "NAT64 address of the       *)
(* thethings.io cloud" is such an address, or the unspecified one, and not *)
(* a mixture of the two.                                                   *)
AddressesAreWhole ==
    \A m \in Messages :
        owner[m] = "stack" => peer[m] \in {Whole(a) : a \in AnyAddress}

=============================================================================
