-------------------------- MODULE CloudClient_proofs --------------------------
(***************************************************************************)
(* Proofs about CloudClient for any sets of addresses, queries and         *)
(* messages, any number of values and any failures.                        *)
(***************************************************************************)
EXTENDS CloudClient, TLAPS

-----------------------------------------------------------------------------
(* The inductive invariant: the properties and what they need to know of a *)
(* copy under way and of the message the handler works on.                 *)

CopyInv ==
    /\ copying # NULL => cloud_address[1] = copying
    /\ copying # NULL /\ state # "RUNNING" => copying = Unspecified
    /\ copying = NULL /\ state # "RUNNING" => cloud_address = Whole(Unspecified)

MailInv ==
    /\ isr.pc = "new" => isr.p_request = NULL /\ isr.failed
    /\ isr.pc \in {"append", "send"} =>
          isr.p_request \in Messages /\ owner[isr.p_request] = "handler" /\ isr.failed
    /\ isr.pc = "end" /\ isr.p_request \in Messages =>
          (isr.failed <=> owner[isr.p_request] = "handler")
    /\ \A m \in Messages : owner[m] = "handler" =>
          isr.p_request = m /\ isr.pc \in {"append", "send", "end"}

IInv == TypeOK /\ StateFollowsRole /\ CopyInv /\ MailInv

-----------------------------------------------------------------------------
(* The variables are in three groups that few actions disturb together.    *)

LEMMA InitIInv == Init => IInv
<1> USE CloudClientAssumption
<1> SUFFICES ASSUME Init PROVE IInv
  OBVIOUS
<1>1. TypeOK
  <2>1. Whole(Unspecified) \in [1 .. 2 -> AnyAddress]
    BY DEF Whole, AnyAddress
  <2>2. /\ cloud_address \in [1 .. 2 -> AnyAddress]
        /\ peer \in [Messages -> [1 .. 2 -> AnyAddress]]
        /\ owner \in [Messages -> {"pool", "handler", "stack"}]
    BY <2>1 DEF Init
  <2>3. isr \in [pc : {"idle", "new", "append", "send", "end"}, value : 1 .. NumValues,
                 p_request : Messages \cup {NULL}, failed : BOOLEAN]
    BY DEF Init, Idle
  <2> QED  BY <2>2, <2>3 DEF Init, TypeOK, Roles
<1>2. StateFollowsRole
  BY DEF Init, StateFollowsRole, Attached
<1>3. CopyInv
  BY DEF Init, CopyInv
<1>4. MailInv
  BY DEF Init, MailInv, Idle
<1> QED  BY <1>1, <1>2, <1>3, <1>4 DEF IInv

\* The handler's next value, or its return, leaves it without a message.
LEMMA NextValueForgets ==
    ASSUME TypeOK, NextValue
    PROVE  /\ isr' \in [pc : {"idle", "new"}, value : 1 .. NumValues,
                        p_request : {NULL}, failed : BOOLEAN]
<1> USE CloudClientAssumption
<1>1. isr.value \in 1 .. NumValues
  BY DEF TypeOK
<1>2. CASE isr.value < NumValues
  <2>1. isr' = Sending(isr.value + 1)
    BY <1>2 DEF NextValue
  <2>2. isr.value + 1 \in 1 .. NumValues
    BY <1>1, <1>2
  <2> QED  BY <2>1, <2>2 DEF Sending
<1>3. CASE ~(isr.value < NumValues)
  BY <1>3 DEF NextValue, Idle
<1> QED  BY <1>2, <1>3

-----------------------------------------------------------------------------
(* Type correctness.                                                       *)

LEMMA NextTypeOK == TypeOK /\ [Next]_vars => TypeOK'
<1> USE CloudClientAssumption
<1> SUFFICES ASSUME TypeOK, [Next]_vars PROVE TypeOK'
  OBVIOUS
<1> USE DEF app, network, mail
<1>1. CASE EndCopy
  BY <1>1 DEF TypeOK, EndCopy
<1>2. ASSUME NEW r \in Roles, ChangeRole(r) PROVE TypeOK'
  BY <1>2 DEF TypeOK, ChangeRole
<1>3. CASE state_changed_callback
  <2>1. /\ queries' \subseteq Queries
        /\ state' \in {"IDLE", "HOSTNAME_RESOLVING", "RUNNING"}
        /\ cloud_address' \in [1 .. 2 -> AnyAddress]
        /\ copying' \in AnyAddress \cup {NULL}
    BY <1>3 DEF TypeOK, state_changed_callback, handle_role_change, hostname_resolve,
                BeginCopy, AnyAddress
  <2> QED  BY <1>3, <2>1 DEF TypeOK, state_changed_callback
<1>4. ASSUME NEW q \in Queries, DnsResponse(q) PROVE TypeOK'
  <2>1. PICK answer \in Answers : dns_response_handler(answer)
    BY <1>4 DEF DnsResponse
  <2>2. answer # "failed" => answer \in AnyAddress
    BY <2>1 DEF Answers, Outcomes, AnyAddress
  <2>3. /\ state' \in {"IDLE", "HOSTNAME_RESOLVING", "RUNNING"}
        /\ cloud_address' \in [1 .. 2 -> AnyAddress]
        /\ copying' \in AnyAddress \cup {NULL}
    BY <2>1, <2>2 DEF TypeOK, dns_response_handler, BeginCopy
  <2> QED  BY <1>4, <2>3 DEF TypeOK, DnsResponse
<1>5. ASSUME NEW m \in Messages, MessageLeaves(m) PROVE TypeOK'
  BY <1>5 DEF TypeOK, MessageLeaves
<1>6. CASE timer_a_handler
  BY <1>6 DEF TypeOK, timer_a_handler, Sending
<1>7. CASE HandlerStep
  <2>1. CASE otCoapNewMessage
    BY <2>1 DEF TypeOK, otCoapNewMessage
  <2>2. CASE otMessageAppend
    BY <2>2 DEF TypeOK, otMessageAppend
  <2>3. CASE otCoapSendRequest
    BY <2>3 DEF TypeOK, otCoapSendRequest
  <2>4. CASE cloud_data_send_End
    <3>1. isr' \in [pc : {"idle", "new", "append", "send", "end"}, value : 1 .. NumValues,
                    p_request : Messages \cup {NULL}, failed : BOOLEAN]
      BY <2>4, NextValueForgets DEF cloud_data_send_End
    <3> QED  BY <2>4, <3>1 DEF TypeOK, cloud_data_send_End
  <2> QED  BY <1>7, <2>1, <2>2, <2>3, <2>4 DEF HandlerStep
<1>8. CASE UNCHANGED vars
  BY <1>8 DEF TypeOK, vars
<1> QED  BY <1>1, <1>2, <1>3, <1>4, <1>5, <1>6, <1>7, <1>8 DEF Next

\* The variables of CloudClient have their types in every reachable state of
\* main.c's state machine, whatever fails.
THEOREM CloudTypeOK == Spec => []TypeOK
<1>1. Init => TypeOK
  BY InitIInv DEF IInv
<1> QED  BY <1>1, NextTypeOK, PTL DEF Spec

-----------------------------------------------------------------------------
(* The state and the address.                                              *)

LEMMA NextStateFollowsRole ==
    TypeOK /\ StateFollowsRole /\ [Next]_vars => StateFollowsRole'
<1> SUFFICES ASSUME TypeOK, StateFollowsRole, [Next]_vars PROVE StateFollowsRole'
  OBVIOUS
<1> USE DEF app, network, StateFollowsRole
<1>1. CASE EndCopy
  BY <1>1 DEF EndCopy
<1>2. ASSUME NEW r \in Roles, ChangeRole(r) PROVE StateFollowsRole'
  BY <1>2 DEF ChangeRole
<1>3. CASE state_changed_callback
  BY <1>3 DEF state_changed_callback, handle_role_change
<1>4. ASSUME NEW q \in Queries, DnsResponse(q) PROVE StateFollowsRole'
  BY <1>4 DEF DnsResponse, dns_response_handler
<1>5. ASSUME NEW m \in Messages, MessageLeaves(m) PROVE StateFollowsRole'
  BY <1>5 DEF MessageLeaves
<1>6. CASE timer_a_handler
  BY <1>6 DEF timer_a_handler
<1>7. CASE HandlerStep
  BY <1>7 DEF HandlerStep, otCoapNewMessage, otMessageAppend, otCoapSendRequest,
              cloud_data_send_End
<1>8. CASE UNCHANGED vars
  BY <1>8 DEF vars
<1> QED  BY <1>1, <1>2, <1>3, <1>4, <1>5, <1>6, <1>7, <1>8 DEF Next

LEMMA NextCopyInv == TypeOK /\ CopyInv /\ [Next]_vars => CopyInv'
<1> USE CloudClientAssumption
<1> SUFFICES ASSUME TypeOK, CopyInv, [Next]_vars PROVE CopyInv'
  OBVIOUS
<1> USE DEF app
<1>0. cloud_address \in [1 .. 2 -> AnyAddress]
  BY DEF TypeOK
<1>1. CASE EndCopy
  <2>1. copying' = NULL /\ state' = state /\ copying # NULL
    BY <1>1 DEF EndCopy
  <2>2. cloud_address' = Whole(copying)
    <3>1. cloud_address' = [cloud_address EXCEPT ![2] = copying] /\ cloud_address[1] = copying
      BY <1>1 DEF EndCopy, CopyInv
    <3>2. DOMAIN cloud_address' = 1 .. 2 /\ 1 .. 2 = {1, 2}
      BY <1>0, <3>1
    <3>3. cloud_address'[1] = copying /\ cloud_address'[2] = copying
      BY <1>0, <3>1
    <3>4. cloud_address' = [half \in 1 .. 2 |-> cloud_address'[half]]
      BY <1>0, <3>1
    <3>5. \A half \in 1 .. 2 : cloud_address'[half] = copying
      BY <3>2, <3>3
    <3> QED  BY <3>4, <3>5 DEF Whole
  <2> QED  BY <2>1, <2>2 DEF CopyInv
<1>2. ASSUME NEW r \in Roles, ChangeRole(r) PROVE CopyInv'
  BY <1>2 DEF CopyInv, ChangeRole
<1>3. CASE state_changed_callback
  <2>1. copying = NULL /\ handle_role_change(role)
    BY <1>3 DEF state_changed_callback, NextEvent
  <2>2. CASE UNCHANGED <<cloud_address, copying>> /\ state = "IDLE"
    BY <2>1, <2>2 DEF CopyInv
  <2>3. CASE UNCHANGED app
    BY <2>3 DEF CopyInv
  <2>4. CASE state' = "IDLE" /\ BeginCopy(Unspecified)
    BY <1>0, <2>4 DEF CopyInv, BeginCopy
  <2> QED  BY <2>1, <2>2, <2>3, <2>4 DEF handle_role_change
<1>4. ASSUME NEW q \in Queries, DnsResponse(q) PROVE CopyInv'
  <2>1. copying = NULL
    BY <1>4 DEF DnsResponse, NextEvent
  <2>2. PICK answer \in Answers : dns_response_handler(answer)
    BY <1>4 DEF DnsResponse
  <2>3. CASE UNCHANGED app
    BY <2>3 DEF CopyInv
  <2>4. CASE state' = "RUNNING" /\ UNCHANGED <<cloud_address, copying>>
    BY <2>1, <2>4 DEF CopyInv
  <2>5. CASE state' = "RUNNING" /\ BeginCopy(answer)
    BY <1>0, <2>5 DEF CopyInv, BeginCopy
  <2> QED  BY <2>2, <2>3, <2>4, <2>5 DEF dns_response_handler
<1>5. ASSUME NEW m \in Messages, MessageLeaves(m) PROVE CopyInv'
  BY <1>5 DEF CopyInv, MessageLeaves
<1>6. CASE timer_a_handler
  BY <1>6 DEF CopyInv, timer_a_handler
<1>7. CASE HandlerStep
  BY <1>7 DEF CopyInv, HandlerStep, otCoapNewMessage, otMessageAppend,
              otCoapSendRequest, cloud_data_send_End
<1>8. CASE UNCHANGED vars
  BY <1>8 DEF CopyInv, vars
<1> QED  BY <1>1, <1>2, <1>3, <1>4, <1>5, <1>6, <1>7, <1>8 DEF Next

-----------------------------------------------------------------------------
(* The messages.                                                           *)

LEMMA NextMailInv == TypeOK /\ MailInv /\ [Next]_vars => MailInv'
<1> USE CloudClientAssumption
<1> SUFFICES ASSUME TypeOK, MailInv, [Next]_vars PROVE MailInv'
  OBVIOUS
<1> USE DEF mail
<1>0. /\ owner \in [Messages -> {"pool", "handler", "stack"}]
      /\ isr \in [pc : {"idle", "new", "append", "send", "end"}, value : 1 .. NumValues,
                  p_request : Messages \cup {NULL}, failed : BOOLEAN]
  BY DEF TypeOK
<1>1. CASE UNCHANGED <<isr, mail>>
  BY <1>1 DEF MailInv
<1>2. ASSUME NEW m \in Messages, MessageLeaves(m) PROVE MailInv'
  <2>1. isr.pc = "idle" /\ isr' = isr
    BY <1>2 DEF MessageLeaves, NextEvent, MainRuns
  <2> QED  BY <1>0, <1>2, <2>1 DEF MailInv, MessageLeaves
<1>3. CASE timer_a_handler
  <2>1. /\ isr.pc = "idle" /\ owner' = owner
        /\ isr'.pc = "new" /\ isr'.p_request = NULL /\ isr'.failed
    BY <1>3 DEF timer_a_handler, Idle, Sending
  <2> QED  BY <2>1 DEF MailInv
<1>4. CASE otCoapNewMessage
  <2>0. isr.pc = "new"
    BY <1>4 DEF otCoapNewMessage
  <2>1. ASSUME NEW m \in Messages,
               owner' = [owner EXCEPT ![m] = "handler"],
               isr' = [isr EXCEPT !.pc = "append", !.p_request = m]
        PROVE  MailInv'
    BY <1>0, <2>0, <2>1 DEF MailInv
  <2>2. CASE isr' = [isr EXCEPT !.pc = "end"] /\ UNCHANGED owner
    BY <1>0, <2>0, <2>2 DEF MailInv
  <2> QED  BY <1>4, <2>1, <2>2 DEF otCoapNewMessage
<1>5. CASE otMessageAppend
  <2>1. isr.pc = "append" /\ owner' = owner
    BY <1>5 DEF otMessageAppend
  <2>2. PICK pc \in {"send", "end"} : isr' = [isr EXCEPT !.pc = pc]
    BY <1>5 DEF otMessageAppend
  <2> QED  BY <1>0, <2>1, <2>2 DEF MailInv
<1>6. CASE otCoapSendRequest
  <2>1. isr.pc = "send"
    BY <1>6 DEF otCoapSendRequest
  <2>2. CASE isr' = [isr EXCEPT !.pc = "end", !.failed = FALSE]
             /\ owner' = [owner EXCEPT ![isr.p_request] = "stack"]
    BY <1>0, <2>1, <2>2 DEF MailInv
  <2>3. CASE isr' = [isr EXCEPT !.pc = "end", !.failed = TRUE] /\ owner' = owner
    BY <1>0, <2>1, <2>3 DEF MailInv
  <2> QED  BY <1>6, <2>2, <2>3 DEF otCoapSendRequest
<1>7. CASE cloud_data_send_End
  <2>1. isr.pc = "end"
    BY <1>7 DEF cloud_data_send_End
  <2>2. isr'.pc \in {"idle", "new"} /\ (isr'.pc = "new" => isr'.p_request = NULL /\ isr'.failed)
    BY <1>7 DEF cloud_data_send_End, NextValue, Sending, Idle
  <2>3. \A m \in Messages : owner'[m] # "handler"
    <3> SUFFICES ASSUME NEW m \in Messages, owner'[m] = "handler" PROVE FALSE
      OBVIOUS
    <3>1. CASE owner[m] = "handler"
      <4>1. isr.p_request = m /\ isr.failed
        BY <2>1, <3>1 DEF MailInv
      <4>2. owner' = [owner EXCEPT ![m] = "pool"]
        BY <1>7, <4>1, CloudClientAssumption DEF cloud_data_send_End
      <4> QED  BY <1>0, <4>2
    <3>2. CASE owner[m] # "handler"
      BY <1>0, <1>7, <3>2 DEF cloud_data_send_End
    <3> QED  BY <3>1, <3>2
  <2> QED  BY <2>2, <2>3 DEF MailInv
<1> QED
  BY <1>1, <1>2, <1>3, <1>4, <1>5, <1>6, <1>7
  DEF Next, HandlerStep, vars, EndCopy, ChangeRole, state_changed_callback, DnsResponse

-----------------------------------------------------------------------------
(* The theorems.                                                           *)

LEMMA IInvAlways == Spec => []IInv
<1>1. IInv /\ [Next]_vars => IInv'
  BY NextTypeOK, NextStateFollowsRole, NextCopyInv, NextMailInv DEF IInv
<1> QED  BY <1>1, InitIInv, PTL DEF Spec

\* state_changed_callback misses no change of role (main.c:284-315): once it has
\* run, the application is IDLE exactly when the node is not attached.
THEOREM CloudStateFollowsRole == Spec => []StateFollowsRole
<1>1. IInv => StateFollowsRole
  BY DEF IInv
<1> QED  BY <1>1, IInvAlways, PTL

\* A node that knows it is detached has forgotten the address (main.c:301-302),
\* whatever answers come later (main.c:135-138).
THEOREM CloudDetachedForgets == Spec => []DetachedForgets
<1>1. IInv => DetachedForgets
  BY DEF IInv, StateFollowsRole, CopyInv, DetachedForgets
<1> QED  BY <1>1, IInvAlways, PTL

\* cloud_data_send leaks no buffer, whichever of its calls fails (main.c:205-231).
THEOREM CloudNoMessageIsLost == Spec => []NoMessageIsLost
<1>1. IInv => NoMessageIsLost
  BY DEF IInv, MailInv, NoMessageIsLost
<1> QED  BY <1>1, IInvAlways, PTL

\* A known address is replaced only when the node detaches (main.c:135-138).
THEOREM CloudAddressStays == Spec => AddressStays
<1> DEFINE Stays == copying = NULL /\ cloud_address # Whole(Unspecified)
                       /\ cloud_address' # cloud_address
                    => state' = "IDLE"
<1>1. IInv /\ [Next]_vars => [Stays]_vars
  <2> SUFFICES ASSUME IInv, Next,
                      copying = NULL, cloud_address # Whole(Unspecified),
                      cloud_address' # cloud_address
               PROVE  state' = "IDLE"
    OBVIOUS
  <2>1. state = "RUNNING"
    BY DEF IInv, CopyInv
  <2> USE DEF app
  <2>2. CASE state_changed_callback
    BY <2>2 DEF state_changed_callback, handle_role_change
  <2>3. ASSUME NEW q \in Queries, DnsResponse(q) PROVE FALSE
    BY <2>1, <2>3 DEF DnsResponse, dns_response_handler
  <2> QED
    BY <2>2, <2>3 DEF Next, EndCopy, ChangeRole, MessageLeaves, timer_a_handler,
       HandlerStep, otCoapNewMessage, otMessageAppend, otCoapSendRequest,
       cloud_data_send_End
<1> QED  BY <1>1, IInvAlways, PTL DEF Spec, AddressStays

\* A message that OpenThread accepted is never freed by the handler
\* (main.c:223-231).
THEOREM CloudSentMessagesStay == Spec => SentMessagesStay
<1> DEFINE Stay == isr.pc # "idle" =>
              \A m \in Messages : owner[m] = "stack" => owner'[m] = "stack"
<1>1. IInv /\ [Next]_vars => [Stay]_vars
  <2> SUFFICES ASSUME IInv, Next, isr.pc # "idle",
                      NEW m \in Messages, owner[m] = "stack"
               PROVE  owner'[m] = "stack"
    OBVIOUS
  <2>0. owner \in [Messages -> {"pool", "handler", "stack"}]
    BY DEF IInv, TypeOK
  <2>1. CASE otCoapNewMessage
    BY <2>0, <2>1 DEF otCoapNewMessage
  <2>2. CASE otCoapSendRequest
    BY <2>0, <2>2 DEF otCoapSendRequest
  <2>3. CASE cloud_data_send_End
    <3>1. isr.failed /\ isr.p_request # NULL => isr.p_request # m
      BY <2>3 DEF IInv, MailInv, cloud_data_send_End
    <3> QED  BY <2>0, <2>3, <3>1 DEF cloud_data_send_End
  <2>4. CASE UNCHANGED owner
    BY <2>4
  <2> QED
    BY <2>1, <2>2, <2>3, <2>4 DEF Next, HandlerStep, EndCopy, ChangeRole,
       state_changed_callback, DnsResponse, MessageLeaves, NextEvent, MainRuns,
       timer_a_handler, otMessageAppend, mail
<1> QED  BY <1>1, IInvAlways, PTL DEF Spec, SentMessagesStay

=============================================================================
