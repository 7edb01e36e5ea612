----------------------- MODULE ProxyConnectionsProofs -----------------------
(***************************************************************************)
(* Proofs about ProxyConnections, for any number of requests, browsers,    *)
(* agents and connections, and any times the assumptions allow.            *)
(***************************************************************************)
EXTENDS ProxyConnections, TLAPS

-----------------------------------------------------------------------------
(* Types. *)

Args ==
    [kind : {"redeem"}, signer : Agents, flow : Flows, code : Nat]
    \cup [kind : {"delete", "forward"}, signer : Agents, conn : Nat]
    \cup [kind : {"add_agent", "remove_agent"}, signer : Agents, conn : Nat, agent : Agents]
    \cup [kind : {"add_runtime"}, signer : Agents, agent : Agents, app : Agents]
    \cup [kind : {"remove_runtime"}, signer : Agents, agent : Agents]
    \cup [kind : {"frame"}, conn : Nat, app : Agents, exp : Nat]

Uses == {"forward", "frame"}
OfConnection == {"delete", "add_agent", "remove_agent"} \cup Uses

\* The steps of a request that has approved a consent, and of a signed one.
Approving == {"consume", "begin", "exchange"}
Signed == {"delegated", "spend", "take", "owned", "write", "standing", "runtime", "touch", "send"}

Approvals == [pc : Approving, browser : Browsers, consent : Consents]
Calls == [pc : Signed, msg : Nat, args : Args, owner : Agents \cup {None}]
Redemptions == [pc : {"create"}, args : Args, credential : Credentials]

Slot == {NoRequest} \cup Approvals \cup Calls \cup Redemptions
Cookies == [consent : Consents \cup {None}, provider : Nat \cup {None}]
Records == [nonce : {"consent", "message"} \X Nat, expires : Nat]
States == [state : Nat, consent : Consents, expires : Nat]
Handoffs == [code : Nat, challenge : Flows, credential : Credentials, expires : Nat]
Messages == [args : Args, timestamp : Nat]

TypeOK ==
    /\ now \in Nat /\ fresh \in Nat
    /\ jar \in [Browsers -> Cookies]
    /\ forms \in [Browsers -> SUBSET Nat]
    /\ used \subseteq Records
    /\ states \subseteq States
    /\ handoffs \subseteq Handoffs
    /\ codes \subseteq Nat
    /\ conns \in Seq(Rows)
    /\ msgs \in Seq(Messages)
    /\ accepted \in Seq(Seq(Nat)) /\ Len(accepted) = Len(msgs)
    /\ req \in [Slots -> Slot]
    /\ seen \in [Slots -> BOOLEAN]
    /\ left \in Bounds

\* A request carries one of the messages and is at a step of its kind; the
\* owner it has read is the connection's.
CallOK(q) ==
    /\ q.pc \in Signed =>
          /\ q.msg \in DOMAIN msgs
          /\ q.args = msgs[q.msg].args
          /\ q.pc = "take" => q.args.kind = "redeem"
          /\ q.pc = "delegated" => q.args.kind = "frame"
          /\ q.pc \in {"standing", "runtime"} => q.args.kind = "forward"
          /\ q.pc \in {"touch", "send"} => q.args.kind \in Uses
          /\ q.pc = "owned" => q.args.kind \in OfConnection \ Uses
          /\ q.args.kind \in Uses => q.owner = conns[q.args.conn].owner
    /\ q.pc = "create" => q.args.kind = "redeem"

\* ... and the connection a message names exists.
RequestsOK ==
    /\ \A m \in DOMAIN msgs : msgs[m].args.kind \in OfConnection => msgs[m].args.conn \in DOMAIN conns
    /\ \A r \in Slots : CallOK(req[r])

-----------------------------------------------------------------------------
(* Who completes a consent. *)

\* The random values in use were drawn; a browser that has the cookie of a
\* consent was shown its page.
Drawn ==
    /\ \A b \in Browsers : \A n \in forms[b] : n <= fresh
    /\ \A b \in Browsers : jar[b].consent # None => jar[b].consent.csrf \in forms[b]
    /\ \A b \in Browsers : jar[b].provider # None => jar[b].provider <= fresh
    /\ \A s \in states : s.state <= fresh /\ s.consent.csrf <= fresh

\* A consent travels with the browser that approved it; a state does so only
\* through the cookie that was set with it.
SlotApproved(q) ==
    /\ q.pc \in Approving => q.consent.csrf \in forms[q.browser]
    /\ q.pc = "create" =>
          q.args.flow = q.credential.flow /\ q.credential.csrf \in forms[q.credential.browser]

Approved ==
    /\ \A r \in Slots : SlotApproved(req[r])
    /\ \A s \in states, b \in Browsers : jar[b].provider = s.state => s.consent.csrf \in forms[b]
    /\ \A h \in handoffs :
          h.challenge = h.credential.flow /\ h.credential.csrf \in forms[h.credential.browser]

-----------------------------------------------------------------------------
(* How often a consent is completed. *)

\* Where an approved consent is: with a request, waiting for its callback,
\* waiting to be redeemed, or in a connection.
Carrying(r) == req[r].pc \in {"begin", "exchange", "create"}
CarriedBy(r) == IF req[r].pc = "create" THEN req[r].credential.csrf ELSE req[r].consent.csrf

InRequests == {<<"request", r, CarriedBy(r)>> : r \in {r \in Slots : Carrying(r)}}
InStates == {<<"state", s, s.consent.csrf>> : s \in states}
InHandoffs == {<<"handoff", h, h.credential.csrf>> : h \in handoffs}
InConnections ==
    {<<"connection", c, conns[c].credential.csrf>> : c \in {c \in DOMAIN conns : conns[c].credential # None}}

Carried == InRequests \cup InStates \cup InHandoffs \cup InConnections

\* No consent is in two places, unless its use came late.
Single(C, over) == \A x, y \in C : x[3] = y[3] /\ x # y => <<"consent", x[3]>> \in over

OnePlace == Single(Carried, late)

\* A consent that may be submitted (again) has not been used, or its use is
\* on record until it is over.
UseKnown(consent) ==
    \/ consent.expires <= now
    \/ \E u \in used : u.nonce = <<"consent", consent.csrf>> /\ u.expires >= consent.expires

Held ==
    {jar[b].consent : b \in {b \in Browsers : jar[b].consent # None}}
    \cup {req[r].consent : r \in {r \in Slots : req[r].pc = "consume"}}

UsesKnown ==
    \A consent \in Held :
        /\ consent.expires <= now + ConsentTime
        /\ \A x \in Carried : x[3] = consent.csrf => UseKnown(consent)

-----------------------------------------------------------------------------
(* Replays. *)

\* The record of an accepted message lasts until the message is out of time,
\* or ends with it.
Replays ==
    \A m \in DOMAIN msgs : Len(accepted[m]) > 0 /\ <<"message", m>> \notin late =>
        /\ accepted[m][1] <= now
        /\ \/ accepted[m][1] + Retention <= now
           \/ \E u \in used : u.nonce = <<"message", m>> /\ u.expires >= accepted[m][1] + Retention
        /\ Len(accepted[m]) > 1 => msgs[m].timestamp >= accepted[m][1] + MaxSkew

-----------------------------------------------------------------------------
(* Who uses a connection. *)

\* A deleted or swept connection has no delegations.
DelegationsLive ==
    \A d \in delegations : d \in (DOMAIN conns) \X Agents /\ conns[d[1]].live

\* A request whose standing was checked, or that is the owner's, was allowed
\* when it was checked.
Checked(q) ==
    \/ q.pc \in {"touch", "send"}
    \/ q.pc \in Signed /\ q.args.kind = "forward" /\ q.args.signer = q.owner
    \/ q.pc \in Signed /\ q.args.kind = "frame" /\ q.pc # "delegated"

Stands == \A r \in Slots : Checked(req[r]) => seen[r]

ConnectionsInv ==
    /\ TypeOK /\ RequestsOK /\ Drawn /\ Approved /\ CompletedByApprover
    /\ OnePlace /\ UsesKnown /\ Replays /\ DelegationsLive /\ Stands

-----------------------------------------------------------------------------
(* Types and requests. *)

USE DEF Idle, At, Put, Done, browserVars, ghosts, tables

\* An element of a sequence is replaced.
LEMMA Replaced ==
    ASSUME NEW S, NEW s \in Seq(S), NEW i \in DOMAIN s, NEW e \in S
    PROVE  [s EXCEPT ![i] = e] \in Seq(S) /\ Len([s EXCEPT ![i] = e]) = Len(s)
OBVIOUS

\* A bound counts down.
LEMMA SpendType ==
    ASSUME left \in Bounds, NEW what \in Counted, Spend(what)
    PROVE  left' \in Bounds
BY DEF Bounds, Counted, Spend

\* What the agents ask for is well formed.
LEMMA RequestsType ==
    ASSUME TypeOK, NEW a \in Requests
    PROVE  a \in Args /\ (a.kind \in OfConnection => a.conn \in DOMAIN conns)
<1>1. left.signers \subseteq Agents
    BY DEF TypeOK, Bounds
<1>2. DOMAIN conns \subseteq Nat /\ codes \subseteq Nat /\ now + CapabilityTime \in Nat
    BY TimesAssumption DEF TypeOK
<1> QED
    BY <1>1, <1>2 DEF Requests, Args, OfConnection, Uses

\* A request is at a step of its kind.
LEMMA SlotKinds ==
    ASSUME TypeOK, NEW r \in Slots
    PROVE  /\ req[r] \in Slot
           /\ req[r].pc \in Approving => req[r] \in Approvals
           /\ req[r].pc \in Signed => req[r] \in Calls
           /\ req[r].pc = "create" => req[r] \in Redemptions
<1>1. req[r] \in Slot
    BY DEF TypeOK
<1>2. req[r].pc \in Approving => req[r] \in Approvals
    BY <1>1 DEF Slot, NoRequest, Calls, Redemptions, Approving, Signed
<1>3. req[r].pc \in Signed => req[r] \in Calls
    BY <1>1 DEF Slot, NoRequest, Approvals, Redemptions, Approving, Signed
<1>4. req[r].pc = "create" => req[r] \in Redemptions
    BY <1>1 DEF Slot, NoRequest, Approvals, Calls, Approving, Signed
<1> QED
    BY <1>1, <1>2, <1>3, <1>4

\* A request is replaced by a request, or ends.
LEMMA PutType ==
    ASSUME TypeOK, NEW r \in Slots, NEW q \in Slot, Put(r, q)
    PROVE  req' \in [Slots -> Slot]
BY DEF TypeOK

\* A request that ends leaves its slot empty.
LEMMA DoneType ==
    ASSUME TypeOK, NEW r \in Slots, Done(r)
    PROVE  req' \in [Slots -> Slot]
BY DEF TypeOK, Slot

\* A signed request goes on to its next step.
LEMMA CallType ==
    ASSUME TypeOK, NEW r \in Slots, req[r].pc \in Signed, NEW pc \in Signed,
           Put(r, [req[r] EXCEPT !.pc = pc])
    PROVE  req' \in [Slots -> Slot]
<1>1. [req[r] EXCEPT !.pc = pc] \in Calls
    BY SlotKinds DEF Calls
<1> QED
    BY <1>1, PutType DEF Slot

\* A row of agent_connections is replaced.
LEMMA RowType ==
    ASSUME TypeOK, NEW c \in DOMAIN conns
    PROVE  /\ conns[c] \in Rows
           /\ \A row \in Rows : [conns EXCEPT ![c] = row] \in Seq(Rows)
           /\ \A l \in BOOLEAN : [conns[c] EXCEPT !.live = l] \in Rows
           /\ \A t \in Nat : [conns[c] EXCEPT !.lastUsed = t] \in Rows
<1>1. conns[c] \in Rows
    BY DEF TypeOK
<1>2. \A row \in Rows : [conns EXCEPT ![c] = row] \in Seq(Rows)
    BY DEF TypeOK
<1>3. \A l \in BOOLEAN : [conns[c] EXCEPT !.live = l] \in Rows
    BY <1>1 DEF Rows
<1>4. \A t \in Nat : [conns[c] EXCEPT !.lastUsed = t] \in Rows
    BY <1>1 DEF Rows
<1> QED
    BY <1>1, <1>2, <1>3, <1>4

\* Every step keeps the types of the tables, of the cookies and of the requests.
LEMMA TypeStep == TypeOK /\ RequestsOK /\ [Next]_vars => TypeOK'
<1> SUFFICES ASSUME TypeOK, RequestsOK, [Next]_vars PROVE TypeOK'
    OBVIOUS
<1>s. seen' \in [Slots -> BOOLEAN]
    BY DEF Next, TypeOK, vars, Watched
<1>t. Random \in Nat /\ now + ConsentTime \in Nat /\ now + Retention \in Nat /\ now + StateTime \in Nat
      /\ now + HandoffTime \in Nat /\ now + IdleTime \in Nat
    <2>1. now \in Nat /\ fresh \in Nat
        BY DEF TypeOK
    <2>2. \A t \in {MaxSkew, Retention, ConsentTime, StateTime, HandoffTime, CapabilityTime, IdleTime} : now + t \in Nat
        BY <2>1, TimesAssumption
    <2> QED
        BY <2>1, <2>2 DEF Random
<1>u. \A n \in {"consent", "message"} \X Nat :
          /\ Recorded(n) \subseteq Records
          /\ Unexpired(used) \subseteq Records
    BY <1>t DEF TypeOK, Recorded, Unexpired, Records
<1>h. ASSUME NEW r \in Slots, req[r] \in Approvals,
             NEW cookies \in Cookies, Handoff(r, cookies)
      PROVE  /\ fresh' \in Nat
             /\ jar' \in [Browsers -> Cookies]
             /\ handoffs' \subseteq Handoffs
             /\ codes' \subseteq Nat
             /\ req' \in [Slots -> Slot]
             /\ left' \in Bounds
    <2>1. HandoffOf(req[r], Random) \in Handoffs
        BY <1>h, <1>t DEF HandoffOf, Handoffs, Credential, Credentials, Approvals, Consents
    <2>2. left' \in Bounds
        BY <1>h, SpendType DEF Handoff, TypeOK, Counted
    <2>3. req' \in [Slots -> Slot]
        BY <1>h, DoneType DEF Handoff
    <2>4. jar' \in [Browsers -> Cookies]
        BY <1>h DEF Handoff, TypeOK, Approvals
    <2> QED
        BY <1>h, <1>t, <2>1, <2>2, <2>3, <2>4 DEF Handoff, TypeOK, Unexpired
<1>1. ASSUME NEW b \in Browsers, NEW f \in Flows, Page(b, f) PROVE TypeOK'
    <2>1. left' \in Bounds
        BY <1>1, SpendType DEF Page, TypeOK, Counted
    <2> QED
        BY <1>1, <1>s, <1>t, <2>1 DEF Page, TypeOK, Consents, Cookies
<1>2. ASSUME NEW r \in Slots, NEW b \in Browsers, Authorize(r, b) PROVE TypeOK'
    <2>1. left' \in Bounds
        BY <1>2, SpendType DEF Authorize, TypeOK, Counted
    <2>2. req' \in [Slots -> Slot]
        <3>1. jar[b].consent \in Consents
            BY <1>2 DEF Authorize, TypeOK, Cookies
        <3>2. [pc |-> "consume", browser |-> b, consent |-> jar[b].consent] \in Slot
            BY <3>1 DEF Slot, Approvals, Approving
        <3> QED
            BY <1>2, <3>2, PutType DEF Authorize
    <2> QED
        BY <1>2, <1>s, <2>1, <2>2 DEF Authorize, TypeOK
<1>3. ASSUME NEW r \in Slots, ConsumeConsent(r) PROVE TypeOK'
    <2>1. req[r] \in Approvals
        BY <1>3, SlotKinds DEF ConsumeConsent, Approving
    <2>2. <<"consent", req[r].consent.csrf>> \in {"consent", "message"} \X Nat
        BY <2>1 DEF Approvals, Consents
    <2>3. req' \in [Slots -> Slot]
        <3>1. [req[r] EXCEPT !.pc = "begin"] \in Slot
            BY <2>1 DEF Slot, Approvals, Approving
        <3> QED
            BY <1>3, <3>1, PutType, DoneType DEF ConsumeConsent
    <2> QED
        BY <1>3, <1>s, <1>u, <2>2, <2>3 DEF ConsumeConsent, TypeOK
<1>4. ASSUME NEW r \in Slots, BeginApiKey(r) PROVE TypeOK'
    <2>1. req[r] \in Approvals
        BY <1>4, SlotKinds DEF BeginApiKey, Approving
    <2>2. NoCookies \in Cookies
        BY DEF NoCookies, Cookies
    <2> QED
        BY <1>4, <1>s, <1>h, <2>1, <2>2 DEF BeginApiKey, TypeOK
<1>5. ASSUME NEW r \in Slots, BeginOAuth(r) PROVE TypeOK'
    <2>1. req[r] \in Approvals
        BY <1>5, SlotKinds DEF BeginOAuth, Approving
    <2>2. left' \in Bounds
        BY <1>5, SpendType DEF BeginOAuth, TypeOK, Counted
    <2>3. states' \subseteq States
        BY <1>5, <1>t, <2>1 DEF BeginOAuth, TypeOK, Unexpired, Approvals, States
    <2>4. req' \in [Slots -> Slot]
        BY <1>5, DoneType DEF BeginOAuth
    <2>5. jar' \in [Browsers -> Cookies]
        <3>1. [consent |-> None, provider |-> Random] \in Cookies
            BY <1>t DEF Cookies
        <3> QED
            BY <1>5, <3>1 DEF BeginOAuth, TypeOK
    <2> QED
        BY <1>5, <1>s, <1>t, <2>2, <2>3, <2>4, <2>5 DEF BeginOAuth, TypeOK
<1>6. ASSUME NEW r \in Slots, NEW b \in Browsers, Callback(r, b) PROVE TypeOK'
    <2>1. left' \in Bounds
        BY <1>6, SpendType DEF Callback, TypeOK, Counted
    <2>2. PICK s \in states :
              /\ states' = take_connect_state(s)
              /\ \/ Put(r, [pc |-> "exchange", browser |-> b, consent |-> s.consent]) /\ UNCHANGED jar
                 \/ jar' = [jar EXCEPT ![b].provider = None] /\ UNCHANGED req
                 \/ UNCHANGED <<jar, req>>
        BY <1>6 DEF Callback, Unexpired
    <2>3. jar' \in [Browsers -> Cookies]
        BY <2>2 DEF TypeOK, Cookies
    <2>4. req' \in [Slots -> Slot]
        <3>1. [pc |-> "exchange", browser |-> b, consent |-> s.consent] \in Slot
            BY DEF TypeOK, States, Slot, Approvals, Approving
        <3> QED
            BY <2>2, <3>1, PutType DEF TypeOK
    <2> QED
        BY <1>6, <1>s, <2>1, <2>2, <2>3, <2>4 DEF Callback, TypeOK, take_connect_state
<1>7. ASSUME NEW r \in Slots, Exchanged(r) PROVE TypeOK'
    <2>1. req[r] \in Approvals
        BY <1>7, SlotKinds DEF Exchanged, Approving
    <2>2. [jar[req[r].browser] EXCEPT !.provider = None]
              \in Cookies
        <3>1. jar[req[r].browser] \in Cookies
            BY <2>1 DEF TypeOK, Approvals
        <3> QED
            BY <3>1 DEF Cookies
    <2> QED
        BY <1>7, <1>s, <1>h, <2>1, <2>2 DEF Exchanged, TypeOK
<1>8. CASE Sign
    <2>1. left' \in Bounds
        BY <1>8, SpendType DEF Sign, TypeOK, Counted
    <2>2. PICK m \in Requests, ahead \in left.ahead :
              msgs' = Append(msgs, [args |-> m, timestamp |-> now + ahead])
        BY <1>8 DEF Sign
    <2>3. m \in Args
        BY RequestsType
    <2>4. now + ahead \in Nat
        BY DEF TypeOK, Bounds
    <2>5. [args |-> m, timestamp |-> now + ahead] \in Messages
        BY <2>3, <2>4 DEF Messages
    <2>6. msgs' \in Seq(Messages) /\ Len(msgs') = Len(msgs) + 1
        BY <2>2, <2>5 DEF TypeOK
    <2>7. accepted' \in Seq(Seq(Nat)) /\ Len(accepted') = Len(accepted) + 1
        BY <1>8 DEF Sign, TypeOK
    <2> QED
        BY <1>8, <1>s, <2>1, <2>6, <2>7 DEF Sign, TypeOK
<1>9. ASSUME NEW r \in Slots, Deliver(r) PROVE TypeOK'
    <2>1. left' \in Bounds
        BY <1>9, SpendType DEF Deliver, TypeOK, Counted
    <2>2. PICK m \in DOMAIN msgs : \E pc \in {"spend", "delegated"}, o \in {None} \cup Agents :
              Put(r, [pc |-> pc, msg |-> m, args |-> msgs[m].args, owner |-> o])
        <3>1. PICK m \in DOMAIN msgs :
                  LET args == msgs[m].args
                      q == [pc |-> "spend", msg |-> m, args |-> args, owner |-> None]
                  IN  \/ Put(r, q)
                      \/ args.kind \in Uses /\ Put(r, [q EXCEPT !.owner = Owner(args.conn)])
                      \/ args.kind \in Uses /\ Put(r, [q EXCEPT !.pc = "delegated", !.owner = Owner(args.conn)])
            BY <1>9 DEF Deliver, Uses
        <3>2. ASSUME msgs[m].args.kind \in Uses PROVE Owner(msgs[m].args.conn) \in Agents
            <4>1. conns[msgs[m].args.conn] \in Rows
                BY <3>2, RowType DEF RequestsOK, CallOK, OfConnection
            <4> QED
                BY <4>1 DEF Owner, Rows
        <3> DEFINE o == Owner(msgs[m].args.conn)
        <3>3. \/ Put(r, [pc |-> "spend", msg |-> m, args |-> msgs[m].args, owner |-> None])
              \/ o \in Agents /\ Put(r, [pc |-> "spend", msg |-> m, args |-> msgs[m].args, owner |-> o])
              \/ o \in Agents /\ Put(r, [pc |-> "delegated", msg |-> m, args |-> msgs[m].args, owner |-> o])
            BY <3>1, <3>2
        <3> HIDE DEF o
        <3> QED
            BY <3>3
    <2>3. req' \in [Slots -> Slot]
        <3>1. msgs[m].args \in Args /\ m \in Nat
            <4>1. msgs[m] \in Messages /\ m \in Nat
                BY DEF TypeOK
            <4> QED
                BY <4>1 DEF Messages
        <3>2. \A pc \in {"spend", "delegated"}, o \in {None} \cup Agents :
                  [pc |-> pc, msg |-> m, args |-> msgs[m].args, owner |-> o] \in Slot
            BY <3>1 DEF Slot, Calls, Signed
        <3> QED
            BY <2>2, <3>2, PutType
    <2> QED
        BY <1>9, <1>s, <2>1, <2>3 DEF Deliver, TypeOK
<1>13. ASSUME NEW r \in Slots, Delegated(r) PROVE TypeOK'
    <2>1. req' \in [Slots -> Slot]
        BY CallType, DoneType, <1>13 DEF Delegated, Signed
    <2> QED
        BY <1>13, <1>s, <2>1 DEF Delegated, TypeOK
<1>14. ASSUME NEW r \in Slots, SpendSignature(r) PROVE TypeOK'
    <2>1. req[r] \in Calls
        BY SlotKinds, <1>14 DEF SpendSignature, Signed
    <2>2. <<"message", req[r].msg>> \in {"consent", "message"} \X Nat
        BY <2>1 DEF Calls
    <2>3. AfterSpend(req[r]) \in Signed
        BY <2>1 DEF AfterSpend, Signed, Calls, Args
    <2>4. req' \in [Slots -> Slot]
        BY CallType, DoneType, <1>14, <2>3 DEF SpendSignature, Signed
    <2>5. accepted' \in Seq(Seq(Nat)) /\ Len(accepted') = Len(accepted)
        <3>1. req[r].msg \in DOMAIN accepted
            BY <1>14 DEF SpendSignature, TypeOK, RequestsOK, CallOK, Signed
        <3>2. accepted \in Seq(Seq(Nat)) /\ now \in Nat
            BY DEF TypeOK
        <3>3. Append(accepted[req[r].msg], now) \in Seq(Nat)
            BY <3>1, <3>2
        <3>4. \/ accepted' = accepted
              \/ accepted' = [accepted EXCEPT ![req[r].msg] = Append(accepted[req[r].msg], now)]
            BY <1>14 DEF SpendSignature
        <3> DEFINE more == [accepted EXCEPT ![req[r].msg] = Append(accepted[req[r].msg], now)]
        <3>5. more \in Seq(Seq(Nat)) /\ Len(more) = Len(accepted)
            BY <3>1, <3>2, <3>3, Replaced
        <3> HIDE DEF more
        <3> QED
            BY <3>2, <3>4, <3>5 DEF more
    <2> QED
        BY <1>14, <1>s, <1>u, <2>2, <2>4, <2>5 DEF SpendSignature, TypeOK
<1>15. ASSUME NEW r \in Slots, TakeHandoff(r) PROVE TypeOK'
    <2>1. req[r] \in Calls
        BY SlotKinds, <1>15 DEF TakeHandoff, Signed
    <2>2. handoffs' \subseteq handoffs
        BY <1>15 DEF TakeHandoff
    <2>3. ASSUME NEW h \in handoffs, Put(r, [pc |-> "create", args |-> req[r].args, credential |-> h.credential])
          PROVE  req' \in [Slots -> Slot]
        <3>1. [pc |-> "create", args |-> req[r].args, credential |-> h.credential] \in Slot
            BY <2>1 DEF TypeOK, Handoffs, Slot, Redemptions, Calls
        <3> QED
            BY <2>3, <3>1, PutType
    <2>4. req' \in [Slots -> Slot]
        BY DoneType, <1>15, <2>3 DEF TakeHandoff, Unexpired
    <2> QED
        BY <1>15, <1>s, <2>2, <2>4 DEF TakeHandoff, TypeOK
<1>16. ASSUME NEW r \in Slots, CreateConnection(r) PROVE TypeOK'
    <2>1. req[r] \in Redemptions /\ req[r].args.kind = "redeem"
        BY <1>16, SlotKinds DEF CreateConnection, RequestsOK, CallOK
    <2>2. req[r].args.signer \in Agents /\ req[r].args.flow \in Flows
        BY <2>1 DEF Redemptions, Args
    <2>3. [live |-> TRUE, owner |-> req[r].args.signer, lastUsed |-> now,
           verifier |-> req[r].args.flow, credential |-> req[r].credential] \in Rows
        BY <2>1, <2>2 DEF Rows, Redemptions, TypeOK
    <2> DEFINE swept == {c \in DOMAIN conns : ~live(c)}
               kept == [c \in DOMAIN conns |-> [conns[c] EXCEPT !.live = @ /\ c \notin swept]]
    <2>4. \A c \in DOMAIN conns : [conns[c] EXCEPT !.live = @ /\ c \notin swept] \in Rows
        <3> HIDE DEF swept
        <3> QED
            BY RowType
    <2>5. kept \in Seq(Rows)
        <3> HIDE DEF swept
        <3> QED
            BY <2>4 DEF TypeOK
    <2>6. conns' \in Seq(Rows)
        <3> HIDE DEF kept
        <3> QED
            BY <1>16, <2>3, <2>5 DEF CreateConnection, kept
    <2>7. req' \in [Slots -> Slot]
        BY DoneType, <1>16 DEF CreateConnection
    <2> QED
        BY <1>16, <1>s, <2>6, <2>7 DEF CreateConnection, TypeOK
<1>17. ASSUME NEW r \in Slots, Owned(r) PROVE TypeOK'
    <2>1. req' \in [Slots -> Slot]
        BY CallType, DoneType, <1>17 DEF Owned, Signed
    <2> QED
        BY <1>17, <1>s, <2>1 DEF Owned, TypeOK
<1>18. ASSUME NEW r \in Slots, Write(r) PROVE TypeOK'
    <2>1. req' \in [Slots -> Slot]
        BY DoneType, <1>18 DEF Write
    <2>2. conns' \in Seq(Rows)
        <3>1. CASE UNCHANGED conns
            BY <3>1 DEF TypeOK
        <3>2. CASE req[r].args.kind = "delete" /\ conns' = [conns EXCEPT ![req[r].args.conn].live = FALSE]
            <4>1. req[r].args.conn \in DOMAIN conns
                BY <1>18, <3>2 DEF Write, RequestsOK, CallOK, Signed, OfConnection
            <4> QED
                BY <4>1, <3>2, RowType
        <3> QED
            BY <1>18, <3>1, <3>2 DEF Write
    <2> QED
        BY <1>18, <1>s, <2>1, <2>2 DEF Write, TypeOK
<1>19. ASSUME NEW r \in Slots, Standing(r) PROVE TypeOK'
    <2>1. req' \in [Slots -> Slot]
        BY CallType, DoneType, <1>19 DEF Standing, Signed
    <2> QED
        BY <1>19, <1>s, <2>1 DEF Standing, TypeOK
<1>20. ASSUME NEW r \in Slots, StandingRuntime(r) PROVE TypeOK'
    <2>1. req' \in [Slots -> Slot]
        BY CallType, DoneType, <1>20 DEF StandingRuntime, Signed
    <2> QED
        BY <1>20, <1>s, <2>1 DEF StandingRuntime, TypeOK
<1>21. ASSUME NEW r \in Slots, Touch(r) PROVE TypeOK'
    <2>1. req' \in [Slots -> Slot]
        BY CallType, <1>21 DEF Touch, Signed
    <2>2. left' \in Bounds
        BY <1>21, SpendType DEF Touch, TypeOK, Counted
    <2>3. conns' \in Seq(Rows)
        <3>1. req[r].args.conn \in DOMAIN conns
            BY <1>21 DEF Touch, RequestsOK, CallOK, Signed, OfConnection
        <3>2. CASE conns' = [conns EXCEPT ![req[r].args.conn].lastUsed = now]
            BY <3>1, <3>2, RowType DEF TypeOK
        <3> QED
            BY <1>21, <3>2 DEF Touch, TypeOK
    <2> QED
        BY <1>21, <1>s, <2>1, <2>2, <2>3 DEF Touch, TypeOK
<1>22. ASSUME NEW r \in Slots, Send(r) \/ Abort(r) PROVE TypeOK'
    <2>1. req' \in [Slots -> Slot]
        BY DoneType, <1>22 DEF Send, Abort
    <2>2. left' \in Bounds
        BY <1>22, SpendType DEF Send, Abort, TypeOK, Counted
    <2> QED
        BY <1>22, <1>s, <2>1, <2>2 DEF Send, Abort, TypeOK
<1>23. CASE Tick \/ MonthsPass
    <2>1. left' \in Bounds
        BY <1>23, SpendType DEF Tick, MonthsPass, TypeOK, Counted
    <2>2. now' \in Nat
        BY <1>23, TimesAssumption DEF Tick, MonthsPass, TypeOK
    <2> QED
        BY <1>23, <1>s, <2>1, <2>2 DEF Tick, MonthsPass, TypeOK
<1>24. CASE UNCHANGED vars
    BY <1>24 DEF vars, TypeOK
<1> QED
    BY <1>1, <1>2, <1>3, <1>4, <1>5, <1>6, <1>7, <1>8, <1>9, <1>13, <1>14, <1>15, <1>16, <1>17,
       <1>18, <1>19, <1>20, <1>21, <1>22, <1>23, <1>24 DEF Next, Step

-----------------------------------------------------------------------------
(* What a step leaves of the connections and of the messages. *)

\* A connection keeps its owner, its verifier and its credential; a message is
\* never changed.
LEMMA RowsKept ==
    ASSUME TypeOK, RequestsOK, [Next]_vars
    PROVE  /\ \A c \in DOMAIN conns :
                 /\ c \in DOMAIN conns'
                 /\ conns'[c].owner = conns[c].owner
                 /\ conns'[c].verifier = conns[c].verifier
                 /\ conns'[c].credential = conns[c].credential
           /\ DOMAIN conns' = DOMAIN conns \/ \E r \in Slots : CreateConnection(r)
<1>1. CASE UNCHANGED conns
    BY <1>1
<1>2. ASSUME NEW c \in DOMAIN conns, NEW row,
             \/ \E l \in BOOLEAN : row = [conns[c] EXCEPT !.live = l]
             \/ \E t \in Nat : row = [conns[c] EXCEPT !.lastUsed = t]
      PROVE  row.owner = conns[c].owner /\ row.verifier = conns[c].verifier /\ row.credential = conns[c].credential
    BY <1>2, RowType DEF Rows
<1>3. ASSUME NEW r \in Slots, Write(r), conns' # conns
      PROVE  /\ req[r].args.conn \in DOMAIN conns
             /\ conns' = [conns EXCEPT ![req[r].args.conn].live = FALSE]
    BY <1>3 DEF Write, RequestsOK, CallOK, Signed, OfConnection
<1>4. ASSUME NEW r \in Slots, Touch(r), conns' # conns
      PROVE  /\ req[r].args.conn \in DOMAIN conns
             /\ conns' = [conns EXCEPT ![req[r].args.conn].lastUsed = now]
    BY <1>4 DEF Touch, RequestsOK, CallOK, Signed, OfConnection
<1>5. ASSUME NEW d \in DOMAIN conns, NEW row, conns' = [conns EXCEPT ![d] = row],
             row.owner = conns[d].owner /\ row.verifier = conns[d].verifier /\ row.credential = conns[d].credential
      PROVE  /\ DOMAIN conns' = DOMAIN conns
             /\ \A c \in DOMAIN conns :
                 /\ conns'[c].owner = conns[c].owner
                 /\ conns'[c].verifier = conns[c].verifier
                 /\ conns'[c].credential = conns[c].credential
    BY <1>5 DEF TypeOK
<1>6. ASSUME NEW r \in Slots, Write(r) \/ Touch(r), conns' # conns
      PROVE  /\ DOMAIN conns' = DOMAIN conns
             /\ \A c \in DOMAIN conns :
                 /\ conns'[c].owner = conns[c].owner
                 /\ conns'[c].verifier = conns[c].verifier
                 /\ conns'[c].credential = conns[c].credential
    <2>1. now \in Nat
        BY DEF TypeOK
    <2>2. CASE Write(r)
        <3> DEFINE d == req[r].args.conn
        <3>1. d \in DOMAIN conns /\ conns' = [conns EXCEPT ![d] = [conns[d] EXCEPT !.live = FALSE]]
            BY <1>3, <1>6, <2>2
        <3> HIDE DEF d
        <3> QED
            BY <1>2, <1>5, <3>1
    <2>3. CASE Touch(r)
        <3> DEFINE d == req[r].args.conn
        <3>1. d \in DOMAIN conns /\ conns' = [conns EXCEPT ![d] = [conns[d] EXCEPT !.lastUsed = now]]
            BY <1>4, <1>6, <2>3
        <3> HIDE DEF d
        <3> QED
            BY <1>2, <1>5, <2>1, <3>1
    <2> QED
        BY <1>6, <2>2, <2>3
<1>7. ASSUME NEW r \in Slots, CreateConnection(r)
      PROVE  \A c \in DOMAIN conns :
                 /\ c \in DOMAIN conns'
                 /\ conns'[c].owner = conns[c].owner
                 /\ conns'[c].verifier = conns[c].verifier
                 /\ conns'[c].credential = conns[c].credential
    <2> DEFINE kept == [c \in DOMAIN conns |-> [conns[c] EXCEPT !.live = @ /\ c \notin {x \in DOMAIN conns : ~live(x)}]]
               new == [live |-> TRUE, owner |-> req[r].args.signer, lastUsed |-> now,
                       verifier |-> req[r].args.flow, credential |-> req[r].credential]
    <2>1. conns' = Append(kept, new)
        BY <1>7 DEF CreateConnection
    <2>2. \A c \in DOMAIN conns : \E l \in BOOLEAN : kept[c] = [conns[c] EXCEPT !.live = l]
        BY RowType DEF Rows
    <2>3. kept \in Seq(Rows) /\ DOMAIN kept = DOMAIN conns
        <3>1. \A c \in DOMAIN conns : kept[c] \in Rows
            BY <2>2, RowType
        <3>2. DOMAIN kept = 1..Len(conns)
            BY DEF TypeOK
        <3> HIDE DEF kept
        <3>3. kept = [c \in DOMAIN conns |-> kept[c]]
            BY DEF kept
        <3> QED
            BY <3>1, <3>2, <3>3 DEF TypeOK
    <2>4. \A c \in DOMAIN conns :
             kept[c].owner = conns[c].owner /\ kept[c].verifier = conns[c].verifier
             /\ kept[c].credential = conns[c].credential
        <3> HIDE DEF kept
        <3> QED
            BY <2>2, <1>2
    <2> HIDE DEF kept, new
    <2>5. \A c \in DOMAIN conns : c \in DOMAIN conns' /\ conns'[c] = kept[c]
        BY <2>1, <2>3 DEF TypeOK
    <2> QED
        BY <2>4, <2>5
<1>8. \/ UNCHANGED conns
      \/ \E r \in Slots : Write(r) \/ Touch(r) \/ CreateConnection(r)
    BY DEF Next, Step, vars, Page, Authorize, ConsumeConsent, BeginApiKey, BeginOAuth, Callback, Exchanged,
           Sign, Deliver, Delegated, SpendSignature, TakeHandoff, Owned, Standing, StandingRuntime,
           Send, Abort, Tick, MonthsPass
<1> QED
    BY <1>1, <1>6, <1>7, <1>8

\* A message that was signed stays as it is: anyone may deliver it again, nobody can change it.
LEMMA MessagesKept ==
    ASSUME TypeOK, [Next]_vars
    PROVE  /\ \A m \in DOMAIN msgs : m \in DOMAIN msgs' /\ msgs'[m] = msgs[m]
           /\ UNCHANGED msgs \/ Sign
<1>1. UNCHANGED msgs \/ Sign
    BY DEF Next, Step, vars, Page, Authorize, ConsumeConsent, BeginApiKey, BeginOAuth, Callback, Exchanged,
           Deliver, Delegated, SpendSignature, TakeHandoff, CreateConnection, Owned, Write, Standing,
           StandingRuntime, Touch, Send, Abort, Tick, MonthsPass
<1>2. CASE Sign
    <2>1. PICK e : msgs' = Append(msgs, e)
        BY <1>2 DEF Sign
    <2>2. msgs \in Seq(Messages)
        BY DEF TypeOK
    <2> QED
        BY <1>2, <2>1, <2>2
<1> QED
    BY <1>1, <1>2

\* A request stays well formed while others go on.
LEMMA CallKept ==
    ASSUME TypeOK, RequestsOK, [Next]_vars, NEW q, CallOK(q)
    PROVE  CallOK(q)'
<1>1. \A m \in DOMAIN msgs : m \in DOMAIN msgs' /\ msgs'[m] = msgs[m]
    BY MessagesKept
<1>2. ASSUME q.pc \in Signed, q.args.kind \in Uses PROVE conns'[q.args.conn].owner = conns[q.args.conn].owner
    <2>1. q.args.conn \in DOMAIN conns
        BY <1>2 DEF CallOK, RequestsOK, OfConnection
    <2> QED
        BY <2>1, RowsKept
<1> QED
    BY <1>1, <1>2 DEF CallOK

\* The request that takes the step is well formed after it.
LEMMA RequestsStep ==
    ASSUME TypeOK, RequestsOK, [Next]_vars
    PROVE  RequestsOK'
<1>1. ASSUME NEW m \in DOMAIN msgs', msgs'[m].args.kind \in OfConnection PROVE msgs'[m].args.conn \in DOMAIN conns'
    <2>1. CASE m \in DOMAIN msgs
        BY <1>1, <2>1, MessagesKept, RowsKept DEF RequestsOK
    <2>2. CASE m \notin DOMAIN msgs
        <3>1. Sign
            BY <1>1, <2>2, MessagesKept
        <3>2. PICK a \in Requests, ahead \in left.ahead :
                  msgs' = Append(msgs, [args |-> a, timestamp |-> now + ahead])
            BY <3>1 DEF Sign
        <3>3. msgs'[m].args = a
            BY <2>2, <3>2 DEF TypeOK
        <3> QED
            BY <1>1, <3>1, <3>3, RequestsType DEF Sign
    <2> QED
        BY <2>1, <2>2
<1>2. ASSUME NEW r \in Slots, req'[r] = req[r] PROVE CallOK(req[r])'
    <2>1. \A q : CallOK(q) => CallOK(q)'
        BY CallKept
    <2>2. CallOK(req[r])
        BY DEF RequestsOK
    <2> QED
        BY <1>2, <2>1, <2>2 DEF CallOK
<1>3. ASSUME NEW r \in Slots, req'[r] = NoRequest PROVE CallOK(req[r])'
    BY <1>3 DEF CallOK, NoRequest, Signed
<1>4. ASSUME NEW r \in Slots, req'[r].pc \in Approving PROVE CallOK(req[r])'
    BY <1>4 DEF CallOK, Approving, Signed
\* A signed request goes on.
<1>5. ASSUME NEW r \in Slots, req[r].pc \in Signed, NEW pc \in Signed, req'[r] = [req[r] EXCEPT !.pc = pc],
             UNCHANGED <<conns, msgs>>,
             pc = "take" => req[r].args.kind = "redeem",
             pc = "delegated" => req[r].args.kind = "frame",
             pc \in {"standing", "runtime"} => req[r].args.kind = "forward",
             pc \in {"touch", "send"} => req[r].args.kind \in Uses,
             pc = "owned" => req[r].args.kind \in OfConnection \ Uses
      PROVE  CallOK(req[r])'
    <2>1. req[r] \in Calls /\ CallOK(req[r])
        BY <1>5, SlotKinds DEF RequestsOK
    <2>2. /\ req'[r].pc = pc /\ req'[r].msg = req[r].msg /\ req'[r].args = req[r].args
          /\ req'[r].owner = req[r].owner
        BY <1>5, <2>1 DEF Calls
    <2> QED
        BY <1>5, <2>1, <2>2 DEF CallOK, Signed
<1> DEFINE Others(r) == \A x \in Slots : x # r => req'[x] = req[x]
<1>6. \A r \in Slots : CallOK(req[r])
    BY DEF RequestsOK
<1>7. ASSUME NEW r \in Slots, Step(r) PROVE Others(r) /\ CallOK(req[r])'
    <2>1. CASE Deliver(r)
        <3>1. PICK m \in DOMAIN msgs :
                  LET args == msgs[m].args
                      q == [pc |-> "spend", msg |-> m, args |-> args, owner |-> None]
                  IN  IF args.kind \notin Uses THEN Put(r, q)
                      ELSE \/ Put(r, [q EXCEPT !.owner = Owner(args.conn)])
                           \/ args.kind = "frame" /\ Put(r, [q EXCEPT !.pc = "delegated", !.owner = Owner(args.conn)])
            BY <2>1 DEF Deliver, Uses
        <3>2. Others(r) /\ UNCHANGED <<conns, msgs>>
            BY <2>1, <3>1 DEF Deliver, TypeOK
        <3>3. PICK pc \in {"spend", "delegated"}, o \in {None, Owner(msgs[m].args.conn)} :
                  /\ req'[r] = [pc |-> pc, msg |-> m, args |-> msgs[m].args, owner |-> o]
                  /\ msgs[m].args.kind \in Uses => o = conns[msgs[m].args.conn].owner
                  /\ pc = "delegated" => msgs[m].args.kind = "frame"
            BY <3>1 DEF Owner, TypeOK
        <3> QED
            BY <3>2, <3>3 DEF CallOK, Signed
    <2>2. CASE \E b \in Browsers : Authorize(r, b)
        BY <1>4, <2>2 DEF Authorize, TypeOK, Approving
    <2>3. CASE \E b \in Browsers : Callback(r, b)
        <3>1. Others(r) /\ (req'[r] = req[r] \/ req'[r].pc = "exchange")
            BY <2>3 DEF Callback, TypeOK
        <3> QED
            BY <1>2, <1>4, <3>1 DEF Approving
    <2>4. CASE ConsumeConsent(r)
        <3>1. req[r] \in Approvals
            BY <2>4, SlotKinds DEF ConsumeConsent, Approving
        <3>2. Others(r) /\ (req'[r] = NoRequest \/ req'[r].pc = "begin")
            BY <2>4, <3>1 DEF ConsumeConsent, TypeOK, Approvals
        <3> QED
            BY <1>3, <1>4, <3>2 DEF Approving
    <2>5. CASE BeginApiKey(r) \/ BeginOAuth(r) \/ Exchanged(r) \/ CreateConnection(r) \/ Write(r) \/ Send(r) \/ Abort(r)
        BY <1>3, <2>5 DEF BeginApiKey, BeginOAuth, Exchanged, Handoff, CreateConnection, Write, Send, Abort, TypeOK
    <2>6. CASE Delegated(r)
        <3>1. req[r].pc \in Signed /\ UNCHANGED <<conns, msgs>> /\ Others(r)
            BY <2>6 DEF Delegated, Signed, TypeOK
        <3>2. req'[r] = NoRequest \/ req'[r] = [req[r] EXCEPT !.pc = "spend"]
            BY <2>6 DEF Delegated, TypeOK
        <3> QED
            BY <1>3, <1>5, <3>1, <3>2 DEF Signed
    <2>7. CASE SpendSignature(r)
        <3>1. req[r].pc \in Signed /\ UNCHANGED <<conns, msgs>> /\ Others(r)
            BY <2>7 DEF SpendSignature, Signed, TypeOK
        <3>2. req'[r] = NoRequest \/ req'[r] = [req[r] EXCEPT !.pc = AfterSpend(req[r])]
            BY <2>7 DEF SpendSignature, TypeOK
        <3>3. req[r].args \in Args
            BY <3>1, SlotKinds DEF Calls
        <3>4. /\ AfterSpend(req[r]) \in {"take", "owned", "write", "standing", "touch"}
              /\ AfterSpend(req[r]) = "take" => req[r].args.kind = "redeem"
              /\ AfterSpend(req[r]) = "standing" => req[r].args.kind = "forward"
              /\ AfterSpend(req[r]) = "touch" => req[r].args.kind \in Uses
              /\ AfterSpend(req[r]) = "owned" => req[r].args.kind \in OfConnection \ Uses
            BY <3>3 DEF AfterSpend, Args, Uses, OfConnection
        <3> QED
            BY <1>3, <1>5, <3>1, <3>2, <3>4 DEF Signed
    <2>8. CASE TakeHandoff(r)
        <3>1. req[r].args.kind = "redeem"
            BY <2>8, <1>6 DEF TakeHandoff, CallOK, Signed
        <3>2. req \in [Slots -> Slot]
            BY DEF TypeOK
        <3>3. ASSUME Done(r) PROVE Others(r) /\ CallOK(req[r])'
            BY <1>3, <3>2, <3>3
        <3>4. ASSUME NEW h \in handoffs,
                     Put(r, [pc |-> "create", args |-> req[r].args, credential |-> h.credential])
              PROVE  Others(r) /\ CallOK(req[r])'
            <4>1. Others(r) /\ req'[r].pc = "create" /\ req'[r].args = req[r].args
                BY <3>2, <3>4
            <4> QED
                BY <3>1, <4>1 DEF CallOK, Signed
        <3> HIDE DEF Others
        <3> QED
            BY <2>8, <3>3, <3>4 DEF TakeHandoff, Unexpired
    <2>9. CASE Owned(r)
        <3>1. req[r].pc \in Signed /\ UNCHANGED <<conns, msgs>> /\ Others(r)
            BY <2>9 DEF Owned, Signed, TypeOK
        <3>2. req'[r] = NoRequest \/ req'[r] = [req[r] EXCEPT !.pc = "write"]
            BY <2>9 DEF Owned, TypeOK
        <3> QED
            BY <1>3, <1>5, <3>1, <3>2 DEF Signed
    <2>10. CASE Standing(r)
        <3>1. req[r].pc = "standing" /\ req[r].pc \in Signed /\ UNCHANGED <<conns, msgs>> /\ Others(r)
            BY <2>10 DEF Standing, Signed, TypeOK
        <3>2. \/ req'[r] = NoRequest
              \/ \E pc \in {"runtime", "touch"} : req'[r] = [req[r] EXCEPT !.pc = pc]
            BY <2>10 DEF Standing, TypeOK
        <3>3. req[r].args.kind = "forward"
            BY <1>6, <3>1 DEF CallOK
        <3> QED
            BY <1>3, <1>5, <3>1, <3>2, <3>3 DEF Signed, Uses
    <2>11. CASE StandingRuntime(r)
        <3>1. req[r].pc = "runtime" /\ req[r].pc \in Signed /\ UNCHANGED <<conns, msgs>> /\ Others(r)
            BY <2>11 DEF StandingRuntime, Signed, TypeOK
        <3>2. req'[r] = NoRequest \/ req'[r] = [req[r] EXCEPT !.pc = "touch"]
            BY <2>11 DEF StandingRuntime, TypeOK
        <3>3. req[r].args.kind = "forward"
            BY <1>6, <3>1 DEF CallOK
        <3> QED
            BY <1>3, <1>5, <3>1, <3>2, <3>3 DEF Signed, Uses
    <2>12. CASE Touch(r)
        <3>0. UNCHANGED msgs /\ Others(r)
            BY <2>12 DEF Touch, TypeOK
        <3>1. req[r].pc = "touch" /\ req[r] \in Calls /\ CallOK(req[r])
            BY <2>12, <1>6, SlotKinds DEF Touch, Signed
        <3>2. req'[r] = [req[r] EXCEPT !.pc = "send"]
            BY <2>12 DEF Touch, TypeOK
        <3>3. req[r].args.kind \in Uses /\ req[r].args.conn \in DOMAIN conns
            BY <3>1 DEF CallOK, RequestsOK, OfConnection, Signed
        <3>4. conns'[req[r].args.conn].owner = conns[req[r].args.conn].owner
            BY <3>3, RowsKept
        <3>5. /\ req'[r].pc = "send" /\ req'[r].msg = req[r].msg /\ req'[r].args = req[r].args
              /\ req'[r].owner = req[r].owner
            BY <3>1, <3>2 DEF Calls
        <3> QED
            BY <3>0, <3>1, <3>3, <3>4, <3>5 DEF CallOK, Signed
    <2> QED
        BY <1>7, <2>1, <2>2, <2>3, <2>4, <2>5, <2>6, <2>7, <2>8, <2>9, <2>10, <2>11, <2>12 DEF Step
<1>8. (\E r \in Slots : Step(r)) \/ UNCHANGED req
    BY DEF Next, vars, Page, Sign, Tick, MonthsPass
<1>9. \A r \in Slots : CallOK(req[r])'
    BY <1>2, <1>7, <1>8
<1> QED
    BY <1>1, <1>9 DEF RequestsOK

-----------------------------------------------------------------------------
(* Who completes a consent. *)

\* A step of one request leaves the others where they are.
LEMMA OtherSlots ==
    ASSUME TypeOK, NEW r \in Slots, Step(r)
    PROVE  \A x \in Slots : x # r => req'[x] = req[x]
<1>1. (\E q : Put(r, q)) \/ UNCHANGED req
    BY DEF Step, Authorize, ConsumeConsent, BeginApiKey, BeginOAuth, Handoff, Callback, Exchanged,
           Deliver, Delegated, SpendSignature, TakeHandoff, CreateConnection, Owned, Write, Standing,
           StandingRuntime, Touch, Send, Abort
<1> QED
    BY <1>1 DEF TypeOK

\* Steps of signed requests, which carry no consent of a browser's.
Quiet(r) ==
    \/ Deliver(r) \/ Delegated(r) \/ SpendSignature(r) \/ CreateConnection(r) \/ Owned(r) \/ Write(r)
    \/ Standing(r) \/ StandingRuntime(r) \/ Touch(r) \/ Send(r) \/ Abort(r)

\* A step of a signed request touches neither the consent flow's state nor the clock.
LEMMA QuietStep ==
    ASSUME TypeOK, RequestsOK, RequestsOK', NEW r \in Slots, Quiet(r)
    PROVE  /\ \A x \in Slots : req'[x] = req[x] \/ req'[x].pc \in Signed \cup {"idle"}
           /\ UNCHANGED <<now, jar, forms, states, handoffs, fresh>>
<1>1. \A x \in Slots : x # r => req'[x] = req[x]
    BY OtherSlots DEF Quiet, Step
<1>2. UNCHANGED <<now, jar, forms, states, handoffs, fresh>>
    BY DEF Quiet, Deliver, Delegated, SpendSignature, CreateConnection, Owned, Write, Standing,
           StandingRuntime, Touch, Send, Abort
<1>3. ASSUME Done(r) PROVE req'[r].pc = "idle"
    BY <1>3 DEF TypeOK, NoRequest
<1>4. ASSUME NEW pc, req[r].pc \in Signed, Put(r, [req[r] EXCEPT !.pc = pc]) PROVE req'[r].pc = pc
    BY <1>4, SlotKinds DEF TypeOK, Calls
<1>5. CASE Deliver(r)
    <2>1. PICK m \in DOMAIN msgs :
              \E pc \in {"spend", "delegated"}, o \in {None, Owner(msgs[m].args.conn)} :
                  req'[r] = [pc |-> pc, msg |-> m, args |-> msgs[m].args, owner |-> o]
        BY <1>5 DEF Deliver, TypeOK
    <2>2. req'[r].pc \in {"spend", "delegated"}
        BY <2>1
    <2> QED
        BY <1>1, <1>2, <2>2 DEF Signed
<1>6. CASE CreateConnection(r) \/ Write(r) \/ Send(r) \/ Abort(r)
    BY <1>1, <1>2, <1>3, <1>6 DEF CreateConnection, Write, Send, Abort
<1>7. CASE Delegated(r) \/ Owned(r) \/ Standing(r) \/ StandingRuntime(r) \/ Touch(r)
    <2>1. \/ Done(r)
          \/ \E pc \in {"spend", "write", "runtime", "touch", "send"} : Put(r, [req[r] EXCEPT !.pc = pc])
        BY <1>7 DEF Delegated, Owned, Standing, StandingRuntime, Touch
    <2>2. req[r].pc \in Signed
        BY <1>7 DEF Delegated, Owned, Standing, StandingRuntime, Touch, Signed
    <2>3. req'[r].pc \in Signed \cup {"idle"}
        BY <1>3, <1>4, <2>1, <2>2 DEF Signed
    <2> QED
        BY <1>1, <1>2, <2>3
<1>8. CASE SpendSignature(r)
    <2>1. req[r].pc \in Signed
        BY <1>8 DEF SpendSignature, Signed
    <2>2. Done(r) \/ Put(r, [req[r] EXCEPT !.pc = AfterSpend(req[r])])
        BY <1>8 DEF SpendSignature
    <2>3. req[r].args \in Args
        BY <2>1, SlotKinds DEF Calls
    <2>4. AfterSpend(req[r]) \in Signed
        BY <2>3 DEF AfterSpend, Args, Signed
    <2> QED
        BY <1>1, <1>2, <1>3, <1>4, <2>1, <2>2, <2>4
<1> QED
    BY <1>5, <1>6, <1>7, <1>8 DEF Quiet

\* A handoff is stored with the credential of its request; the cookies it
\* belongs to go.
LEMMA HandoffStep ==
    ASSUME TypeOK, NEW r \in Slots, BeginApiKey(r) \/ Exchanged(r)
    PROVE  /\ req[r] \in Approvals /\ req'[r] = NoRequest
           /\ handoffs' = Unexpired(handoffs) \cup {HandoffOf(req[r], Random)}
           /\ HandoffOf(req[r], Random).challenge = req[r].consent.flow
           /\ HandoffOf(req[r], Random).credential = Credential(req[r])
           /\ Credential(req[r]).flow = req[r].consent.flow
           /\ Credential(req[r]).csrf = req[r].consent.csrf
           /\ Credential(req[r]).browser = req[r].browser
           /\ fresh' = fresh + 1
           /\ UNCHANGED <<now, forms, states, used, conns, late>>
           /\ \A b \in Browsers : /\ jar'[b].provider \in {jar[b].provider, None}
                                  /\ jar'[b].consent \in {jar[b].consent, None}
<1>1. req[r] \in Approvals
    BY SlotKinds DEF BeginApiKey, Exchanged, Approving
<1>2. PICK cookies : /\ Handoff(r, cookies)
                     /\ cookies.provider = None
                     /\ cookies.consent \in {jar[req[r].browser].consent, None}
    <2>1. CASE BeginApiKey(r)
        BY <2>1 DEF BeginApiKey, NoCookies
    <2>2. CASE Exchanged(r)
        <3>1. jar[req[r].browser] \in Cookies
            BY <1>1 DEF TypeOK, Approvals
        <3>2. LET cookies == [jar[req[r].browser] EXCEPT !.provider = None]
              IN  cookies.provider = None /\ cookies.consent = jar[req[r].browser].consent
            BY <3>1 DEF Cookies
        <3> QED
            BY <2>2, <3>2 DEF Exchanged
    <2> QED
        BY <2>1, <2>2
<1>3. \A b \in Browsers : /\ jar'[b].provider \in {jar[b].provider, None}
                          /\ jar'[b].consent \in {jar[b].consent, None}
    BY <1>2 DEF Handoff, TypeOK
<1>4. req'[r] = NoRequest /\ handoffs' = Unexpired(handoffs) \cup {HandoffOf(req[r], Random)} /\ fresh' = fresh + 1
    BY <1>2 DEF Handoff, TypeOK, Random
<1>5. UNCHANGED <<now, forms, states, used, conns, late>>
    BY DEF BeginApiKey, Exchanged
<1> QED
    BY <1>1, <1>3, <1>4, <1>5 DEF HandoffOf, Credential

\* Authorization starts with a new state, the cookie for it and the consent.
LEMMA OAuthStep ==
    ASSUME TypeOK, NEW r \in Slots, BeginOAuth(r)
    PROVE  /\ req[r] \in Approvals /\ req'[r] = NoRequest
           /\ \E new : /\ states' = Unexpired(states) \cup {new}
                       /\ new.state = fresh + 1 /\ new.consent = req[r].consent
           /\ \A s \in states' : s \in states \/ (s.state = fresh + 1 /\ s.consent = req[r].consent)
           /\ fresh' = fresh + 1
           /\ UNCHANGED <<now, forms, handoffs, used, conns, late>>
           /\ \A b \in Browsers : /\ \/ jar'[b].provider = jar[b].provider
                                     \/ b = req[r].browser /\ jar'[b].provider = Random
                                  /\ jar'[b].consent \in {jar[b].consent, None}
<1>1. req[r] \in Approvals
    BY SlotKinds DEF BeginOAuth, Approving
<1>2. \/ jar' = [jar EXCEPT ![req[r].browser] = [consent |-> None, provider |-> Random]]
      \/ UNCHANGED jar
    BY DEF BeginOAuth
<1>3. \A b \in Browsers : /\ \/ jar'[b].provider = jar[b].provider
                             \/ b = req[r].browser /\ jar'[b].provider = Random
                          /\ jar'[b].consent \in {jar[b].consent, None}
    BY <1>1, <1>2 DEF TypeOK, Approvals
<1> DEFINE new == [state |-> Random, consent |-> req[r].consent, expires |-> now + StateTime]
<1>4. states' = Unexpired(states) \cup {new} /\ new.state = fresh + 1 /\ new.consent = req[r].consent
    BY DEF BeginOAuth, Random
<1>5. req'[r] = NoRequest /\ fresh' = fresh + 1 /\ UNCHANGED <<now, forms, handoffs, used, conns, late>>
    BY DEF BeginOAuth, TypeOK, Random
<1> HIDE DEF new
<1>6. \A s \in states' : s \in states \/ (s.state = fresh + 1 /\ s.consent = req[r].consent)
    BY <1>4 DEF Unexpired
<1> QED
    BY <1>1, <1>3, <1>4, <1>5, <1>6

\* The callback takes the state; its consent goes on with a browser that has
\* the state's cookie.
LEMMA CallbackStep ==
    ASSUME TypeOK, NEW r \in Slots, NEW b \in Browsers, Callback(r, b)
    PROVE  /\ req[r].pc = "idle"
           /\ \E s \in states :
                 /\ states' = states \ {s}
                 /\ \/ req'[r] = req[r]
                    \/ /\ jar[b].provider = s.state
                       /\ req'[r] = [pc |-> "exchange", browser |-> b, consent |-> s.consent]
           /\ UNCHANGED <<now, forms, handoffs, used, conns, late, fresh>>
           /\ \A x \in Browsers : /\ jar'[x].provider \in {jar[x].provider, None}
                                  /\ jar'[x].consent = jar[x].consent
<1>1. PICK s \in states :
          /\ states' = states \ {s}
          /\ \/ /\ jar[b].provider = s.state
                /\ Put(r, [pc |-> "exchange", browser |-> b, consent |-> s.consent])
                /\ UNCHANGED jar
             \/ jar' = [jar EXCEPT ![b].provider = None] /\ UNCHANGED req
             \/ UNCHANGED <<jar, req>>
    BY DEF Callback, Unexpired, Bound, take_connect_state
<1>2. \/ req'[r] = req[r]
      \/ /\ jar[b].provider = s.state
         /\ req'[r] = [pc |-> "exchange", browser |-> b, consent |-> s.consent]
    BY <1>1 DEF TypeOK
<1>3. \A x \in Browsers : /\ jar'[x].provider \in {jar[x].provider, None}
                          /\ jar'[x].consent = jar[x].consent
    BY <1>1 DEF TypeOK, Cookies
<1> QED
    BY <1>1, <1>2, <1>3 DEF Callback

\* A page brings a new consent, in the form and in the cookie.
LEMMA PageStep ==
    ASSUME TypeOK, NEW b \in Browsers, NEW f \in Flows, Page(b, f)
    PROVE  /\ fresh' = fresh + 1
           /\ UNCHANGED <<now, states, handoffs, used, conns, late, req>>
           /\ \A x \in Browsers :
                 /\ jar'[x].provider = jar[x].provider
                 /\ forms[x] \subseteq forms'[x]
                 /\ \/ jar'[x].consent = jar[x].consent
                    \/ /\ jar'[x].consent.csrf = fresh + 1 /\ jar'[x].consent.expires = now + ConsentTime
                       /\ fresh + 1 \in forms'[x]
                 /\ \A n \in forms'[x] : n \in forms[x] \/ n = fresh + 1
BY DEF Page, TypeOK, Random, Cookies

\* A handoff is taken by a request that holds its code and its verifier.
LEMMA TakeStep ==
    ASSUME TypeOK, NEW r \in Slots, TakeHandoff(r)
    PROVE  /\ handoffs' \subseteq handoffs
           /\ \/ req'[r] = NoRequest
              \/ \E h \in handoffs :
                    /\ h \notin handoffs' /\ h.challenge = req[r].args.flow
                    /\ req'[r] = [pc |-> "create", args |-> req[r].args, credential |-> h.credential]
<1>1. req \in [Slots -> Slot]
    BY DEF TypeOK
<1>2. handoffs' \subseteq handoffs
    BY DEF TakeHandoff
<1>3. CASE Done(r)
    BY <1>1, <1>2, <1>3
<1>4. ASSUME NEW h \in {h \in Unexpired(handoffs) : Redeems(h, req[r].args)},
             handoffs' = handoffs \ {x \in Unexpired(handoffs) : Redeems(x, req[r].args)},
             Put(r, [pc |-> "create", args |-> req[r].args, credential |-> h.credential])
      PROVE  /\ h \in handoffs /\ h \notin handoffs' /\ h.challenge = req[r].args.flow
             /\ req'[r] = [pc |-> "create", args |-> req[r].args, credential |-> h.credential]
    BY <1>1, <1>4 DEF Unexpired, Redeems
<1> QED
    BY <1>2, <1>3, <1>4 DEF TakeHandoff

\* The only connection that is new is the one the request redeems.
LEMMA CreateStep ==
    ASSUME TypeOK, NEW r \in Slots, CreateConnection(r)
    PROVE  \A c \in DOMAIN conns' :
               \/ c \in DOMAIN conns
               \/ c = Len(conns) + 1 /\ conns'[c] = [live |-> TRUE, owner |-> req[r].args.signer, lastUsed |-> now,
                                                     verifier |-> req[r].args.flow, credential |-> req[r].credential]
<1> DEFINE kept == [c \in DOMAIN conns |-> [conns[c] EXCEPT !.live = @ /\ c \notin {x \in DOMAIN conns : ~live(x)}]]
           new == [live |-> TRUE, owner |-> req[r].args.signer, lastUsed |-> now,
                   verifier |-> req[r].args.flow, credential |-> req[r].credential]
<1>1. conns' = Append(kept, new)
    BY DEF CreateConnection
<1>2. \A c \in DOMAIN conns : kept[c] \in Rows
    BY RowType
<1>3. DOMAIN kept = DOMAIN conns
    OBVIOUS
<1> HIDE DEF kept, new
<1>4. kept \in Seq(Rows) /\ Len(kept) = Len(conns)
    <2>1. DOMAIN kept = 1..Len(conns) /\ Len(conns) \in Nat
        BY <1>3 DEF TypeOK
    <2>2. kept = [c \in DOMAIN conns |-> kept[c]]
        BY DEF kept
    <2> QED
        BY <1>2, <2>1, <2>2 DEF TypeOK
<1>5. \A c \in DOMAIN conns' : c \in DOMAIN conns \/ (c = Len(conns) + 1 /\ conns'[c] = new)
    <2>1. DOMAIN conns = 1..Len(conns)
        BY DEF TypeOK
    <2> QED
        BY <1>1, <1>4, <2>1
<1> QED
    BY <1>5 DEF new

\* The steps that concern consents, and the ones that do not.
LEMMA Steps ==
    ASSUME [Next]_vars
    PROVE  \/ \E b \in Browsers, f \in Flows : Page(b, f)
           \/ \E r \in Slots, b \in Browsers : Authorize(r, b) \/ Callback(r, b)
           \/ \E r \in Slots : ConsumeConsent(r) \/ BeginApiKey(r) \/ Exchanged(r) \/ BeginOAuth(r)
           \/ \E r \in Slots : TakeHandoff(r)
           \/ \E r \in Slots : Quiet(r)
           \/ Sign \/ Tick \/ MonthsPass \/ UNCHANGED vars
BY DEF Next, Step, Quiet

\* The steps that leave the cookies, the forms and the states alone.
LEMMA BrowsersKept ==
    ASSUME TypeOK, RequestsOK, RequestsOK',
           \/ \E r \in Slots, b \in Browsers : Authorize(r, b)
           \/ \E r \in Slots : ConsumeConsent(r) \/ TakeHandoff(r) \/ Quiet(r)
           \/ Sign \/ Tick \/ MonthsPass \/ UNCHANGED vars
    PROVE  UNCHANGED <<jar, forms, states, fresh>>
BY QuietStep DEF Authorize, ConsumeConsent, TakeHandoff, Sign, Tick, MonthsPass, vars

\* Every number in use was drawn before, and every draw is new.
LEMMA DrawnStep ==
    ASSUME TypeOK, RequestsOK, RequestsOK', Drawn, Approved, [Next]_vars
    PROVE  Drawn'
<1>1. fresh \in Nat /\ fresh < fresh + 1 /\ None \notin Nat
    BY NoneAssumption DEF TypeOK
<1>2. \A b \in Browsers : \A n \in forms[b] : n \in Nat
    BY DEF TypeOK
<1>3. \A s \in states : s.state \in Nat /\ s.consent.csrf \in Nat
    BY DEF TypeOK, States, Consents
<1>4. \A b \in Browsers : jar[b].provider \in Nat \cup {None}
    BY DEF TypeOK, Cookies
<1>5. CASE UNCHANGED <<jar, forms, states, fresh>>
    BY <1>5 DEF Drawn
<1>6. ASSUME NEW b \in Browsers, NEW f \in Flows, Page(b, f) PROVE Drawn'
    <2>1. /\ fresh' = fresh + 1 /\ states' = states
          /\ \A x \in Browsers :
                 /\ jar'[x].provider = jar[x].provider
                 /\ forms[x] \subseteq forms'[x]
                 /\ \/ jar'[x].consent = jar[x].consent
                    \/ jar'[x].consent.csrf = fresh + 1 /\ fresh + 1 \in forms'[x]
                 /\ \A n \in forms'[x] : n \in forms[x] \/ n = fresh + 1
        BY <1>6, PageStep
    <2> QED
        BY <1>1, <1>2, <1>3, <1>4, <2>1 DEF Drawn
<1>7. ASSUME NEW r \in Slots, BeginApiKey(r) \/ Exchanged(r) PROVE Drawn'
    BY <1>1, <1>2, <1>3, <1>4, <1>7, HandoffStep DEF Drawn
<1>8. ASSUME NEW r \in Slots, BeginOAuth(r) PROVE Drawn'
    <2>1. req[r].consent.csrf \in forms[req[r].browser] /\ req[r].browser \in Browsers
        BY <1>8, OAuthStep DEF BeginOAuth, Approved, SlotApproved, Approving, Approvals
    <2>2. req[r].consent.csrf <= fresh + 1
        BY <1>1, <1>2, <2>1 DEF Drawn
    <2>3. \A s \in states' : s \in states \/ (s.state = fresh + 1 /\ s.consent = req[r].consent)
        BY <1>8, OAuthStep
    <2>4. \A s \in states' : s.state <= fresh' /\ s.consent.csrf <= fresh'
        BY <1>1, <1>3, <1>8, <2>2, <2>3, OAuthStep DEF Drawn
    <2> QED
        BY <1>1, <1>2, <1>4, <1>8, <2>4, OAuthStep DEF Drawn, Random
<1>9. ASSUME NEW r \in Slots, NEW b \in Browsers, Callback(r, b) PROVE Drawn'
    BY <1>9, CallbackStep DEF Drawn
<1> QED
    BY <1>5, <1>6, <1>7, <1>8, <1>9, Steps, BrowsersKept

\* Every completion of a consent is the approving browser's, and goes to the
\* hub with the verifier.
LEMMA ApprovedStep ==
    ASSUME TypeOK, RequestsOK, RequestsOK', Drawn, Approved, [Next]_vars
    PROVE  Approved'
<1>1. fresh \in Nat /\ None \notin Nat
    BY NoneAssumption DEF TypeOK
<1>2. ASSUME NEW q \in Slot, SlotApproved(q), \A b \in Browsers : forms[b] \subseteq forms'[b] PROVE SlotApproved(q)'
    BY <1>2 DEF SlotApproved, Slot, NoRequest, Approvals, Calls, Redemptions, Credentials, Approving, Signed
<1>3. \A r \in Slots : req[r] \in Slot /\ SlotApproved(req[r])
    BY SlotKinds DEF Approved
<1>4. ASSUME \A r \in Slots : req'[r] = req[r] \/ req'[r].pc \in Signed \cup {"idle"},
             \A b \in Browsers : forms[b] \subseteq forms'[b]
      PROVE  \A r \in Slots : SlotApproved(req[r])'
    <2> SUFFICES ASSUME NEW r \in Slots PROVE SlotApproved(req[r])'
        OBVIOUS
    <2>1. CASE req'[r] = req[r]
        BY <1>2, <1>3, <1>4, <2>1 DEF SlotApproved
    <2>2. CASE req'[r].pc \in Signed \cup {"idle"}
        BY <2>2 DEF SlotApproved, Signed, Approving
    <2> QED
        BY <1>4, <2>1, <2>2
<1>5. CASE \E r \in Slots : Quiet(r)
    BY <1>4, <1>5, QuietStep DEF Approved
<1>6. CASE Sign \/ Tick \/ MonthsPass \/ UNCHANGED vars
    <2>1. UNCHANGED <<req, jar, forms, states, handoffs>>
        BY <1>6 DEF Sign, Tick, MonthsPass, vars
    <2> QED
        BY <1>4, <2>1 DEF Approved
<1>7. ASSUME NEW b \in Browsers, NEW f \in Flows, Page(b, f) PROVE Approved'
    <2>1. \A h \in handoffs : h.credential.browser \in Browsers
        BY DEF TypeOK, Handoffs, Credentials
    <2>2. /\ UNCHANGED <<req, handoffs, states>>
          /\ \A x \in Browsers : jar'[x].provider = jar[x].provider /\ forms[x] \subseteq forms'[x]
        BY <1>7, PageStep
    <2> QED
        BY <1>4, <2>1, <2>2 DEF Approved
<1>8. ASSUME NEW r \in Slots, NEW b \in Browsers, Authorize(r, b) PROVE Approved'
    <2>1. UNCHANGED <<jar, forms, states, handoffs>>
        BY <1>8 DEF Authorize
    <2>2. \A x \in Slots : x # r => req'[x] = req[x]
        BY <1>8, OtherSlots DEF Step
    <2>3. req'[r] = [pc |-> "consume", browser |-> b, consent |-> jar[b].consent] /\ jar[b].consent.csrf \in forms[b]
        BY <1>8 DEF Authorize, TypeOK
    <2>4. SlotApproved(req[r])'
        BY <2>1, <2>3 DEF SlotApproved, Approving
    <2>5. \A x \in Slots : SlotApproved(req[x])'
        <3> SUFFICES ASSUME NEW x \in Slots, x # r PROVE SlotApproved(req[x])'
            BY <2>4
        <3> QED
            BY <1>3, <2>1, <2>2 DEF SlotApproved
    <2> QED
        BY <2>1, <2>5 DEF Approved
<1>9. ASSUME NEW r \in Slots, UNCHANGED forms, \A x \in Slots : x # r => req'[x] = req[x], SlotApproved(req[r])'
      PROVE  \A x \in Slots : SlotApproved(req[x])'
    <2> SUFFICES ASSUME NEW x \in Slots, x # r PROVE SlotApproved(req[x])'
        BY <1>9
    <2> QED
        BY <1>3, <1>9 DEF SlotApproved
<1>10. ASSUME NEW r \in Slots, ConsumeConsent(r) PROVE Approved'
    <2>1. UNCHANGED <<jar, forms, states, handoffs>>
        BY <1>10 DEF ConsumeConsent
    <2>2. \A x \in Slots : x # r => req'[x] = req[x]
        BY <1>10, OtherSlots DEF Step
    <2>3. req[r] \in Approvals /\ req[r].consent.csrf \in forms[req[r].browser]
        BY <1>3, <1>10, SlotKinds DEF ConsumeConsent, Approving, SlotApproved
    <2>4. req'[r] = NoRequest \/ req'[r] = [req[r] EXCEPT !.pc = "begin"]
        BY <1>10 DEF ConsumeConsent, TypeOK
    <2>5. SlotApproved(req[r])'
        BY <2>1, <2>3, <2>4 DEF SlotApproved, Approving, Approvals, NoRequest
    <2> QED
        BY <1>9, <2>1, <2>2, <2>5 DEF Approved
<1>11. ASSUME NEW r \in Slots, BeginApiKey(r) \/ Exchanged(r) PROVE Approved'
    <2>1. \A x \in Slots : x # r => req'[x] = req[x]
        BY <1>11, OtherSlots DEF Step
    <2>2. req[r].consent.csrf \in forms[req[r].browser]
        BY <1>3, <1>11 DEF BeginApiKey, Exchanged, Approving, SlotApproved
    <2>3. SlotApproved(req[r])'
        BY <1>11, HandoffStep DEF SlotApproved, NoRequest, Approving
    <2>4. \A x \in Slots : SlotApproved(req[x])'
        BY <1>9, <1>11, <2>1, <2>3, HandoffStep
    <2>5. \A h \in handoffs' : h.challenge = h.credential.flow /\ h.credential.csrf \in forms[h.credential.browser]
        <3> SUFFICES ASSUME NEW h \in handoffs'
                     PROVE  h.challenge = h.credential.flow /\ h.credential.csrf \in forms[h.credential.browser]
            OBVIOUS
        <3>1. CASE h \in handoffs
            BY <3>1 DEF Approved
        <3>2. CASE h = HandoffOf(req[r], Random)
            BY <1>11, <2>2, <3>2, HandoffStep
        <3> QED
            BY <1>11, <3>1, <3>2, HandoffStep DEF Unexpired
    <2>6. \A s \in states', b \in Browsers : jar'[b].provider = s.state => s.consent.csrf \in forms'[b]
        <3>1. \A s \in states : s.state \in Nat
            BY DEF TypeOK, States
        <3> QED
            BY <1>1, <1>11, <3>1, HandoffStep DEF Approved
    <2> QED
        BY <1>11, <2>4, <2>5, <2>6, HandoffStep DEF Approved
<1>12. ASSUME NEW r \in Slots, BeginOAuth(r) PROVE Approved'
    <2>1. \A x \in Slots : x # r => req'[x] = req[x]
        BY <1>12, OtherSlots DEF Step
    <2>2. req[r].consent.csrf \in forms[req[r].browser]
        BY <1>3, <1>12 DEF BeginOAuth, Approving, SlotApproved
    <2>3. SlotApproved(req[r])'
        BY <1>12, OAuthStep DEF SlotApproved, NoRequest, Approving
    <2>4. \A x \in Slots : SlotApproved(req[x])'
        BY <1>9, <1>12, <2>1, <2>3, OAuthStep
    <2>5. ASSUME NEW s \in states', NEW b \in Browsers, jar'[b].provider = s.state PROVE s.consent.csrf \in forms[b]
        <3>1. jar[b].provider \in Nat \cup {None}
            BY DEF TypeOK, Cookies
        <3>2. \/ jar'[b].provider = jar[b].provider
              \/ b = req[r].browser /\ jar'[b].provider = fresh + 1
            BY <1>12, OAuthStep DEF Random
        <3>3. CASE s \in states
            <4>1. s.state \in Nat /\ s.state <= fresh
                BY <3>3 DEF TypeOK, States, Drawn
            <4>2. jar[b].provider = s.state
                BY <1>1, <2>5, <3>2, <4>1
            <4> QED
                BY <3>3, <4>2 DEF Approved
        <3>4. CASE s.state = fresh + 1 /\ s.consent = req[r].consent
            <4>1. jar[b].provider # fresh + 1
                BY <1>1, <3>1 DEF Drawn
            <4> QED
                BY <2>2, <2>5, <3>2, <3>4, <4>1
        <3> QED
            BY <1>12, <3>3, <3>4, OAuthStep
    <2> QED
        BY <1>12, <2>4, <2>5, OAuthStep DEF Approved
<1>13. ASSUME NEW r \in Slots, NEW b \in Browsers, Callback(r, b) PROVE Approved'
    <2>1. \A x \in Slots : x # r => req'[x] = req[x]
        BY <1>13, OtherSlots DEF Step
    <2>2. PICK s \in states :
              /\ states' = states \ {s}
              /\ \/ req'[r] = req[r]
                 \/ /\ jar[b].provider = s.state
                    /\ req'[r] = [pc |-> "exchange", browser |-> b, consent |-> s.consent]
        BY <1>13, CallbackStep
    <2>3. UNCHANGED <<forms, handoffs>>
        BY <1>13, CallbackStep
    <2>4. SlotApproved(req[r])'
        BY <1>3, <2>2, <2>3 DEF SlotApproved, Approving, Approved
    <2>5. \A x \in Slots : SlotApproved(req[x])'
        BY <1>9, <2>1, <2>3, <2>4
    <2>6. \A t \in states : t.state \in Nat
        BY DEF TypeOK, States
    <2>7. \A t \in states', x \in Browsers : jar'[x].provider = t.state => t.consent.csrf \in forms'[x]
        BY <1>1, <1>13, <2>2, <2>6, CallbackStep DEF Approved
    <2> QED
        BY <2>3, <2>5, <2>7 DEF Approved
<1>14. ASSUME NEW r \in Slots, TakeHandoff(r) PROVE Approved'
    <2>1. \A x \in Slots : x # r => req'[x] = req[x]
        BY <1>14, OtherSlots DEF Step
    <2>2. UNCHANGED <<jar, forms, states>> /\ handoffs' \subseteq handoffs
        BY <1>14 DEF TakeHandoff
    <2>3. SlotApproved(req[r])'
        <3>1. CASE req'[r] = NoRequest
            BY <3>1 DEF SlotApproved, Approving, NoRequest
        <3>2. ASSUME NEW h \in handoffs, h.challenge = req[r].args.flow,
                     req'[r] = [pc |-> "create", args |-> req[r].args, credential |-> h.credential]
              PROVE  SlotApproved(req[r])'
            BY <2>2, <3>2 DEF SlotApproved, Approving, Approved
        <3> QED
            BY <1>14, <3>1, <3>2, TakeStep
    <2> QED
        BY <1>9, <2>1, <2>2, <2>3 DEF Approved
<1> QED
    BY <1>5, <1>6, <1>7, <1>8, <1>10, <1>11, <1>12, <1>13, <1>14, Steps

\* "only the browser that approved the consent screen may complete it".
LEMMA CompletedStep ==
    ASSUME TypeOK, RequestsOK, Approved, CompletedByApprover, [Next]_vars
    PROVE  CompletedByApprover'
<1>1. \A b \in Browsers : forms[b] \subseteq forms'[b]
    <2>1. UNCHANGED forms \/ \E b \in Browsers, f \in Flows : Page(b, f)
        BY DEF Next, Step, vars, Authorize, ConsumeConsent, BeginApiKey, BeginOAuth, Callback, Exchanged,
               Sign, Deliver, Delegated, SpendSignature, TakeHandoff, CreateConnection, Owned, Write,
               Standing, StandingRuntime, Touch, Send, Abort, Tick, MonthsPass
    <2> QED
        BY <2>1, PageStep
<1> SUFFICES ASSUME NEW c \in DOMAIN conns', conns'[c].credential # None
             PROVE  /\ conns'[c].credential.csrf \in forms'[conns'[c].credential.browser]
                    /\ conns'[c].verifier = conns'[c].credential.flow
    BY DEF CompletedByApprover
<1>2. CASE c \in DOMAIN conns
    <2>1. conns[c].credential \in Credentials
        BY <1>2, RowType, RowsKept DEF Rows
    <2> QED
        BY <1>1, <1>2, <2>1, RowsKept DEF CompletedByApprover, Credentials
<1>3. CASE c \notin DOMAIN conns
    <2>1. PICK r \in Slots : CreateConnection(r)
        BY <1>3, RowsKept
    <2>2. conns'[c].credential = req[r].credential /\ conns'[c].verifier = req[r].args.flow
        BY <1>3, <2>1, CreateStep
    <2>3. req[r] \in Redemptions /\ SlotApproved(req[r])
        BY <2>1, SlotKinds DEF CreateConnection, Approved
    <2> QED
        BY <1>1, <2>1, <2>2, <2>3 DEF CreateConnection, SlotApproved, Redemptions, Credentials
<1> QED
    BY <1>2, <1>3

-----------------------------------------------------------------------------
(* One connection of one consent. *)

\* A consent in one place goes on, disappears, or moves to another place.
LEMMA SingleKept ==
    ASSUME NEW C, NEW D, NEW L, NEW M, Single(C, L), D \subseteq C, L \subseteq M
    PROVE  Single(D, M)
BY DEF Single

\* It moves from one place to another.
LEMMA SingleMove ==
    ASSUME NEW C, NEW D, NEW L, NEW M, Single(C, L), L \subseteq M, NEW a \in C, NEW b, b[3] = a[3],
           \A x \in D : x = b \/ (x \in C /\ x # a)
    PROVE  Single(D, M)
BY DEF Single

\* It is new in a place only when no other has it.
LEMMA SingleNew ==
    ASSUME NEW C, NEW D, NEW L, NEW M, Single(C, L), L \subseteq M, NEW b,
           \A x \in D : x = b \/ x \in C,
           \A x \in C : x[3] = b[3] => <<"consent", b[3]>> \in M
    PROVE  Single(D, M)
BY DEF Single

\* Time goes on, records are kept until they expire, what was late stays so.
LEMMA UsedKept ==
    ASSUME TypeOK, [Next]_vars
    PROVE  /\ now' \in Nat /\ now <= now'
           /\ \A u \in used : u.expires > now => u \in used'
           /\ late \subseteq late'
<1>1. now' = now \/ now' = now + 1 \/ now' = now + IdleTime
    BY DEF Next, Step, vars, Page, Authorize, ConsumeConsent, BeginApiKey, BeginOAuth, Callback, Exchanged,
           Sign, Deliver, Delegated, SpendSignature, TakeHandoff, CreateConnection, Owned, Write, Standing,
           StandingRuntime, Touch, Send, Abort, Tick, MonthsPass
<1>2. UNCHANGED <<used, late>> \/ \E r \in Slots : ConsumeConsent(r) \/ SpendSignature(r)
    <2>1. ASSUME NEW r \in Slots, Quiet(r), ~SpendSignature(r) PROVE UNCHANGED <<used, late>>
        BY <2>1 DEF Quiet, Deliver, Delegated, CreateConnection, Owned, Write, Standing,
                    StandingRuntime, Touch, Send, Abort
    <2>2. ASSUME NEW r \in Slots, NEW b \in Browsers, Authorize(r, b) \/ Callback(r, b)
          PROVE  UNCHANGED <<used, late>>
        BY <2>2 DEF Authorize, Callback
    <2>3. ASSUME NEW r \in Slots, BeginApiKey(r) \/ Exchanged(r) \/ BeginOAuth(r) \/ TakeHandoff(r)
          PROVE  UNCHANGED <<used, late>>
        BY <2>3 DEF BeginApiKey, Exchanged, BeginOAuth, TakeHandoff
    <2>4. CASE (\E b \in Browsers, f \in Flows : Page(b, f)) \/ Sign \/ Tick \/ MonthsPass \/ UNCHANGED vars
        BY <2>4 DEF Page, Sign, Tick, MonthsPass, vars
    <2> QED
        BY <2>1, <2>2, <2>3, <2>4, Steps
<1>3. ASSUME NEW r \in Slots, ConsumeConsent(r) \/ SpendSignature(r)
      PROVE  (\A u \in used : u.expires > now => u \in used') /\ late \subseteq late'
    BY <1>3 DEF ConsumeConsent, SpendSignature, Recorded, Unexpired
<1> QED
    BY <1>1, <1>2, <1>3, TimesAssumption DEF TypeOK

\* The consents requests carry, after a step of one of them.
LEMMA RequestsMove ==
    ASSUME NEW r \in Slots, \A x \in Slots : x # r => req'[x] = req[x], NEW y \in InRequests'
    PROVE  \/ y \in InRequests /\ \A k : y # <<"request", r, k>>
           \/ Carrying(r)' /\ y = <<"request", r, CarriedBy(r)'>>
<1>1. PICK x \in Slots : Carrying(x)' /\ y = <<"request", x, CarriedBy(x)'>>
    BY DEF InRequests
<1>2. CASE x = r
    BY <1>1, <1>2
<1>3. CASE x # r
    <2>1. Carrying(x) /\ CarriedBy(x)' = CarriedBy(x)
        BY <1>1, <1>3 DEF Carrying, CarriedBy
    <2> QED
        BY <1>1, <1>3, <2>1 DEF InRequests
<1> QED
    BY <1>2, <1>3

\* A step that starts no approval leaves nothing new in the requests.
LEMMA RequestsStay ==
    ASSUME \A x \in Slots : req'[x] = req[x] \/ ~Carrying(x)'
    PROVE  InRequests' \subseteq InRequests
<1> SUFFICES ASSUME NEW y \in InRequests' PROVE y \in InRequests
    OBVIOUS
<1>1. PICK x \in Slots : Carrying(x)' /\ y = <<"request", x, CarriedBy(x)'>>
    BY DEF InRequests
<1>2. Carrying(x) /\ CarriedBy(x)' = CarriedBy(x)
    BY <1>1 DEF Carrying, CarriedBy
<1> QED
    BY <1>1, <1>2 DEF InRequests

\* The connections carry theirs for good.
LEMMA ConnectionsStay ==
    ASSUME TypeOK, RequestsOK, [Next]_vars, NEW y \in InConnections'
    PROVE  \/ y \in InConnections
           \/ \E r \in Slots : CreateConnection(r) /\ y = <<"connection", Len(conns) + 1, req[r].credential.csrf>>
<1>1. PICK c \in DOMAIN conns' : conns'[c].credential # None /\ y = <<"connection", c, conns'[c].credential.csrf>>
    BY DEF InConnections
<1>2. CASE c \in DOMAIN conns
    BY <1>1, <1>2, RowsKept DEF InConnections
<1>3. CASE c \notin DOMAIN conns
    BY <1>1, <1>3, RowsKept, CreateStep
<1> QED
    BY <1>2, <1>3

\* A step moves a consent from one place to the next, and only its use, which
\* is recorded, brings one in.
LEMMA CarriedStep ==
    ASSUME TypeOK, RequestsOK, RequestsOK', OnePlace, UsesKnown, [Next]_vars
    PROVE  /\ OnePlace'
           /\ \A x \in Carried' :
                 \/ \E y \in Carried : y[3] = x[3]
                 \/ \E r \in Slots : /\ ConsumeConsent(r) /\ x[3] = req[r].consent.csrf
                                     /\ used' = Recorded(<<"consent", req[r].consent.csrf>>)
<1> DEFINE From == \A x \in Carried' : \E y \in Carried : y[3] = x[3]
<1>1. late \subseteq late'
    BY UsedKept
<1>2. ASSUME Carried' \subseteq Carried PROVE OnePlace' /\ From
    BY <1>1, <1>2, SingleKept DEF OnePlace
<1>3. ASSUME NEW a \in Carried, NEW b, b[3] = a[3], \A x \in Carried' : x = b \/ (x \in Carried /\ x # a)
      PROVE  OnePlace' /\ From
    <2>1. From
        BY <1>3
    <2> QED
        BY <1>1, <1>3, <2>1, SingleMove DEF OnePlace
<1>4. ASSUME NEW y \in InConnections', \A r \in Slots : ~CreateConnection(r) PROVE y \in InConnections
    BY <1>4, ConnectionsStay
<1>5. ASSUME UNCHANGED <<states, handoffs>>, \A x \in Slots : req'[x] = req[x] \/ ~Carrying(x)',
             \A r \in Slots : ~CreateConnection(r)
      PROVE  OnePlace' /\ From
    BY <1>2, <1>4, <1>5, RequestsStay DEF Carried, InStates, InHandoffs
<1>6. ASSUME NEW r \in Slots, Quiet(r), \A x \in Slots : ~CreateConnection(x) PROVE OnePlace' /\ From
    <2>1. \A x \in Slots : req'[x] = req[x] \/ ~Carrying(x)'
        BY <1>6, QuietStep DEF Carrying, Signed
    <2> QED
        BY <1>5, <1>6, <2>1, QuietStep
<1>7. ASSUME NEW r \in Slots, CreateConnection(r) PROVE OnePlace' /\ From
    <2> DEFINE k == req[r].credential.csrf
               a == <<"request", r, k>>
               b == <<"connection", Len(conns) + 1, k>>
    <2>1. \A x \in Slots : req'[x] = req[x] \/ ~Carrying(x)'
        BY <1>7, QuietStep DEF Quiet, Carrying, Signed
    <2>2. \A x \in Slots : x # r => req'[x] = req[x]
        BY <1>7, OtherSlots DEF Step
    <2>3. ~Carrying(r)' /\ Carrying(r) /\ CarriedBy(r) = k
        BY <1>7 DEF CreateConnection, TypeOK, Carrying, CarriedBy, NoRequest
    <2>4. a \in Carried
        BY <2>3 DEF Carried, InRequests
    <2>5. \A x \in InRequests' : x \in InRequests /\ x # a
        BY <2>2, <2>3, RequestsMove
    <2>6. \A x \in InConnections' : x \in InConnections \/ x = b
        <3>1. \A x \in Slots : CreateConnection(x) => x = r
            BY <1>7, <2>2, <2>3 DEF CreateConnection, TypeOK, Carrying, NoRequest
        <3> QED
            BY <3>1, ConnectionsStay
    <2>7. UNCHANGED <<states, handoffs>>
        BY <1>7 DEF CreateConnection
    <2>8. \A x \in Carried' : x = b \/ (x \in Carried /\ x # a)
        BY <2>5, <2>6, <2>7 DEF Carried, InStates, InHandoffs, InConnections
    <2>9. b[3] = a[3]
        OBVIOUS
    <2> HIDE DEF a, b
    <2> QED
        BY <1>3, <2>4, <2>8, <2>9
\* Only CreateConnection makes a connection.
<1>8. ASSUME \/ \E b \in Browsers, f \in Flows : Page(b, f)
             \/ \E r \in Slots, b \in Browsers : Authorize(r, b) \/ Callback(r, b)
             \/ \E r \in Slots : ConsumeConsent(r) \/ BeginApiKey(r) \/ Exchanged(r) \/ BeginOAuth(r)
             \/ \E r \in Slots : TakeHandoff(r)
             \/ Sign \/ Tick \/ MonthsPass \/ UNCHANGED vars
      PROVE  InConnections' \subseteq InConnections
    <2>1. UNCHANGED conns
        BY <1>8 DEF Page, Authorize, Callback, ConsumeConsent, BeginApiKey, Exchanged, BeginOAuth,
                    TakeHandoff, Sign, Tick, MonthsPass, vars
    <2> QED
        BY <2>1 DEF InConnections
<1>9. CASE (\E b \in Browsers, f \in Flows : Page(b, f)) \/ Sign \/ Tick \/ MonthsPass \/ UNCHANGED vars
    <2>1. UNCHANGED <<req, states, handoffs>>
        BY <1>9 DEF Page, Sign, Tick, MonthsPass, vars
    <2> QED
        BY <1>2, <1>8, <1>9, <2>1, RequestsStay DEF Carried, InStates, InHandoffs
<1>10. ASSUME NEW r \in Slots, NEW b \in Browsers, Authorize(r, b) PROVE OnePlace' /\ From
    <2>1. \A x \in Slots : req'[x] = req[x] \/ ~Carrying(x)'
        BY <1>10 DEF Authorize, TypeOK, Carrying
    <2>2. UNCHANGED <<states, handoffs>>
        BY <1>10 DEF Authorize
    <2> QED
        BY <1>2, <1>8, <1>10, <2>1, <2>2, RequestsStay DEF Carried, InStates, InHandoffs
<1>11. ASSUME NEW r \in Slots, BeginApiKey(r) \/ Exchanged(r) PROVE OnePlace' /\ From
    <2> DEFINE k == req[r].consent.csrf
               h == HandoffOf(req[r], Random)
               a == <<"request", r, k>>
               b == <<"handoff", h, k>>
    <2>1. \A x \in Slots : x # r => req'[x] = req[x]
        BY <1>11, OtherSlots DEF Step
    <2>2. ~Carrying(r)' /\ Carrying(r) /\ CarriedBy(r) = k
        BY <1>11, HandoffStep DEF BeginApiKey, Exchanged, Carrying, CarriedBy, NoRequest
    <2>3. a \in Carried
        BY <2>2 DEF Carried, InRequests
    <2>4. \A x \in InRequests' : x \in InRequests /\ x # a
        BY <2>1, <2>2, RequestsMove
    <2>5. h.credential.csrf = k /\ UNCHANGED states /\ \A x \in handoffs' : x \in handoffs \/ x = h
        BY <1>11, HandoffStep DEF Unexpired
    <2> HIDE DEF h, k
    <2>6. \A x \in InHandoffs' : x \in InHandoffs \/ x = b
        BY <2>5 DEF InHandoffs
    <2>7. \A x \in Carried' : x = b \/ (x \in Carried /\ x # a)
        BY <1>8, <1>11, <2>4, <2>5, <2>6 DEF Carried, InStates, InHandoffs, InConnections
    <2>8. b[3] = a[3]
        OBVIOUS
    <2> HIDE DEF a, b
    <2> QED
        BY <1>3, <2>3, <2>7, <2>8
<1>12. ASSUME NEW r \in Slots, BeginOAuth(r) PROVE OnePlace' /\ From
    <2> DEFINE k == req[r].consent.csrf
               a == <<"request", r, k>>
    <2>1. \A x \in Slots : x # r => req'[x] = req[x]
        BY <1>12, OtherSlots DEF Step
    <2>2. ~Carrying(r)' /\ Carrying(r) /\ CarriedBy(r) = k
        <3>1. req[r].pc = "begin"
            BY <1>12 DEF BeginOAuth
        <3> QED
            BY <1>12, <3>1, OAuthStep DEF Carrying, CarriedBy, NoRequest
    <2>3. a \in Carried
        BY <2>2 DEF Carried, InRequests
    <2>4. \A x \in InRequests' : x \in InRequests /\ x # a
        BY <2>1, <2>2, RequestsMove
    <2>5. PICK s : states' = Unexpired(states) \cup {s} /\ s.consent = req[r].consent
        BY <1>12, OAuthStep
    <2>6. UNCHANGED handoffs
        BY <1>12, OAuthStep
    <2> DEFINE b == <<"state", s, k>>
    <2>7. \A x \in InStates' : x \in InStates \/ x = b
        BY <2>5 DEF InStates, Unexpired
    <2> HIDE DEF k
    <2>8. \A x \in Carried' : x = b \/ (x \in Carried /\ x # a)
        BY <1>8, <1>12, <2>4, <2>6, <2>7 DEF Carried, InStates, InHandoffs, InConnections
    <2>9. b[3] = a[3]
        OBVIOUS
    <2> HIDE DEF a, b
    <2> QED
        BY <1>3, <2>3, <2>8, <2>9
<1>13. ASSUME NEW r \in Slots, NEW br \in Browsers, Callback(r, br) PROVE OnePlace' /\ From
    <2>1. PICK s \in states :
              /\ states' = states \ {s}
              /\ \/ req'[r] = req[r]
                 \/ req'[r] = [pc |-> "exchange", browser |-> br, consent |-> s.consent]
        BY <1>13, CallbackStep
    <2>2. req[r].pc = "idle" /\ UNCHANGED handoffs /\ \A x \in Slots : x # r => req'[x] = req[x]
        BY <1>13, CallbackStep, OtherSlots DEF Step
    <2> DEFINE k == s.consent.csrf
               a == <<"state", s, k>>
               b == <<"request", r, k>>
    <2>3. CASE req'[r] = req[r]
        <3>1. InRequests' \subseteq InRequests
            BY <2>2, <2>3, RequestsStay
        <3> QED
            BY <1>2, <1>8, <1>13, <2>1, <2>2, <3>1 DEF Carried, InStates, InHandoffs
    <2>4. CASE req'[r] = [pc |-> "exchange", browser |-> br, consent |-> s.consent]
        <3>1. CarriedBy(r)' = k
            BY <2>4 DEF CarriedBy
        <3>2. \A x \in InRequests' : x \in InRequests \/ x = b
            BY <2>2, <3>1, RequestsMove
        <3>3. a \in Carried
            BY DEF Carried, InStates
        <3>4. \A x \in InStates' : x \in InStates /\ x # a
            BY <2>1 DEF InStates
        <3> HIDE DEF k
        <3>5. \A x \in Carried' : x = b \/ (x \in Carried /\ x # a)
            BY <1>8, <1>13, <2>2, <3>2, <3>4 DEF Carried, InRequests, InHandoffs, InConnections
        <3>6. b[3] = a[3]
            OBVIOUS
        <3> HIDE DEF a, b
        <3> QED
            BY <1>3, <3>3, <3>5, <3>6
    <2> QED
        BY <2>1, <2>3, <2>4
<1>14. ASSUME NEW r \in Slots, TakeHandoff(r) PROVE OnePlace' /\ From
    <2>1. UNCHANGED states /\ handoffs' \subseteq handoffs /\ \A x \in Slots : x # r => req'[x] = req[x]
        BY <1>14, OtherSlots DEF Step, TakeHandoff
    <2>2. CASE req'[r] = NoRequest
        <3>1. InRequests' \subseteq InRequests
            BY <2>1, <2>2, RequestsStay DEF Carrying, NoRequest
        <3> QED
            BY <1>2, <1>8, <1>14, <2>1, <3>1 DEF Carried, InStates, InHandoffs
    <2>3. ASSUME NEW h \in handoffs, h \notin handoffs',
                 req'[r] = [pc |-> "create", args |-> req[r].args, credential |-> h.credential]
          PROVE  OnePlace' /\ From
        <3> DEFINE k == h.credential.csrf
                   a == <<"handoff", h, k>>
                   b == <<"request", r, k>>
        <3>1. CarriedBy(r)' = k
            BY <2>3 DEF CarriedBy
        <3>2. \A x \in InRequests' : x \in InRequests \/ x = b
            BY <2>1, <3>1, RequestsMove
        <3>3. a \in Carried
            BY <2>3 DEF Carried, InHandoffs
        <3>4. \A x \in InHandoffs' : x \in InHandoffs /\ x # a
            BY <2>1, <2>3 DEF InHandoffs
        <3> HIDE DEF k
        <3>5. \A x \in Carried' : x = b \/ (x \in Carried /\ x # a)
            BY <1>8, <1>14, <2>1, <3>2, <3>4 DEF Carried, InRequests, InStates, InConnections
        <3>6. b[3] = a[3]
            OBVIOUS
        <3> HIDE DEF a, b
        <3> QED
            BY <1>3, <3>3, <3>5, <3>6
    <2> QED
        BY <1>14, <2>2, <2>3, TakeStep
\* The use of a consent is recorded: a second one is refused as long as the
\* consent lasts.
<1>15. ASSUME NEW r \in Slots, ConsumeConsent(r)
       PROVE  /\ OnePlace'
              /\ From \/ /\ used' = Recorded(<<"consent", req[r].consent.csrf>>)
                         /\ \A x \in Carried' : (\E y \in Carried : y[3] = x[3]) \/ x[3] = req[r].consent.csrf
    <2> DEFINE k == req[r].consent.csrf
               b == <<"request", r, k>>
    <2>1. UNCHANGED <<states, handoffs>> /\ \A x \in Slots : x # r => req'[x] = req[x]
        BY <1>15, OtherSlots DEF Step, ConsumeConsent
    <2>2. CASE Done(r)
        <3>1. InRequests' \subseteq InRequests
            BY <2>1, <2>2, RequestsStay DEF Carrying, NoRequest, TypeOK
        <3> QED
            BY <1>2, <1>8, <1>15, <2>1, <3>1 DEF Carried, InStates, InHandoffs
    <2>3. CASE /\ ~Known(<<"consent", k>>) /\ Put(r, [req[r] EXCEPT !.pc = "begin"])
               /\ used' = Recorded(<<"consent", k>>)
               /\ late' = IF req[r].consent.expires > now THEN late ELSE late \cup {<<"consent", k>>}
        <3>1. req[r] \in Approvals /\ req[r].consent.expires \in Nat /\ now \in Nat
            BY <1>15, SlotKinds DEF ConsumeConsent, Approving, Approvals, Consents, TypeOK
        <3>2. CarriedBy(r)' = k
            BY <2>3, <3>1 DEF CarriedBy, Approvals, TypeOK
        <3>3. \A x \in InRequests' : x \in InRequests \/ x = b
            BY <2>1, <3>2, RequestsMove
        <3>4. \A x \in Carried' : x = b \/ x \in Carried
            BY <1>8, <1>15, <2>1, <3>3 DEF Carried, InStates, InHandoffs
        <3>5. ASSUME NEW x \in Carried, x[3] = k PROVE <<"consent", k>> \in late'
            <4>1. req[r].consent \in Held
                BY <1>15 DEF Held, ConsumeConsent
            <4>2. UseKnown(req[r].consent)
                BY <3>5, <4>1 DEF UsesKnown
            <4>3. \A u \in used : u.nonce = <<"consent", k>> => ~(u.expires > now)
                BY <2>3 DEF Known, Unexpired
            <4>4. \A u \in used : u.expires \in Nat
                BY DEF TypeOK, Records
            <4>5. ~(req[r].consent.expires > now)
                BY <3>1, <4>2, <4>3, <4>4 DEF UseKnown
            <4> QED
                BY <2>3, <4>5
        <3>6. b[3] = k
            OBVIOUS
        <3>7. \A x \in Carried' : (\E y \in Carried : y[3] = x[3]) \/ x[3] = k
            BY <3>4, <3>6
        <3> HIDE DEF b, k
        <3>8. OnePlace'
            BY <1>1, <3>4, <3>5, <3>6, SingleNew DEF OnePlace
        <3> QED
            BY <2>3, <3>7, <3>8 DEF k
    <2> QED
        BY <1>15, <2>2, <2>3 DEF ConsumeConsent
<1> HIDE DEF From
<1>16. From => \A x \in Carried' : \E y \in Carried : y[3] = x[3]
    BY DEF From
<1> QED
    BY <1>6, <1>7, <1>9, <1>10, <1>11, <1>12, <1>13, <1>14, <1>15, <1>16, Steps

\* A request comes to use a consent by a submission of its form.
LEMMA ConsumeFrom ==
    ASSUME TypeOK, RequestsOK, RequestsOK', [Next]_vars, NEW r \in Slots, req'[r].pc = "consume", req'[r] # req[r]
    PROVE  \E b \in Browsers : Authorize(r, b)
<1>1. CASE (\E b \in Browsers, f \in Flows : Page(b, f)) \/ Sign \/ Tick \/ MonthsPass \/ UNCHANGED vars
    BY <1>1 DEF Page, Sign, Tick, MonthsPass, vars
<1>2. ASSUME NEW x \in Slots, x # r PROVE ~Step(x)
    BY <1>2, OtherSlots
<1>3. ~Quiet(r)
    BY QuietStep DEF Signed
<1>4. ASSUME NEW b \in Browsers PROVE ~Callback(r, b)
    <2>1. \A c : [pc |-> "exchange", browser |-> b, consent |-> c].pc = "exchange"
        OBVIOUS
    <2> QED
        BY <2>1, CallbackStep
<1>5. ~BeginApiKey(r) /\ ~Exchanged(r) /\ ~BeginOAuth(r)
    BY HandoffStep, OAuthStep DEF NoRequest
<1>6. ~TakeHandoff(r)
    <2>1. NoRequest.pc = "idle" /\ \A a, c : [pc |-> "create", args |-> a, credential |-> c].pc = "create"
        BY DEF NoRequest
    <2> QED
        BY <2>1, TakeStep
<1>7. ~ConsumeConsent(r)
    <2>1. ASSUME ConsumeConsent(r) PROVE FALSE
        <3>1. req[r] \in Approvals
            BY <2>1, SlotKinds DEF ConsumeConsent, Approving
        <3>2. req'[r] = NoRequest \/ req'[r] = [req[r] EXCEPT !.pc = "begin"]
            BY <2>1 DEF ConsumeConsent, TypeOK
        <3> QED
            BY <3>1, <3>2 DEF NoRequest, Approvals
    <2> QED
        BY <2>1
<1> QED
    BY <1>1, <1>2, <1>3, <1>4, <1>5, <1>6, <1>7, Steps DEF Step, Quiet

\* The cookie of a consent is set by its page, and goes.
LEMMA JarFades ==
    ASSUME TypeOK, RequestsOK, RequestsOK', [Next]_vars, ~\E b \in Browsers, f \in Flows : Page(b, f),
           NEW b \in Browsers
    PROVE  jar'[b].consent \in {jar[b].consent, None}
BY Steps, BrowsersKept, HandoffStep, OAuthStep, CallbackStep

\* A consent's use stays known while the consent can be submitted.
LEMMA UseKnownKept ==
    ASSUME TypeOK, [Next]_vars, NEW consent \in Consents, UseKnown(consent)
    PROVE  consent.expires <= now' \/ \E u \in used' : u.nonce = <<"consent", consent.csrf>> /\ u.expires >= consent.expires
<1>1. consent.expires \in Nat /\ now \in Nat /\ now' \in Nat /\ now <= now' /\ \A u \in used : u.expires \in Nat
    <2>1. now \in Nat /\ consent.expires \in Nat /\ \A u \in used : u.expires \in Nat
        BY DEF TypeOK, Records, Consents
    <2>2. now' \in Nat
        BY UsedKept
    <2> QED
        BY <2>1, <2>2, UsedKept
<1>2. CASE consent.expires <= now
    BY <1>1, <1>2
<1>3. ASSUME NEW u \in used, u.nonce = <<"consent", consent.csrf>>, u.expires >= consent.expires
      PROVE  consent.expires <= now' \/ u \in used'
    <2>1. CASE u.expires > now
        BY <2>1, UsedKept
    <2>2. CASE ~(u.expires > now)
        BY <1>1, <1>3, <2>2
    <2> QED
        BY <2>1, <2>2
<1> QED
    BY <1>2, <1>3 DEF UseKnown

\* A submission of a used consent meets the record, or comes after its end.
LEMMA UsesKnownStep ==
    ASSUME TypeOK, TypeOK', RequestsOK, RequestsOK', Drawn, Approved, CompletedByApprover, OnePlace, UsesKnown,
           [Next]_vars
    PROVE  UsesKnown'
<1>1. now \in Nat /\ now' \in Nat /\ fresh \in Nat /\ now <= now'
    BY UsedKept DEF TypeOK
<1>2. Held \subseteq Consents
    <2>1. \A b \in Browsers : jar[b].consent # None => jar[b].consent \in Consents
        BY DEF TypeOK, Cookies
    <2>2. \A r \in Slots : req[r].pc = "consume" => req[r].consent \in Consents
        BY SlotKinds DEF Approving, Approvals
    <2> QED
        BY <2>1, <2>2 DEF Held
<1>3. \A x \in Carried : x[3] \in Nat /\ x[3] <= fresh
    <2>1. \A b \in Browsers : \A n \in forms[b] : n \in Nat /\ n <= fresh
        BY DEF TypeOK, Drawn
    <2>2. \A s \in states : s.consent.csrf \in Nat /\ s.consent.csrf <= fresh
        BY DEF TypeOK, States, Consents, Drawn
    <2>3. \A h \in handoffs : h.credential.csrf \in Nat /\ h.credential.csrf <= fresh
        BY <2>1 DEF Approved, TypeOK, Handoffs, Credentials
    <2>4. ASSUME NEW c \in DOMAIN conns, conns[c].credential # None
          PROVE  conns[c].credential.csrf \in Nat /\ conns[c].credential.csrf <= fresh
        <3>1. conns[c].credential.browser \in Browsers
            BY <2>4, RowType DEF Rows, Credentials
        <3> QED
            BY <2>1, <2>4, <3>1 DEF CompletedByApprover
    <2>5. ASSUME NEW r \in Slots, Carrying(r) PROVE CarriedBy(r) \in Nat /\ CarriedBy(r) <= fresh
        <3>1. SlotApproved(req[r])
            BY DEF Approved
        <3>2. CASE req[r].pc = "create"
            BY <2>1, <3>1, <3>2, SlotKinds DEF SlotApproved, CarriedBy, Redemptions, Credentials
        <3>3. CASE req[r].pc \in {"begin", "exchange"}
            BY <2>1, <3>1, <3>3, SlotKinds DEF SlotApproved, CarriedBy, Approvals, Approving
        <3> QED
            BY <2>5, <3>2, <3>3 DEF Carrying
    <2> QED
        BY <2>2, <2>3, <2>4, <2>5 DEF Carried, InRequests, InStates, InHandoffs, InConnections
<1>4. ASSUME NEW consent \in Held PROVE consent.expires <= now + ConsentTime /\ consent.expires <= now' + ConsentTime
    BY <1>1, <1>2, TimesAssumption DEF UsesKnown, Consents
\* A consent held before the step.
<1>5. ASSUME NEW consent \in Held, NEW x \in Carried', x[3] = consent.csrf PROVE UseKnown(consent)'
    <2>1. CASE \E y \in Carried : y[3] = x[3]
        <3>1. UseKnown(consent)
            BY <1>5, <2>1 DEF UsesKnown
        <3> QED
            BY <1>2, <3>1, UseKnownKept DEF UseKnown
    <2>2. ASSUME NEW r \in Slots, used' = Recorded(<<"consent", consent.csrf>>) PROVE UseKnown(consent)'
        <3>1. consent.expires \in Nat /\ now + ConsentTime <= now + Retention
            BY <1>1, <1>2, TimesAssumption DEF Consents
        <3>2. consent.expires <= now + Retention
            BY <1>1, <1>4, <3>1, TimesAssumption
        <3> DEFINE u == [nonce |-> <<"consent", consent.csrf>>, expires |-> now + Retention]
        <3>3. u \in used' /\ u.nonce = <<"consent", consent.csrf>> /\ u.expires >= consent.expires
            BY <1>1, <2>2, <3>1, <3>2, TimesAssumption DEF Recorded
        <3> HIDE DEF u
        <3> QED
            BY <3>3 DEF UseKnown
    <2> QED
        BY <1>5, <2>1, <2>2, CarriedStep
\* What is held after the step was held before, or is a page's.
<1>6. ASSUME NEW consent \in Held'
      PROVE  \/ consent \in Held
             \/ /\ consent.csrf = fresh + 1 /\ consent.expires = now + ConsentTime
                /\ now' = now /\ UNCHANGED <<req, states, handoffs, conns>>
    <2>1. ASSUME NEW b \in Browsers, jar'[b].consent # None, consent = jar'[b].consent, jar'[b].consent = jar[b].consent
          PROVE  consent \in Held
        BY <2>1 DEF Held
    <2>2. ASSUME NEW r \in Slots, req'[r].pc = "consume", consent = req'[r].consent, req'[r] = req[r]
          PROVE  consent \in Held
        BY <2>2 DEF Held
    <2>3. ASSUME NEW b \in Browsers, NEW f \in Flows, Page(b, f)
          PROVE  \/ consent \in Held
                 \/ /\ consent.csrf = fresh + 1 /\ consent.expires = now + ConsentTime
                    /\ now' = now /\ UNCHANGED <<req, states, handoffs, conns>>
        BY <2>1, <2>2, <2>3, PageStep DEF Held
    <2>4. ASSUME NEW r \in Slots, req'[r].pc = "consume", consent = req'[r].consent, [Next]_vars PROVE consent \in Held
        <3>1. CASE req'[r] = req[r]
            BY <2>2, <2>4, <3>1
        <3>2. CASE req'[r] # req[r]
            <4>1. \E b \in Browsers : Authorize(r, b)
                BY <2>4, <3>2, ConsumeFrom
            <4> QED
                BY <2>4, <4>1 DEF Authorize, TypeOK, Held
        <3> QED
            BY <3>1, <3>2
    <2>5. ASSUME NEW b \in Browsers, jar'[b].consent # None, ~\E p \in Browsers, f \in Flows : Page(p, f)
          PROVE  jar'[b].consent = jar[b].consent
        BY <2>5, JarFades
    <2> QED
        BY <2>1, <2>3, <2>4, <2>5 DEF Held
<1> SUFFICES ASSUME NEW consent \in Held'
             PROVE  /\ consent.expires <= now' + ConsentTime
                    /\ \A x \in Carried' : x[3] = consent.csrf => UseKnown(consent)'
    BY DEF UsesKnown
<1>7. CASE consent \in Held
    BY <1>4, <1>5, <1>7
<1>8. CASE /\ consent.csrf = fresh + 1 /\ consent.expires = now + ConsentTime
           /\ now' = now /\ UNCHANGED <<req, states, handoffs, conns>>
    <2>1. Carried' = Carried
        BY <1>8 DEF Carried, InRequests, InStates, InHandoffs, InConnections, Carrying, CarriedBy
    <2>2. \A x \in Carried' : x[3] # consent.csrf
        BY <1>1, <1>3, <1>8, <2>1
    <2>3. consent.expires <= now' + ConsentTime
        BY <1>1, <1>8, TimesAssumption
    <2> QED
        BY <2>2, <2>3
<1> QED
    BY <1>6, <1>7, <1>8

-----------------------------------------------------------------------------
(* Replays. *)

\* A message is accepted only by SpendSignature.
LEMMA AcceptedKept ==
    ASSUME TypeOK, RequestsOK, [Next]_vars
    PROVE  \/ \E r \in Slots : SpendSignature(r)
           \/ /\ \A m \in DOMAIN msgs : accepted'[m] = accepted[m]
              /\ \A m \in (DOMAIN msgs') \ DOMAIN msgs : accepted'[m] = <<>>
<1>1. ASSUME NEW r \in Slots, Quiet(r), ~SpendSignature(r) PROVE UNCHANGED <<accepted, msgs>>
    BY <1>1 DEF Quiet, Deliver, Delegated, CreateConnection, Owned, Write, Standing,
                StandingRuntime, Touch, Send, Abort
<1>2. ASSUME NEW r \in Slots, NEW b \in Browsers, Authorize(r, b) \/ Callback(r, b)
      PROVE  UNCHANGED <<accepted, msgs>>
    BY <1>2 DEF Authorize, Callback
<1>3. ASSUME NEW r \in Slots,
             ConsumeConsent(r) \/ BeginApiKey(r) \/ Exchanged(r) \/ BeginOAuth(r) \/ TakeHandoff(r)
      PROVE  UNCHANGED <<accepted, msgs>>
    BY <1>3 DEF ConsumeConsent, BeginApiKey, Exchanged, BeginOAuth, TakeHandoff
<1>4. CASE (\E b \in Browsers, f \in Flows : Page(b, f)) \/ Tick \/ MonthsPass \/ UNCHANGED vars
    BY <1>4 DEF Page, Tick, MonthsPass, vars
<1>5. CASE Sign
    <2>1. (\E e : msgs' = Append(msgs, e)) /\ accepted' = Append(accepted, <<>>)
        BY <1>5 DEF Sign
    <2>2. msgs \in Seq(Messages) /\ accepted \in Seq(Seq(Nat)) /\ Len(accepted) = Len(msgs)
        BY DEF TypeOK
    <2> QED
        BY <2>1, <2>2
<1> QED
    BY <1>1, <1>2, <1>3, <1>4, <1>5, Steps

\* A message that is accepted again has outlived the record of its first use,
\* which is twice the skew: its stamp was the whole skew ahead.
LEMMA ReplaysStep ==
    ASSUME TypeOK, TypeOK', RequestsOK, Replays, [Next]_vars
    PROVE  Replays'
<1>0. Retention \in Nat /\ MaxSkew \in Nat /\ Retention >= 2 * MaxSkew
    BY TimesAssumption
<1>1. /\ now \in Nat /\ now' \in Nat /\ now <= now' /\ late \subseteq late'
      /\ \A u \in used : u.expires \in Nat /\ (u.expires > now => u \in used')
    <2>1. now \in Nat /\ \A u \in used : u.expires \in Nat
        BY DEF TypeOK, Records
    <2> QED
        BY <2>1, UsedKept
<1>2. \A m \in DOMAIN msgs : m \in DOMAIN accepted /\ accepted[m] \in Seq(Nat) /\ msgs[m].timestamp \in Nat
    <2>1. \A m \in DOMAIN msgs : msgs[m] \in Messages
        BY DEF TypeOK
    <2> QED
        BY <2>1 DEF TypeOK, Messages
<1>3. ASSUME NEW m \in DOMAIN msgs, Len(accepted[m]) > 0, <<"message", m>> \notin late
      PROVE  /\ accepted[m][1] \in Nat /\ accepted[m][1] <= now'
             /\ \/ accepted[m][1] + Retention <= now'
                \/ \E u \in used' : u.nonce = <<"message", m>> /\ u.expires >= accepted[m][1] + Retention
    <2>1. accepted[m][1] \in Nat /\ accepted[m][1] + Retention \in Nat
        BY <1>2, <1>3, TimesAssumption
    <2>2. CASE accepted[m][1] + Retention <= now
        BY <1>1, <1>3, <2>1, <2>2 DEF Replays
    <2>3. ASSUME NEW u \in used, u.nonce = <<"message", m>>, u.expires >= accepted[m][1] + Retention
          PROVE  accepted[m][1] + Retention <= now' \/ u \in used'
        BY <1>1, <2>1, <2>3
    <2>4. accepted[m][1] <= now'
        BY <1>1, <1>3, <2>1 DEF Replays
    <2> QED
        BY <1>3, <2>1, <2>2, <2>3, <2>4 DEF Replays
<1> SUFFICES ASSUME NEW m \in DOMAIN msgs', Len(accepted'[m]) > 0, <<"message", m>> \notin late'
             PROVE  /\ accepted'[m][1] <= now'
                    /\ \/ accepted'[m][1] + Retention <= now'
                       \/ \E u \in used' : u.nonce = <<"message", m>> /\ u.expires >= accepted'[m][1] + Retention
                    /\ Len(accepted'[m]) > 1 => msgs'[m].timestamp >= accepted'[m][1] + MaxSkew
    BY DEF Replays
<1>4. <<"message", m>> \notin late
    BY <1>1
<1>5. CASE m \in DOMAIN msgs /\ accepted'[m] = accepted[m]
    <2>1. msgs'[m] = msgs[m]
        BY <1>5, MessagesKept
    <2> QED
        BY <1>3, <1>4, <1>5, <2>1 DEF Replays
<1>6. ASSUME NEW r \in Slots, SpendSignature(r), accepted'[m] # accepted[m]
      PROVE  /\ m \in DOMAIN msgs /\ UNCHANGED <<msgs, now>>
             /\ accepted'[m] = Append(accepted[m], now)
             /\ InTime(m) /\ ~Known(<<"message", m>>)
             /\ used' = Recorded(<<"message", m>>)
    <2>1. req[r].msg \in DOMAIN msgs
        BY <1>6 DEF SpendSignature, RequestsOK, CallOK, Signed
    <2>2. /\ accepted' = [accepted EXCEPT ![req[r].msg] = Append(@, now)]
          /\ ~Known(<<"message", req[r].msg>>)
          /\ used' = Recorded(<<"message", req[r].msg>>)
          /\ late' = IF InTime(req[r].msg) THEN late ELSE late \cup {<<"message", req[r].msg>>}
        BY <1>6 DEF SpendSignature
    <2>3. m = req[r].msg
        BY <1>6, <2>2 DEF TypeOK
    <2> QED
        BY <1>2, <1>6, <2>1, <2>2, <2>3 DEF SpendSignature, TypeOK
<1>7. ASSUME NEW r \in Slots, SpendSignature(r), accepted'[m] # accepted[m]
      PROVE  /\ accepted'[m][1] <= now'
             /\ \/ accepted'[m][1] + Retention <= now'
                \/ \E u \in used' : u.nonce = <<"message", m>> /\ u.expires >= accepted'[m][1] + Retention
             /\ Len(accepted'[m]) > 1 => msgs'[m].timestamp >= accepted'[m][1] + MaxSkew
    <2>1. /\ m \in DOMAIN msgs /\ UNCHANGED <<msgs, now>>
          /\ accepted'[m] = Append(accepted[m], now)
          /\ InTime(m) /\ ~Known(<<"message", m>>)
          /\ used' = Recorded(<<"message", m>>)
        BY <1>6, <1>7
    <2>2. accepted[m] \in Seq(Nat) /\ msgs[m].timestamp \in Nat /\ now + Retention \in Nat
        BY <1>1, <1>2, <2>1, TimesAssumption
    <2>3. CASE Len(accepted[m]) = 0
        <3>1. accepted'[m][1] = now /\ Len(accepted'[m]) = 1
            BY <1>1, <2>1, <2>2, <2>3
        <3> DEFINE u == [nonce |-> <<"message", m>>, expires |-> now + Retention]
        <3>2. u \in used' /\ u.nonce = <<"message", m>> /\ u.expires >= now + Retention
            BY <2>1, <2>2 DEF Recorded
        <3> HIDE DEF u
        <3> QED
            BY <1>1, <2>1, <3>1, <3>2
    <2>4. CASE Len(accepted[m]) > 0
        <3>1. accepted'[m][1] = accepted[m][1]
            BY <1>1, <2>1, <2>2, <2>4
        <3>2. accepted[m][1] \in Nat /\ accepted[m][1] + Retention \in Nat
            <4>1. accepted[m][1] \in Nat
                BY <2>2, <2>4
            <4> QED
                BY <1>0, <4>1
        <3>3. accepted[m][1] + Retention <= now
            <4>1. \A u \in used : u.nonce = <<"message", m>> => u.expires <= now
                BY <1>1, <2>1 DEF Known, Unexpired
            <4>2. CASE accepted[m][1] + Retention <= now
                BY <4>2
            <4>3. ASSUME NEW u \in used, u.nonce = <<"message", m>>, u.expires >= accepted[m][1] + Retention
                  PROVE  accepted[m][1] + Retention <= now
                BY <1>1, <3>2, <4>1, <4>3
            <4> QED
                BY <1>4, <2>1, <2>4, <4>2, <4>3 DEF Replays
        <3>4. now <= msgs[m].timestamp + MaxSkew
            BY <2>1 DEF InTime
        <3>5. msgs[m].timestamp >= accepted[m][1] + MaxSkew
            <4>1. \A t, n, stamp, k, keep \in Nat :
                      t + keep <= n /\ n <= stamp + k /\ keep >= 2 * k => stamp >= t + k
                OBVIOUS
            <4> QED
                BY <1>0, <1>1, <2>2, <3>2, <3>3, <3>4, <4>1
        <3> QED
            BY <1>3, <1>4, <2>1, <2>4, <3>1, <3>5
    <2> QED
        BY <2>2, <2>3, <2>4
<1>8. \A r \in Slots : SpendSignature(r) => UNCHANGED msgs
    BY DEF SpendSignature
<1> QED
    BY <1>5, <1>7, <1>8, AcceptedKept

-----------------------------------------------------------------------------
(* Who uses a connection. *)

\* A delegation goes with its connection, and is put only to one that lives.
LEMMA DelegationsStep ==
    ASSUME TypeOK, RequestsOK, DelegationsLive, [Next]_vars
    PROVE  DelegationsLive'
<1>1. \A c \in DOMAIN conns : c \in DOMAIN conns'
    BY RowsKept
<1>2. CASE UNCHANGED <<conns, delegations>>
    BY <1>2 DEF DelegationsLive
<1>3. ASSUME NEW r \in Slots, CreateConnection(r) PROVE DelegationsLive'
    <2> DEFINE kept == [c \in DOMAIN conns |-> [conns[c] EXCEPT !.live = @ /\ c \notin {x \in DOMAIN conns : ~live(x)}]]
               new == [live |-> TRUE, owner |-> req[r].args.signer, lastUsed |-> now,
                       verifier |-> req[r].args.flow, credential |-> req[r].credential]
    <2>1. conns' = Append(kept, new)
        BY <1>3 DEF CreateConnection
    <2>2. \A c \in DOMAIN conns : kept[c] \in Rows
        BY RowType
    <2>3. DOMAIN kept = DOMAIN conns
        OBVIOUS
    <2>4. \A c \in DOMAIN conns : kept[c].live = (conns[c].live /\ live(c))
        BY RowType DEF Rows
    <2> HIDE DEF kept, new
    <2>5. kept \in Seq(Rows)
        <3>1. kept = [c \in DOMAIN conns |-> kept[c]]
            BY DEF kept
        <3> QED
            BY <2>2, <3>1 DEF TypeOK
    <2>6. \A c \in DOMAIN conns : conns'[c] = kept[c]
        BY <2>1, <2>3, <2>5
    <2>7. delegations' = {d \in delegations : d[1] \notin {c \in DOMAIN conns : ~live(c)}}
        BY <1>3 DEF CreateConnection
    <2> QED
        BY <1>1, <2>4, <2>6, <2>7 DEF DelegationsLive
<1>4. ASSUME NEW r \in Slots, Touch(r) PROVE DelegationsLive'
    <2>1. UNCHANGED delegations /\ (UNCHANGED conns \/ conns' = [conns EXCEPT ![req[r].args.conn].lastUsed = now])
        BY <1>4 DEF Touch
    <2>2. \A c \in DOMAIN conns : conns'[c].live = conns[c].live
        <3> SUFFICES ASSUME NEW c \in DOMAIN conns PROVE conns'[c].live = conns[c].live
            OBVIOUS
        <3>1. conns'[c] = conns[c] \/ conns'[c] = [conns[c] EXCEPT !.lastUsed = now]
            BY <2>1 DEF TypeOK
        <3>2. conns[c] \in Rows
            BY RowType
        <3> QED
            BY <3>1, <3>2 DEF Rows
    <2> QED
        BY <1>1, <2>1, <2>2 DEF DelegationsLive
<1>5. ASSUME NEW r \in Slots, Write(r) PROVE DelegationsLive'
    <2> DEFINE a == req[r].args
    <2>1. CASE a.kind = "delete" /\ conns' = [conns EXCEPT ![a.conn].live = FALSE]
               /\ delegations' = {d \in delegations : d[1] # a.conn}
        <3>1. \A c \in DOMAIN conns : c # a.conn => conns'[c] = conns[c]
            BY <2>1 DEF TypeOK
        <3> QED
            BY <1>1, <2>1, <3>1 DEF DelegationsLive
    <2>2. CASE a.kind = "add_agent" /\ UNCHANGED conns
               /\ delegations' = IF conns[a.conn].live THEN delegations \cup {<<a.conn, a.agent>>} ELSE delegations
        <3>1. req[r] \in Calls /\ CallOK(req[r])
            BY <1>5, SlotKinds DEF Write, Signed, RequestsOK
        <3>2. a.conn \in DOMAIN conns
            BY <2>2, <3>1, <1>5 DEF Write, CallOK, RequestsOK, Signed, OfConnection
        <3>3. a.agent \in Agents
            BY <2>2, <3>1 DEF Calls, Args
        <3>4. <<a.conn, a.agent>> \in (DOMAIN conns) \X Agents /\ <<a.conn, a.agent>>[1] = a.conn
            BY <3>2, <3>3
        <3> QED
            BY <2>2, <3>4 DEF DelegationsLive
    <2>3. CASE UNCHANGED conns /\ delegations' \subseteq delegations
        BY <2>3 DEF DelegationsLive
    <2> QED
        BY <1>5, <2>1, <2>2, <2>3 DEF Write
<1>6. UNCHANGED <<conns, delegations>> \/ \E r \in Slots : Write(r) \/ Touch(r) \/ CreateConnection(r)
    <2>1. ASSUME NEW r \in Slots, Quiet(r), ~Write(r), ~Touch(r), ~CreateConnection(r) PROVE UNCHANGED <<conns, delegations>>
        BY <2>1 DEF Quiet, Deliver, Delegated, SpendSignature, Owned, Standing, StandingRuntime, Send, Abort
    <2>2. ASSUME NEW r \in Slots, NEW b \in Browsers, Authorize(r, b) \/ Callback(r, b)
          PROVE  UNCHANGED <<conns, delegations>>
        BY <2>2 DEF Authorize, Callback
    <2>3. ASSUME NEW r \in Slots,
                 ConsumeConsent(r) \/ BeginApiKey(r) \/ Exchanged(r) \/ BeginOAuth(r) \/ TakeHandoff(r)
          PROVE  UNCHANGED <<conns, delegations>>
        BY <2>3 DEF ConsumeConsent, BeginApiKey, Exchanged, BeginOAuth, TakeHandoff
    <2>4. CASE (\E b \in Browsers, f \in Flows : Page(b, f)) \/ Sign \/ Tick \/ MonthsPass \/ UNCHANGED vars
        BY <2>4 DEF Page, Sign, Tick, MonthsPass, vars
    <2> QED
        BY <2>1, <2>2, <2>3, <2>4, Steps
<1> QED
    BY <1>2, <1>3, <1>4, <1>5, <1>6

\* A request whose standing was checked was allowed when it was checked.
LEMMA StandsStep ==
    ASSUME TypeOK, TypeOK', RequestsOK, RequestsOK', DelegationsLive, Stands, [Next]_vars
    PROVE  Stands'
<1>1. CASE UNCHANGED vars
    BY <1>1 DEF Stands, vars, Checked
<1>2. CASE Next
    <2> SUFFICES ASSUME NEW x \in Slots, Checked(req'[x])
                 PROVE  seen'[x]
        BY DEF Stands
    <2>1. req'[x].pc \in Signed /\ req'[x].args.kind \in Uses
        BY DEF Checked, RequestsOK, CallOK, Signed, Uses
    <2>2. Watched(req'[x])
        <3>1. req'[x] \in Calls
            <4>1. req'[x] \in Slot
                BY DEF TypeOK
            <4> QED
                BY <2>1, <4>1 DEF Slot, NoRequest, Approvals, Redemptions, Approving, Signed
        <3> QED
            BY <2>1, <3>1 DEF Watched, Calls, Signed, Uses
    <2>3. seen'[x] = (Watched(req'[x]) /\ (seen[x] \/ AllowedNow(req[x])'))
        BY <1>2 DEF Next
    <2> SUFFICES ASSUME ~seen[x] PROVE AllowedNow(req[x])'
        BY <2>2, <2>3
    <2>4. ~Checked(req[x])
        BY DEF Stands
    <2>5. req'[x] # req[x]
        BY <2>4
    <2>6. Step(x)
        BY <1>2, <2>5, OtherSlots DEF Next, Page, Sign, Tick, MonthsPass
    <2> DEFINE q == req[x]
    <2>7. CASE Deliver(x)
        <3>0. PICK m \in DOMAIN msgs : \E pc \in {"spend", "delegated"}, o \in {None, Owner(msgs[m].args.conn)} :
                  /\ req'[x] = [pc |-> pc, msg |-> m, args |-> msgs[m].args, owner |-> o]
                  /\ msgs[m].args.kind \in Uses => live(msgs[m].args.conn)
                  /\ msgs[m].args.kind = "frame" => pc = "delegated"
            BY <2>7 DEF Deliver, TypeOK, Uses
        <3>1. PICK pc \in {"spend", "delegated"}, o \in {None, Owner(msgs[m].args.conn)} :
                  /\ req'[x] = [pc |-> pc, msg |-> m, args |-> msgs[m].args, owner |-> o]
                  /\ msgs[m].args.kind \in Uses => live(msgs[m].args.conn)
                  /\ msgs[m].args.kind = "frame" => pc = "delegated"
            BY <3>0
        <3>2. UNCHANGED <<conns, msgs>>
            BY <2>7 DEF Deliver
        <3>3. req'[x].args.kind = "forward" /\ req'[x].args.signer = req'[x].owner
            BY <3>1 DEF Checked
        <3>4. req'[x].owner = conns'[req'[x].args.conn].owner /\ conns'[req'[x].args.conn].live
            BY <2>1, <3>1, <3>2 DEF RequestsOK, CallOK, live
        <3> QED
            BY <3>3, <3>4 DEF AllowedNow, Owner
    <2>8. CASE Delegated(x)
        <3>1. q \in Calls /\ q.args.kind = "frame"
            BY <2>8, SlotKinds DEF Delegated, Signed, RequestsOK, CallOK
        <3>2. req'[x] = [q EXCEPT !.pc = "spend"] /\ <<q.args.conn, q.args.app>> \in delegations
            BY <2>1, <2>8 DEF Delegated, TypeOK, NoRequest, Signed
        <3>3. req'[x].args = q.args /\ UNCHANGED <<conns, delegations, runtimes>>
            BY <2>8, <3>1, <3>2 DEF Delegated, Calls
        <3>4. conns[q.args.conn].live
            BY <3>2 DEF DelegationsLive
        <3> QED
            BY <3>1, <3>2, <3>3, <3>4 DEF AllowedNow
    <2>9. CASE SpendSignature(x)
        <3>1. q \in Calls
            BY <2>9, SlotKinds DEF SpendSignature, Signed
        <3>2. req'[x] = [q EXCEPT !.pc = AfterSpend(q)]
            BY <2>1, <2>9 DEF SpendSignature, TypeOK, NoRequest, Signed
        <3>3. req'[x].args = q.args /\ req'[x].owner = q.owner /\ q.pc = "spend" /\ q.pc \in Signed
            BY <2>9, <3>1, <3>2 DEF Calls, SpendSignature, Signed
        <3>4. q.args.kind = "forward" => req'[x].pc = "standing"
            BY <3>1, <3>2 DEF AfterSpend, Calls
        <3> QED
            BY <2>1, <2>4, <3>3, <3>4 DEF Checked, Uses
    <2>10. CASE Standing(x)
        <3>1. q \in Calls /\ q.args.kind = "forward" /\ q.pc = "standing" /\ q.pc \in Signed
            BY <2>10, SlotKinds DEF Standing, Signed, RequestsOK, CallOK
        <3>2. q.args.signer # q.owner
            BY <2>4, <3>1 DEF Checked
        <3>3. \/ req'[x] = [q EXCEPT !.pc = "runtime"]
              \/ req'[x] = [q EXCEPT !.pc = "touch"] /\ <<q.args.conn, q.args.signer>> \in delegations
            BY <2>1, <2>10, <3>2 DEF Standing, TypeOK, NoRequest, Signed
        <3>4. req'[x].args = q.args /\ req'[x].owner = q.owner /\ UNCHANGED <<conns, delegations, runtimes>>
            BY <2>10, <3>1, <3>3 DEF Standing, Calls
        <3>5. <<q.args.conn, q.args.signer>> \in delegations
            BY <3>1, <3>2, <3>3, <3>4 DEF Checked, Calls
        <3>6. conns[q.args.conn].live
            BY <3>5 DEF DelegationsLive
        <3> QED
            BY <3>1, <3>4, <3>5, <3>6 DEF AllowedNow
    <2>11. CASE StandingRuntime(x)
        <3>1. q \in Calls /\ q.args.kind = "forward" /\ q.owner = conns[q.args.conn].owner
            BY <2>11, SlotKinds DEF StandingRuntime, Signed, RequestsOK, CallOK, Uses
        <3>2. PICK t \in Runtime(q.owner, q.args.signer) :
                  <<q.args.conn, t.app>> \in delegations /\ req'[x] = [q EXCEPT !.pc = "touch"]
            <4>1. ~Done(x)
                BY <2>1 DEF TypeOK, NoRequest, Signed
            <4>2. /\ \E t \in Runtime(q.owner, q.args.signer) : <<q.args.conn, t.app>> \in delegations
                  /\ Put(x, [q EXCEPT !.pc = "touch"])
                BY <2>11, <4>1 DEF StandingRuntime, RegisteredBy
            <4>3. req'[x] = [q EXCEPT !.pc = "touch"]
                BY <4>2 DEF TypeOK
            <4> QED
                BY <4>2, <4>3
        <3>3. req'[x].args = q.args /\ UNCHANGED <<conns, delegations, runtimes>>
            BY <2>11, <3>1, <3>2 DEF StandingRuntime, Calls
        <3>4. conns[q.args.conn].live
            BY <3>2 DEF DelegationsLive
        <3> QED
            BY <3>1, <3>2, <3>3, <3>4 DEF AllowedNow, Owner, Runtime
    <2>12. ~Touch(x)
        BY <2>4 DEF Touch, Checked
    <2>13. ~Owned(x)
        <3>1. ASSUME Owned(x) PROVE FALSE
            <4>1. q \in Calls /\ q.args.kind \notin Uses
                BY <3>1, SlotKinds DEF Owned, Signed, RequestsOK, CallOK
            <4>2. req'[x] = [q EXCEPT !.pc = "write"]
                BY <2>1, <3>1 DEF Owned, TypeOK, NoRequest, Signed
            <4> QED
                BY <2>1, <4>1, <4>2 DEF Calls
        <3> QED
            BY <3>1
    <2>14. ~(CreateConnection(x) \/ Write(x) \/ Send(x) \/ Abort(x))
        BY <2>1 DEF CreateConnection, Write, Send, Abort, TypeOK, NoRequest, Signed
    <2>15. ~(BeginApiKey(x) \/ Exchanged(x) \/ BeginOAuth(x))
        BY <2>1, HandoffStep, OAuthStep DEF NoRequest, Signed
    <2>16. ~TakeHandoff(x)
        <3>1. NoRequest.pc = "idle" /\ \A a, c : [pc |-> "create", args |-> a, credential |-> c].pc = "create"
            BY DEF NoRequest
        <3> QED
            BY <2>1, <3>1, TakeStep DEF Signed
    <2>17. ~ConsumeConsent(x)
        <3>1. ASSUME ConsumeConsent(x) PROVE FALSE
            <4>1. req[x] \in Approvals
                BY <3>1, SlotKinds DEF ConsumeConsent, Approving
            <4>2. req'[x] = NoRequest \/ req'[x] = [req[x] EXCEPT !.pc = "begin"]
                BY <3>1 DEF ConsumeConsent, TypeOK
            <4> QED
                BY <2>1, <4>1, <4>2 DEF NoRequest, Approvals, Signed
        <3> QED
            BY <3>1
    <2>18. ASSUME NEW b \in Browsers PROVE ~Authorize(x, b) /\ ~Callback(x, b)
        <3>1. ~Authorize(x, b)
            BY <2>1 DEF Authorize, TypeOK, Signed
        <3>2. \A c : [pc |-> "exchange", browser |-> b, consent |-> c].pc = "exchange"
            OBVIOUS
        <3> QED
            BY <2>1, <2>5, <3>1, <3>2, CallbackStep DEF Signed
    <2> QED
        BY <2>6, <2>7, <2>8, <2>9, <2>10, <2>11, <2>12, <2>13, <2>14, <2>15, <2>16, <2>17, <2>18 DEF Step
<1> QED
    BY <1>1, <1>2

-----------------------------------------------------------------------------
(* The theorems. *)

\* The service starts with no request under way and connections that were made before.
LEMMA InitInv == Init => ConnectionsInv
<1> SUFFICES ASSUME Init PROVE ConnectionsInv
    OBVIOUS
<1>1. PICK start \in Starting : conns = start.conns /\ delegations = start.delegations /\ left = start.left
    BY DEF Init
<1>2. /\ conns \in Seq(Rows) /\ left \in Bounds /\ delegations \subseteq (DOMAIN conns) \X Agents
      /\ \A c \in DOMAIN conns : conns[c].credential = None
      /\ \A d \in delegations : conns[d[1]].live
    BY <1>1, StartingAssumption
<1>3. \A r \in Slots : req[r] = NoRequest /\ req[r].pc = "idle"
    BY DEF Init, NoRequest
<1>4. TypeOK
    BY <1>2 DEF Init, TypeOK, Slot, Cookies, NoCookies
<1>5. RequestsOK
    BY <1>3 DEF Init, RequestsOK, CallOK, Signed
<1>6. Drawn
    BY DEF Init, Drawn, NoCookies
<1>7. Approved /\ CompletedByApprover
    BY <1>2, <1>3 DEF Init, Approved, SlotApproved, Approving, CompletedByApprover
<1>8. Carried = {} /\ Held = {}
    BY <1>2, <1>3 DEF Init, Carried, InRequests, InStates, InHandoffs, InConnections, Carrying, Held, NoCookies
<1>9. OnePlace /\ UsesKnown
    BY <1>8 DEF OnePlace, Single, UsesKnown
<1>10. Replays
    BY DEF Init, Replays
<1>11. DelegationsLive
    BY <1>2 DEF DelegationsLive
<1>12. Stands
    BY <1>3 DEF Stands, Checked, Signed
<1> QED
    BY <1>4, <1>5, <1>6, <1>7, <1>9, <1>10, <1>11, <1>12 DEF ConnectionsInv

\* ConnectionsInv is an invariant, whatever the number of requests, browsers,
\* agents and connections.
THEOREM ConnectionsInvariant == Spec => []ConnectionsInv
<1>1. ConnectionsInv /\ [Next]_vars => ConnectionsInv'
    <2> SUFFICES ASSUME ConnectionsInv, [Next]_vars PROVE ConnectionsInv'
        OBVIOUS
    <2>1. TypeOK' /\ RequestsOK'
        BY TypeStep, RequestsStep DEF ConnectionsInv
    <2>2. Drawn' /\ Approved' /\ CompletedByApprover'
        BY <2>1, DrawnStep, ApprovedStep, CompletedStep DEF ConnectionsInv
    <2>3. OnePlace' /\ UsesKnown'
        BY <2>1, CarriedStep, UsesKnownStep DEF ConnectionsInv
    <2>4. Replays' /\ DelegationsLive' /\ Stands'
        BY <2>1, ReplaysStep, DelegationsStep, StandsStep DEF ConnectionsInv
    <2> QED
        BY <2>1, <2>2, <2>3, <2>4 DEF ConnectionsInv
<1> QED
    BY InitInv, <1>1, PTL DEF Spec

\* One approval on the consent screen makes at most one connection, unless a
\* submission was checked before the consent was over and recorded after.
THEOREM OneConnection == Spec => []OneConnectionPerConsent
<1>1. ConnectionsInv => OneConnectionPerConsent
    <2> SUFFICES ASSUME ConnectionsInv, NEW c \in DOMAIN conns, NEW d \in DOMAIN conns, c # d,
                        conns[c].credential # None, conns[d].credential # None,
                        conns[c].credential.csrf = conns[d].credential.csrf
                 PROVE  <<"consent", conns[c].credential.csrf>> \in late
        BY DEF OneConnectionPerConsent
    <2> DEFINE k == conns[c].credential.csrf
               x == <<"connection", c, k>>
               y == <<"connection", d, k>>
    <2>1. x \in Carried /\ y \in Carried
        BY DEF Carried, InConnections
    <2>2. x # y /\ x[3] = k /\ y[3] = k
        OBVIOUS
    <2> HIDE DEF x, y, k
    <2> QED
        BY <2>1, <2>2 DEF ConnectionsInv, OnePlace, Single, k
<1> QED
    BY ConnectionsInvariant, <1>1, PTL

\* A connection is completed in the browser that approved its consent, and
\* redeemed by the hub that started it.
THEOREM ApproverCompletes == Spec => []CompletedByApprover
<1>1. ConnectionsInv => CompletedByApprover
    BY DEF ConnectionsInv
<1> QED
    BY ConnectionsInvariant, <1>1, PTL

\* A signed request is accepted once, except one held between the check of
\* its time and its record, and one stamped the whole skew ahead.
THEOREM NoReplay == Spec => []AcceptedOnce
<1>1. ConnectionsInv => AcceptedOnce
    <2> SUFFICES ASSUME ConnectionsInv, NEW m \in DOMAIN msgs, Len(accepted[m]) > 1, <<"message", m>> \notin late
                 PROVE  msgs[m].timestamp >= Head(accepted[m]) + MaxSkew
        BY DEF AcceptedOnce
    <2>1. accepted[m] \in Seq(Nat)
        BY DEF ConnectionsInv, TypeOK
    <2>2. Len(accepted[m]) > 0 /\ Head(accepted[m]) = accepted[m][1]
        BY <2>1
    <2> QED
        BY <2>2 DEF ConnectionsInv, Replays
<1> QED
    BY ConnectionsInvariant, <1>1, PTL

\* What is sent to a provider was allowed at some moment since the request
\* arrived.
THEOREM SentWhileAllowed == Spec => []ForwardedWhileAllowed
<1>1. ConnectionsInv => ForwardedWhileAllowed
    BY DEF ConnectionsInv, Stands, Checked, ForwardedWhileAllowed
<1> QED
    BY ConnectionsInvariant, <1>1, PTL

=============================================================================
