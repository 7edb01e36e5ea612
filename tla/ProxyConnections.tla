-------------------------- MODULE ProxyConnections --------------------------
(***************************************************************************)
(* Connections of the integration proxy (connect.rs, oauth.rs,             *)
(* connections.rs, signature.rs and the tables of security.rs): the        *)
(* consent of a person in a browser, the provider's authorization and its  *)
(* callback, the handoff a hub redeems for a connection, the signed        *)
(* requests that use the connection, and the ones that delegate or delete  *)
(* it.                                                                     *)
(*                                                                         *)
(* Requests are handled concurrently, by any number of processes; a step   *)
(* is one database statement with the code up to the next await.  Time     *)
(* passes between any two steps.  A random value is a number not used      *)
(* before; browsers, hubs and the provider are external.  A request that   *)
(* is refused without a write is not a step.  The flow a hub started       *)
(* stands for its PKCE challenge and verifier, its platform and its return *)
(* address.                                                                *)
(***************************************************************************)
EXTENDS Naturals, FiniteSets, Sequences

CONSTANTS
    Slots,        \* requests that may be in progress at a time
    Browsers,
    Flows,        \* /connect requests of hubs
    ApiKeyFlows,  \* ... whose platform takes an API key
    Agents,
    Admitted,     \* the agents the access policy allows
    MaxSkew,      \* MAX_SKEW_MS
    Retention,    \* of used_challenges
    ConsentTime, StateTime, HandoffTime, CapabilityTime,
    IdleTime,     \* CONNECTION_IDLE_DAYS
    Starting,     \* connections to start from, and bounds: what may happen, which
                  \* requests are signed by whom, how far the signer's clock is ahead
    None

VARIABLES
    now,
    jar,          \* browser -> its consent and provider cookies
    forms,        \* browser -> the csrf tokens of the consent pages it shows
    used,         \* used_challenges
    states,       \* connect_states
    handoffs,     \* connection_handoffs
    conns,        \* agent_connections, in the order of their creation
    delegations,  \* connection_delegations: <<connection, agent>>
    runtimes,     \* app_runtimes: [owner, agent, app], one per owner and agent
    codes,        \* handoff codes that came back to the hubs
    begun,        \* states in the authorization URLs browsers were sent to
    msgs,         \* the signed messages
    req,          \* the request in each slot
    fresh,        \* random values used
    accepted,     \* ghost: when each message's signature was accepted
    late,         \* ghost: nonces recorded when what they were checked for was over
    seen,         \* ghost: the slot's request was allowed at some moment of its life
    left          \* bounds: what may still happen

\* A consent, as the cookie holds it.
Consents == [flow : Flows, csrf : Nat, expires : Nat]
\* A grant of the provider's, the rows of agent_connections, the bounds.
Credentials == [flow : Flows, csrf : Nat, browser : Browsers]
Rows ==
    [live : BOOLEAN, owner : Agents, lastUsed : Nat, verifier : Flows \cup {None},
     credential : Credentials \cup {None}]
Counted == {"pages", "submits", "callbacks", "messages", "deliveries", "faults", "ticks", "months"}
Bounds ==
    [pages : Nat, submits : Nat, callbacks : Nat, messages : Nat, deliveries : Nat, faults : Nat,
     ticks : Nat, months : Nat, kinds : SUBSET STRING, signers : SUBSET Agents, ahead : SUBSET Nat]

\* The record of a use is kept ten minutes: twice the five of the clock skew,
\* and as long as a consent lasts.
ASSUME TimesAssumption ==
    /\ {MaxSkew, Retention, ConsentTime, StateTime, HandoffTime, CapabilityTime, IdleTime} \subseteq Nat
    /\ Retention >= 2 * MaxSkew
    /\ Retention >= ConsentTime

\* No cookie's and no row's value is None.
ASSUME NoneAssumption == None \notin Nat /\ None \notin Consents /\ None \notin Credentials

\* The connections to start from were made earlier, without a consent of this
\* run; a delegation is to one that lives.
ASSUME StartingAssumption ==
    \A start \in Starting :
        /\ start.conns \in Seq(Rows) /\ start.left \in Bounds
        /\ start.delegations \subseteq (DOMAIN start.conns) \X Agents
        /\ \A c \in DOMAIN start.conns : start.conns[c].credential = None
        /\ \A d \in start.delegations : start.conns[d[1]].live

browserVars == <<jar, forms, codes, begun>>
ghosts == <<accepted, late>>
tables == <<used, states, handoffs, conns, delegations, runtimes>>

NoCookies == [consent |-> None, provider |-> None]
NoRequest == [pc |-> "idle"]
Idle(r) == req[r].pc = "idle"
At(r, pc) == req[r].pc = pc
Put(r, q) == req' = [req EXCEPT ![r] = q]
Done(r) == Put(r, NoRequest)
Spend(what) == left[what] > 0 /\ left' = [left EXCEPT ![what] = @ - 1]

Unexpired(rows) == {row \in rows : row.expires > now}
Random == fresh + 1

\* consume_nonce: expired records go, then the nonce is inserted or is there.
Known(nonce) == \E u \in Unexpired(used) : u.nonce = nonce

\* Mutant: the record of a use is kept as long as one clock skew.
RecordedBriefly(nonce) == Unexpired(used) \cup {[nonce |-> nonce, expires |-> now + MaxSkew]}

Recorded(nonce) == Unexpired(used) \cup {[nonce |-> nonce, expires |-> now + Retention]}

-----------------------------------------------------------------------------
(* The consent screen *)

\* GET /connect: a new consent, in the page and in the browser's cookie.
Page(b, f) ==
    /\ Spend("pages")
    /\ fresh' = Random
    /\ jar' = [jar EXCEPT ![b].consent = [flow |-> f, csrf |-> Random, expires |-> now + ConsentTime]]
    /\ forms' = [forms EXCEPT ![b] = @ \cup {Random}]
    /\ UNCHANGED <<now, tables, codes, begun, msgs, req, ghosts>>

\* POST /connect/authorize with the form of any page still shown; the cookie
\* must hold the same consent, and not be over.
Authorize(r, b) ==
    /\ Idle(r) /\ Spend("submits")
    /\ LET consent == jar[b].consent
       IN  /\ consent # None
           /\ consent.csrf \in forms[b] /\ consent.expires > now
           /\ Put(r, [pc |-> "consume", browser |-> b, consent |-> consent])
    /\ UNCHANGED <<now, browserVars, tables, msgs, fresh, ghosts>>

\* The approval is used up, also if what follows fails.
ConsumeConsent(r) ==
    /\ At(r, "consume")
    /\ LET nonce == <<"consent", req[r].consent.csrf>>
       IN  IF Known(nonce)
           THEN Done(r) /\ used' = Unexpired(used) /\ UNCHANGED late
           ELSE /\ Put(r, [req[r] EXCEPT !.pc = "begin"])
                /\ used' = Recorded(nonce)
                /\ late' = IF req[r].consent.expires > now THEN late ELSE late \cup {nonce}
    /\ UNCHANGED <<now, browserVars, states, handoffs, conns, delegations, runtimes, msgs, fresh, accepted, left>>

\* What a grant of the provider, or a submitted key, belongs to.
Credential(q) == [flow |-> q.consent.flow, csrf |-> q.consent.csrf, browser |-> q.browser]

HandoffOf(q, code) ==
    [code |-> code, challenge |-> q.consent.flow, credential |-> Credential(q), expires |-> now + HandoffTime]

\* handoff and finish_with_connection_code; the answer may not arrive.
Handoff(r, cookies) ==
    LET q == req[r]
    IN  /\ fresh' = Random
        /\ handoffs' = Unexpired(handoffs) \cup {HandoffOf(q, Random)}
        /\ Done(r)
        /\ \/ /\ jar' = [jar EXCEPT ![q.browser] = cookies]
              /\ codes' = codes \cup {Random}
              /\ UNCHANGED left
           \/ Spend("faults") /\ UNCHANGED <<jar, codes>>

\* authorize, the rest: an API key completes the handoff, OAuth goes to the
\* provider with a new state; the cookie of the consent is removed.
BeginApiKey(r) ==
    /\ At(r, "begin") /\ req[r].consent.flow \in ApiKeyFlows
    /\ Handoff(r, NoCookies)
    /\ UNCHANGED <<now, forms, begun, used, states, conns, delegations, runtimes, msgs, ghosts>>

BeginOAuth(r) ==
    /\ At(r, "begin") /\ req[r].consent.flow \notin ApiKeyFlows
    /\ fresh' = Random
    /\ states' = Unexpired(states)
                    \cup {[state |-> Random, consent |-> req[r].consent,
                           expires |-> now + StateTime]}
    /\ Done(r)
    /\ \/ /\ jar' = [jar EXCEPT ![req[r].browser] = [consent |-> None, provider |-> Random]]
          /\ begun' = begun \cup {Random}
          /\ UNCHANGED left
       \/ Spend("faults") /\ UNCHANGED <<jar, begun>>
    /\ UNCHANGED <<now, forms, codes, used, handoffs, conns, delegations, runtimes, msgs, ghosts>>

-----------------------------------------------------------------------------
(* The provider's callback *)

\* Mutant: the cookie is not compared.
BoundToAny(b, s) == TRUE

\* oauth_context: the browser has the cookie set when the state was made.
Bound(b, s) == jar[b].provider = s.state

\* Mutant: the state is read and left in the table.
TakeStateKeeps(s) == states

take_connect_state(s) == states \ {s}

\* The browser comes back with a state, which is used up whatever follows;
\* the link may have been opened elsewhere, the person may have declined.
Callback(r, b) ==
    /\ Idle(r) /\ Spend("callbacks")
    /\ \E s \in Unexpired(states) :
          /\ s.state \in begun
          /\ states' = take_connect_state(s)
          /\ \/ Bound(b, s) /\ Put(r, [pc |-> "exchange", browser |-> b, consent |-> s.consent])
                /\ UNCHANGED jar
             \/ Bound(b, s) /\ jar' = [jar EXCEPT ![b].provider = None] /\ UNCHANGED req
             \/ ~Bound(b, s) /\ UNCHANGED <<jar, req>>
    /\ UNCHANGED <<now, forms, codes, begun, used, handoffs, conns, delegations, runtimes, msgs, fresh, ghosts>>

\* The code was exchanged; the handoff is stored.
Exchanged(r) ==
    /\ At(r, "exchange")
    /\ Handoff(r, [jar[req[r].browser] EXCEPT !.provider = None])
    /\ UNCHANGED <<now, forms, begun, used, states, conns, delegations, runtimes, msgs, ghosts>>

-----------------------------------------------------------------------------
(* Signed requests *)

live(c) == conns[c].live /\ conns[c].lastUsed + IdleTime > now
Owner(c) == conns[c].owner
Runtime(owner, a) == {t \in runtimes : t.owner = owner /\ t.agent = a}

\* What the agents ask for.
Requests ==
    [kind : {"redeem"}, signer : left.signers, flow : Flows, code : codes]
    \cup [kind : {"delete"}, signer : left.signers, conn : DOMAIN conns]
    \cup [kind : {"add_agent", "remove_agent"}, signer : left.signers, conn : DOMAIN conns, agent : Agents]
    \cup {m \in [kind : {"add_runtime"}, signer : left.signers, agent : Agents, app : Agents] :
             m.agent # m.app /\ m.agent # m.signer}
    \cup [kind : {"remove_runtime"}, signer : left.signers, agent : Agents]
    \cup [kind : {"forward"}, signer : left.signers, conn : DOMAIN conns]
    \* A frame's key is no agent's; its capability, by the owner, names the app.
    \cup [kind : {"frame"}, conn : DOMAIN conns, app : left.signers, exp : {now + CapabilityTime}]

\* A message is signed, by a clock that may be ahead of the proxy's.
Sign ==
    /\ Spend("messages")
    /\ \E m \in {m \in Requests : m.kind \in left.kinds}, ahead \in left.ahead :
          msgs' = Append(msgs, [args |-> m, timestamp |-> now + ahead])
    /\ accepted' = Append(accepted, <<>>)
    /\ UNCHANGED <<now, browserVars, tables, req, fresh, late>>

InTime(m) == msgs[m].timestamp <= now + MaxSkew /\ now <= msgs[m].timestamp + MaxSkew

\* A message arrives, also a second time.  A use of a connection first loads
\* it; a frame's capability is checked before its delegation.
Deliver(r) ==
    /\ Idle(r) /\ Spend("deliveries")
    /\ \E m \in DOMAIN msgs :
          LET args == msgs[m].args
              q == [pc |-> "spend", msg |-> m, args |-> args, owner |-> None]
          IN  IF args.kind \notin {"forward", "frame"} THEN InTime(m) /\ Put(r, q)
              ELSE /\ live(args.conn)
                   /\ IF args.kind = "forward"
                      THEN InTime(m) /\ Put(r, [q EXCEPT !.owner = Owner(args.conn)])
                      ELSE /\ now < args.exp /\ args.exp <= now + CapabilityTime
                           /\ Put(r, [q EXCEPT !.pc = "delegated", !.owner = Owner(args.conn)])
    /\ UNCHANGED <<now, browserVars, tables, msgs, fresh, ghosts>>

\* is_delegated, then the signature's time.
Delegated(r) ==
    /\ At(r, "delegated")
    /\ LET q == req[r]
       IN  IF <<q.args.conn, q.args.app>> \in delegations /\ InTime(q.msg)
           THEN Put(r, [q EXCEPT !.pc = "spend"]) ELSE Done(r)
    /\ UNCHANGED <<now, browserVars, tables, msgs, fresh, ghosts, left>>

\* Where a request goes once its signature is accepted.
AfterSpend(q) ==
    CASE q.args.kind = "redeem" -> "take"
      [] q.args.kind \in {"delete", "add_agent", "remove_agent"} -> "owned"
      [] q.args.kind \in {"add_runtime", "remove_runtime"} -> "write"
      [] q.args.kind = "forward" -> "standing"
      [] q.args.kind = "frame" -> "touch"

\* check_access is asked about the owner.
Allowed(q) ==
    (IF q.args.kind \in {"forward", "frame"} THEN q.owner ELSE q.args.signer) \in Admitted

\* signature::authenticate, the replay check.
SpendSignature(r) ==
    /\ At(r, "spend")
    /\ LET q == req[r]
           nonce == <<"message", q.msg>>
       IN  IF Known(nonce)
           THEN Done(r) /\ used' = Unexpired(used) /\ UNCHANGED ghosts
           ELSE /\ used' = Recorded(nonce)
                /\ accepted' = [accepted EXCEPT ![q.msg] = Append(@, now)]
                /\ late' = IF InTime(q.msg) THEN late ELSE late \cup {nonce}
                /\ IF Allowed(q) \/ q.args.kind = "forward"
                   THEN Put(r, [q EXCEPT !.pc = AfterSpend(q)]) ELSE Done(r)
    /\ UNCHANGED <<now, browserVars, states, handoffs, conns, delegations, runtimes, msgs, fresh, left>>

-----------------------------------------------------------------------------
(* POST /connect/redeem *)

Redeems(h, args) == h.code = args.code /\ h.challenge = args.flow

\* take_handoff: one statement compares the challenge and deletes.
TakeHandoff(r) ==
    /\ At(r, "take")
    /\ LET q == req[r]
           found == {h \in Unexpired(handoffs) : Redeems(h, q.args)}
       IN  /\ handoffs' = handoffs \ found
           /\ IF found = {} THEN Done(r)
              ELSE \E h \in found :
                      Put(r, [pc |-> "create", args |-> q.args, credential |-> h.credential])
    /\ UNCHANGED <<now, browserVars, used, states, conns, delegations, runtimes, msgs, fresh, ghosts, left>>

\* create_connection: idle connections are swept, with their delegations.
CreateConnection(r) ==
    /\ At(r, "create")
    /\ LET swept == {c \in DOMAIN conns : ~live(c)}
           kept == [c \in DOMAIN conns |-> [conns[c] EXCEPT !.live = @ /\ c \notin swept]]
       IN  /\ conns' = Append(kept, [live |-> TRUE, owner |-> req[r].args.signer, lastUsed |-> now,
                                     verifier |-> req[r].args.flow, credential |-> req[r].credential])
           /\ delegations' = {d \in delegations : d[1] \notin swept}
    /\ Done(r)
    /\ UNCHANGED <<now, browserVars, used, states, handoffs, runtimes, msgs, fresh, ghosts, left>>

-----------------------------------------------------------------------------
(* Managing: every call is signed by the owner *)

Owned(r) ==
    /\ At(r, "owned")
    /\ LET q == req[r]
       IN  IF live(q.args.conn) /\ Owner(q.args.conn) = q.args.signer
           THEN Put(r, [q EXCEPT !.pc = "write"]) ELSE Done(r)
    /\ UNCHANGED <<now, browserVars, tables, msgs, fresh, ghosts, left>>

\* delete_connection, with the cascade; put_ and delete_delegation;
\* put_ and delete_runtime.
Write(r) ==
    /\ At(r, "write")
    /\ Done(r)
    /\ LET a == req[r].args
       IN  \/ /\ a.kind = "delete"
              /\ conns' = [conns EXCEPT ![a.conn].live = FALSE]
              /\ delegations' = {d \in delegations : d[1] # a.conn}
              /\ UNCHANGED runtimes
           \/ /\ a.kind = "add_agent"
              /\ delegations' = IF conns[a.conn].live THEN delegations \cup {<<a.conn, a.agent>>} ELSE delegations
              /\ UNCHANGED <<conns, runtimes>>
           \/ /\ a.kind = "remove_agent"
              /\ delegations' = delegations \ {<<a.conn, a.agent>>}
              /\ UNCHANGED <<conns, runtimes>>
           \/ /\ a.kind = "add_runtime"
              /\ runtimes' = (runtimes \ Runtime(a.signer, a.agent))
                                \cup {[owner |-> a.signer, agent |-> a.agent, app |-> a.app]}
              /\ UNCHANGED <<conns, delegations>>
           \/ /\ a.kind = "remove_runtime"
              /\ runtimes' = runtimes \ Runtime(a.signer, a.agent)
              /\ UNCHANGED <<conns, delegations>>
    /\ UNCHANGED <<now, browserVars, used, states, handoffs, msgs, fresh, ghosts, left>>

-----------------------------------------------------------------------------
(* Using a connection: forward_inner *)

\* standing, first query: the owner, or a delegate.
Standing(r) ==
    /\ At(r, "standing")
    /\ LET q == req[r]
           stands == q.args.signer = q.owner \/ <<q.args.conn, q.args.signer>> \in delegations
       IN  IF ~stands THEN Put(r, [q EXCEPT !.pc = "runtime"])
           ELSE IF Allowed(q) THEN Put(r, [q EXCEPT !.pc = "touch"])
           ELSE Done(r)
    /\ UNCHANGED <<now, browserVars, tables, msgs, fresh, ghosts, left>>

\* Mutant: anyone's registration counts.
RuntimesOfAnyone(owner, a) == {t \in runtimes : t.agent = a}

RegisteredBy(owner, a) == Runtime(owner, a)

\* standing, second query: a runtime the owner registered for a delegated app.
StandingRuntime(r) ==
    /\ At(r, "runtime")
    /\ LET q == req[r]
       IN  IF /\ \E t \in RegisteredBy(q.owner, q.args.signer) : <<q.args.conn, t.app>> \in delegations
              /\ Allowed(q)
           THEN Put(r, [q EXCEPT !.pc = "touch"]) ELSE Done(r)
    /\ UNCHANGED <<now, browserVars, tables, msgs, fresh, ghosts, left>>

\* An authenticated use restarts the idle clock; that it may fail is ignored.
Touch(r) ==
    /\ At(r, "touch")
    /\ Put(r, [req[r] EXCEPT !.pc = "send"])
    /\ \/ conns' = [conns EXCEPT ![req[r].args.conn].lastUsed = now] /\ UNCHANGED left
       \/ Spend("faults") /\ UNCHANGED conns
    /\ UNCHANGED <<now, browserVars, used, states, handoffs, delegations, runtimes, msgs, fresh, ghosts>>

\* The request goes to the provider's API.
Send(r) ==
    /\ At(r, "send")
    /\ Done(r)
    /\ UNCHANGED <<now, browserVars, tables, msgs, fresh, ghosts, left>>

\* A request ends where it is: a call fails, a key or an answer is refused,
\* the process dies.
Abort(r) ==
    /\ ~Idle(r) /\ Spend("faults")
    /\ Done(r)
    /\ UNCHANGED <<now, browserVars, tables, msgs, fresh, ghosts>>

-----------------------------------------------------------------------------
Tick ==
    /\ Spend("ticks")
    /\ now' = now + 1
    /\ UNCHANGED <<browserVars, tables, msgs, req, fresh, ghosts>>

\* Months without a request in progress.
MonthsPass ==
    /\ \A r \in Slots : Idle(r)
    /\ Spend("months")
    /\ now' = now + IdleTime
    /\ UNCHANGED <<browserVars, tables, msgs, req, fresh, ghosts>>

Init ==
    /\ now = 0
    /\ jar = [b \in Browsers |-> NoCookies]
    /\ forms = [b \in Browsers |-> {}]
    /\ used = {} /\ states = {} /\ handoffs = {} /\ codes = {} /\ begun = {}
    /\ msgs = <<>> /\ accepted = <<>> /\ late = {} /\ fresh = 0
    /\ req = [r \in Slots |-> NoRequest] /\ seen = [r \in Slots |-> FALSE]
    /\ runtimes = {}
    /\ \E start \in Starting :
          /\ conns = start.conns /\ delegations = start.delegations
          /\ left = start.left

\* At this moment the request has what it takes to use the connection.
AllowedNow(q) ==
    /\ conns[q.args.conn].live
    /\ LET agents == IF q.args.kind = "frame" THEN {q.args.app}
                     ELSE {q.args.signer} \cup {t.app : t \in Runtime(Owner(q.args.conn), q.args.signer)}
       IN  \/ q.args.kind = "forward" /\ q.args.signer = Owner(q.args.conn)
           \/ \E a \in agents : <<q.args.conn, a>> \in delegations

Watched(q) == q.pc # "idle" /\ "args" \in DOMAIN q /\ q.args.kind \in {"forward", "frame"}

Step(r) ==
    \/ \E b \in Browsers : Authorize(r, b) \/ Callback(r, b)
    \/ ConsumeConsent(r) \/ BeginApiKey(r) \/ BeginOAuth(r) \/ Exchanged(r)
    \/ Deliver(r) \/ Delegated(r) \/ SpendSignature(r) \/ TakeHandoff(r) \/ CreateConnection(r)
    \/ Owned(r) \/ Write(r) \/ Standing(r) \/ StandingRuntime(r) \/ Touch(r) \/ Send(r) \/ Abort(r)

Next ==
    /\ \/ \E r \in Slots : Step(r)
       \/ \E b \in Browsers, f \in Flows : Page(b, f)
       \/ Sign \/ Tick \/ MonthsPass
    /\ seen' = [r \in Slots |-> Watched(req'[r]) /\ (seen[r] \/ AllowedNow(req[r])')]

vars == <<now, browserVars, tables, msgs, req, fresh, ghosts, seen, left>>
Spec == Init /\ [][Next]_vars

-----------------------------------------------------------------------------
(* Properties. *)

\* "Connection approval expired or already used": one approval on the consent
\* screen, however often it is submitted, called back and redeemed, makes at
\* most one connection, unless a submission was checked before the consent
\* was over and recorded after.
OneConnectionPerConsent ==
    \A c, d \in DOMAIN conns :
        LET one == conns[c].credential
        IN  c # d /\ one # None /\ conns[d].credential # None /\ one.csrf = conns[d].credential.csrf
                => <<"consent", one.csrf>> \in late

\* "only the browser that approved the consent screen may complete it", and
\* only the hub that holds the verifier gets the connection.
CompletedByApprover ==
    \A c \in DOMAIN conns : conns[c].credential # None =>
        /\ conns[c].credential.csrf \in forms[conns[c].credential.browser]
        /\ conns[c].verifier = conns[c].credential.flow

\* "a signed request is accepted once", also when it arrives again after the
\* record of its use is gone: except one that was held between the check of
\* its time and the record, and one stamped the whole skew ahead of the
\* proxy's clock, whose record ends at the moment its time does.
AcceptedOnce ==
    \A m \in DOMAIN msgs : Len(accepted[m]) > 1 =>
        \/ <<"message", m>> \in late
        \/ msgs[m].timestamp >= Head(accepted[m]) + MaxSkew

\* "deleting a delegation or a runtime takes effect on the next" request: what
\* is sent to a provider was, at some moment since the request arrived, the
\* owner's, a delegate's, a frame's of a delegated app or a runtime's of one.
ForwardedWhileAllowed == \A r \in Slots : At(r, "send") => seen[r]
=============================================================================
