------------------------- MODULE MCProxyConnections -------------------------
(* Instances of ProxyConnections for TLC. *)
EXTENDS ProxyConnections, TLC

CONSTANTS owner, app, node

Nothing ==
    [pages |-> 0, submits |-> 0, callbacks |-> 0, messages |-> 0, deliveries |-> 0, faults |-> 0,
     ticks |-> 0, months |-> 0, kinds |-> {}, signers |-> Agents, ahead |-> {0}]
From(cs, ds, bounds) == [conns |-> cs, delegations |-> ds, left |-> bounds]

\* One connection of the owner's, delegated to the app.
OneOf(a) == <<[live |-> TRUE, owner |-> a, lastUsed |-> 0, verifier |-> None, credential |-> None]>>
Existing == OneOf(owner)
Uses == {"forward", "frame"}
Changes == {"delete", "add_agent", "remove_agent", "add_runtime", "remove_runtime"}

\* Two people connecting, or one whose consent may be over.
Connecting ==
    [Nothing EXCEPT !.pages = 2, !.submits = 2, !.callbacks = 2, !.messages = 2, !.deliveries = 2,
                    !.kinds = {"redeem"}, !.signers = {owner}, !.faults = 1]
ConnectingSlowly == [Connecting EXCEPT !.pages = 1, !.ticks = 5, !.faults = 0]

\* A request that uses the connection while others change who may.
Using == [Nothing EXCEPT !.messages = 2, !.deliveries = 2, !.kinds = Uses \cup Changes]
UsingByRuntime ==
    [Nothing EXCEPT !.messages = 3, !.deliveries = 3, !.signers = {owner, node},
                    !.kinds = {"forward", "delete", "remove_agent", "add_runtime"}]

\* A message that arrives again, and a connection nobody uses.
Again ==
    [Nothing EXCEPT !.messages = 1, !.deliveries = 3, !.ticks = 5, !.months = 1, !.faults = 1,
                    !.kinds = {"forward"}, !.ahead = {0, MaxSkew}]

\* The policy no longer allows the connection's owner.
Withdrawn == [Nothing EXCEPT !.messages = 1, !.deliveries = 1, !.kinds = Uses, !.signers = {node}]

Scenarios ==
    {From(<<>>, {}, Connecting), From(<<>>, {}, ConnectingSlowly),
     From(Existing, {<<1, app>>}, Using), From(Existing, {<<1, app>>}, UsingByRuntime),
     From(Existing, {<<1, app>>}, Again), From(OneOf(node), {}, Withdrawn)}

Symmetry == Permutations(Slots) \cup Permutations(Browsers)
=============================================================================
